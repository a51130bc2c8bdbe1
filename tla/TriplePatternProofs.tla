------------------------- MODULE TriplePatternProofs -------------------------
(***************************************************************************)
(* The answers to a triple pattern, proved for every mapping, ontology,    *)
(* set of facts and course of changes in the database: they follow from    *)
(* what a statement could see, none that the rewriting covers is missing,  *)
(* and a type is answered once.                                            *)
(***************************************************************************)
EXTENDS TriplePatternProperties, DataProofs

-----------------------------------------------------------------------------
(* What is given.                                                            *)

RuleType == [pred : Predicates, subject : Terms \cup {Template}, object : Terms \cup {Template}]

\* What the mapping, the facts, the pattern and the ontology are made of.
LEMMA InputsTyped ==
    ASSUME InputsAsConfigured
    PROVE  /\ mapping \in Seq(RuleType)
           /\ facts \subseteq Terms \X Predicates \X Terms
           /\ query \in [s : Terms \cup Vars, p : Predicates \cup Vars, o : Terms \cup Vars]
           /\ query.p \in Vars => query.p \notin {query.s, query.o}
           /\ superclass \in SUBSET (Classes \X Classes)
           /\ superproperty \in SUBSET (Properties \X Properties)
           /\ domain \in SUBSET (Properties \X Classes) /\ range \in SUBSET (Properties \X Classes)
           /\ inverse \in SUBSET (Properties \X Properties)
           /\ \A e \in inverse : <<e[2], e[1]>> \in inverse
<1> DEFINE tbox == [superclass |-> superclass, superproperty |-> superproperty, domain |-> domain,
                    range |-> range, inverse |-> inverse]
<1>1. tbox \in TBoxes
  BY DEF InputsAsConfigured
<1>2. /\ tbox \in [superclass : SUBSET (Classes \X Classes),
                   superproperty : SUBSET (Properties \X Properties),
                   domain : SUBSET (Properties \X Classes),
                   range : SUBSET (Properties \X Classes),
                   inverse : SUBSET (Properties \X Properties)]
      /\ \A e \in tbox.inverse : <<e[2], e[1]>> \in tbox.inverse
  BY <1>1, TBoxAssumption
<1>3. /\ superclass \in SUBSET (Classes \X Classes)
      /\ superproperty \in SUBSET (Properties \X Properties)
      /\ domain \in SUBSET (Properties \X Classes) /\ range \in SUBSET (Properties \X Classes)
      /\ inverse \in SUBSET (Properties \X Properties)
      /\ \A e \in inverse : <<e[2], e[1]>> \in inverse
  BY <1>2
<1>4. /\ mapping \in Seq(RuleType)
      /\ facts \subseteq Terms \X Predicates \X Terms
      /\ query \in [s : Terms \cup Vars, p : Predicates \cup Vars, o : Terms \cup Vars]
      /\ query.p \in Vars => query.p \notin {query.s, query.o}
  BY PatternAssumption DEF InputsAsConfigured, RuleType
<1>. QED  BY <1>3, <1>4

\* A rule is for rdf:type or a property.
LEMMA RulesTyped ==
    ASSUME InputsAsConfigured, NEW i \in DOMAIN mapping
    PROVE  mapping[i] \in RuleType /\ mapping[i].pred \in Predicates
<1>1. mapping[i] \in RuleType
  BY InputsTyped
<1>. QED  BY <1>1 DEF RuleType

\* A predicate is a variable, rdf:type or a property, and a variable is no term.
LEMMA Tokens ==
    ASSUME InputsAsConfigured
    PROVE  /\ query.p \in Vars \/ query.p = Type \/ query.p \in Properties
           /\ Type \notin Vars \cup Properties /\ Vars \cap Properties = {}
           /\ \A term \in Terms \cup Predicates : ~IsVar(term)
           /\ \A token \in {query.s, query.o} :
                 /\ token \in Terms \cup Vars /\ token # Aux
                 /\ IsVar(token) <=> token \in Vars
                 /\ ~IsVar(token) <=> token \in Terms
           /\ IsVar(Aux)
  BY InputsTyped, PatternAssumption DEF Predicates, IsVar

\* The hierarchies are asked by reachability.
LEMMA Hierarchies ==
    /\ \A c, d : Loaded!IsSubclassOf(c, d) <=> Reaches(superclass, Classes, c, d)
    /\ \A p, q : Loaded!IsSubpropertyOf(p, q) <=> Reaches(superproperty, Predicates, p, q)
  BY DEF Loaded!IsSubclassOf, Loaded!IsSubpropertyOf, Loaded!Reaches, Loaded!Closed, Reaches, Closed

\* The plans for a pattern and the rules they are for.
LEMMA PlansWhat ==
    ASSUME NEW q, NEW origin
    PROVE  \A plan : plan \in PlansFor(q, origin) <=>
              /\ Translatable(q)
              /\ \E i \in MatchingRules(q) : plan = [rule |-> i, s |-> q.s, o |-> q.o, origin |-> origin]
  BY DEF PlansFor

Pred(plan) == mapping[plan.rule].pred

\* Each plan is for the pattern itself, for one of a property or class below, for
\* what is stated of an inverse, or for a property whose domain or range is sought.
OwnPlan(plan) ==
    /\ plan.s = query.s /\ plan.o = query.o
    /\ \/ query.p \in Vars
       \/ query.p = Type /\ IsVar(query.o) /\ Pred(plan) = Type
       \/ query.p \in Properties /\ Pred(plan) \in Subproperties(query.p)

ClassPlan(plan) ==
    /\ query.p = Type /\ ~IsVar(query.o) /\ Pred(plan) = Type
    /\ plan.s = query.s /\ plan.o \in Subclasses(query.o)

InversePlan(plan) ==
    /\ query.p \in Properties /\ plan.s = query.o /\ plan.o = query.s
    /\ \E i \in Inverses(query.p) : Pred(plan) \in Subproperties(i)

DomainPlan(plan) ==
    /\ query.p = Type /\ ~IsVar(query.o) /\ IsVar(query.s) /\ plan.s = query.s /\ plan.o = Aux
    /\ Pred(plan) \in Loaded!PropertiesAssertingType(query.o, domain)

RangePlan(plan) ==
    /\ query.p = Type /\ ~IsVar(query.o) /\ IsVar(query.s) /\ plan.s = Aux /\ plan.o = query.s
    /\ Pred(plan) \in Loaded!PropertiesAssertingType(query.o, range)

\* The rewriting, case by case.
LEMMA RewriteCases ==
    ASSUME InputsAsConfigured
    PROVE  /\ query.p \in Vars => Rewrite(query) =
                UNION {PlansFor([query EXCEPT !.p = mapping[i].pred], i) : i \in DOMAIN mapping}
           /\ query.p = Type /\ ~IsVar(query.o) => Rewrite(query) =
                UNION {PlansFor([query EXCEPT !.o = c], 0) : c \in Subclasses(query.o)}
           /\ query.p = Type /\ IsVar(query.o) => Rewrite(query) = PlansFor(query, 0)
           /\ query.p \in Properties => Rewrite(query) =
                (UNION {PlansFor([query EXCEPT !.p = p], 0) : p \in Subproperties(query.p)})
                \cup (IF Translatable(query) THEN {}
                      ELSE UNION {PlansFor([s |-> query.o, p |-> p, o |-> query.s], 0) :
                                     p \in UNION {Subproperties(i) : i \in Inverses(query.p)}})
  BY Tokens DEF Rewrite

\* There are no other plans.
LEMMA PlanKinds ==
    ASSUME InputsAsConfigured, NEW plan \in Planned
    PROVE  /\ plan.rule \in DOMAIN mapping
           /\ \/ OwnPlan(plan) \/ ClassPlan(plan) \/ InversePlan(plan)
              \/ DomainPlan(plan) \/ RangePlan(plan)
<1>1. query = [s |-> query.s, p |-> query.p, o |-> query.o]
  BY InputsTyped
<1>2. ASSUME NEW s, NEW p, NEW o, NEW origin, plan \in PlansFor([s |-> s, p |-> p, o |-> o], origin)
      PROVE  plan.rule \in DOMAIN mapping /\ Pred(plan) = p /\ plan.s = s /\ plan.o = o
  BY <1>2, PlansWhat DEF MatchingRules, Pred
<1>4. CASE plan \in Rewrite(query)
  <2>1. CASE query.p \in Vars
    <3>1. PICK i \in DOMAIN mapping : plan \in PlansFor([query EXCEPT !.p = mapping[i].pred], i)
      BY <1>4, <2>1, RewriteCases
    <3>. [query EXCEPT !.p = mapping[i].pred] = [s |-> query.s, p |-> mapping[i].pred, o |-> query.o]
      BY <1>1
    <3>3. plan \in PlansFor([s |-> query.s, p |-> mapping[i].pred, o |-> query.o], i)
      BY <3>1
    <3>2. plan.rule \in DOMAIN mapping /\ plan.s = query.s /\ plan.o = query.o
      BY <1>2, <3>3
    <3>. QED  BY <2>1, <3>2 DEF OwnPlan
  <2>2. CASE query.p = Type /\ ~IsVar(query.o)
    <3>1. PICK c \in Subclasses(query.o) : plan \in PlansFor([query EXCEPT !.o = c], 0)
      BY <1>4, <2>2, RewriteCases
    <3>2. plan.rule \in DOMAIN mapping /\ Pred(plan) = Type /\ plan.s = query.s /\ plan.o = c
      <4>1. [query EXCEPT !.o = c] = [s |-> query.s, p |-> Type, o |-> c]
        BY <1>1, <2>2
      <4>2. plan \in PlansFor([s |-> query.s, p |-> Type, o |-> c], 0)
        BY <3>1, <4>1
      <4>. QED  BY <1>2, <4>2
    <3>. QED  BY <2>2, <3>2 DEF ClassPlan
  <2>3. CASE query.p = Type /\ IsVar(query.o)
    <3>1. plan \in PlansFor(query, 0)
      BY <1>4, <2>3, RewriteCases
    <3>2. plan.rule \in DOMAIN mapping /\ Pred(plan) = Type /\ plan.s = query.s /\ plan.o = query.o
      BY <1>1, <1>2, <2>3, <3>1
    <3>. QED  BY <2>3, <3>2 DEF OwnPlan
  <2>4. CASE query.p \in Properties
    <3>1. \/ plan \in UNION {PlansFor([query EXCEPT !.p = p], 0) : p \in Subproperties(query.p)}
          \/ plan \in UNION {PlansFor([s |-> query.o, p |-> p, o |-> query.s], 0) :
                                p \in UNION {Subproperties(i) : i \in Inverses(query.p)}}
      BY <1>4, <2>4, RewriteCases
    <3>2. CASE \E p \in Subproperties(query.p) : plan \in PlansFor([query EXCEPT !.p = p], 0)
      <4>1. PICK p \in Subproperties(query.p) : plan \in PlansFor([query EXCEPT !.p = p], 0)
        BY <3>2
      <4>2. plan.rule \in DOMAIN mapping /\ Pred(plan) = p /\ plan.s = query.s /\ plan.o = query.o
        <5>1. [query EXCEPT !.p = p] = [s |-> query.s, p |-> p, o |-> query.o]
          BY <1>1
        <5>2. plan \in PlansFor([s |-> query.s, p |-> p, o |-> query.o], 0)
          BY <4>1, <5>1
        <5>. QED  BY <1>2, <5>2
      <4>. QED  BY <2>4, <4>2 DEF OwnPlan
    <3>3. CASE \E i \in Inverses(query.p) : \E p \in Subproperties(i) :
                  plan \in PlansFor([s |-> query.o, p |-> p, o |-> query.s], 0)
      <4>1. PICK i \in Inverses(query.p) : \E p \in Subproperties(i) :
                plan \in PlansFor([s |-> query.o, p |-> p, o |-> query.s], 0)
        BY <3>3
      <4>. PICK p \in Subproperties(i) : plan \in PlansFor([s |-> query.o, p |-> p, o |-> query.s], 0)
        BY <4>1
      <4>2. plan.rule \in DOMAIN mapping /\ Pred(plan) = p /\ plan.s = query.o /\ plan.o = query.s
        BY <1>2, <4>1
      <4>. QED  BY <2>4, <4>2 DEF InversePlan
    <3>. QED  BY <3>1, <3>2, <3>3
  <2>. QED  BY <2>1, <2>2, <2>3, <2>4, Tokens
<1>5. CASE plan \in TypePlans(query)
  <2>1. query.p = Type /\ ~IsVar(query.o) /\ IsVar(query.s)
    BY <1>5 DEF TypePlans
  <2>2. TypePlans(query) =
          (UNION {PlansFor([s |-> query.s, p |-> p, o |-> Aux], 0) :
                    p \in Loaded!PropertiesAssertingType(query.o, domain)})
          \cup (UNION {PlansFor([s |-> Aux, p |-> p, o |-> query.s], 0) :
                    p \in Loaded!PropertiesAssertingType(query.o, range)})
    BY <2>1 DEF TypePlans
  <2>3. CASE \E p \in Loaded!PropertiesAssertingType(query.o, domain) :
                plan \in PlansFor([s |-> query.s, p |-> p, o |-> Aux], 0)
    BY <1>2, <2>1, <2>3 DEF DomainPlan
  <2>4. CASE \E p \in Loaded!PropertiesAssertingType(query.o, range) :
                plan \in PlansFor([s |-> Aux, p |-> p, o |-> query.s], 0)
    BY <1>2, <2>1, <2>4 DEF RangePlan
  <2>. QED  BY <1>5, <2>2, <2>3, <2>4
<1>. QED  BY <1>4, <1>5 DEF Planned

-----------------------------------------------------------------------------
(* What the solutions are made of.                                           *)

\* A plan projects the variables of the pattern in subject and object place, and
\* perhaps the auxiliary one.
LEMMA PlanTyped ==
    ASSUME InputsAsConfigured, NEW plan \in Planned
    PROVE  /\ plan.rule \in DOMAIN mapping /\ mapping[plan.rule] \in RuleType
           /\ {plan.s, plan.o} \subseteq Terms \cup Vars \cup {Aux}
           /\ Bound(plan) \ {Aux} = {query.s, query.o} \cap Vars
           /\ query.p \in Vars => Bound(plan) = {query.s, query.o} \cap Vars /\ query.p \notin Bound(plan)
<1>1. plan.rule \in DOMAIN mapping /\ mapping[plan.rule] \in RuleType
  BY PlanKinds, InputsTyped
<1>2. \A token : token \in Bound(plan) <=> token \in {plan.s, plan.o} /\ IsVar(token)
  BY DEF Bound
<1>3. CASE OwnPlan(plan)
  BY <1>1, <1>2, <1>3, Tokens, InputsTyped DEF OwnPlan
<1>4. CASE ClassPlan(plan)
  <2>1. plan.o \in Terms
    BY <1>4, Tokens DEF ClassPlan, Subclasses, Terms
  <2>. QED  BY <1>1, <1>2, <1>4, <2>1, Tokens DEF ClassPlan
<1>5. CASE InversePlan(plan)
  BY <1>1, <1>2, <1>5, Tokens DEF InversePlan
<1>6. CASE DomainPlan(plan)
  BY <1>1, <1>2, <1>6, Tokens DEF DomainPlan
<1>7. CASE RangePlan(plan)
  BY <1>1, <1>2, <1>7, Tokens DEF RangePlan
<1>. QED  BY <1>3, <1>4, <1>5, <1>6, <1>7, PlanKinds

\* The solution of a row binds the variables of the pattern, and what the row is
\* in their places.
LEMMA SolutionTyped ==
    ASSUME InputsAsConfigured, NEW plan \in Planned, NEW row \in Rows, NEW sol, sol = Solution(plan, row)
    PROVE  /\ Subject(plan.rule, row) \in Terms /\ Object(plan.rule, row) \in Terms
           /\ Pred(plan) \in Predicates
           /\ DOMAIN sol.at = Bound(plan) \cup ({query.p} \cap Vars)
           /\ DOMAIN sol.at \ {Aux} = QueryVars
           /\ \A v \in Bound(plan) :
                 sol.at[v] = IF v = plan.o THEN Object(plan.rule, row) ELSE Subject(plan.rule, row)
           /\ query.p \in Vars => sol.at[query.p] = Pred(plan)
           /\ sol.at \in [DOMAIN sol.at -> Terms \cup Predicates]
           /\ sol.marked = Bound(plan) /\ sol.marked \subseteq DOMAIN sol.at
<1>1. sol = [at |-> [v \in Bound(plan) \cup ({query.p} \cap Vars) |->
                        IF v \notin Bound(plan) THEN mapping[plan.rule].pred
                        ELSE IF v = plan.o THEN Object(plan.rule, row) ELSE Subject(plan.rule, row)],
             marked |-> Bound(plan), by |-> <<"row", plan, row>>]
  BY DEF Solution
<1>2. sol.at = [v \in Bound(plan) \cup ({query.p} \cap Vars) |->
                  IF v \notin Bound(plan) THEN mapping[plan.rule].pred
                  ELSE IF v = plan.o THEN Object(plan.rule, row) ELSE Subject(plan.rule, row)]
  BY <1>1
<1>3. DOMAIN sol.at = Bound(plan) \cup ({query.p} \cap Vars) /\ sol.marked = Bound(plan)
  BY <1>1, <1>2
<1>4. row[1] \in Terms /\ row[2] \in Terms
  BY PatternAssumption
<1>5. Subject(plan.rule, row) \in Terms /\ Object(plan.rule, row) \in Terms /\ Pred(plan) \in Predicates
  BY <1>4, PlanTyped DEF Subject, Object, TermOf, Pred, RuleType
<1>6. \A v \in Bound(plan) :
          sol.at[v] = IF v = plan.o THEN Object(plan.rule, row) ELSE Subject(plan.rule, row)
  BY <1>2
<1>7. query.p \in Vars => sol.at[query.p] = Pred(plan)
  BY <1>2, PlanTyped DEF Pred
<1>8. \A v \in DOMAIN sol.at : sol.at[v] \in Terms \cup Predicates
  BY <1>3, <1>5, <1>6, <1>7
<1>9. sol.at \in [DOMAIN sol.at -> Terms \cup Predicates]
  BY <1>2, <1>8
<1>10. DOMAIN sol.at \ {Aux} = QueryVars
  BY <1>3, PlanTyped, PatternAssumption DEF QueryVars
<1>. QED  BY <1>3, <1>5, <1>6, <1>7, <1>9, <1>10

\* What the facts give to a pattern.
LEMMA CandidateCases ==
    ASSUME NEW f, NEW t
    PROVE  t \in Candidates(f) <=>
              \/ t = f
              \/ \E p \in Inverses(f[2]) : t = <<f[3], p, f[1]>>
              \/ query.p = Type /\ \E c \in Loaded!InferredTypes(f[2], domain) : t = <<f[1], Type, c>>
              \/ query.p = Type /\ \E c \in Loaded!InferredTypes(f[2], range) : t = <<f[3], Type, c>>
  BY DEF Candidates

\* Candidates are triples.
LEMMA CandidateTyped ==
    ASSUME InputsAsConfigured, NEW f \in facts, NEW t \in Candidates(f)
    PROVE  t \in Terms \X Predicates \X Terms
<1>1. f \in Terms \X Predicates \X Terms
  BY InputsTyped
<1>2. Inverses(f[2]) \subseteq Predicates
  BY InputsTyped DEF Inverses, Predicates
<1>3. Loaded!InferredTypes(f[2], domain) \subseteq Terms /\ Loaded!InferredTypes(f[2], range) \subseteq Terms
  BY InputsTyped DEF Loaded!InferredTypes, Terms
<1>. QED  BY <1>1, <1>2, <1>3, CandidateCases DEF Predicates

\* The solutions of the facts, one by one.
LEMMA FactSolutionCases ==
    \A sol : sol \in FactSolutions <=>
        \E f \in facts : \E t \in Candidates(f) : FactMatches(t) /\ sol = FactSolution(f, t)
  BY DEF FactSolutions

\* The solution of a fact binds exactly the variables of the pattern.
LEMMA FactSolutionTyped ==
    ASSUME InputsAsConfigured, NEW f \in facts, NEW t \in Candidates(f), NEW sol, sol = FactSolution(f, t)
    PROVE  /\ sol.at \in [QueryVars -> Terms \cup Predicates]
           /\ \A v \in QueryVars :
                 sol.at[v] = IF v = query.s THEN t[1] ELSE IF v = query.o THEN t[3] ELSE t[2]
           /\ sol.marked = {}
<1>1. t \in Terms \X Predicates \X Terms
  BY CandidateTyped
<1>2. sol.at = [v \in QueryVars |-> IF v = query.s THEN t[1] ELSE IF v = query.o THEN t[3] ELSE t[2]]
  BY DEF FactSolution, QueryVars
<1>3. sol.marked = {}
  BY DEF FactSolution
<1>. QED  BY <1>1, <1>2, <1>3


-----------------------------------------------------------------------------
(* The inductive invariant.                                                  *)

\* What the statements of some plans make of some rows, one by one.
LEMMA RowSolutionCases ==
    \A planned, R, sol : sol \in RowSolutions(planned, R) <=>
        \E plan \in planned : \E row \in R[plan.rule] : Fits(plan, row) /\ sol = Solution(plan, row)
  BY DEF RowSolutions

\* More plans and more rows have more solutions.
LEMMA RowSolutionsGrow ==
    ASSUME NEW P, NEW Q, NEW R, NEW S, P \subseteq Q, \A plan \in P : R[plan.rule] \subseteq S[plan.rule]
    PROVE  RowSolutions(P, R) \subseteq RowSolutions(Q, S)
  BY RowSolutionCases

\* While the inputs stay, so does all that is computed from them.
LEMMA SameInputs ==
    ASSUME UNCHANGED inputs
    PROVE  /\ Planned' = Planned /\ FactSolutions' = FactSolutions /\ QueryVars' = QueryVars
           /\ \A P, R : RowSolutions(P, R)' = RowSolutions(P, R)
           /\ InputsAsConfigured => InputsAsConfigured'
<1>1. /\ mapping' = mapping /\ facts' = facts /\ query' = query /\ superclass' = superclass
      /\ superproperty' = superproperty /\ domain' = domain /\ range' = range /\ inverse' = inverse
  BY DEF inputs
<1>2. Planned' = Planned
  BY <1>1 DEF Planned, Rewrite, TypePlans, PlansFor, Translatable, MatchingRules, Subclasses,
              Subproperties, Inverses, Loaded!IsSubclassOf, Loaded!IsSubpropertyOf, Loaded!Reaches,
              Loaded!Closed, Loaded!PropertiesAssertingType, Loaded!InferredTypes
<1>3. FactSolutions' = FactSolutions
  BY <1>1 DEF FactSolutions, FactSolution, Candidates, FactMatches, Subclasses,
              Inverses, Loaded!IsSubclassOf, Loaded!IsSubpropertyOf, Loaded!Reaches,
              Loaded!Closed, Loaded!InferredTypes
<1>4. \A P, R : RowSolutions(P, R)' = RowSolutions(P, R)
  BY <1>1 DEF RowSolutions, Fits, Solution, Bound, Subject, Object, TermOf
<1>5. QueryVars' = QueryVars
  BY <1>1 DEF QueryVars
<1>6. InputsAsConfigured => InputsAsConfigured'
  BY <1>1 DEF InputsAsConfigured
<1>. QED  BY <1>2, <1>3, <1>4, <1>5, <1>6

\* The invariant holds at the start.
LEMMA InitIInv ==
    ASSUME Init
    PROVE  IInv
<1>1. InputsAsConfigured
  <2>1. PICK tbox \in TBoxes :
            /\ superclass = tbox.superclass /\ superproperty = tbox.superproperty
            /\ domain = tbox.domain /\ range = tbox.range /\ inverse = tbox.inverse
    BY DEF Init
  <2>2. tbox = [superclass |-> superclass, superproperty |-> superproperty,
                domain |-> domain, range |-> range, inverse |-> inverse]
    BY <2>1, TBoxAssumption
  <2>. QED  BY <2>1, <2>2 DEF Init, InputsAsConfigured
<1>2. TypeOK
  BY PatternAssumption DEF Init, TypeOK
<1>3. HistoryOrdered /\ TypesAnsweredOnce
  BY DEF Init, HistoryOrdered, TypesAnsweredOnce
<1>4. AnswersDerived
  BY DEF Init, AnswersDerived
<1>. QED  BY <1>1, <1>2, <1>3, <1>4 DEF IInv

\* The plans made have statements for variables and terms.
LEMMA PlanKeeps ==
    ASSUME IInv, Plan
    PROVE  IInv'
<1>. USE DEF Plan
<1>1. /\ Planned' = Planned /\ FactSolutions' = FactSolutions /\ QueryVars' = QueryVars
      /\ \A P, R : RowSolutions(P, R)' = RowSolutions(P, R)
      /\ InputsAsConfigured' /\ InputsAsConfigured
  BY SameInputs DEF IInv
<1>2. plans' = Planned /\ plans = {} /\ answers' = {} /\ answers = {}
  BY DEF IInv, AnswersDerived, Planned
<1>3. mapping' = mapping /\ rows' = rows /\ ever' = ever /\ always' = always
  BY DEF inputs, history
<1>4. TypeOK'
  BY <1>1, <1>2, <1>3, PlanTyped DEF IInv, TypeOK
<1>5. HistoryOrdered'
  BY <1>3 DEF IInv, HistoryOrdered
<1>6. RowSolutions({}, always) = {}
  BY DEF RowSolutions
<1>7. AnswersDerived'
  <2>1. plans' \subseteq Planned'
    BY <1>1, <1>2
  <2>2. status' \in {"running", "untranslatable"}
    OBVIOUS
  <2>3. status' = "untranslatable" => Planned' = {} /\ facts' = {} /\ plans' = {}
    BY <1>1, <1>2 DEF inputs
  <2>4. RowSolutions(Planned \ plans, always)' = {}
    <3>1. Planned' \ plans' = {}
      BY <1>1, <1>2
    <3>. QED  BY <1>1, <1>3, <1>6, <3>1
  <2>. QED  BY <1>2, <2>1, <2>2, <2>3, <2>4 DEF AnswersDerived
<1>8. TypesAnsweredOnce'
  BY DEF TypesAnsweredOnce
<1>. QED  BY <1>1, <1>4, <1>5, <1>7, <1>8 DEF IInv

\* What a statement adds is what it selected, and it had every row always there.
LEMMA RunPlanKeeps ==
    ASSUME IInv, RunPlan
    PROVE  IInv'
<1>. USE DEF RunPlan
<1>1. /\ Planned' = Planned /\ FactSolutions' = FactSolutions /\ QueryVars' = QueryVars
      /\ \A P, R : RowSolutions(P, R)' = RowSolutions(P, R)
      /\ InputsAsConfigured' /\ InputsAsConfigured
  BY SameInputs DEF IInv
<1>2. mapping' = mapping /\ rows' = rows /\ ever' = ever /\ always' = always /\ status' = "running"
  BY DEF inputs, history
<1>3. PICK plan \in plans : /\ plans' = plans \ {plan}
                            /\ answers' = answers \cup {Solution(plan, row) : row \in Selected(plan)}
  OBVIOUS
<1> DEFINE new == {Solution(plan, row) : row \in Selected(plan)}
<1>4. plan \in Planned /\ plan.rule \in DOMAIN mapping
  BY PlanTyped, <1>1 DEF IInv, AnswersDerived
<1>5. new = RowSolutions({plan}, rows)
  BY DEF RowSolutions, Selected
<1>6. /\ RowSolutions({plan}, rows) \subseteq RowSolutions(Planned, ever)
      /\ RowSolutions({plan}, always) \subseteq RowSolutions({plan}, rows)
  BY <1>4, RowSolutionsGrow DEF IInv, HistoryOrdered
<1>7. RowSolutions(Planned \ plans', always) \subseteq answers'
  <2>1. RowSolutions(Planned \ plans', always)
            \subseteq RowSolutions(Planned \ plans, always) \cup RowSolutions({plan}, always)
    BY <1>3, RowSolutionCases
  <2>. QED  BY <1>3, <1>5, <1>6, <2>1 DEF IInv, AnswersDerived
<1>8. AnswersDerived'
  <2>1. answers' \subseteq RowSolutions(Planned, ever)
    BY <1>3, <1>5, <1>6 DEF IInv, AnswersDerived
  <2>2. plans' \subseteq Planned
    BY <1>3 DEF IInv, AnswersDerived
  <2>3. answers' \subseteq RowSolutions(Planned, ever)'
    BY <1>1, <1>2, <2>1
  <2>4. RowSolutions(Planned \ plans, always)' \subseteq answers'
    BY <1>1, <1>2, <1>7
  <2>. QED  BY <1>1, <1>2, <2>2, <2>3, <2>4 DEF AnswersDerived
<1>9. TypeOK'
  <2>1. ASSUME NEW a \in new
        PROVE  /\ a.at \in [DOMAIN a.at -> Terms \cup Predicates]
               /\ a.marked \subseteq DOMAIN a.at
               /\ DOMAIN a.at \ {Aux} = QueryVars
    <3>1. PICK row \in rows[plan.rule] : a = Solution(plan, row)
      BY DEF Selected
    <3>2. row \in Rows
      BY <1>4 DEF IInv, TypeOK
    <3>. QED  BY <1>1, <1>4, <3>1, <3>2, SolutionTyped
  <2>. QED  BY <1>1, <1>2, <1>3, <2>1 DEF IInv, TypeOK
<1>10. HistoryOrdered' /\ TypesAnsweredOnce'
  BY <1>2 DEF IInv, HistoryOrdered, TypesAnsweredOnce
<1>. QED  BY <1>1, <1>8, <1>9, <1>10 DEF IInv

\* A source that fails takes all the answers with it.
LEMMA SourceFailsKeeps ==
    ASSUME IInv, SourceFails
    PROVE  IInv'
<1>. USE DEF SourceFails
<1>1. Planned' = Planned /\ QueryVars' = QueryVars /\ InputsAsConfigured'
  BY SameInputs DEF IInv
<1>2. mapping' = mapping /\ rows' = rows /\ ever' = ever /\ always' = always
  BY DEF inputs, history
<1>3. AnswersDerived' /\ TypesAnsweredOnce' /\ HistoryOrdered'
  BY <1>1, <1>2 DEF IInv, AnswersDerived, TypesAnsweredOnce, HistoryOrdered
<1>4. TypeOK'
  BY <1>1, <1>2 DEF IInv, TypeOK
<1>. QED  BY <1>1, <1>3, <1>4 DEF IInv

\* More rows can be seen, fewer are always there.
LEMMA UpdateKeeps ==
    ASSUME IInv, Update
    PROVE  IInv'
<1>. USE DEF Update
<1>1. /\ Planned' = Planned /\ QueryVars' = QueryVars /\ InputsAsConfigured' /\ InputsAsConfigured
      /\ \A P, R : RowSolutions(P, R)' = RowSolutions(P, R)
  BY SameInputs DEF IInv
<1>2. mapping' = mapping /\ status' = "running" /\ plans' = plans /\ answers' = answers
  BY DEF inputs
<1>3. PICK i \in DOMAIN mapping, row \in Rows :
          rows' = [rows EXCEPT ![i] = IF row \in @ THEN @ \ {row} ELSE @ \cup {row}]
  OBVIOUS
<1>4. {rows, ever, always} \subseteq [DOMAIN mapping -> SUBSET Rows]
  BY DEF IInv, TypeOK
<1>5. rows' \in [DOMAIN mapping -> SUBSET Rows]
  BY <1>3, <1>4
<1>6. /\ ever' \in [DOMAIN mapping -> SUBSET Rows] /\ always' \in [DOMAIN mapping -> SUBSET Rows]
      /\ \A k \in DOMAIN mapping : ever'[k] = ever[k] \cup rows'[k] /\ always'[k] = always[k] \cap rows'[k]
  BY <1>4, <1>5
<1>7. TypeOK'
  <2>1. updates' \in 0..MaxUpdates
    BY PatternAssumption DEF IInv, TypeOK
  <2>. QED  BY <1>1, <1>2, <1>5, <1>6, <2>1 DEF IInv, TypeOK
<1>8. HistoryOrdered'
  BY <1>2, <1>6 DEF HistoryOrdered
<1>9. AnswersDerived'
  <2>1. \A plan \in Planned : plan.rule \in DOMAIN mapping
    BY <1>1, PlanTyped
  <2>2. /\ RowSolutions(Planned, ever) \subseteq RowSolutions(Planned, ever')
        /\ RowSolutions(Planned \ plans, always') \subseteq RowSolutions(Planned \ plans, always)
    BY <1>6, <2>1, RowSolutionsGrow
  <2>3. /\ answers' \subseteq RowSolutions(Planned, ever)'
        /\ RowSolutions(Planned \ plans, always)' \subseteq answers'
    BY <1>1, <1>2, <2>2 DEF IInv, AnswersDerived
  <2>. QED  BY <1>1, <1>2, <2>3 DEF IInv, AnswersDerived
<1>10. TypesAnsweredOnce'
  BY <1>2 DEF TypesAnsweredOnce
<1>. QED  BY <1>1, <1>7, <1>8, <1>9, <1>10 DEF IInv

\* What is kept of the same solutions is one of them.
LEMMA KeptIsOne == ASSUME NEW S, NEW a \in S PROVE Kept(S) \in S
  BY DEF Kept

\* A row is marked in all that it binds but a variable predicate.
LEMMA MarksOfRows ==
    ASSUME InputsAsConfigured, query.p = Type, \A i \in DOMAIN mapping : ever[i] \subseteq Rows,
           NEW b \in RowSolutions(Planned, ever)
    PROVE  b.marked = DOMAIN b.at
<1>1. PICK plan \in Planned : \E row \in ever[plan.rule] : b = Solution(plan, row)
  BY RowSolutionCases
<1>2. PICK row \in ever[plan.rule] : b = Solution(plan, row)
  BY <1>1
<1>3. row \in Rows
  BY <1>2, PlanTyped
<1>4. b.marked = Bound(plan) /\ DOMAIN b.at = Bound(plan) \cup ({query.p} \cap Vars)
  BY <1>2, <1>3, SolutionTyped
<1>. QED  BY <1>4, Tokens

\* At the end every solution is answered without the auxiliary variable, or one
\* that is the same.
LEMMA FinishKeeps ==
    ASSUME IInv, Finish
    PROVE  IInv'
<1>1. /\ Planned' = Planned /\ FactSolutions' = FactSolutions /\ QueryVars' = QueryVars
      /\ \A P, R : RowSolutions(P, R)' = RowSolutions(P, R)
      /\ InputsAsConfigured' /\ InputsAsConfigured
  BY SameInputs DEF IInv, Finish
<1>2. /\ mapping' = mapping /\ query' = query /\ facts' = facts /\ rows' = rows /\ ever' = ever
      /\ always' = always /\ status = "running" /\ status' = "done" /\ plans = {} /\ plans' = {}
      /\ updates' = updates
  BY DEF inputs, history, Finish
<1> DEFINE all == {WithoutAux(a) : a \in answers \cup FactSolutions}
           Alike(a) == {b \in all : SameSolution(a, b)}
           asSet == query.p = Type \/ {query.s, query.p, query.o} \subseteq Vars
<1>3. answers' = IF asSet THEN {Kept(Alike(a)) : a \in all} ELSE all
  BY DEF Finish
<1>4. \A a \in all : SameSolution(a, a) /\ Kept(Alike(a)) \in Alike(a)
  <2>1. \A a \in all : a \in Alike(a)
    BY DEF SameSolution
  <2>. QED  BY <2>1, KeptIsOne DEF SameSolution
<1>5. /\ answers' \subseteq all
      /\ \A a \in all : \E b \in answers' : SameSolution(b, a)
  <2>1. CASE asSet
    <3>1. answers' \subseteq all
      BY <1>3, <1>4, <2>1
    <3>2. ASSUME NEW a \in all PROVE \E b \in answers' : SameSolution(b, a)
      <4>1. Kept(Alike(a)) \in answers' /\ SameSolution(a, Kept(Alike(a)))
        BY <1>3, <1>4, <2>1
      <4>. QED  BY <4>1 DEF SameSolution
    <3>. QED  BY <3>1, <3>2
  <2>2. CASE ~asSet
    BY <1>3, <1>4, <2>2
  <2>. QED  BY <2>1, <2>2
<1>6. /\ answers \subseteq RowSolutions(Planned, ever)
      /\ RowSolutions(Planned, always) \subseteq answers
  <2>1. Planned \ plans = Planned
    BY <1>2
  <2>. QED  BY <1>2, <2>1 DEF IInv, AnswersDerived
<1>7. TypeOK'
  <2>1. ASSUME NEW a \in answers \cup FactSolutions
        PROVE  /\ a.at \in [DOMAIN a.at -> Terms \cup Predicates]
               /\ a.marked \subseteq DOMAIN a.at
               /\ DOMAIN a.at \ {Aux} = QueryVars
    <3>1. CASE a \in answers
      BY <3>1 DEF IInv, TypeOK
    <3>2. CASE a \in FactSolutions
      <4>1. PICK f \in facts : \E t \in Candidates(f) : a = FactSolution(f, t)
        BY <3>2, FactSolutionCases
      <4>2. PICK t \in Candidates(f) : a = FactSolution(f, t)
        BY <4>1
      <4>3. a.at \in [QueryVars -> Terms \cup Predicates] /\ a.marked = {}
        BY <1>1, <4>2, FactSolutionTyped
      <4>4. Aux \notin QueryVars
        BY PatternAssumption DEF QueryVars
      <4>. QED  BY <4>3, <4>4
    <3>. QED  BY <3>1, <3>2
  <2>2. ASSUME NEW a \in all
        PROVE  /\ a.at \in [DOMAIN a.at -> Terms \cup Predicates]
               /\ a.marked \subseteq DOMAIN a.at
               /\ DOMAIN a.at \ {Aux} = QueryVars
               /\ Aux \notin DOMAIN a.at
    <3>1. PICK b \in answers \cup FactSolutions : a = WithoutAux(b)
      OBVIOUS
    <3>2. /\ a.at = [v \in DOMAIN b.at \ {Aux} |-> b.at[v]]
          /\ a.marked = b.marked \ {Aux}
      BY <3>1 DEF WithoutAux
    <3>. QED  BY <2>1, <3>2
  <2>3. \A a \in answers' :
          /\ a.at \in [DOMAIN a.at -> Terms \cup Predicates]
          /\ a.marked \subseteq DOMAIN a.at
          /\ DOMAIN a.at \ {Aux} = QueryVars
          /\ Aux \notin DOMAIN a.at
    BY <1>5, <2>2
  <2>. QED  BY <1>1, <1>2, <2>3 DEF IInv, TypeOK
<1>8. HistoryOrdered'
  BY <1>2 DEF IInv, HistoryOrdered
<1>9. AnswersDerived'
  <2>1. \A a \in answers' : \E b \in RowSolutions(Planned, ever) \cup FactSolutions : a = WithoutAux(b)
    BY <1>5, <1>6
  <2>2. \A b \in RowSolutions(Planned, always) \cup FactSolutions :
            \E a \in answers' : SameSolution(a, WithoutAux(b))
    BY <1>5, <1>6
  <2>3. /\ RowSolutions(Planned, ever)' = RowSolutions(Planned, ever)
        /\ RowSolutions(Planned, always)' = RowSolutions(Planned, always)
    BY <1>1, <1>2
  <2>4. \A a, b : SameSolution(a, b)' = SameSolution(a, b) /\ WithoutAux(b)' = WithoutAux(b)
    BY DEF SameSolution, WithoutAux
  <2>5. \A a \in answers' : \E b \in RowSolutions(Planned, ever)' \cup FactSolutions' : a = WithoutAux(b)
    BY <1>1, <2>1, <2>3
  <2>6. \A b \in RowSolutions(Planned, always)' \cup FactSolutions' :
            \E a \in answers' : SameSolution(a, WithoutAux(b))
    BY <1>1, <2>2, <2>3
  <2>. QED  BY <1>2, <2>5, <2>6 DEF AnswersDerived
<1>10. TypesAnsweredOnce'
  <2>. SUFFICES ASSUME query.p = Type, facts = {}, NEW a \in answers', NEW b \in answers', a.at = b.at
                PROVE  a = b
    BY <1>2 DEF TypesAnsweredOnce
  <2>1. FactSolutions = {}
    BY FactSolutionCases
  <2>2. ASSUME NEW c \in all PROVE c.marked = DOMAIN c.at
    <3>1. PICK d \in answers : c = WithoutAux(d)
      BY <2>1
    <3>2. c.at = [v \in DOMAIN d.at \ {Aux} |-> d.at[v]] /\ c.marked = d.marked \ {Aux}
      BY <3>1 DEF WithoutAux
    <3>3. \A i \in DOMAIN mapping : ever[i] \subseteq Rows
      BY DEF IInv, TypeOK
    <3>4. d.marked = DOMAIN d.at
      BY <1>1, <1>6, <3>3, MarksOfRows
    <3>. QED  BY <3>2, <3>4
  <2>3. PICK c \in all : a = Kept(Alike(c))
    BY <1>3
  <2>4. PICK d \in all : b = Kept(Alike(d))
    BY <1>3
  <2>5. a \in all /\ SameSolution(c, a) /\ b \in all /\ SameSolution(d, b)
    BY <1>4, <2>3, <2>4
  <2>6. SameSolution(a, b)
    BY <2>2, <2>5 DEF SameSolution
  <2>7. \A e : SameSolution(c, e) <=> SameSolution(d, e)
    BY <2>5, <2>6 DEF SameSolution
  <2>8. Alike(c) = Alike(d)
    BY <2>7
  <2>. QED  BY <2>3, <2>4, <2>8
<1>. QED  BY <1>1, <1>7, <1>8, <1>9, <1>10 DEF IInv

\* The invariant is inductive: every answer comes from a row a statement could see or
\* from a fact, and all that statements and facts owe is answered.
THEOREM InvariantHolds == Spec => []IInv
<1>1. ASSUME IInv, UNCHANGED vars
      PROVE  IInv'
  <2>1. /\ Planned' = Planned /\ FactSolutions' = FactSolutions /\ QueryVars' = QueryVars
        /\ \A P, R : RowSolutions(P, R)' = RowSolutions(P, R)
        /\ InputsAsConfigured'
    BY <1>1, SameInputs DEF IInv, vars
  <2>2. /\ mapping' = mapping /\ query' = query /\ facts' = facts /\ rows' = rows /\ ever' = ever
        /\ always' = always /\ status' = status /\ plans' = plans /\ updates' = updates
        /\ answers' = answers
    BY <1>1 DEF vars, inputs, history
  <2>3. TypeOK'
    BY <1>1, <2>1, <2>2 DEF IInv, TypeOK
  <2>4. HistoryOrdered' /\ TypesAnsweredOnce'
    BY <1>1, <2>2 DEF IInv, HistoryOrdered, TypesAnsweredOnce
  <2>5. AnswersDerived'
    <3>1. /\ RowSolutions(Planned, ever)' = RowSolutions(Planned, ever)
          /\ RowSolutions(Planned, always)' = RowSolutions(Planned, always)
          /\ RowSolutions(Planned \ plans, always)' = RowSolutions(Planned \ plans, always)
      BY <2>1, <2>2
    <3>. QED  BY <1>1, <2>1, <2>2, <3>1 DEF IInv, AnswersDerived, SameSolution, WithoutAux
  <2>. QED  BY <2>1, <2>3, <2>4, <2>5 DEF IInv
<1>2. ASSUME IInv, [Next]_vars PROVE IInv'
  <2>1. CASE Answered
    BY <1>1, <1>2, <2>1 DEF Answered
  <2>. QED  BY <1>1, <1>2, <2>1, PlanKeeps, RunPlanKeeps, SourceFailsKeeps, UpdateKeeps, FinishKeeps DEF Next
<1>. QED  BY InitIInv, <1>2, PTL DEF Spec

\* A type is answered once, however many ways there are to derive it.
THEOREM TypesOnce == Spec => []TypesAnsweredOnce
<1>1. IInv => TypesAnsweredOnce
  BY DEF IInv
<1>. QED  BY <1>1, InvariantHolds, PTL

-----------------------------------------------------------------------------
(* What follows from a triple.                                               *)

Both == {"along", "against"}

\* A property below another is followed by it, in both directions.
LEMMA StepsUp ==
    ASSUME InputsAsConfigured, NEW q \in Properties, NEW p \in Predicates, Loaded!IsSubpropertyOf(p, q)
    PROVE  p \in Properties /\ \A d \in Both : Reaches(Steps, Directed, <<p, d>>, <<q, d>>)
<1>1. Reaches(superproperty, Predicates, p, q)
  BY Hierarchies
<1>2. Properties \subseteq Predicates /\ superproperty \in SUBSET (Properties \X Properties)
  BY InputsTyped DEF Predicates
<1>3. p \in Properties
  <2>1. superproperty \in SUBSET (Predicates \X Predicates)
    BY <1>2
  <2>2. CASE p = q
    BY <2>2
  <2>3. CASE p # q
    <3>1. \E e \in superproperty : e[1] = p
      BY <1>1, <1>2, <2>1, <2>3, ReachedByEdges
    <3>. QED  BY <1>2, <3>1
  <2>. QED  BY <2>2, <2>3
<1>4. Reaches(superproperty, Properties, p, q)
  BY <1>1, <1>2 DEF Reaches
<1>5. ASSUME NEW d \in Both PROVE Reaches(Steps, Directed, <<p, d>>, <<q, d>>)
  <2> DEFINE g == [n \in Properties |-> <<n, d>>]
  <2>1. g \in [Properties -> Directed]
    BY DEF Directed, Both
  <2>2. \A e \in superproperty : \E s \in Steps : s[1] = g[e[1]] /\ s[2] = g[e[2]]
    <3>. SUFFICES ASSUME NEW e \in superproperty PROVE \E s \in Steps : s[1] = g[e[1]] /\ s[2] = g[e[2]]
      OBVIOUS
    <3>1. <<<<e[1], d>>, <<e[2], d>>>> \in Steps
      BY DEF Steps, Both
    <3>2. e[1] \in Properties /\ e[2] \in Properties
      BY <1>2
    <3>. QED  BY <3>1, <3>2
  <2>3. Reaches(Steps, Directed, g[p], g[q])
    <3>. HIDE DEF g
    <3>. QED  BY <1>2, <1>3, <1>4, <2>1, <2>2, ReachesMapped
  <2>. QED  BY <1>3, <2>3
<1>. QED  BY <1>3, <1>5

\* What is below rdf:type is rdf:type.
LEMMA NothingBelowType ==
    ASSUME InputsAsConfigured, NEW p \in Predicates, Loaded!IsSubpropertyOf(p, Type)
    PROVE  p = Type
<1>1. Reaches(superproperty, Predicates, p, Type) /\ Type \in Predicates
  BY Hierarchies DEF Predicates
<1>2. superproperty \in SUBSET (Predicates \X Predicates)
  BY InputsTyped DEF Predicates
<1>3. ASSUME p # Type PROVE FALSE
  <2>1. \E e \in superproperty : e[2] = Type
    BY <1>1, <1>2, <1>3, ReachedByEdges
  <2>. QED  BY <2>1, InputsTyped, PatternAssumption
<1>. QED  BY <1>3

\* An inverse is the same read the other way round.
LEMMA StepsAcross ==
    ASSUME InputsAsConfigured, NEW p, NEW i \in Inverses(p)
    PROVE  /\ p \in Properties /\ i \in Properties
           /\ Reaches(Steps, Directed, <<i, "along">>, <<p, "against">>)
           /\ Reaches(Steps, Directed, <<p, "along">>, <<i, "against">>)
<1>1. <<p, i>> \in inverse
  <2>1. PICK e \in inverse : e[1] = p /\ e[2] = i
    BY DEF Inverses
  <2>2. e = <<e[1], e[2]>>
    BY InputsTyped
  <2>. QED  BY <2>1, <2>2
<1>2. <<i, p>> \in inverse
  BY <1>1, InputsTyped
<1>3. ASSUME NEW u, NEW w, <<u, w>> \in inverse
      PROVE  Reaches(Steps, Directed, <<u, "along">>, <<w, "against">>)
  <2>1. <<<<<<u, w>>[1], "along">>, <<<<u, w>>[2], Opposite("along")>>>> \in Steps
    BY <1>3 DEF Steps
  <2>2. <<<<u, "along">>, <<w, "against">>>> \in Steps
    BY <2>1 DEF Opposite
  <2>. QED  BY <2>2 DEF Reaches, Closed
<1>. QED  BY <1>1, <1>2, <1>3, InputsTyped

\* What holds of a property holds of those above it.
LEMMA PropertyRaised ==
    ASSUME InputsAsConfigured, NEW T, NEW s, NEW o, NEW p \in Properties, NEW q \in Properties,
           Loaded!IsSubpropertyOf(p, q), EntailsProperty(T, s, p, o)
    PROVE  EntailsProperty(T, s, q, o)
<1>1. \A d \in Both : Reaches(Steps, Directed, <<p, d>>, <<q, d>>)
  BY StepsUp DEF Predicates
<1>2. \A n : /\ Reaches(Steps, Directed, n, <<p, "along">>) => Reaches(Steps, Directed, n, <<q, "along">>)
             /\ Reaches(Steps, Directed, n, <<p, "against">>) => Reaches(Steps, Directed, n, <<q, "against">>)
  BY <1>1, ReachesThrough DEF Both
<1>. QED  BY <1>2 DEF EntailsProperty

\* A triple entails itself.
LEMMA TripleEntailed ==
    ASSUME InputsAsConfigured, NEW T, NEW t \in T, t \in Terms \X Predicates \X Terms
    PROVE  /\ t[2] \in Properties => EntailsProperty(T, t[1], t[2], t[3])
           /\ t[2] = Type => EntailsType(T, t[1], t[3])
<1>1. t[2] \in Properties => EntailsProperty(T, t[1], t[2], t[3])
  BY ReachesItself DEF EntailsProperty
<1>2. ASSUME t[2] = Type PROVE EntailsType(T, t[1], t[3])
  <2>1. t[3] \in Subclasses(t[3]) /\ <<t[1], Type, t[3]>> = t
    BY <1>2 DEF Subclasses
  <2>. QED  BY <2>1 DEF EntailsType
<1>. QED  BY <1>1, <1>2

\* A triple read through an inverse is entailed.
LEMMA InverseEntailed ==
    ASSUME InputsAsConfigured, NEW T, NEW t \in T, NEW p, NEW i, p \in Inverses(i), t[2] \in Predicates,
           Loaded!IsSubpropertyOf(t[2], i)
    PROVE  p \in Properties /\ EntailsProperty(T, t[3], p, t[1])
<1>1. i \in Properties /\ p \in Properties /\ Reaches(Steps, Directed, <<i, "along">>, <<p, "against">>)
  BY StepsAcross
<1>2. t[2] \in Properties /\ Reaches(Steps, Directed, <<t[2], "along">>, <<i, "along">>)
  BY <1>1, StepsUp DEF Both
<1>3. Reaches(Steps, Directed, <<t[2], "along">>, <<p, "against">>)
  BY <1>1, <1>2, ReachesThrough
<1>. QED  BY <1>1, <1>2, <1>3 DEF EntailsProperty

\* The types of a property.
LEMMA InferredTypesWhat ==
    ASSUME NEW p, NEW R, NEW c \in Loaded!InferredTypes(p, R)
    PROVE  \E e \in R : e[2] = c /\ Loaded!IsSubpropertyOf(p, e[1])
  BY DEF Loaded!InferredTypes

\* A triple gives its subject the classes of the domain, its object those of the range.
LEMMA TypeEntailed ==
    ASSUME InputsAsConfigured, NEW T, NEW t \in T, t \in Terms \X Predicates \X Terms, NEW c, NEW d \in Subclasses(c)
    PROVE  /\ d \in Loaded!InferredTypes(t[2], domain) => EntailsType(T, t[1], c)
           /\ d \in Loaded!InferredTypes(t[2], range) => EntailsType(T, t[3], c)
<1>1. ASSUME NEW R, R = domain \/ R = range, d \in Loaded!InferredTypes(t[2], R)
      PROVE  \E e \in R : e[2] = d /\ EntailsProperty(T, t[1], e[1], t[3])
  <2>1. PICK e \in R : e[2] = d /\ Loaded!IsSubpropertyOf(t[2], e[1])
    BY <1>1, InferredTypesWhat
  <2>2. e[1] \in Properties
    BY <1>1, InputsTyped
  <2>3. t[2] \in Properties
    BY <2>1, <2>2, StepsUp
  <2>4. EntailsProperty(T, t[1], t[2], t[3])
    BY <2>3, TripleEntailed
  <2>. QED  BY <2>1, <2>2, <2>3, <2>4, PropertyRaised
<1>2. t[1] \in Terms /\ t[3] \in Terms
  OBVIOUS
<1>. QED  BY <1>1, <1>2 DEF EntailsType

\* A member of a class is one of the classes above it.
LEMMA TypeRaised ==
    ASSUME NEW T, NEW x, NEW d, NEW c, d \in Subclasses(c), EntailsType(T, x, d)
    PROVE  EntailsType(T, x, c)
<1>1. Subclasses(d) \subseteq Subclasses(c)
  <2>. SUFFICES ASSUME NEW e \in Subclasses(d) PROVE e \in Subclasses(c)
    OBVIOUS
  <2>1. e = d \/ (e \in Classes /\ Reaches(superclass, Classes, e, d))
    BY Hierarchies DEF Subclasses
  <2>2. d = c \/ (d \in Classes /\ Reaches(superclass, Classes, d, c))
    BY Hierarchies DEF Subclasses
  <2>3. e = c \/ (e \in Classes /\ Reaches(superclass, Classes, e, c))
    BY <2>1, <2>2, ReachesThrough
  <2>. QED  BY <2>3, Hierarchies DEF Subclasses
<1>. QED  BY <1>1 DEF EntailsType

-----------------------------------------------------------------------------
(* Every answer follows.                                                     *)

\* What a token of a pattern stands for in a solution.
Stands(at, token) == IF IsVar(token) THEN at[token] ELSE token

\* Where a statement selects a row, the tokens of its plan stand for what the row is,
\* save an object neither compared nor bound and a subject whose variable the object took.
LEMMA PlanStands ==
    ASSUME InputsAsConfigured, NEW plan \in Planned, NEW row \in Rows, Fits(plan, row),
           NEW sol, sol = Solution(plan, row)
    PROVE  LET s == Stands(sol.at, plan.s)
               o == Stands(sol.at, plan.o)
               subject == Subject(plan.rule, row)
               object == Object(plan.rule, row)
           IN  \/ s = subject /\ o = object
               \/ ~IsVar(plan.s) /\ ~IsVar(plan.o) /\ s = subject
               \/ IsVar(plan.o) /\ plan.s = plan.o /\ o = object
<1>1. \A v \in Bound(plan) :
          sol.at[v] = IF v = plan.o THEN Object(plan.rule, row) ELSE Subject(plan.rule, row)
  BY SolutionTyped
<1>2. /\ IsVar(plan.s) => plan.s \in Bound(plan)
      /\ IsVar(plan.o) => plan.o \in Bound(plan)
  BY DEF Bound
<1>. QED  BY <1>1, <1>2 DEF Stands, Fits

\* The triple of a row is entailed for the tokens of the plan.
LEMMA RowEntailed ==
    ASSUME InputsAsConfigured, NEW plan \in Planned, NEW row \in Rows, NEW T,
           NEW subject, subject = Subject(plan.rule, row), NEW object, object = Object(plan.rule, row),
           <<subject, Pred(plan), object>> \in T
    PROVE  /\ OwnPlan(plan) /\ query.p \in Vars => Entails(T, <<subject, Pred(plan), object>>)
           /\ OwnPlan(plan) /\ query.p \notin Vars => Entails(T, <<subject, query.p, object>>)
           /\ ClassPlan(plan) => Entails(T, <<subject, Type, object>>)
           /\ ClassPlan(plan) /\ object = plan.o => Entails(T, <<subject, Type, query.o>>)
           /\ InversePlan(plan) => Entails(T, <<object, query.p, subject>>)
           /\ DomainPlan(plan) => Entails(T, <<subject, Type, query.o>>)
           /\ RangePlan(plan) => Entails(T, <<object, Type, query.o>>)
<1> DEFINE t == <<subject, Pred(plan), object>>
<1>1. t \in T /\ t[1] = subject /\ t[2] = Pred(plan) /\ t[3] = object /\ t \in Terms \X Predicates \X Terms
  BY SolutionTyped
<1>. HIDE DEF t
<1>2. Pred(plan) = Type \/ (Pred(plan) \in Properties /\ Pred(plan) # Type)
  BY <1>1, PatternAssumption DEF Predicates
<1>3. /\ Pred(plan) \in Properties => EntailsProperty(T, subject, Pred(plan), object)
      /\ Pred(plan) = Type => EntailsType(T, subject, object)
  BY <1>1, TripleEntailed
<1>4. Entails(T, <<subject, Pred(plan), object>>)
  BY <1>2, <1>3 DEF Entails
<1>5. ASSUME OwnPlan(plan), query.p \notin Vars PROVE Entails(T, <<subject, query.p, object>>)
  <2>1. CASE query.p = Type
    <3>1. Pred(plan) = Type
      BY <1>5, <2>1, PatternAssumption DEF OwnPlan
    <3>. QED  BY <2>1, <3>1, <1>4
  <2>2. CASE query.p \in Properties
    <3>1. Pred(plan) \in Properties /\ Loaded!IsSubpropertyOf(Pred(plan), query.p)
      BY <1>5, <2>2, Tokens DEF OwnPlan, Subproperties
    <3>2. EntailsProperty(T, subject, query.p, object)
      BY <1>3, <2>2, <3>1, PropertyRaised
    <3>. QED  BY <2>2, <3>2, PatternAssumption DEF Entails
  <2>. QED  BY <1>5, <2>1, <2>2, Tokens
<1>6. ClassPlan(plan) => Entails(T, <<subject, Type, object>>)
  BY <1>4 DEF ClassPlan
<1>7. ASSUME ClassPlan(plan), object = plan.o PROVE Entails(T, <<subject, Type, query.o>>)
  BY <1>3, <1>7, TypeRaised DEF ClassPlan, Entails
<1>8. ASSUME InversePlan(plan) PROVE Entails(T, <<object, query.p, subject>>)
  <2>1. PICK i \in Inverses(query.p) : Pred(plan) \in Subproperties(i)
    BY <1>8 DEF InversePlan
  <2>2. query.p \in Inverses(i)
    <3>1. <<query.p, i>> \in inverse
      <4>1. PICK e \in inverse : e[1] = query.p /\ e[2] = i
        BY DEF Inverses
      <4>2. e = <<e[1], e[2]>>
        BY InputsTyped
      <4>. QED  BY <4>1, <4>2
    <3>2. <<<<query.p, i>>[2], <<query.p, i>>[1]>> \in inverse
      BY <3>1, InputsTyped
    <3>3. <<i, query.p>> \in inverse
      BY <3>2
    <3>. QED  BY <3>3 DEF Inverses
  <2>3. Loaded!IsSubpropertyOf(t[2], i) /\ t[2] \in Predicates
    BY <1>1, <2>1 DEF Subproperties
  <2>4. query.p \in Properties /\ EntailsProperty(T, object, query.p, subject)
    BY <1>1, <2>2, <2>3, InverseEntailed
  <2>. QED  BY <2>4, PatternAssumption DEF Entails
<1>9. ASSUME NEW R, Pred(plan) \in Loaded!PropertiesAssertingType(query.o, R), R \in SUBSET (Properties \X Classes)
      PROVE  \E d \in Subclasses(query.o) : d \in Loaded!InferredTypes(t[2], R)
  <2>1. PICK d \in Loaded!InferredTypes(Pred(plan), R) : Loaded!IsSubclassOf(d, query.o)
    BY <1>9 DEF Loaded!PropertiesAssertingType
  <2>2. d \in Classes
    BY <1>9, <2>1, InferredTypesWhat
  <2>. QED  BY <1>1, <2>1, <2>2 DEF Subclasses
<1>10. ASSUME DomainPlan(plan) PROVE Entails(T, <<subject, Type, query.o>>)
  <2>1. PICK d \in Subclasses(query.o) : d \in Loaded!InferredTypes(t[2], domain)
    BY <1>9, <1>10, InputsTyped DEF DomainPlan
  <2>2. EntailsType(T, subject, query.o)
    BY <1>1, <2>1, TypeEntailed
  <2>. QED  BY <2>2 DEF Entails
<1>11. ASSUME RangePlan(plan) PROVE Entails(T, <<object, Type, query.o>>)
  <2>1. PICK d \in Subclasses(query.o) : d \in Loaded!InferredTypes(t[2], range)
    BY <1>9, <1>11, InputsTyped DEF RangePlan
  <2>2. EntailsType(T, object, query.o)
    BY <1>1, <2>1, TypeEntailed
  <2>. QED  BY <2>2 DEF Entails
<1>. QED  BY <1>4, <1>5, <1>6, <1>7, <1>8, <1>10, <1>11

\* What an answer must be: entailed, or nearly so where the statements compare one
\* of two resources only.
Acceptable(T, s, p, o) ==
    \/ Entails(T, <<s, p, o>>)
    \/ /\ {query.s, query.o} \cap Vars = {} \/ query.s = query.o
       /\ \E any \in Terms : Entails(T, <<s, p, any>>) \/ Entails(T, <<any, p, o>>)

\* In a solution without the auxiliary variable the tokens of the pattern stand for
\* what they stood for with it.
LEMMA InstanceWhat ==
    ASSUME InputsAsConfigured, NEW sol, DOMAIN sol.at \ {Aux} = QueryVars, NEW a, a = WithoutAux(sol)
    PROVE  /\ Instance(a.at) = <<Stands(sol.at, query.s), Stands(sol.at, query.p), Stands(sol.at, query.o)>>
<1>1. a.at = [v \in QueryVars |-> sol.at[v]]
  BY DEF WithoutAux
<1>2. ASSUME NEW token \in {query.s, query.p, query.o}
      PROVE  Value(a.at, token) = Stands(sol.at, token)
  <2>1. token \in Vars <=> IsVar(token)
    BY Tokens, PatternAssumption DEF IsVar, Predicates
  <2>2. token \in Vars => token \in QueryVars
    BY DEF QueryVars
  <2>. QED  BY <1>1, <2>1, <2>2 DEF Value, Stands
<1>. QED  BY <1>2 DEF Instance

\* The solution of a row is acceptable.
LEMMA RowAcceptable ==
    ASSUME InputsAsConfigured, NEW plan \in Planned, NEW row \in Rows, Fits(plan, row),
           NEW sol, sol = Solution(plan, row), NEW T,
           <<Subject(plan.rule, row), Pred(plan), Object(plan.rule, row)>> \in T
    PROVE  Acceptable(T, Stands(sol.at, query.s), Stands(sol.at, query.p), Stands(sol.at, query.o))
<1> DEFINE subject == Subject(plan.rule, row)
           object == Object(plan.rule, row)
           s == Stands(sol.at, plan.s)
           o == Stands(sol.at, plan.o)
<1>1. subject \in Terms /\ object \in Terms
  BY SolutionTyped
<1>2. /\ OwnPlan(plan) /\ query.p \in Vars => Entails(T, <<subject, Pred(plan), object>>)
      /\ OwnPlan(plan) /\ query.p \notin Vars => Entails(T, <<subject, query.p, object>>)
      /\ ClassPlan(plan) => Entails(T, <<subject, Type, object>>)
      /\ ClassPlan(plan) /\ object = plan.o => Entails(T, <<subject, Type, query.o>>)
      /\ InversePlan(plan) => Entails(T, <<object, query.p, subject>>)
      /\ DomainPlan(plan) => Entails(T, <<subject, Type, query.o>>)
      /\ RangePlan(plan) => Entails(T, <<object, Type, query.o>>)
  BY RowEntailed
<1>3. \/ s = subject /\ o = object
      \/ ~IsVar(plan.s) /\ ~IsVar(plan.o) /\ s = subject
      \/ IsVar(plan.o) /\ plan.s = plan.o /\ o = object
  BY PlanStands
<1>4. /\ query.p \in Vars => Stands(sol.at, query.p) = Pred(plan)
      /\ query.p \notin Vars => Stands(sol.at, query.p) = query.p
  BY SolutionTyped, Tokens, PatternAssumption DEF Stands, IsVar, Predicates
<1>5. ASSUME NEW token \in {query.s, query.o}, ~IsVar(token) PROVE Stands(sol.at, token) = token /\ token \notin Vars
  BY <1>5 DEF Stands, IsVar
<1>. HIDE DEF s, o, subject, object
<1>6. CASE OwnPlan(plan)
  <2>1. plan.s = query.s /\ plan.o = query.o
    BY <1>6 DEF OwnPlan
  <2>2. Entails(T, <<subject, Stands(sol.at, query.p), object>>)
    BY <1>2, <1>4, <1>6
  <2>3. s = Stands(sol.at, query.s) /\ o = Stands(sol.at, query.o)
    BY <2>1 DEF s, o
  <2>. QED  BY <1>1, <1>3, <1>5, <2>1, <2>2, <2>3 DEF Acceptable
<1>7. CASE ClassPlan(plan)
  <2>1. plan.s = query.s /\ ~IsVar(query.o) /\ query.p = Type /\ ~IsVar(plan.o)
    BY <1>7, Tokens DEF ClassPlan, Subclasses, Terms
  <2>2. s = Stands(sol.at, query.s) /\ o = plan.o /\ Stands(sol.at, query.o) = query.o
        /\ Stands(sol.at, query.p) = Type
    BY <1>4, <2>1, Tokens DEF s, o, Stands
  <2>3. CASE s = subject /\ o = object
    BY <1>2, <1>7, <2>2, <2>3 DEF Acceptable
  <2>4. CASE ~IsVar(plan.s) /\ s = subject
    <3>1. {query.s, query.o} \cap Vars = {}
      BY <1>5, <2>1, <2>4
    <3>2. Entails(T, <<s, Type, object>>)
      BY <1>2, <1>7, <2>4
    <3>. QED  BY <1>1, <2>2, <3>1, <3>2 DEF Acceptable
  <2>. QED  BY <1>3, <2>1, <2>3, <2>4
<1>8. CASE InversePlan(plan)
  <2>1. plan.s = query.o /\ plan.o = query.s /\ query.p \notin Vars
    BY <1>8, Tokens DEF InversePlan
  <2>2. Entails(T, <<object, Stands(sol.at, query.p), subject>>)
    BY <1>2, <1>4, <1>8, <2>1
  <2>3. s = Stands(sol.at, query.o) /\ o = Stands(sol.at, query.s)
    BY <2>1 DEF s, o
  <2>. QED  BY <1>1, <1>3, <1>5, <2>1, <2>2, <2>3 DEF Acceptable
<1>9. CASE DomainPlan(plan)
  <2>1. /\ plan.s = query.s /\ IsVar(plan.s) /\ plan.o # plan.s
        /\ Stands(sol.at, query.o) = query.o /\ Stands(sol.at, query.p) = Type
    BY <1>4, <1>9, Tokens DEF DomainPlan, Stands
  <2>2. s = subject /\ s = Stands(sol.at, query.s)
    BY <1>3, <2>1 DEF s
  <2>. QED  BY <1>2, <1>9, <2>1, <2>2 DEF Acceptable
<1>10. CASE RangePlan(plan)
  <2>1. /\ plan.o = query.s /\ IsVar(plan.s)
        /\ Stands(sol.at, query.o) = query.o /\ Stands(sol.at, query.p) = Type
    BY <1>4, <1>10, Tokens DEF RangePlan, Stands
  <2>2. o = object /\ o = Stands(sol.at, query.s)
    BY <1>3, <2>1 DEF o
  <2>. QED  BY <1>2, <1>10, <2>1, <2>2 DEF Acceptable
<1>. QED  BY <1>6, <1>7, <1>8, <1>9, <1>10, PlanKinds

\* The candidates of a fact are entailed.
LEMMA CandidateEntailed ==
    ASSUME InputsAsConfigured, NEW f \in facts, NEW t \in Candidates(f), NEW T, facts \subseteq T
    PROVE  /\ t[2] \in Properties => EntailsProperty(T, t[1], t[2], t[3])
           /\ t[2] = Type => EntailsType(T, t[1], t[3])
<1>1. f \in T /\ f \in Terms \X Predicates \X Terms
  BY InputsTyped
<1>2. CASE t = f
  BY <1>1, <1>2, TripleEntailed
<1>3. CASE \E p \in Inverses(f[2]) : t = <<f[3], p, f[1]>>
  <2>1. PICK p \in Inverses(f[2]) : t = <<f[3], p, f[1]>>
    BY <1>3
  <2>2. Loaded!IsSubpropertyOf(f[2], f[2])
    BY Hierarchies, ReachesItself
  <2>3. f[2] \in Predicates
    BY <1>1
  <2>4. p \in Properties /\ EntailsProperty(T, f[3], p, f[1])
    BY <1>1, <2>1, <2>2, <2>3, InverseEntailed
  <2>. QED  BY <2>1, <2>4, PatternAssumption
<1>4. CASE \E c \in Loaded!InferredTypes(f[2], domain) : t = <<f[1], Type, c>>
  <2>1. PICK c \in Loaded!InferredTypes(f[2], domain) : t = <<f[1], Type, c>>
    BY <1>4
  <2>2. c \in Subclasses(c)
    BY DEF Subclasses
  <2>3. EntailsType(T, f[1], c)
    BY <1>1, <2>1, <2>2, TypeEntailed
  <2>. QED  BY <2>1, <2>3, PatternAssumption
<1>5. CASE \E c \in Loaded!InferredTypes(f[2], range) : t = <<f[3], Type, c>>
  <2>1. PICK c \in Loaded!InferredTypes(f[2], range) : t = <<f[3], Type, c>>
    BY <1>5
  <2>2. c \in Subclasses(c)
    BY DEF Subclasses
  <2>3. EntailsType(T, f[3], c)
    BY <1>1, <2>1, <2>2, TypeEntailed
  <2>. QED  BY <2>1, <2>3, PatternAssumption
<1>. QED  BY <1>2, <1>3, <1>4, <1>5, CandidateCases

\* The tokens of the pattern stand for what a fact that matches is, save that an
\* object may be a class below the one asked for.
LEMMA FactStands ==
    ASSUME InputsAsConfigured, NEW f \in facts, NEW t \in Candidates(f), FactMatches(t),
           NEW sol, sol = FactSolution(f, t)
    PROVE  /\ Stands(sol.at, query.s) = t[1]
           /\ query.p \in Vars => Stands(sol.at, query.p) = t[2]
           /\ query.p \notin Vars => Stands(sol.at, query.p) = query.p
           /\ \/ Stands(sol.at, query.o) = t[3]
              \/ /\ t[2] = Type /\ Stands(sol.at, query.o) = query.o
                 /\ t[3] \in Subclasses(query.o)
<1>1. \A v \in QueryVars : sol.at[v] = IF v = query.s THEN t[1] ELSE IF v = query.o THEN t[3] ELSE t[2]
  BY FactSolutionTyped
<1>2. /\ \A token \in {query.s, query.o} : IsVar(token) <=> token \in QueryVars
      /\ IsVar(query.p) <=> query.p \in Vars /\ query.p \in QueryVars
      /\ query.p \in Vars => IsVar(query.p) /\ query.p \notin {query.s, query.o}
  BY Tokens, InputsTyped, PatternAssumption DEF QueryVars, IsVar, Predicates
<1>. QED  BY <1>1, <1>2 DEF Stands, FactMatches, Agrees

\* The solution of a fact is acceptable.
LEMMA FactAcceptable ==
    ASSUME InputsAsConfigured, NEW f \in facts, NEW t \in Candidates(f), FactMatches(t),
           NEW sol, sol = FactSolution(f, t), NEW T, facts \subseteq T
    PROVE  Acceptable(T, Stands(sol.at, query.s), Stands(sol.at, query.p), Stands(sol.at, query.o))
<1>1. /\ t[2] \in Properties => EntailsProperty(T, t[1], t[2], t[3])
      /\ t[2] = Type => EntailsType(T, t[1], t[3])
      /\ t[2] \in Predicates
  BY CandidateEntailed, CandidateTyped
<1>2. CASE t[2] = Type
  <2>1. Stands(sol.at, query.p) = Type
    <3>1. query.p \notin Vars => query.p = Type
      <4>. SUFFICES ASSUME query.p \in Properties PROVE FALSE
        BY Tokens
      <4>1. Loaded!IsSubpropertyOf(Type, query.p)
        BY <1>2, Tokens DEF FactMatches
      <4>2. Type \in Properties
        BY <4>1, StepsUp DEF Predicates
      <4>. QED  BY <4>2, PatternAssumption
    <3>. QED  BY <1>2, <3>1, FactStands
  <2>2. EntailsType(T, t[1], Stands(sol.at, query.o))
    BY <1>1, <1>2, FactStands, TypeRaised
  <2>3. Entails(T, <<t[1], Type, Stands(sol.at, query.o)>>)
    BY <2>2 DEF Entails
  <2>. QED  BY <2>1, <2>3, FactStands DEF Acceptable
<1>3. CASE t[2] \in Properties
  <2>1. t[2] # Type
    BY <1>3, PatternAssumption
  <2>2. Stands(sol.at, query.o) = t[3] /\ Stands(sol.at, query.s) = t[1]
    BY <2>1, FactStands
  <2>3. CASE query.p \in Vars
    <3>1. Stands(sol.at, query.p) = t[2]
      BY <2>3, FactStands
    <3>. QED  BY <1>1, <1>3, <2>1, <2>2, <3>1 DEF Acceptable, Entails
  <2>4. CASE query.p \notin Vars
    <3>1. Stands(sol.at, query.p) = query.p /\ Loaded!IsSubpropertyOf(t[2], query.p)
      BY <2>4, FactStands DEF FactMatches
    <3>2. query.p \in Properties
      BY <1>1, <2>1, <2>4, <3>1, NothingBelowType, Tokens
    <3>3. EntailsProperty(T, t[1], query.p, t[3]) /\ query.p # Type
      BY <1>1, <1>3, <3>1, <3>2, PropertyRaised, PatternAssumption
    <3>. QED  BY <2>2, <3>1, <3>3 DEF Acceptable, Entails
  <2>. QED  BY <2>3, <2>4
<1>. QED  BY <1>1, <1>2, <1>3 DEF Predicates

\* Every answer instantiates the pattern to a triple that follows from the facts and
\* from rows a statement of this query could see.
THEOREM AnswersAreEntailed == Spec => []AnswersEntailed
<1>1. ASSUME IInv PROVE AnswersEntailed
  <2>. \A at : Instance(at) = <<Instance(at)[1], Instance(at)[2], Instance(at)[3]>>
    BY DEF Instance
  <2>. SUFFICES ASSUME status = "done", NEW a \in answers
                PROVE  Acceptable(MappedBy(ever) \cup facts,
                                  Instance(a.at)[1], Instance(a.at)[2], Instance(a.at)[3])
    BY DEF AnswersEntailed, Acceptable
  <2> DEFINE T == MappedBy(ever) \cup facts
  <2>1. InputsAsConfigured /\ \A i \in DOMAIN mapping : ever[i] \subseteq Rows
    BY <1>1 DEF IInv, TypeOK
  <2>2. PICK b \in RowSolutions(Planned, ever) \cup FactSolutions : a = WithoutAux(b)
    BY <1>1 DEF IInv, AnswersDerived
  <2>3. CASE b \in RowSolutions(Planned, ever)
    <3>1. PICK plan \in Planned : \E row \in ever[plan.rule] : Fits(plan, row) /\ b = Solution(plan, row)
      BY <2>3, RowSolutionCases
    <3>2. PICK row \in ever[plan.rule] : Fits(plan, row) /\ b = Solution(plan, row)
      BY <3>1
    <3>3. plan.rule \in DOMAIN mapping /\ row \in Rows
      BY <2>1, PlanTyped
    <3>4. <<Subject(plan.rule, row), Pred(plan), Object(plan.rule, row)>> \in T
      BY <3>3 DEF MappedBy, Pred
    <3>5. Acceptable(T, Stands(b.at, query.s), Stands(b.at, query.p), Stands(b.at, query.o))
      <4>. HIDE DEF T
      <4>. QED  BY <2>1, <3>2, <3>3, <3>4, RowAcceptable
    <3>6. DOMAIN b.at \ {Aux} = QueryVars
      BY <2>1, <3>2, <3>3, SolutionTyped
    <3>7. Instance(a.at) = <<Stands(b.at, query.s), Stands(b.at, query.p), Stands(b.at, query.o)>>
      BY <2>1, <2>2, <3>6, InstanceWhat
    <3>. QED  BY <3>5, <3>7
  <2>4. CASE b \in FactSolutions
    <3>1. PICK f \in facts : \E t \in Candidates(f) : FactMatches(t) /\ b = FactSolution(f, t)
      BY <2>4, FactSolutionCases
    <3>2. PICK t \in Candidates(f) : FactMatches(t) /\ b = FactSolution(f, t)
      BY <3>1
    <3>3. facts \subseteq T
      OBVIOUS
    <3>4. Acceptable(T, Stands(b.at, query.s), Stands(b.at, query.p), Stands(b.at, query.o))
      <4>. HIDE DEF T
      <4>. QED  BY <2>1, <3>2, <3>3, FactAcceptable
    <3>5. DOMAIN b.at = QueryVars /\ Aux \notin QueryVars
      BY <2>1, <3>2, FactSolutionTyped, PatternAssumption DEF QueryVars
    <3>6. DOMAIN b.at \ {Aux} = QueryVars
      BY <3>5
    <3>7. Instance(a.at) = <<Stands(b.at, query.s), Stands(b.at, query.p), Stands(b.at, query.o)>>
      BY <2>1, <2>2, <3>6, InstanceWhat
    <3>. QED  BY <3>4, <3>7
  <2>. QED  BY <2>2, <2>3, <2>4
<1>. QED  BY <1>1, InvariantHolds, PTL

-----------------------------------------------------------------------------
(* Nothing covered is missing.                                               *)

\* The triples of some rows, one by one.
LEMMA MappedCases ==
    \A R, t : t \in MappedBy(R) <=>
        \E i \in DOMAIN mapping : \E row \in R[i] : t = <<Subject(i, row), mapping[i].pred, Object(i, row)>>
  BY DEF MappedBy

\* Where no rule is for another resource, every rule that matches has its plan.
LEMMA PlanForRule ==
    ASSUME InputsAsConfigured, ~RuleForAnother, NEW s \in {query.s, query.o, Aux}, NEW p, NEW o, NEW origin,
           NEW i \in DOMAIN mapping, NEW row, mapping[i].pred = p, IsVar(o) \/ Object(i, row) = o
    PROVE  [rule |-> i, s |-> s, o |-> o, origin |-> origin] \in PlansFor([s |-> s, p |-> p, o |-> o], origin)
<1> DEFINE q == [s |-> s, p |-> p, o |-> o]
<1>1. i \in MatchingRules(q)
  BY DEF MatchingRules, Object, TermOf
<1>2. ASSUME NEW k \in MatchingRules(q) PROVE IsVar(q.s) \/ mapping[k].subject \in {q.s, Template}
  <2>1. k \in DOMAIN mapping
    BY DEF MatchingRules
  <2>2. CASE s \in Terms /\ s \in {query.s, query.o}
    BY <2>1, <2>2 DEF RuleForAnother
  <2>3. CASE IsVar(s)
    BY <2>3
  <2>. QED  BY <2>2, <2>3, Tokens
<1>3. Translatable(q)
  BY <1>1, <1>2 DEF Translatable
<1>. QED  BY <1>1, <1>3, PlansWhat

\* The solution of a row is what the pattern asks for when the tokens of the plan
\* stand for what the row is.
LEMMA RowAnswers ==
    ASSUME InputsAsConfigured, NEW R, NEW plan \in Planned, NEW row \in R[plan.rule], row \in Rows,
           NEW at \in [QueryVars -> Terms \cup Predicates],
           plan.s = Aux \/ Value(at, plan.s) = Subject(plan.rule, row),
           plan.o = Aux \/ Value(at, plan.o) = Object(plan.rule, row),
           query.p \in Vars => at[query.p] = Pred(plan)
    PROVE  \E b \in RowSolutions(Planned, R) : WithoutAux(b).at = at
<1> DEFINE b == Solution(plan, row)
<1>1. /\ DOMAIN b.at \ {Aux} = QueryVars
      /\ \A v \in Bound(plan) :
            b.at[v] = IF v = plan.o THEN Object(plan.rule, row) ELSE Subject(plan.rule, row)
      /\ query.p \in Vars => b.at[query.p] = Pred(plan)
  BY SolutionTyped
<1>2. Fits(plan, row)
  BY PatternAssumption DEF Fits, Value, IsVar
<1>3. b \in RowSolutions(Planned, R)
  BY <1>2, RowSolutionCases
<1>4. WithoutAux(b).at = [v \in DOMAIN b.at \ {Aux} |-> b.at[v]]
  BY DEF WithoutAux
<1>5. ASSUME NEW v \in QueryVars PROVE b.at[v] = at[v]
  <2>1. CASE v = query.p /\ query.p \in Vars
    BY <1>1, <2>1
  <2>2. CASE v \in {query.s, query.o} \cap Vars
    <3>1. v \in Bound(plan) /\ v # Aux /\ v \in {plan.s, plan.o}
      BY <2>2, PlanTyped DEF Bound
    <3>2. Value(at, v) = at[v]
      BY <2>2 DEF Value
    <3>. QED  BY <1>1, <3>1, <3>2
  <2>. QED  BY <2>1, <2>2 DEF QueryVars
<1>6. WithoutAux(b).at = at
  BY <1>1, <1>4, <1>5
<1>. QED  BY <1>3, <1>6

\* A fact that matches is a solution.
LEMMA FactAnswers ==
    ASSUME InputsAsConfigured, NEW f \in facts, NEW t \in Candidates(f), FactMatches(t),
           NEW at \in [QueryVars -> Terms \cup Predicates],
           Value(at, query.s) = t[1],
           query.o \in Vars => at[query.o] = t[3],
           query.p \in Vars => at[query.p] = t[2]
    PROVE  \E b \in FactSolutions : WithoutAux(b).at = at
<1> DEFINE b == FactSolution(f, t)
<1>1. /\ b.at \in [QueryVars -> Terms \cup Predicates]
      /\ \A v \in QueryVars : b.at[v] = IF v = query.s THEN t[1] ELSE IF v = query.o THEN t[3] ELSE t[2]
  BY FactSolutionTyped
<1>2. b \in FactSolutions
  BY FactSolutionCases
<1>3. Aux \notin QueryVars
  BY PatternAssumption DEF QueryVars
<1>4. WithoutAux(b).at = [v \in DOMAIN b.at \ {Aux} |-> b.at[v]]
  BY DEF WithoutAux
<1>5. ASSUME NEW v \in QueryVars PROVE b.at[v] = at[v]
  <2>1. v \in Vars /\ v \in {query.s, query.p, query.o}
    BY DEF QueryVars
  <2>. QED  BY <1>1, <2>1 DEF Value
<1>6. WithoutAux(b).at = at
  BY <1>1, <1>3, <1>4, <1>5
<1>. QED  BY <1>2, <1>6

\* A row whose triple is the one asked for, or one with a class or a property below,
\* has a plan that finds it.
LEMMA RowFound ==
    ASSUME InputsAsConfigured, ~RuleForAnother, NEW R, \A i \in DOMAIN mapping : R[i] \subseteq Rows,
           NEW at \in [QueryVars -> Terms \cup Predicates],
           NEW i \in DOMAIN mapping, NEW row \in R[i],
           NEW s \in {query.s, query.o, Aux}, NEW o \in Terms \cup Vars \cup {Aux}, NEW origin,
           PlansFor([s |-> s, p |-> mapping[i].pred, o |-> o], origin) \subseteq Planned,
           s = Aux \/ Value(at, s) = Subject(i, row),
           o = Aux \/ Value(at, o) = Object(i, row),
           query.p \in Vars => at[query.p] = mapping[i].pred
    PROVE  \E b \in RowSolutions(Planned, R) : WithoutAux(b).at = at
<1> DEFINE plan == [rule |-> i, s |-> s, o |-> o, origin |-> origin]
<1>1. IsVar(o) \/ Object(i, row) = o
  BY DEF IsVar, Value
<1>2. plan \in PlansFor([s |-> s, p |-> mapping[i].pred, o |-> o], origin)
  BY <1>1, PlanForRule
<1>3. plan \in Planned /\ plan.rule = i /\ plan.s = s /\ plan.o = o /\ Pred(plan) = mapping[i].pred
  BY <1>2 DEF Pred
<1>4. row \in R[plan.rule] /\ row \in Rows
  BY <1>3
<1>. HIDE DEF plan
<1>. QED  BY <1>3, <1>4, RowAnswers

\* The rewritings of the pattern are planned.
LEMMA PlannedWhat ==
    ASSUME InputsAsConfigured
    PROVE  /\ query.p \in Vars => \A i \in DOMAIN mapping :
                  PlansFor([s |-> query.s, p |-> mapping[i].pred, o |-> query.o], i) \subseteq Planned
           /\ query.p = Type /\ IsVar(query.o) =>
                  PlansFor([s |-> query.s, p |-> Type, o |-> query.o], 0) \subseteq Planned
           /\ query.p = Type /\ ~IsVar(query.o) => \A d \in Subclasses(query.o) :
                  PlansFor([s |-> query.s, p |-> Type, o |-> d], 0) \subseteq Planned
           /\ query.p \in Properties => \A p \in Subproperties(query.p) :
                  PlansFor([s |-> query.s, p |-> p, o |-> query.o], 0) \subseteq Planned
           /\ query.p \in Properties /\ ~Translatable(query) =>
                  \A i \in Inverses(query.p) : \A p \in Subproperties(i) :
                      PlansFor([s |-> query.o, p |-> p, o |-> query.s], 0) \subseteq Planned
           /\ query.p = Type /\ ~IsVar(query.o) /\ IsVar(query.s) =>
                  /\ \A p \in Loaded!PropertiesAssertingType(query.o, domain) :
                        PlansFor([s |-> query.s, p |-> p, o |-> Aux], 0) \subseteq Planned
                  /\ \A p \in Loaded!PropertiesAssertingType(query.o, range) :
                        PlansFor([s |-> Aux, p |-> p, o |-> query.s], 0) \subseteq Planned
<1>1. query = [s |-> query.s, p |-> query.p, o |-> query.o]
  BY InputsTyped
<1>2. ASSUME query.p \in Vars, NEW i \in DOMAIN mapping
      PROVE  PlansFor([s |-> query.s, p |-> mapping[i].pred, o |-> query.o], i) \subseteq Planned
  <2>1. [query EXCEPT !.p = mapping[i].pred] = [s |-> query.s, p |-> mapping[i].pred, o |-> query.o]
    BY <1>1
  <2>2. PlansFor([query EXCEPT !.p = mapping[i].pred], i) \subseteq Planned
    BY <1>2, RewriteCases DEF Planned
  <2>. QED  BY <2>1, <2>2
<1>3. ASSUME query.p = Type, IsVar(query.o)
      PROVE  PlansFor([s |-> query.s, p |-> Type, o |-> query.o], 0) \subseteq Planned
  <2>1. PlansFor(query, 0) \subseteq Planned
    BY <1>3, RewriteCases DEF Planned
  <2>. QED  BY <1>1, <1>3, <2>1
<1>4. ASSUME query.p = Type, ~IsVar(query.o), NEW d \in Subclasses(query.o)
      PROVE  PlansFor([s |-> query.s, p |-> Type, o |-> d], 0) \subseteq Planned
  <2>1. [query EXCEPT !.o = d] = [s |-> query.s, p |-> Type, o |-> d]
    BY <1>1, <1>4
  <2>2. PlansFor([query EXCEPT !.o = d], 0) \subseteq Planned
    BY <1>4, RewriteCases DEF Planned
  <2>. QED  BY <2>1, <2>2
<1>5. ASSUME query.p \in Properties, NEW p \in Subproperties(query.p)
      PROVE  PlansFor([s |-> query.s, p |-> p, o |-> query.o], 0) \subseteq Planned
  <2>1. [query EXCEPT !.p = p] = [s |-> query.s, p |-> p, o |-> query.o]
    BY <1>1
  <2>2. PlansFor([query EXCEPT !.p = p], 0) \subseteq Planned
    BY <1>5, RewriteCases DEF Planned
  <2>. QED  BY <2>1, <2>2
<1>6. ASSUME query.p \in Properties, ~Translatable(query), NEW i \in Inverses(query.p), NEW p \in Subproperties(i)
      PROVE  PlansFor([s |-> query.o, p |-> p, o |-> query.s], 0) \subseteq Planned
  <2>1. p \in UNION {Subproperties(k) : k \in Inverses(query.p)}
    BY <1>6
  <2>2. PlansFor([s |-> query.o, p |-> p, o |-> query.s], 0) \subseteq Rewrite(query)
    BY <1>6, <2>1, RewriteCases
  <2>. QED  BY <2>2 DEF Planned
<1>7. ASSUME query.p = Type, ~IsVar(query.o), IsVar(query.s)
      PROVE  /\ \A p \in Loaded!PropertiesAssertingType(query.o, domain) :
                   PlansFor([s |-> query.s, p |-> p, o |-> Aux], 0) \subseteq Planned
             /\ \A p \in Loaded!PropertiesAssertingType(query.o, range) :
                   PlansFor([s |-> Aux, p |-> p, o |-> query.s], 0) \subseteq Planned
  BY <1>7 DEF Planned, TypePlans
<1>. QED  BY <1>2, <1>3, <1>4, <1>5, <1>6, <1>7

\* A property that gives a type below the class sought asserts the class.
LEMMA AssertsType ==
    ASSUME InputsAsConfigured, NEW R \in SUBSET (Properties \X Classes), NEW p \in Predicates,
           NEW c, NEW d \in Subclasses(c), d \in Loaded!InferredTypes(p, R)
    PROVE  p \in Loaded!PropertiesAssertingType(c, R)
<1>1. PICK e \in R : e[2] = d /\ Loaded!IsSubpropertyOf(p, e[1])
  BY InferredTypesWhat
<1>2. p \in {b[1] : b \in R \cup superproperty}
  <2>1. CASE p = e[1]
    BY <2>1
  <2>2. CASE p # e[1]
    <3>1. superproperty \in SUBSET (Predicates \X Predicates) /\ e[1] \in Predicates
      BY InputsTyped DEF Predicates
    <3>2. Reaches(superproperty, Predicates, p, e[1])
      BY <1>1, Hierarchies
    <3>3. \E b \in superproperty : b[1] = p
      BY <2>2, <3>1, <3>2, ReachedByEdges
    <3>. QED  BY <3>3
  <2>. QED  BY <2>1, <2>2
<1>3. Loaded!IsSubclassOf(d, c)
  BY Hierarchies, ReachesItself DEF Subclasses
<1>. QED  BY <1>2, <1>3 DEF Loaded!PropertiesAssertingType

\* The triple a pattern asks for.
LEMMA AskedFor ==
    ASSUME InputsAsConfigured, NEW at, NEW s, NEW p, NEW o, Instance(at) = <<s, p, o>>
    PROVE  /\ Value(at, query.s) = s /\ Value(at, query.o) = o
           /\ query.s \in Vars => at[query.s] = s
           /\ query.o \in Vars => at[query.o] = o
           /\ query.p \in Vars => at[query.p] = p
           /\ ~IsVar(query.s) => query.s = s
           /\ ~IsVar(query.o) => query.o = o
           /\ query.p \notin Vars => query.p = p
           /\ query.s = query.o => s = o
  BY DEF Instance, Value, IsVar

\* A triple stated as such is found.
LEMMA StatedFound ==
    ASSUME InputsAsConfigured, ~RuleForAnother, NEW R, \A i \in DOMAIN mapping : R[i] \subseteq Rows,
           NEW at \in [QueryVars -> Terms \cup Predicates], NEW t, Instance(at) = t,
           t \in Terms \X Predicates \X Terms,
           IsVar(query.p) \/ (t[2] = Type /\ IsVar(query.o)), t \in MappedBy(R) \cup facts
    PROVE  \E b \in RowSolutions(Planned, R) \cup FactSolutions : WithoutAux(b).at = at
<1>1. Instance(at) = <<t[1], t[2], t[3]>>
  OBVIOUS
<1>2. IsVar(query.p) <=> query.p \in Vars
  BY InputsTyped, PatternAssumption DEF IsVar, Predicates
<1>3. CASE t \in facts
  <2>1. t \in Candidates(t)
    BY CandidateCases
  <2>2. FactMatches(t)
    <3>1. query.p \in Vars \/ Loaded!IsSubpropertyOf(t[2], query.p)
      BY <1>1, <1>2, AskedFor, Hierarchies, ReachesItself
    <3>. QED  BY <1>1, <3>1, AskedFor DEF FactMatches, Agrees
  <2>. QED  BY <1>1, <1>3, <2>1, <2>2, AskedFor, FactAnswers
<1>4. CASE t \in MappedBy(R)
  <2>1. PICK i \in DOMAIN mapping : \E row \in R[i] : t = <<Subject(i, row), mapping[i].pred, Object(i, row)>>
    BY <1>4, MappedCases
  <2>2. PICK row \in R[i] : t = <<Subject(i, row), mapping[i].pred, Object(i, row)>>
    BY <2>1
  <2>3. /\ Value(at, query.s) = Subject(i, row) /\ Value(at, query.o) = Object(i, row)
        /\ query.p \in Vars => at[query.p] = mapping[i].pred
        /\ query.p \notin Vars => query.p = mapping[i].pred
    BY <1>1, <2>2, AskedFor
  <2>4. \E origin : PlansFor([s |-> query.s, p |-> mapping[i].pred, o |-> query.o], origin) \subseteq Planned
    <3>1. CASE query.p \in Vars
      BY <3>1, PlannedWhat
    <3>2. CASE query.p \notin Vars
      <4>1. query.p = Type /\ IsVar(query.o) /\ mapping[i].pred = Type
        BY <1>1, <1>2, <2>3, <3>2, AskedFor
      <4>. QED  BY <4>1, PlannedWhat
    <3>. QED  BY <3>1, <3>2
  <2>5. PICK origin : PlansFor([s |-> query.s, p |-> mapping[i].pred, o |-> query.o], origin) \subseteq Planned
    BY <2>4
  <2>6. query.o \in Terms \cup Vars \cup {Aux}
    BY Tokens
  <2>. QED  BY <2>3, <2>5, <2>6, RowFound
<1>. QED  BY <1>3, <1>4

\* A member of a class is found.
LEMMA TypeFound ==
    ASSUME InputsAsConfigured, ~RuleForAnother, NEW R, \A i \in DOMAIN mapping : R[i] \subseteq Rows,
           NEW at \in [QueryVars -> Terms \cup Predicates], NEW x \in Terms,
           Instance(at) = <<x, Type, query.o>>, query.p = Type, ~IsVar(query.o),
           CoversType(MappedBy(R), x, query.o)
    PROVE  \E b \in RowSolutions(Planned, R) \cup FactSolutions : WithoutAux(b).at = at
<1>1. /\ Value(at, query.s) = x
      /\ ~IsVar(query.s) => query.s = x
      /\ query.p \notin Vars /\ query.o \notin Vars
  BY AskedFor, Tokens DEF IsVar
<1>2. ASSUME NEW f \in facts, NEW d \in Subclasses(query.o), <<x, Type, d>> \in Candidates(f)
      PROVE  \E b \in FactSolutions : WithoutAux(b).at = at
  <2>1. FactMatches(<<x, Type, d>>)
    BY <1>1, Hierarchies, ReachesItself DEF FactMatches, Agrees
  <2>. QED  BY <1>1, <1>2, <2>1, FactAnswers
<1>3. ASSUME NEW i \in DOMAIN mapping, NEW row \in R[i], NEW d \in Subclasses(query.o),
             <<x, Type, d>> = <<Subject(i, row), mapping[i].pred, Object(i, row)>>
      PROVE  \E b \in RowSolutions(Planned, R) : WithoutAux(b).at = at
  <2>1. PlansFor([s |-> query.s, p |-> mapping[i].pred, o |-> d], 0) \subseteq Planned
    BY <1>3, PlannedWhat
  <2>2. d \in Terms
    BY Tokens DEF Subclasses, Terms
  <2>3. Value(at, d) = Object(i, row) /\ Value(at, query.s) = Subject(i, row)
    BY <1>1, <1>3, <2>2, Tokens DEF Value, IsVar
  <2>. QED  BY <1>1, <2>1, <2>2, <2>3, RowFound
<1>4. ASSUME IsVar(query.s), NEW i \in DOMAIN mapping, NEW row \in R[i], NEW d \in Subclasses(query.o),
             NEW t, t = <<Subject(i, row), mapping[i].pred, Object(i, row)>>,
             \/ t[1] = x /\ d \in Loaded!InferredTypes(t[2], domain)
             \/ t[3] = x /\ d \in Loaded!InferredTypes(t[2], range)
      PROVE  \E b \in RowSolutions(Planned, R) : WithoutAux(b).at = at
  <2>1. t[2] = mapping[i].pred /\ t[2] \in Predicates
    BY <1>4, RulesTyped
  <2>2. query.s \in Terms \cup Vars \cup {Aux}
    BY Tokens
  <2>3. CASE t[1] = x /\ d \in Loaded!InferredTypes(t[2], domain)
    <3>1. t[2] \in Loaded!PropertiesAssertingType(query.o, domain)
      BY <2>1, <2>3, AssertsType, InputsTyped
    <3>2. PlansFor([s |-> query.s, p |-> mapping[i].pred, o |-> Aux], 0) \subseteq Planned
      BY <1>4, <2>1, <3>1, PlannedWhat
    <3>3. Value(at, query.s) = Subject(i, row)
      BY <1>1, <1>4, <2>3
    <3>. QED  BY <1>1, <3>2, <3>3, RowFound
  <2>4. CASE t[3] = x /\ d \in Loaded!InferredTypes(t[2], range)
    <3>1. t[2] \in Loaded!PropertiesAssertingType(query.o, range)
      BY <2>1, <2>4, AssertsType, InputsTyped
    <3>2. PlansFor([s |-> Aux, p |-> mapping[i].pred, o |-> query.s], 0) \subseteq Planned
      BY <1>4, <2>1, <3>1, PlannedWhat
    <3>3. Value(at, query.s) = Object(i, row)
      BY <1>1, <1>4, <2>4
    <3>. QED  BY <1>1, <2>2, <3>2, <3>3, RowFound
  <2>. QED  BY <1>4, <2>3, <2>4
<1>5. PICK d \in Subclasses(query.o) :
          \/ <<x, Type, d>> \in MappedBy(R) \cup facts
          \/ \E t \in facts \cup (IF IsVar(query.s) THEN MappedBy(R) ELSE {}) : t[2] \in Properties /\
                \/ t[1] = x /\ d \in Loaded!InferredTypes(t[2], domain)
                \/ t[3] = x /\ d \in Loaded!InferredTypes(t[2], range)
  BY DEF CoversType
<1>6. CASE <<x, Type, d>> \in MappedBy(R)
  <2>1. PICK i \in DOMAIN mapping : \E row \in R[i] :
            <<x, Type, d>> = <<Subject(i, row), mapping[i].pred, Object(i, row)>>
    BY <1>6, MappedCases
  <2>. QED  BY <1>3, <2>1
<1>7. CASE <<x, Type, d>> \in facts
  <2>1. <<x, Type, d>> \in Candidates(<<x, Type, d>>)
    BY CandidateCases
  <2>. QED  BY <1>2, <1>7, <2>1
<1>8. CASE \E t \in facts :
              \/ t[1] = x /\ d \in Loaded!InferredTypes(t[2], domain)
              \/ t[3] = x /\ d \in Loaded!InferredTypes(t[2], range)
  <2>1. PICK f \in facts :
              \/ f[1] = x /\ d \in Loaded!InferredTypes(f[2], domain)
              \/ f[3] = x /\ d \in Loaded!InferredTypes(f[2], range)
    BY <1>8
  <2>2. <<x, Type, d>> \in Candidates(f)
    BY <2>1, CandidateCases
  <2>. QED  BY <1>2, <2>2
<1>9. CASE IsVar(query.s) /\ \E t \in MappedBy(R) :
              \/ t[1] = x /\ d \in Loaded!InferredTypes(t[2], domain)
              \/ t[3] = x /\ d \in Loaded!InferredTypes(t[2], range)
  <2>1. PICK t \in MappedBy(R) :
              \/ t[1] = x /\ d \in Loaded!InferredTypes(t[2], domain)
              \/ t[3] = x /\ d \in Loaded!InferredTypes(t[2], range)
    BY <1>9
  <2>2. PICK i \in DOMAIN mapping : \E row \in R[i] : t = <<Subject(i, row), mapping[i].pred, Object(i, row)>>
    BY MappedCases
  <2>. QED  BY <1>4, <1>9, <2>1, <2>2
<1>. QED  BY <1>5, <1>6, <1>7, <1>8, <1>9

\* A pair of a property is found.
LEMMA PropertyFound ==
    ASSUME InputsAsConfigured, ~RuleForAnother, NEW R, \A i \in DOMAIN mapping : R[i] \subseteq Rows,
           NEW at \in [QueryVars -> Terms \cup Predicates], NEW s \in Terms, NEW o \in Terms,
           Instance(at) = <<s, query.p, o>>, query.p \in Properties,
           CoversProperty(MappedBy(R), s, query.p, o)
    PROVE  \E b \in RowSolutions(Planned, R) \cup FactSolutions : WithoutAux(b).at = at
<1>1. /\ Value(at, query.s) = s /\ Value(at, query.o) = o
      /\ query.o \in Vars => at[query.o] = o
      /\ ~IsVar(query.s) => query.s = s
      /\ ~IsVar(query.o) => query.o = o
      /\ query.s = query.o => s = o
  BY AskedFor
<1>2. query.p \notin Vars
  BY Tokens
<1>3. query.s \in Terms \cup Vars \cup {Aux} /\ query.o \in Terms \cup Vars \cup {Aux}
  BY Tokens
<1>4. ASSUME NEW f \in facts, NEW t \in Candidates(f), t[1] = s, t[3] = o, Loaded!IsSubpropertyOf(t[2], query.p)
      PROVE  \E b \in FactSolutions : WithoutAux(b).at = at
  <2>1. FactMatches(t)
    BY <1>1, <1>4 DEF FactMatches, Agrees
  <2>. QED  BY <1>1, <1>2, <1>4, <2>1, FactAnswers
<1>5. ASSUME NEW i \in DOMAIN mapping, NEW row \in R[i], Subject(i, row) = s, Object(i, row) = o,
             Loaded!IsSubpropertyOf(mapping[i].pred, query.p)
      PROVE  \E b \in RowSolutions(Planned, R) : WithoutAux(b).at = at
  <2>1. mapping[i].pred \in Predicates
    BY RulesTyped
  <2>2. mapping[i].pred \in Subproperties(query.p)
    BY <1>5, <2>1, StepsUp DEF Subproperties
  <2>3. PlansFor([s |-> query.s, p |-> mapping[i].pred, o |-> query.o], 0) \subseteq Planned
    BY <2>2, PlannedWhat
  <2>. QED  BY <1>1, <1>2, <1>3, <1>5, <2>3, RowFound
<1>6. ASSUME \A k \in DOMAIN mapping : mapping[k].pred # query.p,
             NEW i \in DOMAIN mapping, NEW row \in R[i], Object(i, row) = s, Subject(i, row) = o,
             NEW other \in Inverses(query.p), Loaded!IsSubpropertyOf(mapping[i].pred, other)
      PROVE  \E b \in RowSolutions(Planned, R) : WithoutAux(b).at = at
  <2>1. mapping[i].pred \in Predicates
    BY RulesTyped
  <2>2. other \in Properties
    BY StepsAcross
  <2>3. mapping[i].pred \in Subproperties(other)
    BY <1>6, <2>1, <2>2, StepsUp DEF Subproperties
  <2>4. ~Translatable(query)
    BY <1>6 DEF Translatable, MatchingRules
  <2>5. PlansFor([s |-> query.o, p |-> mapping[i].pred, o |-> query.s], 0) \subseteq Planned
    BY <2>3, <2>4, PlannedWhat
  <2>. QED  BY <1>1, <1>2, <1>3, <1>6, <2>5, RowFound
<1>7. CASE \E t \in MappedBy(R) : Below(t, s, query.p, o)
  <2>1. PICK t \in MappedBy(R) : Below(t, s, query.p, o)
    BY <1>7
  <2>2. PICK i \in DOMAIN mapping : \E row \in R[i] : t = <<Subject(i, row), mapping[i].pred, Object(i, row)>>
    BY MappedCases
  <2>. QED  BY <1>5, <2>1, <2>2 DEF Below
<1>8. CASE \E t \in facts : Below(t, s, query.p, o)
  <2>1. PICK t \in facts : Below(t, s, query.p, o)
    BY <1>8
  <2>2. t \in Candidates(t)
    BY CandidateCases
  <2>. QED  BY <1>4, <2>1, <2>2 DEF Below
<1>9. CASE \E t \in facts : \E i \in Inverses(t[2]) : Below(<<t[3], i, t[1]>>, s, query.p, o)
  <2>1. PICK f \in facts : \E i \in Inverses(f[2]) : Below(<<f[3], i, f[1]>>, s, query.p, o)
    BY <1>9
  <2>2. PICK i \in Inverses(f[2]) : Below(<<f[3], i, f[1]>>, s, query.p, o)
    BY <2>1
  <2>3. <<f[3], i, f[1]>> \in Candidates(f)
    BY CandidateCases
  <2>. QED  BY <1>4, <2>2, <2>3 DEF Below
<1>10. CASE /\ \A i \in DOMAIN mapping : mapping[i].pred # query.p
            /\ \E t \in MappedBy(R) : \E i \in Inverses(query.p) : Below(<<t[3], t[2], t[1]>>, s, i, o)
  <2>1. PICK t \in MappedBy(R) : \E i \in Inverses(query.p) : Below(<<t[3], t[2], t[1]>>, s, i, o)
    BY <1>10
  <2>2. PICK other \in Inverses(query.p) : Below(<<t[3], t[2], t[1]>>, s, other, o)
    BY <2>1
  <2>3. PICK i \in DOMAIN mapping : \E row \in R[i] : t = <<Subject(i, row), mapping[i].pred, Object(i, row)>>
    BY MappedCases
  <2>. QED  BY <1>6, <1>10, <2>2, <2>3 DEF Below
<1>11. \/ \E t \in MappedBy(R) \cup facts : Below(t, s, query.p, o)
       \/ \E t \in facts : \E i \in Inverses(t[2]) : Below(<<t[3], i, t[1]>>, s, query.p, o)
       \/ /\ \A i \in DOMAIN mapping : mapping[i].pred # query.p
          /\ \E t \in MappedBy(R) : \E i \in Inverses(query.p) : Below(<<t[3], t[2], t[1]>>, s, i, o)
  BY DEF CoversProperty
<1>. QED  BY <1>7, <1>8, <1>9, <1>10, <1>11

\* A triple that follows, by what the rewriting covers, from the facts and from rows
\* that were there all the time is never missing from the answers.
THEOREM NothingIsMissing == Spec => []NothingMissing
<1>1. ASSUME IInv PROVE NothingMissing
  <2>. SUFFICES ASSUME status \in {"done", "untranslatable"}, ~RuleForAnother,
                       NEW at \in [QueryVars -> Terms \cup Predicates],
                       Instance(at) \in Terms \X Predicates \X Terms,
                       Covers(MappedBy(always), Instance(at))
                PROVE  \E a \in answers : a.at = at
    BY DEF NothingMissing
  <2>1. InputsAsConfigured /\ \A i \in DOMAIN mapping : always[i] \subseteq Rows
    BY <1>1 DEF IInv, TypeOK
  <2>2. \E b \in RowSolutions(Planned, always) \cup FactSolutions : WithoutAux(b).at = at
    <3>1. PICK t \in Terms \X Predicates \X Terms : Instance(at) = t /\ t = <<t[1], t[2], t[3]>>
      OBVIOUS
    <3>2. /\ query.p \notin Vars => query.p = t[2]
          /\ ~IsVar(query.o) => query.o = t[3]
      BY <2>1, <3>1, AskedFor
    <3>3. Covers(MappedBy(always), t)
      BY <3>1
    <3>4. CASE IsVar(query.p) \/ (t[2] = Type /\ IsVar(query.o))
      BY <2>1, <3>1, <3>3, <3>4, StatedFound DEF Covers
    <3>5. CASE ~IsVar(query.p) /\ ~IsVar(query.o) /\ t[2] = Type
      <4>1. query.p = Type
        BY <3>2, <3>5 DEF IsVar
      <4>2. CoversType(MappedBy(always), t[1], query.o) /\ Instance(at) = <<t[1], Type, query.o>>
        BY <3>1, <3>2, <3>3, <3>5 DEF Covers
      <4>. QED  BY <2>1, <3>5, <4>1, <4>2, TypeFound
    <3>6. CASE ~IsVar(query.p) /\ t[2] # Type
      <4>1. query.p = t[2] /\ query.p \in Properties
        BY <3>1, <3>2, <3>6 DEF IsVar, Predicates
      <4>2. CoversProperty(MappedBy(always), t[1], query.p, t[3]) /\ Instance(at) = <<t[1], query.p, t[3]>>
        BY <3>1, <3>3, <3>6, <4>1 DEF Covers
      <4>. QED  BY <2>1, <4>1, <4>2, PropertyFound
    <3>. QED  BY <3>4, <3>5, <3>6
  <2>3. PICK b \in RowSolutions(Planned, always) \cup FactSolutions : WithoutAux(b).at = at
    BY <2>2
  <2>4. status = "done"
    <3>. SUFFICES ASSUME status = "untranslatable" PROVE FALSE
      OBVIOUS
    <3>1. Planned = {} /\ facts = {}
      BY <1>1 DEF IInv, AnswersDerived
    <3>2. RowSolutions(Planned, always) = {} /\ FactSolutions = {}
      BY <3>1, RowSolutionCases, FactSolutionCases
    <3>. QED  BY <3>2
  <2>5. PICK a \in answers : SameSolution(a, WithoutAux(b))
    BY <1>1, <2>4 DEF IInv, AnswersDerived
  <2>. QED  BY <2>3, <2>5 DEF SameSolution
<1>. QED  BY <1>1, InvariantHolds, PTL
=============================================================================
