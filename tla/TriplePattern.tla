--------------------------- MODULE TriplePattern ---------------------------
(***************************************************************************)
(* Answering one triple pattern in the default graph: select in            *)
(* src/src/lib.rs with the rewriting of src/src/mapping.rs. The pattern is *)
(* rewritten along the ontology into plans, one SQL statement each; the    *)
(* statements run one after the other, outside any transaction, so that    *)
(* rows may come and go between them; static facts are added in memory.    *)
(*                                                                         *)
(* A mapping rule [pred, subject, object] turns a row of its source, the   *)
(* pair of terms its templates produce, into a triple; a constant in the   *)
(* place of a template produces itself. Terms are resources.               *)
(***************************************************************************)
EXTENDS Naturals, Sequences

CONSTANTS
    Individuals, Classes, Properties,
    Type,           \* rdf:type
    Vars,           \* SPARQL variables
    Aux,            \* the variable domain and range plans project besides
    Template,       \* a subject or object a rule computes from the row
    Mappings,       \* the mappings there may be: sequences of rules
    FactSets,       \* the static facts there may be: sets of triples
    TBoxes,         \* the loaded ontologies there may be
    Queries,        \* the patterns [s, p, o] asked
    Rows,           \* the rows a source may hold
    MaxUpdates      \* bound: changes of the database while a query runs

Terms == Individuals \cup Classes
Predicates == Properties \cup {Type}

ASSUME PatternAssumption ==
    /\ Mappings \subseteq Seq([pred : Predicates, subject : Terms \cup {Template},
                               object : Terms \cup {Template}])
    /\ FactSets \subseteq SUBSET (Terms \X Predicates \X Terms)
    /\ Queries \subseteq [s : Terms \cup Vars, p : Predicates \cup Vars, o : Terms \cup Vars]
    /\ \A q \in Queries : q.p \in Vars => q.p \notin {q.s, q.o}
    /\ Rows \subseteq Terms \X Terms
    /\ Aux \notin Vars /\ (Vars \cup {Aux}) \cap (Terms \cup Predicates) = {}
    /\ Type \notin Properties
    /\ MaxUpdates \in Nat

\* What the loader makes of ontologies that say nothing of rdf:type itself.
ASSUME TBoxAssumption ==
    /\ TBoxes \subseteq [superclass : SUBSET (Classes \X Classes),
                         superproperty : SUBSET (Properties \X Properties),
                         domain : SUBSET (Properties \X Classes),
                         range : SUBSET (Properties \X Classes),
                         inverse : SUBSET (Properties \X Properties)]
    /\ \A tbox \in TBoxes : \A e \in tbox.inverse : <<e[2], e[1]>> \in tbox.inverse

VARIABLES
    mapping,
    facts,          \* of the facts file and of the ontology file
    hasFactsInput,  \* a facts file is configured
    superclass, superproperty, domain, range, inverse,    \* the loaded ontology
    query,
    rows,           \* what the source of each rule holds
    updates,        \* changes of it since the query began
    status,
    plans,          \* plans not run yet
    answers,        \* the solutions so far, each with what it was derived from
    ever, always    \* history: rows a statement could see, rows every one could

inputs == <<mapping, facts, hasFactsInput, superclass, superproperty, domain, range, inverse, query>>
history == <<ever, always>>
vars == <<inputs, rows, updates, status, plans, answers, history>>

\* The hierarchies are those of the loader, asked with its operators.
Loaded == INSTANCE Ontology WITH
    Properties <- Predicates, Files <- {"ontology"}, Root <- "ontology", Unmapped <- "none",
    Contents <- {}, GivenFacts <- {},
    content <- <<>>, broken <- {}, given <- {}, status <- "accepted", stack <- <<>>,
    visited <- {}, disjoint <- {}, facts <- <<>>, declared <- superclass

Init ==
    /\ mapping \in Mappings /\ facts \in FactSets /\ query \in Queries
    /\ hasFactsInput \in {b \in BOOLEAN : facts # {} => b}
    /\ \E tbox \in TBoxes :
          /\ superclass = tbox.superclass /\ superproperty = tbox.superproperty
          /\ domain = tbox.domain /\ range = tbox.range /\ inverse = tbox.inverse
    /\ rows \in [DOMAIN mapping -> SUBSET Rows]
    /\ updates = 0
    /\ status = "rewriting"
    /\ plans = {} /\ answers = {}
    /\ ever = rows /\ always = rows

IsVar(token) == token \in Vars \cup {Aux}

-----------------------------------------------------------------------------
(* Mapping::reformulate.                                                     *)

MatchingRules(q) ==
    {i \in DOMAIN mapping : /\ mapping[i].pred = q.p
                            /\ IsVar(q.o) \/ mapping[i].object \in {q.o, Template}}

\* One rule with another constant subject makes the whole rewriting fail.
Translatable(q) ==
    /\ MatchingRules(q) # {}
    /\ \A i \in MatchingRules(q) : IsVar(q.s) \/ mapping[i].subject \in {q.s, Template}

\* A plan projects the variables of the pattern as rewritten. origin tells the
\* plans of one rule apart that a variable predicate makes.
PlansFor(q, origin) ==
    IF Translatable(q)
    THEN {[rule |-> i, s |-> q.s, o |-> q.o, origin |-> origin] : i \in MatchingRules(q)}
    ELSE {}

Subclasses(c) == {c} \cup {d \in Classes : Loaded!IsSubclassOf(d, c)}
Subproperties(p) == {q \in Properties : Loaded!IsSubpropertyOf(q, p)}
Inverses(p) == {e[2] : e \in {e \in inverse : e[1] = p}}

\* Fault: a property that has rules of its own is not expanded.
RewriteDirectOnly(q) ==
    CASE q.p \in Vars -> UNION {PlansFor([q EXCEPT !.p = mapping[i].pred], i) : i \in DOMAIN mapping}
      [] q.p = Type /\ ~IsVar(q.o) -> UNION {PlansFor([q EXCEPT !.o = c], 0) : c \in Subclasses(q.o)}
      [] q.p = Type /\ IsVar(q.o) -> PlansFor(q, 0)
      [] q.p \in Properties ->
            IF Translatable(q) THEN PlansFor(q, 0)
            ELSE UNION {PlansFor([q EXCEPT !.p = p], 0) : p \in Subproperties(q.p)}

\* A class with its subclasses, a property with its subproperties, and, only
\* where the property has no rule itself, what is stated of its inverse. Every
\* rule contributes its predicate to a variable one, with all rules of it.
Rewrite(q) ==
    CASE q.p \in Vars -> UNION {PlansFor([q EXCEPT !.p = mapping[i].pred], i) : i \in DOMAIN mapping}
      [] q.p = Type /\ ~IsVar(q.o) -> UNION {PlansFor([q EXCEPT !.o = c], 0) : c \in Subclasses(q.o)}
      [] q.p = Type /\ IsVar(q.o) -> PlansFor(q, 0)
      [] q.p \in Properties ->
            (UNION {PlansFor([q EXCEPT !.p = p], 0) : p \in Subproperties(q.p)})
            \cup (IF Translatable(q) THEN {}
                  ELSE UNION {PlansFor([s |-> q.o, p |-> p, o |-> q.s], 0) :
                                 p \in UNION {Subproperties(i) : i \in Inverses(q.p)}})

\* The properties whose assertion makes the subject sought a q.o.
TypePlans(q) ==
    IF q.p = Type /\ ~IsVar(q.o) /\ IsVar(q.s)
    THEN (UNION {PlansFor([s |-> q.s, p |-> p, o |-> Aux], 0) :
                     p \in Loaded!PropertiesAssertingType(q.o, domain)})
         \cup (UNION {PlansFor([s |-> Aux, p |-> p, o |-> q.s], 0) :
                     p \in Loaded!PropertiesAssertingType(q.o, range)})
    ELSE {}

Plan ==
    /\ status = "rewriting"
    /\ plans' = Rewrite(query) \cup TypePlans(query)
    /\ status' = IF plans' = {} /\ ~hasFactsInput /\ facts = {} THEN "untranslatable" ELSE "running"
    /\ UNCHANGED <<inputs, rows, updates, answers, history>>

-----------------------------------------------------------------------------
(* The statement of a plan.                                                  *)

TermOf(constant, value) == IF constant = Template THEN value ELSE constant
Subject(i, row) == TermOf(mapping[i].subject, row[1])
Object(i, row) == TermOf(mapping[i].object, row[2])

\* Fault: the subject is not compared with the constant asked for.
SelectedAnySubject(plan) ==
    {row \in rows[plan.rule] : IsVar(plan.o) \/ ~IsVar(plan.s) \/ Object(plan.rule, row) = plan.o}

\* WHERE: a constant subject is compared, a constant object only when the
\* subject is a variable.
Fits(plan, row) ==
    /\ IsVar(plan.s) \/ Subject(plan.rule, row) = plan.s
    /\ IsVar(plan.o) \/ ~IsVar(plan.s) \/ Object(plan.rule, row) = plan.o

Selected(plan) == {row \in rows[plan.rule] : Fits(plan, row)}

\* The columns are bound in order: of a variable in both places the object is
\* kept. Mapping variables are marked, the predicate variable is not.
Bound(plan) == {v \in {plan.s, plan.o} : IsVar(v)}
Solution(plan, row) ==
    [at |-> [v \in Bound(plan) \cup ({query.p} \cap Vars) |->
                IF v \notin Bound(plan) THEN mapping[plan.rule].pred
                ELSE IF v = plan.o THEN Object(plan.rule, row) ELSE Subject(plan.rule, row)],
     marked |-> Bound(plan),
     by |-> <<"row", plan, row>>]

RunPlan ==
    /\ status = "running"
    /\ \E plan \in plans :
          /\ plans' = plans \ {plan}
          /\ answers' = answers \cup {Solution(plan, row) : row \in Selected(plan)}
    /\ UNCHANGED <<inputs, rows, updates, status, history>>

SourceFails ==
    /\ status = "running" /\ plans # {}
    /\ status' = "failed" /\ answers' = {}
    /\ UNCHANGED <<inputs, rows, updates, plans, history>>

\* Another client of the database adds or removes a row.
Update ==
    /\ status = "running" /\ updates < MaxUpdates
    /\ \E i \in DOMAIN mapping, row \in Rows :
          rows' = [rows EXCEPT ![i] = IF row \in @ THEN @ \ {row} ELSE @ \cup {row}]
    /\ ever' = [i \in DOMAIN mapping |-> ever[i] \cup rows'[i]]
    /\ always' = [i \in DOMAIN mapping |-> always[i] \cap rows'[i]]
    /\ updates' = updates + 1
    /\ UNCHANGED <<inputs, status, plans, answers>>

-----------------------------------------------------------------------------
(* The facts, and the end of select.                                         *)

\* A fact, its inverses and, when a type is sought, the types it gives.
Candidates(f) ==
    {f} \cup {<<f[3], p, f[1]>> : p \in Inverses(f[2])}
        \cup IF query.p # Type THEN {}
             ELSE {<<f[1], Type, c>> : c \in Loaded!InferredTypes(f[2], domain)}
                  \cup {<<f[3], Type, c>> : c \in Loaded!InferredTypes(f[2], range)}

\* fact_matches, fact_binding
Agrees(token, term) == IsVar(token) \/ token = term
FactMatches(t) ==
    /\ query.p \in Vars \/ Loaded!IsSubpropertyOf(t[2], query.p)
    /\ Agrees(query.s, t[1])
    /\ Agrees(query.o, t[3]) \/ (t[2] = Type /\ t[3] \in Subclasses(query.o))
    /\ query.s = query.o /\ IsVar(query.s) => t[1] = t[3]

FactSolution(f, t) ==
    [at |-> [v \in {query.s, query.p, query.o} \cap Vars |->
                IF v = query.s THEN t[1] ELSE IF v = query.o THEN t[3] ELSE t[2]],
     marked |-> {},
     by |-> <<"fact", f, t>>]

FactSolutions == UNION {{FactSolution(f, t) : t \in {t \in Candidates(f) : FactMatches(t)}} : f \in facts}

\* Fault: the auxiliary variable stays in the solution.
WithoutAuxKept(a) == a

\* Fault: its value is dropped, its mark is not.
WithoutAuxMarked(a) == [at |-> [v \in DOMAIN a.at \ {Aux} |-> a.at[v]], marked |-> a.marked, by |-> a.by]

WithoutAux(a) ==
    [at |-> [v \in DOMAIN a.at \ {Aux} |-> a.at[v]], marked |-> a.marked \ {Aux}, by |-> a.by]

SameSolution(a, b) == a.at = b.at /\ a.marked = b.marked

\* The one that is kept of solutions that are the same.
Kept(same) == CHOOSE a \in same : TRUE

\* Class assertions, and patterns of variables only, are answered as a set.
Finish ==
    /\ status = "running" /\ plans = {}
    /\ status' = "done"
    /\ LET all == {WithoutAux(a) : a \in answers \cup FactSolutions}
       IN  answers' = IF query.p = Type \/ {query.s, query.p, query.o} \subseteq Vars
                      THEN {Kept({b \in all : SameSolution(a, b)}) : a \in all}
                      ELSE all
    /\ UNCHANGED <<inputs, rows, updates, plans, history>>

Answered ==
    /\ status \in {"done", "failed", "untranslatable"}
    /\ UNCHANGED vars

Next == Plan \/ RunPlan \/ SourceFails \/ Update \/ Finish \/ Answered

Spec == Init /\ [][Next]_vars
=============================================================================
