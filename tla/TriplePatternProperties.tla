----------------------- MODULE TriplePatternProperties -----------------------
(***************************************************************************)
(* What the answers to a triple pattern must be: sound for the RDFS        *)
(* entailment of mapping and facts, and complete for the part of it the    *)
(* rewriting is meant to cover, although the database changes meanwhile.   *)
(***************************************************************************)
EXTENDS TriplePattern, Reachability

QueryVars == {query.s, query.p, query.o} \cap Vars

\* The answers of a pattern bind exactly its variables; only while the plans
\* run is there an auxiliary one.
TypeOK ==
    /\ status \in {"rewriting", "running", "done", "failed", "untranslatable"}
    /\ updates \in 0..MaxUpdates
    /\ {rows, ever, always} \subseteq [DOMAIN mapping -> SUBSET Rows]
    /\ \A plan \in plans :
          plan.rule \in DOMAIN mapping /\ {plan.s, plan.o} \subseteq Terms \cup Vars \cup {Aux}
    /\ \A a \in answers :
          /\ a.at \in [DOMAIN a.at -> Terms \cup Predicates]
          /\ a.marked \subseteq DOMAIN a.at
          /\ DOMAIN a.at \ {Aux} = QueryVars
          /\ status = "done" => Aux \notin DOMAIN a.at

-----------------------------------------------------------------------------
(* Entailment, by chains of properties each read forwards or backwards.      *)

MappedBy(R) ==
    UNION {{<<Subject(i, row), mapping[i].pred, Object(i, row)>> : row \in R[i]} : i \in DOMAIN mapping}

Directed == Properties \X {"along", "against"}
Opposite(d) == IF d = "along" THEN "against" ELSE "along"
Steps ==
    {<<<<e[1], d>>, <<e[2], d>>>> : e \in superproperty, d \in {"along", "against"}}
        \cup {<<<<e[1], d>>, <<e[2], Opposite(d)>>>> : e \in inverse, d \in {"along", "against"}}

EntailsProperty(T, s, p, o) ==
    \E t \in T : t[2] \in Properties /\
        \/ t[1] = s /\ t[3] = o /\ Reaches(Steps, Directed, <<t[2], "along">>, <<p, "along">>)
        \/ t[1] = o /\ t[3] = s /\ Reaches(Steps, Directed, <<t[2], "along">>, <<p, "against">>)

EntailsType(T, x, c) ==
    \E d \in Subclasses(c) :
        \/ <<x, Type, d>> \in T
        \/ \E e \in domain : e[2] = d /\ \E y \in Terms : EntailsProperty(T, x, e[1], y)
        \/ \E e \in range : e[2] = d /\ \E y \in Terms : EntailsProperty(T, y, e[1], x)

Entails(T, t) == IF t[2] = Type THEN EntailsType(T, t[1], t[3]) ELSE EntailsProperty(T, t[1], t[2], t[3])

Value(at, token) == IF token \in Vars THEN at[token] ELSE token
Instance(at) == <<Value(at, query.s), Value(at, query.p), Value(at, query.o)>>

\* Every answer instantiates the pattern to a triple that follows from facts and
\* rows a statement of this query could see, whatever changed in between. Where
\* subject and object are both constants the statements compare one of them only,
\* and where they are the same variable neither.
AnswersEntailed ==
    status = "done" =>
        \A a \in answers :
            LET triples == MappedBy(ever) \cup facts
                asked == Instance(a.at)
            IN  \/ Entails(triples, asked)
                \/ /\ {query.s, query.o} \cap Vars = {} \/ query.s = query.o
                   /\ \E any \in Terms : Entails(triples, <<asked[1], asked[2], any>>)
                                      \/ Entails(triples, <<any, asked[2], asked[3]>>)

-----------------------------------------------------------------------------
(* What the rewriting is meant to cover (lib.rs:396-397, 418-424, 515-550,   *)
(* ontology.rs:105-107, 136-137): hierarchies and domains for both mapping   *)
(* and facts, inverses for facts and for properties without a rule.          *)

Below(t, s, p, o) == t[1] = s /\ t[3] = o /\ Loaded!IsSubpropertyOf(t[2], p)

CoversProperty(M, s, p, o) ==
    \/ \E t \in M \cup facts : Below(t, s, p, o)
    \/ \E t \in facts : \E i \in Inverses(t[2]) : Below(<<t[3], i, t[1]>>, s, p, o)
    \/ /\ \A i \in DOMAIN mapping : mapping[i].pred # p
       /\ \E t \in M : \E i \in Inverses(p) : Below(<<t[3], t[2], t[1]>>, s, i, o)

CoversType(M, x, c) ==
    \E d \in Subclasses(c) :
        \/ <<x, Type, d>> \in M \cup facts
        \/ \E t \in facts \cup (IF IsVar(query.s) THEN M ELSE {}) : t[2] \in Properties /\
              \/ t[1] = x /\ d \in Loaded!InferredTypes(t[2], domain)
              \/ t[3] = x /\ d \in Loaded!InferredTypes(t[2], range)

Covers(M, t) ==
    IF IsVar(query.p) \/ (t[2] = Type /\ IsVar(query.o)) THEN t \in M \cup facts
    ELSE IF t[2] = Type THEN CoversType(M, t[1], t[3])
    ELSE CoversProperty(M, t[1], t[2], t[3])

\* A rule for another resource makes the rewriting of its property fail.
RuleForAnother ==
    \E term \in {query.s, query.o} \cap Terms : \E i \in DOMAIN mapping : mapping[i].subject \notin {Template, term}

\* A triple that follows, by what the rewriting covers, from the facts and from
\* rows that were there all the time is never missing from the answers; least
\* of all is its pattern called untranslatable.
NothingMissing ==
    status \in {"done", "untranslatable"} /\ ~RuleForAnother =>
        \A at \in [QueryVars -> Terms \cup Predicates] :
            /\ Instance(at) \in Terms \X Predicates \X Terms
            /\ Covers(MappedBy(always), Instance(at))
            => \E a \in answers : a.at = at

\* However many mapping rows, subclasses, domains and ranges make a resource a
\* member of a class, it is answered once (lib.rs:714-715).
TypesAnsweredOnce ==
    status = "done" /\ query.p = Type /\ facts = {} =>
        \A a, b \in answers : a.at = b.at => a = b
-----------------------------------------------------------------------------
(* The inductive invariant behind them.                                      *)

InputsAsConfigured ==
    /\ mapping \in Mappings /\ facts \in FactSets /\ query \in Queries
    /\ [superclass |-> superclass, superproperty |-> superproperty, domain |-> domain,
        range |-> range, inverse |-> inverse] \in TBoxes

Planned == Rewrite(query) \cup TypePlans(query)

\* What these plans make of these rows.
RowSolutions(planned, R) ==
    UNION {{Solution(plan, row) : row \in {row \in R[plan.rule] : Fits(plan, row)}} : plan \in planned}

\* The rows of the moment are between those always there and those ever there,
\* and so is what the statements make of them.
HistoryOrdered ==
    \A i \in DOMAIN mapping : always[i] \subseteq rows[i] /\ rows[i] \subseteq ever[i]

AnswersDerived ==
    LET planned == Planned
    IN  /\ plans \subseteq planned
        /\ status \in {"rewriting", "untranslatable"} => plans = {} /\ answers = {}
        /\ status = "untranslatable" => planned = {} /\ facts = {}
        /\ status = "failed" => answers = {}
        /\ status = "running" =>
              /\ answers \subseteq RowSolutions(planned, ever)
              /\ RowSolutions(planned \ plans, always) \subseteq answers
        /\ status = "done" =>
              /\ \A a \in answers :
                    \E b \in RowSolutions(planned, ever) \cup FactSolutions : a = WithoutAux(b)
              /\ \A b \in RowSolutions(planned, always) \cup FactSolutions :
                    \E a \in answers : SameSolution(a, WithoutAux(b))

IInv == TypeOK /\ InputsAsConfigured /\ HistoryOrdered /\ AnswersDerived /\ TypesAnsweredOnce
=============================================================================
