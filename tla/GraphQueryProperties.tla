------------------------ MODULE GraphQueryProperties ------------------------
(* When handing solutions down gives what SPARQL says. It cannot always: a    *)
(* pattern that is handed a solution may take notice of a variable it would   *)
(* not see on its own. SelfContained says that it does not.                   *)
EXTENDS GraphQuery

-----------------------------------------------------------------------------
(* Variables of patterns.                                                    *)

FilterVariables(filters) == {f.variable : f \in ToSet(filters)}

\* All a pattern could take notice of.
RECURSIVE Mentioned(_)
Mentioned(p) ==
    CASE p.op \in {"Join", "LeftJoin", "Minus", "Union"} -> Mentioned(p.left) \cup Mentioned(p.right)
      [] p.op = "Filter" -> Mentioned(p.pattern) \cup FilterVariables(p.filters)
      [] p.op = "Exists" -> Mentioned(p.pattern) \cup Mentioned(p.exists)
      [] p.op = "Bind" -> Mentioned(p.pattern) \cup {p.source, p.alias}
      [] p.op = "Scoped" -> Mentioned(p.pattern)
      [] OTHER -> AllVariables(p)

\* The variables every solution binds.
RECURSIVE Certain(_)
Certain(p) ==
    CASE p.op \in {"Empty", "Bgp", "ZeroOrMorePath", "ZeroLengthPath"} -> AllVariables(p)
      [] p.op = "Join" -> Certain(p.left) \cup Certain(p.right)
      [] p.op \in {"LeftJoin", "Minus"} -> Certain(p.left)
      [] p.op = "Union" -> Certain(p.left) \cap Certain(p.right)
      [] p.op = "Subquery" -> Certain(p.pattern) \cap p.selection.keep
      [] p.op = "Values" -> {v \in Variables : \A row \in ToSet(p.rows) : Bound(row, v)}
      [] p.op = "Bind" -> Certain(p.pattern) \cup {v \in {p.alias} : p.source \in Certain(p.pattern)}
      [] p.op \in {"Scoped", "Filter", "Exists"} -> Certain(p.pattern)

-----------------------------------------------------------------------------
(* Patterns that answer a solution as they answer without it, joined with it. *)

Body(p) == IF p.op = "Filter" THEN p.pattern ELSE p
OwnFilters(p) == IF p.op = "Filter" THEN FilterVariables(p.filters) ELSE {}

\* passed: the variables that the solutions handed to p may bind.
RECURSIVE SelfContained(_, _)

\* The filters of an OPTIONAL may see what it is optional to, but for one that
\* begins with an OPTIONAL itself, which is evaluated on its own.
OptionalContained(left, right, passed) ==
    LET nested == NestedOptional(right)
        around == passed \cup AllVariables(left)
    IN  IF nested.isolated
        THEN /\ SelfContained(right, around \cap nested.visible)
             /\ OwnFilters(right) \cap around \subseteq Certain(Body(right))
        ELSE /\ SelfContained(Body(right), around)
             /\ OwnFilters(right) \cap passed \subseteq Certain(left) \cup Certain(Body(right))

SelfContained(p, passed) ==
    CASE p.op \in {"Empty", "Bgp", "ZeroOrMorePath", "ZeroLengthPath", "Values"} -> TRUE
      [] p.op = "Join" ->
            SelfContained(p.left, passed) /\ SelfContained(p.right, passed \cup AllVariables(p.left))
      [] p.op = "LeftJoin" ->
            /\ SelfContained(p.left, passed)
            /\ Mentioned(p.right) \cap passed \subseteq Certain(p.left)
            /\ OptionalContained(p.left, p.right, passed)
      [] p.op = "Minus" ->
            /\ SelfContained(p.left, passed) /\ SelfContained(p.right, passed)
            /\ Mentioned(p.right) \cap passed \subseteq Certain(p.left)
            /\ passed # {} => Certain(p.left) \cap Certain(p.right) # {}
      \* A UNION forgets the aliases of its branches.
      [] p.op = "Union" ->
            /\ SelfContained(p.left, passed) /\ SelfContained(p.right, passed)
            /\ BindVariables(p) = {}
      [] p.op = "Subquery" -> SelfContained(p.pattern, {})
      [] p.op = "Bind" ->
            /\ SelfContained(p.pattern, passed)
            /\ p.alias \notin passed
            /\ p.source \in passed => p.source \in Certain(p.pattern)
      [] p.op = "Scoped" -> SelfContained(p.pattern, passed \ p.hidden)
      [] p.op = "Filter" ->
            /\ SelfContained(p.pattern, passed)
            /\ OwnFilters(p) \cap passed \subseteq Certain(p.pattern)
      [] p.op = "Exists" ->
            /\ SelfContained(p.pattern, passed)
            /\ Mentioned(p.exists) \cap passed \subseteq Certain(p.pattern)

\* What the EXISTS read so far in a group test that is not bound yet.
RECURSIVE Untested(_)
Untested(p) ==
    CASE p.op \in {"Join", "LeftJoin", "Minus"} -> Untested(p.left)
      [] p.op = "Bind" -> Untested(p.pattern)
      [] p.op = "Exists" -> Untested(p.pattern) \cup (Mentioned(p.exists) \ Certain(p.pattern))
      [] OTHER -> {}

\* Every EXISTS stands after what binds the variables it tests.
RECURSIVE ExistsLast(_)
ExistsLast(p) ==
    CASE p.op \in {"Join", "LeftJoin", "Minus", "Union"} ->
            /\ ExistsLast(p.left) /\ ExistsLast(p.right)
            /\ p.op = "Join" \/ p.op = "LeftJoin" => Untested(p.left) \cap AllVariables(p.right) = {}
      [] p.op = "Bind" -> ExistsLast(p.pattern) /\ p.alias \notin Untested(p.pattern)
      [] p.op \in {"Scoped", "Filter", "Exists", "Subquery"} -> ExistsLast(p.pattern)
      [] OTHER -> TRUE

\* How often a name stands for the middle of a path.
RECURSIVE Uses(_, _)
Uses(p, name) ==
    CASE p.op = "Bgp" -> Cardinality({t \in ToSet(p.triples) : t.o = name})
      [] p.op \in {"Join", "LeftJoin", "Minus", "Union"} -> Uses(p.left, name) + Uses(p.right, name)
      [] p.op \in {"Bind", "Scoped", "Filter", "Subquery"} -> Uses(p.pattern, name)
      [] p.op = "Exists" -> Uses(p.pattern, name) + Uses(p.exists, name)
      [] OTHER -> 0

NamesUsedOnce(p) == \A name \in PathVariables : Uses(p, name) <= 1

-----------------------------------------------------------------------------
(* Predicates without a rule.                                                *)

\* Patterns that fail to be translated, wherever it is noticed.
RECURSIVE Faulty(_)
Faulty(p) ==
    CASE p.op = "Bgp" -> \E t \in ToSet(p.triples) : Untranslatable(t)
      [] p.op = "ZeroOrMorePath" -> Untranslatable(p.triple)
      [] p.op = "ZeroLengthPath" -> dataset.virtual
      [] p.op \in {"Join", "Union"} -> Faulty(p.left) \/ Faulty(p.right)
      [] p.op \in {"LeftJoin", "Minus"} -> Faulty(p.left)
      [] p.op \in {"Bind", "Scoped", "Filter", "Exists", "Subquery"} -> Faulty(p.pattern)
      [] OTHER -> FALSE

\* Faulty though not all of it is required.
RECURSIVE PartlyFaulty(_)
PartlyFaulty(p) ==
    CASE p.op \in {"ZeroLengthPath", "ZeroOrMorePath"} -> Faulty(p)
      [] p.op = "Union" -> Faulty(p) \/ PartlyFaulty(p.left) \/ PartlyFaulty(p.right)
      [] p.op \in {"Join", "LeftJoin", "Minus"} -> PartlyFaulty(p.left) \/ PartlyFaulty(p.right)
      [] p.op = "Exists" -> PartlyFaulty(p.pattern) \/ PartlyFaulty(p.exists)
      [] p.op \in {"Bind", "Scoped", "Filter", "Subquery"} -> PartlyFaulty(p.pattern)
      [] OTHER -> FALSE

-----------------------------------------------------------------------------
(* Properties.                                                               *)

Query == Finished(groups[1])
Expected ==
    Algebra!Image(Algebra!Meaning(meaning[1]), LAMBDA s : Hide(s, PathVariables))
Agrees == ToBag(answer.rows) = Expected

Answered == answer.status = "answered"

\* A query whose patterns take no notice of what they are handed, and that tests
\* EXISTS last and has a name of its own for every path, is answered with the
\* solutions SPARQL gives it, each as many times: whatever the order in which
\* its triples are joined, and whatever OPTIONAL, UNION, MINUS, VALUES, BIND,
\* sub-SELECT, filter and path it is nested from (evaluate_graph_pattern).
AnswersAreSolutions ==
    Answered /\ SelfContained(Query, {}) /\ ExistsLast(Query) /\ NamesUsedOnce(Query)
             /\ ~PartlyFaulty(Query)
        => Agrees

\* A predicate without a rule makes a query fail only where it is required: in
\* the optional side of OPTIONAL, in MINUS or in EXISTS it stands for no triples
\* (the arms of evaluate_graph_pattern that drop NotFullyTranslatable).
FailureIsRequired ==
    answer.status = "failed" /\ Len(groups) = 1 => Faulty(Query)
=============================================================================
