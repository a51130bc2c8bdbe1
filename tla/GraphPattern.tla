---------------------------- MODULE GraphPattern ----------------------------
(***************************************************************************)
(* The text of a SELECT * query read group by group into a graph pattern   *)
(* (parse_group_content in src/src/sparql.rs) and the pattern evaluated    *)
(* (evaluate_graph_pattern in src/src/lib.rs). Evaluation passes solutions *)
(* down: a pattern is given the solutions found so far and extends them.   *)
(*                                                                         *)
(* groups is the stack of groups whose closing brace has not been read.    *)
(* The triples of one predicate are rows; those of TriplePattern are not   *)
(* taken apart again here.                                                 *)
(***************************************************************************)
EXTENDS Joins

CONSTANTS
    Middles,    \* the names the parser gives to the nodes inside paths, in order
    Datasets,   \* the data there may be: [rows, virtual], rows by predicate
    MaxGroups   \* bound: groups open at a time

PathVariables == ToSet(Middles)

VARIABLES dataset, groups, answer

vars == <<dataset, groups, answer>>

-----------------------------------------------------------------------------
(* Graph patterns.                                                           *)

Empty == [op |-> "Empty"]
Bgp(triples) == [op |-> "Bgp", triples |-> triples]
Binary(op, left, right) == [op |-> op, left |-> left, right |-> right]

\* join_graph_patterns
JoinOf(left, right) == IF left = Empty THEN right ELSE Binary("Join", left, right)

TripleVariables(t) == {t.s, t.o} \cap Variables

RECURSIVE BindVariables(_)
BindVariables(p) ==
    CASE p.op \in {"Empty", "Bgp", "ZeroOrMorePath", "ZeroLengthPath", "Values", "Subquery"} -> {}
      [] p.op \in {"Join", "LeftJoin", "Minus", "Union"} -> BindVariables(p.left) \cup BindVariables(p.right)
      [] p.op = "Bind" -> BindVariables(p.pattern) \cup {p.alias}
      [] p.op \in {"Scoped", "Filter", "Exists"} -> BindVariables(p.pattern)

\* graph_pattern_variables before the names inside paths are taken out.
RECURSIVE AllVariables(_)
AllVariables(p) ==
    CASE p.op = "Empty" -> {}
      [] p.op = "Bgp" -> UNION {TripleVariables(t) : t \in ToSet(p.triples)}
      [] p.op \in {"ZeroOrMorePath", "ZeroLengthPath"} -> TripleVariables(p.triple)
      [] p.op \in {"Join", "LeftJoin", "Minus"} -> AllVariables(p.left) \cup AllVariables(p.right)
      [] p.op = "Union" -> (AllVariables(p.left) \ BindVariables(p.left))
                           \cup (AllVariables(p.right) \ BindVariables(p.right))
      [] p.op = "Subquery" -> p.selection.keep
      [] p.op = "Values" -> {v \in Variables : \E row \in ToSet(p.rows) : Bound(row, v)}
      [] p.op = "Bind" -> AllVariables(p.pattern) \cup {p.alias}
      [] p.op \in {"Scoped", "Filter", "Exists"} -> AllVariables(p.pattern)

\* Fault: the names inside paths are taken for variables of the query.
VariablesWithPaths(p) == AllVariables(p)

PatternVariables(p) == AllVariables(p) \ PathVariables

\* property_path_to_graph_pattern: the triple with a path for predicate.
PathPattern(path, middle) ==
    LET triple(s, p, o) == [s |-> s, p |-> p, o |-> o]
        hop(s, p, o) == Bgp(<<triple(s, p, o)>>)
    IN  CASE path.path = "inverse" -> hop(path.o, path.p, path.s)
          [] path.path = "alternative" -> Binary("Union", hop(path.s, path.p, path.o), hop(path.s, path.q, path.o))
          [] path.path = "sequence" -> JoinOf(hop(path.s, path.p, middle), hop(middle, path.q, path.o))
          [] path.path = "closure" -> [op |-> "ZeroOrMorePath", triple |-> triple(path.s, path.p, path.o)]
          [] path.path = "zero" -> [op |-> "ZeroLengthPath", triple |-> triple(path.s, path.p, path.o)]

-----------------------------------------------------------------------------
\* The solutions that each of some rows makes, in their order.
Flatten(f(_), rows) == FlattenSeq([i \in DOMAIN rows |-> f(rows[i])])

-----------------------------------------------------------------------------
(* Triples and paths.                                                        *)

Stored(predicate) == IF predicate \in DOMAIN dataset.rows THEN dataset.rows[predicate] ELSE <<>>

\* Without facts, a predicate that no mapping rule has is an error.
Untranslatable(t) == dataset.virtual /\ t.p \notin DOMAIN dataset.rows

Fits(token, term) == token \in Variables \/ token = term

BindingOf(t, subject, object) ==
    [v \in Variables |-> IF v = t.s THEN subject ELSE IF v = t.o THEN object ELSE Unbound]

Select(t) ==
    LET matching == SelectSeq(Stored(t.p), LAMBDA row : Fits(t.s, row[1]) /\ Fits(t.o, row[2]))
    IN  [i \in DOMAIN matching |-> BindingOf(t, matching[i][1], matching[i][2])]

Nodes == UNION {{row[1], row[2]} : row \in UNION {ToSet(dataset.rows[p]) : p \in DOMAIN dataset.rows}}

\* The breadth-first search of close_zero_or_more_path.
RECURSIVE Explore(_, _, _)
Explore(edges, reachable, frontier) ==
    LET next == {e[2] : e \in {e \in edges : e[1] \in frontier}} \ reachable
    IN  IF next = {} THEN reachable ELSE Explore(edges, reachable \cup next, next)

ListOf(set) == FoldSet(LAMBDA x, list : Append(list, x), <<>>, set)

\* One solution for every two nodes, however many paths lead from one to the
\* other. bind_path_term binds a variable at both ends once.
PathSolutions(t, edges, nodes) ==
    {BindingOf(t, end[1], end[2]) :
        end \in {e \in nodes \X nodes : /\ e[2] \in Explore(edges, {e[1]}, {e[1]})
                                        /\ Fits(t.s, e[1]) /\ Fits(t.o, e[2])
                                        /\ t.s = t.o => e[1] = e[2]}}

SelectZeroOrMorePath(t) == ListOf(PathSolutions(t, ToSet(Stored(t.p)), Nodes))

\* A constant end is a node although no triple has it.
SelectZeroLengthPath(t) == ListOf(PathSolutions(t, {}, Nodes \cup ({t.s, t.o} \cap Terms)))

-----------------------------------------------------------------------------
(* Evaluation: rows, or NotFullyTranslatable.                                *)

Rows(rows) == [ok |-> TRUE, rows |-> rows]
Failed == [ok |-> FALSE, rows |-> <<>>]

Then(outcome, f(_)) == IF outcome.ok THEN f(outcome.rows) ELSE Failed

\* Every solution on its own, the outcomes one after the other.
ForEach(rows, f(_)) ==
    LET outcomes == [i \in DOMAIN rows |-> f(rows[i])]
    IN  IF \A i \in DOMAIN rows : outcomes[i].ok
        THEN Rows(Flatten(LAMBDA outcome : outcome.rows, outcomes))
        ELSE Failed

\* No rule for the predicate means no triples of it: the error is dropped.
OrEmpty(outcome) == outcome.rows

\* nested_optional_initial_variables: of an OPTIONAL that begins with an
\* OPTIONAL, the variables of what comes first, which are all it may see.
RECURSIVE NestedOptional(_)
NestedOptional(p) ==
    CASE p.op = "LeftJoin" -> [isolated |-> TRUE, visible |-> PatternVariables(p.left)]
      [] p.op \in {"Filter", "Bind", "Scoped"} -> NestedOptional(p.pattern)
      [] OTHER -> [isolated |-> FALSE, visible |-> Variables]

Project(rows, keep) == [i \in DOMAIN rows |-> Hide(rows[i], Variables \ keep)]

\* distinct_bindings keeps the first of equal solutions.
Distinct(rows) ==
    LET firsts == {i \in DOMAIN rows : \A j \in 1..i-1 : rows[j] # rows[i]}
    IN  FlattenSeq([i \in DOMAIN rows |-> IF i \in firsts THEN <<rows[i]>> ELSE <<>>])

Alias(solution, p) ==
    IF Bound(solution, p.source) THEN [solution EXCEPT ![p.alias] = solution[p.source]] ELSE solution

RECURSIVE Evaluate(_, _)

\* Fault: what cannot be translated makes the whole query fail.
OptionalStrict(left, p) ==
    Then(Evaluate(p, <<left>>), LAMBDA rows : Rows(IF rows = <<>> THEN <<left>> ELSE rows))

\* One solution of the left side of an OPTIONAL with what the right side adds.
Optional(left, p) ==
    LET nested == NestedOptional(p)
        rows == OrEmpty(Evaluate(p, <<Hide(left, Variables \ nested.visible)>>))
        extended == IF nested.isolated THEN Joined(left, rows) ELSE rows
    IN  Rows(IF extended = <<>> THEN <<left>> ELSE extended)

Excludes(right, left) ==
    /\ \E v \in Variables : Bound(left, v) /\ Bound(right, v)
    /\ Compatible(left, right)

SelectRows(p, rows) ==
    IF p.selection.distinct THEN Distinct(Project(rows, p.selection.keep)) ELSE Project(rows, p.selection.keep)

\* A nested group does not see the variables of the group around it.
Scoped(outer, p) ==
    Then(Evaluate(p.pattern, <<Hide(outer, p.hidden)>>), LAMBDA rows : Rows(Joined(outer, rows)))

Without(rows, p) == [i \in DOMAIN rows |-> Hide(rows[i], BindVariables(p))]

Evaluate(p, input) ==
    CASE p.op = "Empty" -> Rows(input)
      [] p.op = "Bgp" ->
            IF \E t \in ToSet(p.triples) : Untranslatable(t) THEN Failed
            ELSE Rows(JoinAll(input, [i \in DOMAIN p.triples |-> Select(p.triples[i])]))
      [] p.op = "ZeroOrMorePath" ->
            IF Untranslatable(p.triple) THEN Failed
            ELSE Rows(JoinRelations(input, SelectZeroOrMorePath(p.triple)))
      \* It asks for a predicate that no rule can have.
      [] p.op = "ZeroLengthPath" ->
            IF dataset.virtual THEN Failed
            ELSE Rows(JoinRelations(input, SelectZeroLengthPath(p.triple)))
      [] p.op = "Join" -> Then(Evaluate(p.left, input), LAMBDA rows : Evaluate(p.right, rows))
      [] p.op = "LeftJoin" ->
            Then(Evaluate(p.left, input), LAMBDA rows : ForEach(rows, LAMBDA row : Optional(row, p.right)))
      [] p.op = "Minus" ->
            Then(Evaluate(p.left, input),
                 LAMBDA rows : LET right == ToSet(OrEmpty(Evaluate(p.right, input)))
                               IN  Rows(SelectSeq(rows, LAMBDA row : ~\E r \in right : Excludes(r, row))))
      [] p.op = "Union" ->
            Then(Evaluate(p.left, input),
                 LAMBDA left : Then(Evaluate(p.right, input),
                                    LAMBDA right : Rows(Without(left, p.left) \o Without(right, p.right))))
      [] p.op = "Subquery" ->
            Then(Evaluate(p.pattern, <<NoBinding>>),
                 LAMBDA rows : Rows(Flatten(LAMBDA outer : Joined(outer, SelectRows(p, rows)), input)))
      [] p.op = "Values" -> Rows(Flatten(LAMBDA row : Joined(row, p.rows), input))
      [] p.op = "Bind" ->
            Then(Evaluate(p.pattern, input), LAMBDA rows : Rows([i \in DOMAIN rows |-> Alias(rows[i], p)]))
      [] p.op = "Scoped" -> ForEach(input, LAMBDA outer : Scoped(outer, p))
      [] p.op = "Filter" ->
            Then(Evaluate(p.pattern, input),
                 LAMBDA rows : Rows(SelectSeq(rows, LAMBDA row : \A f \in ToSet(p.filters) : MatchesFilter(row, f))))
      [] p.op = "Exists" ->
            Then(Evaluate(p.pattern, input),
                 LAMBDA rows : Rows(SelectSeq(rows,
                     LAMBDA row : (OrEmpty(Evaluate(p.exists, <<row>>)) # <<>>) # p.negated)))

-----------------------------------------------------------------------------
(* Reading the query.                                                        *)

\* operand: the group read last and its UNIONs so far, not joined yet.
NewGroup(opening) ==
    [opening |-> opening, current |-> Empty, operand |-> Empty, filters |-> <<>>, paths |-> 1]

Init ==
    /\ dataset \in Datasets
    /\ groups = <<NewGroup([kind |-> "query"])>>
    /\ answer = [status |-> "reading"]

Top == Last(groups)
Outer == groups[Len(groups) - 1]

Settled(group) ==
    [group EXCEPT !.current = IF group.operand = Empty THEN @ ELSE JoinOf(@, group.operand),
                  !.operand = Empty]

Read ==
    /\ answer.status = "reading"
    /\ UNCHANGED <<dataset, answer>>

SetTop(group) == groups' = Append(Front(groups), group)

Add(p) == SetTop([Settled(Top) EXCEPT !.current = JoinOf(@, p)])

Triples(block) == Read /\ Add(Bgp(block))

\* The names of path nodes are counted from the start of each group.
Path(path) ==
    /\ Read
    /\ Top.paths \in DOMAIN Middles
    /\ LET group == Settled(Top)
       IN  SetTop([group EXCEPT !.current = JoinOf(@, PathPattern(path, Middles[group.paths])),
                                !.paths = IF path.path = "sequence" THEN @ + 1 ELSE @])

Values(table) == Read /\ Add([op |-> "Values", rows |-> table])

\* An alias already in use in the group is an error.
Bind(source, alias) ==
    /\ Read
    /\ LET group == Settled(Top)
       IN  /\ alias \notin PatternVariables(group.current)
           /\ SetTop([group EXCEPT !.current =
                 [op |-> "Bind", pattern |-> @, source |-> source, alias |-> alias]])

\* A filter waits for the end of its group.
AddFilter(filter) == Read /\ SetTop([Top EXCEPT !.filters = Append(@, filter)])

\* { ... }, UNION, OPTIONAL, MINUS, FILTER [NOT] EXISTS or { SELECT ... }. UNION
\* follows a group; everything else begins a new operand.
Open(opening) ==
    /\ Read
    /\ Len(groups) < MaxGroups
    /\ opening.kind = "union" => Top.operand # Empty
    /\ groups' = Append(Front(groups), IF opening.kind = "union" THEN Top ELSE Settled(Top))
                 \o <<NewGroup(opening)>>

Finished(group) ==
    LET current == Settled(group).current
    IN  IF group.filters = <<>> THEN current
        ELSE [op |-> "Filter", pattern |-> current, filters |-> group.filters]

\* graph_pattern_contains_filter, which does not look into the EXISTS of a filter.
RECURSIVE ContainsFilter(_)
ContainsFilter(p) ==
    CASE p.op = "Filter" -> TRUE
      [] p.op \in {"Join", "LeftJoin", "Minus", "Union"} -> ContainsFilter(p.left) \/ ContainsFilter(p.right)
      [] p.op \in {"Bind", "Scoped", "Exists", "Subquery"} -> ContainsFilter(p.pattern)
      [] OTHER -> FALSE

Close(kind) ==
    /\ answer.status = "reading"
    /\ Len(groups) > 1 /\ Top.opening.kind = kind
    /\ UNCHANGED <<dataset, answer>>

SetOuter(group) == groups' = Append(SubSeq(groups, 1, Len(groups) - 2), group)

ScopedIn(group, p) == [op |-> "Scoped", pattern |-> p, hidden |-> PatternVariables(group.current)]

CloseBraces ==
    /\ Close("braces")
    /\ SetOuter([Outer EXCEPT !.operand = ScopedIn(Outer, Finished(Top))])

CloseSubquery ==
    /\ Close("select")
    /\ SetOuter([Outer EXCEPT !.operand =
          ScopedIn(Outer, [op |-> "Subquery", pattern |-> Finished(Top), selection |-> Top.opening.selection])])

CloseUnion ==
    /\ Close("union")
    /\ SetOuter([Outer EXCEPT !.operand = Binary("Union", @, Finished(Top))])

CloseOptional ==
    /\ Close("optional")
    /\ SetOuter([Outer EXCEPT !.current = Binary("LeftJoin", @, Finished(Top))])

CloseMinus ==
    /\ Close("minus")
    /\ SetOuter([Outer EXCEPT !.current = Binary("Minus", @, Finished(Top))])

\* Unlike a filter, it tests what stands before it.
CloseExists ==
    /\ Close("exists")
    /\ ~(Top.opening.negated /\ ContainsFilter(Finished(Top)))
    /\ SetOuter([Outer EXCEPT !.current =
          [op |-> "Exists", pattern |-> @, exists |-> Finished(Top), negated |-> Top.opening.negated]])

\* NOT EXISTS of a pattern with a filter is not translatable.
RejectExists ==
    /\ answer.status = "reading"
    /\ Len(groups) > 1 /\ Top.opening.kind = "exists"
    /\ Top.opening.negated /\ ContainsFilter(Finished(Top))
    /\ answer' = [status |-> "failed"]
    /\ UNCHANGED <<dataset, groups>>

\* SELECT * shows the variables of the pattern.
Answer ==
    /\ answer.status = "reading"
    /\ Len(groups) = 1
    /\ LET pattern == Finished(Top)
           outcome == Evaluate(pattern, <<NoBinding>>)
       IN  answer' = IF outcome.ok
                     THEN [status |-> "answered", rows |-> Project(outcome.rows, PatternVariables(pattern))]
                     ELSE [status |-> "failed"]
    /\ UNCHANGED <<dataset, groups>>

TypeOK ==
    /\ dataset \in Datasets
    /\ Len(groups) \in 1..MaxGroups
    /\ \A i \in DOMAIN groups :
          /\ groups[i].opening.kind \in {"query", "braces", "union", "optional", "minus", "exists", "select"}
          /\ groups[i].opening.kind = "query" <=> i = 1
          /\ groups[i].paths \in 1..Len(Middles) + 1
          /\ AllVariables(groups[i].current) \subseteq Variables
    /\ answer.status \in {"reading", "answered", "failed"}
    /\ answer.status = "answered" =>
          \A row \in ToSet(answer.rows) : row \in Binding /\ \A v \in PathVariables : ~Bound(row, v)
=============================================================================
