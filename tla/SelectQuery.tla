------------------------------ MODULE SelectQuery ------------------------------
(***************************************************************************)
(* What query in src/src/lib.rs does to the solutions of a pattern before  *)
(* they are the answer of a SELECT, or the rows of a sub-SELECT: grouping, *)
(* aggregates, projected expressions, HAVING, ORDER BY, projection,        *)
(* DISTINCT, OFFSET and LIMIT, each a step of its own.                     *)
(*                                                                         *)
(* A query is [aggregates, binds, group, having, order, variables,         *)
(* distinct, offset, limit]. An aggregate is [variable, expression,        *)
(* fallback], an item of binds or group [variable, expression], one of     *)
(* order [expression, descending].                                         *)
(***************************************************************************)
EXTENDS Expressions

CONSTANTS
    Names,          \* variables
    Queries,        \* the queries of the instance
    Matches,        \* sequences of solutions of their patterns
    Serialized      \* the terms that are ordered by their serialization, in its order

VARIABLES
    query,
    matched,        \* the rows the pattern has
    solutions,      \* what has become of them: [row, members], the rows of a group
    stage           \* what the solutions are by now

selectVars == <<query, matched, solutions, stage>>

Stages == {"matched", "grouped", "ranked", "sorted", "projected", "distinct", "answered", "panicked"}

NoRow == [name \in Names |-> Error]
Solution(row, members) == [row |-> row, members |-> members]
Everything == [op |-> "everything"]               \* the * of COUNT(*)
Aggregate(kind, argument, distinct) ==
    [op |-> "aggregate", kind |-> kind, argument |-> argument, distinct |-> distinct]

Firsts(s) == SelectSeq([i \in DOMAIN s |-> [at |-> i, of |-> s[i]]],
                       LAMBDA entry : \A j \in 1..entry.at - 1 : s[j] # entry.of)
Unique(s) == LET firsts == Firsts(s) IN [i \in DOMAIN firsts |-> firsts[i].of]

-----------------------------------------------------------------------------
(* Aggregates: evaluate_aggregate. A row whose argument is an error counts   *)
(* for nothing, one whose argument is no number fails all but COUNT, SAMPLE. *)

Valued(members, argument) ==
    SelectSeq([i \in DOMAIN members |-> Evaluate(argument, members[i])], LAMBDA term : ~IsError(term))
Chosen(valued, distinct) == IF distinct THEN Unique(valued) ELSE valued
Values(members, a) == Chosen(Valued(members, a.argument), a.distinct)

Total(values) == FoldLeft(LAMBDA sum, term : Plus(sum, NumberOf(term)), <<0, 1>>, values)
SumType(types) ==
    CASE types \subseteq Integers_ -> "integer"
      [] "double" \in types -> "double"
      [] "float" \in types -> "float"
      [] OTHER -> "decimal"
AverageType(types) == IF types \subseteq Integers_ THEN "decimal" ELSE SumType(types)
Types(values) == {term.datatype : term \in ToSet(values)}

\* The first of those that no other is less (greater) than.
Extreme(values, order) ==
    values[Min({i \in DOMAIN values : \A j \in DOMAIN values : ValueOrder(values[j], values[i]) # order})]

Aggregated(kind, values) ==
    CASE kind = "SAMPLE" -> IF values = <<>> THEN Error ELSE values[1]
      [] \E i \in DOMAIN values : ~IsNumber(values[i]) -> Error
      [] kind = "SUM" -> Number(Total(values), SumType(Types(values)))
      [] kind = "AVG" ->
            IF values = <<>> THEN Number(<<0, 1>>, "decimal")
            ELSE Number(Divided(Total(values), <<Len(values), 1>>), AverageType(Types(values)))
      [] values = <<>> -> Error
      [] OTHER -> Extreme(values, IF kind = "MIN" THEN "less" ELSE "greater")

EvaluateAggregate(members, a) ==
    CASE a.argument = Everything -> IntegerTerm(Len(members))
      [] a.kind = "COUNT" -> IntegerTerm(Len(Values(members, a)))
      [] OTHER -> Aggregated(a.kind, Values(members, a))

\* STR(AVG(...)), written as PostgreSQL writes an average if every row has an integer.
TextOfAverage(average, scaled) ==
    IF scaled THEN Literal(average.lexical \o <<"scaled">>, "string") ELSE Str(average)
AverageText(members, a) ==
    TextOfAverage(EvaluateAggregate(members, a),
                  \A i \in DOMAIN members : HasDatatype(Evaluate(a.argument, members[i]), {"integer"}))

IsAverageText(e) ==
    e.op = "function" /\ e.name = "STR" /\ e.arguments[1].op = "aggregate" /\ e.arguments[1].kind = "AVG"

Parts(e) ==
    CASE e.op = "not" -> <<e.inner>>
      [] e.op \in {"arithmetic", "logical", "comparison"} -> <<e.left, e.right>>
      [] e.op = "in" -> <<e.value>> \o e.candidates
      [] e.op = "function" -> e.arguments
      [] OTHER -> <<>>

RECURSIVE Aggregates(_), AveragesText(_), VariablesOf(_)
Aggregates(e) ==
    IF e.op = "aggregate" THEN {e} ELSE UNION {Aggregates(part) : part \in ToSet(Parts(e))}
AveragesText(e) ==
    IF IsAverageText(e) THEN {e} ELSE UNION {AveragesText(part) : part \in ToSet(Parts(e))}
\* expression_variables
VariablesOf(e) ==
    CASE e.op = "variable" -> {e.name}
      [] e.op = "aggregate" -> IF e.argument = Everything THEN {} ELSE VariablesOf(e.argument)
      [] OTHER -> UNION {VariablesOf(part) : part \in ToSet(Parts(e))}

HasAggregate(e) == Aggregates(e) # {}             \* expression_contains_aggregate

\* materialize_aggregates: the aggregates of an expression become constants.
RECURSIVE Materialize(_, _)
Materialize(e, members) ==
    LET new(part) == Materialize(part, members)
    IN  CASE e.op = "aggregate" -> Constant(EvaluateAggregate(members, e))
          [] IsAverageText(e) -> Constant(AverageText(members, e.arguments[1]))
          [] e.op = "not" -> Not(new(e.inner))
          [] e.op \in {"arithmetic", "logical", "comparison"} -> Binary(e.op, e.operator, new(e.left), new(e.right))
          [] e.op = "in" -> In(new(e.value), [i \in DOMAIN e.candidates |-> new(e.candidates[i])], e.negated)
          [] e.op = "function" -> Function(e.name, [i \in DOMAIN e.arguments |-> new(e.arguments[i])])
          [] OTHER -> e

\* An aggregate that is an error makes the whole expression one, whatever would
\* have absorbed it: evaluate_expression_with_aggregates.
EvaluateGrouped(e, row, members) ==
    IF \E a \in Aggregates(e) : IsError(EvaluateAggregate(members, a)) THEN Error
    ELSE Evaluate(Materialize(e, members), row)

\* postgres_integer_avg_lexical divides by the number of values, also if it is
\* zero. Bound: an expression has no other aggregate that fails before.
Panics(q, members) ==
    /\ members = <<>>
    /\ \E e \in {bind.expression : bind \in ToSet(q.binds)} \cup ToSet(q.having)
                \cup {term.expression : term \in ToSet(q.order)} : AveragesText(e) # {}

-----------------------------------------------------------------------------
(* Groups.                                                                   *)

GroupNames(q) == {item.variable : item \in ToSet(q.group)}      \* group_variable_names

Bound(row, name, value) == IF IsError(value) THEN row ELSE [row EXCEPT ![name] = value]

\* materialize_group_bindings: a row for which an expression of GROUP BY is an
\* error is in no group. A variable that is unbound is no error.
Grouped(row, items) ==
    FoldLeft(LAMBDA r, item :
                IF r = <<>> THEN <<>>
                ELSE LET value == Evaluate(item.expression, r[1])
                     IN  IF IsError(value) /\ item.expression # Variable(item.variable) THEN <<>>
                         ELSE <<[r[1] EXCEPT ![item.variable] = value]>>,
             <<row>>, items)

GroupedRows(rows, q) == FlattenSeq([i \in DOMAIN rows |-> Grouped(rows[i], q.group)])

Key(row, q) == [name \in Names |-> IF name \in GroupNames(q) THEN row[name] ELSE Error]

ByKey(all, keys, q) ==
    [k \in DOMAIN keys |-> Solution(keys[k], SelectSeq(all, LAMBDA row : Key(row, q) = keys[k]))]
GroupsOf(all, q) ==
    IF all = <<>> /\ q.group = <<>> THEN <<Solution(NoRow, <<>>)>>
    ELSE ByKey(all, Unique([i \in DOMAIN all |-> Key(all[i], q)]), q)
Groups(rows, q) == GroupsOf(GroupedRows(rows, q), q)

\* The aggregates of SELECT, each with what COALESCE gives for it, evaluated
\* without any solution; then its expressions, which see those before them.
Coalesced(value, fallback) == IF IsError(value) THEN Evaluate(fallback, NoRow) ELSE value
WithAggregates(group, q) ==
    LET counted == FoldLeft(LAMBDA row, a : Bound(row, a.variable,
                                Coalesced(EvaluateAggregate(group.members, a.expression), a.fallback)),
                            group.row, q.aggregates)
    IN  FoldLeft(LAMBDA row, b : Bound(row, b.variable, EvaluateGrouped(b.expression, row, group.members)),
                 counted, q.binds)

Having(group, q) == \A e \in ToSet(q.having) : Holds(EvaluateGrouped(e, group.row, group.members))

Answering(groups, q) ==
    SelectSeq([i \in DOMAIN groups |-> [groups[i] EXCEPT !.row = WithAggregates(groups[i], q)]],
              LAMBDA group : Having(group, q))

WithBinds(row, q) ==
    FoldLeft(LAMBDA r, b : Bound(r, b.variable, Evaluate(b.expression, r)), row, q.binds)

-----------------------------------------------------------------------------
(* Order.                                                                    *)

Category(term) == CASE term.kind = "blank" -> 0 [] term.kind = "iri" -> 1 [] OTHER -> 2

\* sparql_term_ordering
SerialOrder(left, right) ==
    IF Category(left) # Category(right) THEN Order(Category(left), Category(right))
    ELSE IF left = right THEN "equal"
    ELSE Order(CHOOSE i \in DOMAIN Serialized : Serialized[i] = left,
               CHOOSE i \in DOMAIN Serialized : Serialized[i] = right)

TermOrder(left, right) ==
    CASE IsError(left) /\ IsError(right) -> "equal"
      [] IsError(left) -> "less"
      [] IsError(right) -> "greater"
      [] ValueOrder(left, right) # "none" -> ValueOrder(left, right)
      [] OTHER -> SerialOrder(left, right)

Reversed(order) == CASE order = "less" -> "greater" [] order = "greater" -> "less" [] OTHER -> "equal"

\* Of two lists of values; the first term of ORDER BY that tells them apart decides.
KeyOrder(order, left, right) ==
    LET apart == {i \in DOMAIN order : TermOrder(left[i], right[i]) # "equal"}
        at == Min(apart)
    IN  IF apart = {} THEN "equal"
        ELSE IF order[at].descending THEN Reversed(TermOrder(left[at], right[at]))
        ELSE TermOrder(left[at], right[at])

\* What sort_by may make of solutions with these keys: the stable order; any
\* order if what it compares by is no weak order.
Sortings(s, keys, order) ==
    LET less(i, j) == KeyOrder(order, keys[i], keys[j]) = "less"
        weak == \A i, j, k \in DOMAIN s : less(i, k) => less(i, j) \/ less(j, k)
        place(i) == Cardinality({j \in DOMAIN s : less(j, i) \/ (~less(i, j) /\ j <= i)})
    IN  IF weak THEN {[n \in DOMAIN s |-> s[CHOOSE i \in DOMAIN s : place(i) = n]]}
        ELSE {[n \in DOMAIN s |-> s[p[n]]] : p \in Permutations(DOMAIN s)}

-----------------------------------------------------------------------------
(* Steps.                                                                    *)

Aggregating(q) ==
    \/ q.aggregates # <<>> \/ q.having # <<>>
    \/ \E bind \in ToSet(q.binds) : HasAggregate(bind.expression)
    \/ \E term \in ToSet(q.order) : HasAggregate(term.expression)

\* validate_aggregate_projection. An expression with an aggregate does not count
\* as one for whether there is anything to check.
Validated(q) ==
    LET aggregated == {a.variable : a \in ToSet(q.aggregates)}
                      \cup {b.variable : b \in {b \in ToSet(q.binds) : HasAggregate(b.expression)}}
    IN  \/ q.aggregates = <<>> /\ q.group = <<>>
        \/ /\ q.variables \subseteq GroupNames(q) \cup aggregated
           /\ \A bind \in ToSet(q.binds) :
                HasAggregate(bind.expression) \/ VariablesOf(bind.expression) \subseteq GroupNames(q)

Init ==
    /\ query \in {q \in Queries : Validated(q)}
    /\ matched \in Matches
    /\ solutions = [i \in DOMAIN matched |-> Solution(matched[i], <<>>)]
    /\ stage = "matched"

Step(from, to) == stage = from /\ stage' = to /\ UNCHANGED <<query, matched>>

AggregateBindings ==
    /\ Aggregating(query)
    /\ ~\E group \in ToSet(Groups(matched, query)) : Panics(query, group.members)
    /\ Step("matched", "grouped")
    /\ solutions' = Answering(Groups(matched, query), query)

Panic ==
    /\ Aggregating(query)
    /\ \E group \in ToSet(Groups(matched, query)) : Panics(query, group.members)
    /\ Step("matched", "panicked")
    /\ UNCHANGED solutions

\* group_binding_representatives: of a group, its first row.
Representatives ==
    LET groups == Groups(matched, query)
    IN  /\ ~Aggregating(query) /\ query.group # <<>>
        /\ Step("matched", "ranked")
        /\ solutions' = [i \in DOMAIN groups |-> Solution(WithBinds(groups[i].members[1], query), <<>>)]

ProjectExpressions ==
    /\ ~Aggregating(query) /\ query.group = <<>>
    /\ Step("matched", "ranked")
    /\ solutions' = [i \in DOMAIN matched |-> Solution(WithBinds(matched[i], query), <<>>)]

SortGroups ==
    LET key(s) == [i \in DOMAIN query.order |-> EvaluateGrouped(query.order[i].expression, s.row, s.members)]
    IN  /\ Step("grouped", "ranked")
        /\ solutions' \in Sortings([i \in DOMAIN solutions |-> Solution(solutions[i].row, <<>>)],
                                   [i \in DOMAIN solutions |-> key(solutions[i])], query.order)

\* Groups too are sorted once more, when an aggregate has no value any longer.
Sort ==
    LET key(s) == [i \in DOMAIN query.order |-> Evaluate(query.order[i].expression, s.row)]
    IN  /\ Step("ranked", "sorted")
        /\ solutions' \in Sortings(solutions, [i \in DOMAIN solutions |-> key(solutions[i])], query.order)

\* Fault: what the solutions are ordered by stays.
ProjectedForOrder(row, q) ==
    LET ordering == UNION {VariablesOf(term.expression) : term \in ToSet(q.order)}
    IN  [name \in Names |-> IF name \in q.variables \cup ordering THEN row[name] ELSE Error]

Projected(row, q) == [name \in Names |-> IF name \in q.variables THEN row[name] ELSE Error]

Project ==
    /\ Step("sorted", "projected")
    /\ solutions' = [i \in DOMAIN solutions |-> Solution(Projected(solutions[i].row, query), <<>>)]

Deduplicate ==
    /\ Step("projected", "distinct")
    /\ solutions' = IF query.distinct THEN Unique(solutions) ELSE solutions

\* Fault: the limit first.
CutLimitFirst(s, offset, limit) ==
    LET first == IF limit = -1 \/ Len(s) <= limit THEN s ELSE SubSeq(s, 1, limit)
    IN  SubSeq(first, offset + 1, Len(first))

\* drain and truncate. A limit of -1 is none.
Cut(s, offset, limit) ==
    LET rest == SubSeq(s, offset + 1, Len(s))
    IN  IF limit = -1 \/ Len(rest) <= limit THEN rest ELSE SubSeq(rest, 1, limit)

Slice ==
    /\ Step("distinct", "answered")
    /\ solutions' = Cut(solutions, query.offset, query.limit)

Next ==
    \/ AggregateBindings \/ Panic \/ Representatives \/ ProjectExpressions
    \/ SortGroups \/ Sort \/ Project \/ Deduplicate \/ Slice

Spec == Init /\ [][Next]_selectVars
=============================================================================
