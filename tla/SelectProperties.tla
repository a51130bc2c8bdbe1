---------------------------- MODULE SelectProperties ----------------------------
(***************************************************************************)
(* What SPARQL 1.1 says the answer of a SELECT is (18.5.1, 15): the groups *)
(* as a set of keys, their solutions, any order that ORDER BY allows, and  *)
(* what is left of it. An answer of the code must be one of those.         *)
(***************************************************************************)
EXTENDS SelectQuery

\* The rows of groups, until they are ordered, are rows of the pattern; what is
\* projected has the variables of the query alone.
TypeOK ==
    /\ query \in Queries /\ matched \in Matches /\ stage \in Stages
    /\ \A i \in DOMAIN solutions :
        /\ DOMAIN solutions[i].row = Names
        /\ stage # "grouped" => solutions[i].members = <<>>
        /\ stage \in {"projected", "distinct", "answered"} =>
            \A name \in Names \ query.variables : IsError(solutions[i].row[name])
        /\ ToSet(solutions[i].members) \subseteq ToSet(GroupedRows(matched, query))

-----------------------------------------------------------------------------
(* Groups and their solutions.                                               *)

\* The row with the expressions of GROUP BY, an error where one has no value.
Extended(row, q) ==
    FoldLeft(LAMBDA r, item : [r EXCEPT ![item.variable] = Evaluate(item.expression, r)], row, q.group)

KeyOf(row, q) == Key(Extended(row, q), q)

MembersOf(key, q) == SelectSeq(matched, LAMBDA row : KeyOf(row, q) = key)

Keys(q) == IF q.group = <<>> THEN {NoRow} ELSE {KeyOf(row, q) : row \in ToSet(matched)}

\* An aggregate of SPARQL, of its values. That MIN and MAX compare numbers only and
\* that SAMPLE takes the first is what the comments at lib.rs:2028 and lib.rs:2024 say.
SumOf(values) == FoldLeft(LAMBDA total, term : Arithmetic("+", total, term), IntegerTerm(0), values)
AggregateOver(kind, values) ==
    CASE kind = "COUNT" -> IntegerTerm(Len(values))
      [] kind = "SAMPLE" -> IF values = <<>> THEN Error ELSE Head(values)
      [] kind = "SUM" -> SumOf(values)
      [] kind = "AVG" -> IF values = <<>> THEN Number(<<0, 1>>, "decimal")
                         ELSE Arithmetic("/", SumOf(values), IntegerTerm(Len(values)))
      [] values = <<>> \/ \E term \in ToSet(values) : ~IsNumber(term) -> Error
      [] OTHER -> CHOOSE term \in ToSet(values) :
                    \A other \in ToSet(values) : ValueOrder(other, term) # (IF kind = "MIN" THEN "less" ELSE "greater")

AggregateOf(members, a) ==
    IF a.argument = Everything
    THEN IntegerTerm(IF a.distinct THEN Cardinality(ToSet(members)) ELSE Len(members))
    ELSE AggregateOver(a.kind, Values(members, a))

RECURSIVE Counted(_, _)
Counted(e, members) ==
    LET new(part) == Counted(part, members)
    IN  CASE e.op = "aggregate" -> Constant(AggregateOf(members, e))
          [] e.op \in {"arithmetic", "logical", "comparison"} -> Binary(e.op, e.operator, new(e.left), new(e.right))
          [] e.op = "function" -> Function(e.name, [i \in DOMAIN e.arguments |-> new(e.arguments[i])])
          [] OTHER -> e

\* An error of an aggregate is the error of its place in the expression.
ValueOf(e, row, members) == Evaluate(Counted(e, members), row)

OrElse(value, fallback, row) == IF IsError(value) THEN Evaluate(fallback, row) ELSE value
SolutionOf(key, members, q) ==
    LET counted == FoldLeft(LAMBDA row, a :
                                Bound(row, a.variable, OrElse(AggregateOf(members, a.expression), a.fallback, row)),
                            key, q.aggregates)
    IN  FoldLeft(LAMBDA row, b : Bound(row, b.variable, ValueOf(b.expression, row, members)), counted, q.binds)

\* The solutions to be ordered, with the values they are ordered by.
Entry(row, members, q) == [row |-> row, by |-> [i \in DOMAIN q.order |-> ValueOf(q.order[i].expression, row, members)]]

GroupOf(key, members, q) == Solution(SolutionOf(key, members, q), members)

Kept(group, q) == \A e \in ToSet(q.having) : Holds(ValueOf(e, group.row, group.members))

EntriesOf(groups, q) == [i \in DOMAIN groups |-> Entry(groups[i].row, groups[i].members, q)]
Entries(q) ==
    IF Aggregating(q) \/ q.group # <<>>
    THEN EntriesOf(SelectSeq(SetToSeq({GroupOf(key, MembersOf(key, q), q) : key \in Keys(q)}),
                             LAMBDA group : Kept(group, q)), q)
    ELSE [i \in DOMAIN matched |-> Entry(WithBinds(matched[i], q), <<>>, q)]

-----------------------------------------------------------------------------
(* Order.                                                                    *)

\* SPARQL orders the unbound before blank nodes, IRIs and literals, and literals
\* that can be compared; other literals, and blank nodes, as it comes.
DefinedOrder(left, right) ==
    IF \/ left = right \/ IsError(left) \/ IsError(right)
       \/ Category(left) # Category(right) \/ left.kind = "iri"
       \/ ValueOrder(left, right) # "none"
    THEN TermOrder(left, right) ELSE "undefined"

DecidedBy(orders, order) ==
    LET apart == {i \in DOMAIN orders : orders[i] # "equal"}
    IN  apart # {} /\ orders[Min(apart)] = (IF order[Min(apart)].descending THEN "greater" ELSE "less")

MustPrecede(left, right, q) ==
    DecidedBy([i \in DOMAIN q.order |-> DefinedOrder(left.by[i], right.by[i])], q.order)

Arrangements(entries, q) ==
    {p \in Permutations(DOMAIN entries) :
        \A i, j \in DOMAIN entries : i < j => ~MustPrecede(entries[p[j]], entries[p[i]], q)}

Sliced(rows, once, q) ==
    LET last == IF q.limit = -1 THEN Len(once) ELSE Min({Len(once), q.offset + q.limit})
    IN  [i \in 1..Max({0, last - q.offset}) |-> rows[once[q.offset + i]]]

\* What is left of an arrangement: projected, each once if DISTINCT, and sliced.
AnswerOf(entries, p, q) ==
    LET rows == [i \in DOMAIN entries |-> Projected(entries[p[i]].row, q)]
        once == {i \in DOMAIN rows : q.distinct => \A j \in 1..i - 1 : rows[j] # rows[i]}
    IN  Sliced(rows, SetToSortSeq(once, <), q)

-----------------------------------------------------------------------------
(* Where the code departs from it.                                           *)

AllExpressions(q) ==
    {b.expression : b \in ToSet(q.binds)} \cup ToSet(q.having) \cup {term.expression : term \in ToSet(q.order)}

AllAggregates(q) ==
    UNION {Aggregates(e) : e \in AllExpressions(q)} \cup {a.expression : a \in ToSet(q.aggregates)}

\* A row that fails an expression of GROUP BY should be in a group of its own.
GroupErrorDropped == Len(GroupedRows(matched, query)) # Len(matched)

\* COALESCE, IF, || and && should get over an aggregate without a value.
ErrorNotAbsorbed ==
    \E key \in Keys(query) : \E e \in AllExpressions(query) :
        /\ \E a \in Aggregates(e) : IsError(AggregateOf(MembersOf(key, query), a))
        /\ Parts(e) # <<>>

\* The second argument of COALESCE(aggregate, e) should see the group's key.
FallbackOfGroup == \E a \in ToSet(query.aggregates) : VariablesOf(a.fallback) # {}

\* The rows should be counted once each.
DistinctRowsCounted == \E a \in AllAggregates(query) : a.argument = Everything /\ a.distinct

\* Sorted once more by the other terms alone, the groups lose the order by an
\* aggregate that comes before them.
AggregateOrderLost ==
    \E i, j \in DOMAIN query.order :
        i < j /\ HasAggregate(query.order[i].expression) /\ ~HasAggregate(query.order[j].expression)

\* Numbers by value, and both by the text of their serialization when one is not a
\* number: three terms can precede each other in a circle.
Circular(terms) ==
    \E one, two, three \in terms :
        TermOrder(one, two) = "less" /\ TermOrder(two, three) = "less" /\ TermOrder(three, one) = "less"
OrderInconsistent == Circular({e.by[i] : e \in ToSet(Entries(query)), i \in DOMAIN query.order} \ {Error})

\* Not SPARQL: a variable that is neither grouped nor the name of an aggregate.
Ungrouped ==
    /\ Aggregating(query) \/ query.group # <<>>
    /\ \/ ~(query.variables \subseteq GroupNames(query) \cup {a.variable : a \in ToSet(query.aggregates)}
                                     \cup {b.variable : b \in ToSet(query.binds)})
       \/ \E e \in AllExpressions(query) :
            ~HasAggregate(e) /\ ~(VariablesOf(e) \subseteq GroupNames(query) \cup {a.variable : a \in ToSet(query.aggregates)}
                                                       \cup {b.variable : b \in ToSet(query.binds)})

Departs ==
    \/ GroupErrorDropped \/ ErrorNotAbsorbed \/ FallbackOfGroup \/ DistinctRowsCounted
    \/ AggregateOrderLost \/ OrderInconsistent \/ Ungrouped

-----------------------------------------------------------------------------

Allowed(entries, rows) == \E p \in Arrangements(entries, query) : AnswerOf(entries, p, query) = rows
IsAnswer == Allowed(Entries(query), [i \in DOMAIN solutions |-> solutions[i].row])

\* The rows of a SELECT (query, aggregate_bindings, sort_bindings_by) are an answer
\* that SPARQL allows: no group and no duplicate lost or invented, values and
\* errors of aggregates, an allowed order and the right slice of it, but for the
\* departures named above.
AnswerAllowed == stage = "answered" /\ ~Departs => IsAnswer

\* The comment at lib.rs:1766: groups are sorted where the aggregates have values,
\* so that LIMIT does not take just the first group.
OrderedByAggregate ==
    stage = "answered" /\ AggregateOrderLost
        /\ ~(GroupErrorDropped \/ ErrorNotAbsorbed \/ FallbackOfGroup \/ DistinctRowsCounted \/ OrderInconsistent \/ Ungrouped)
        => IsAnswer
=============================================================================
