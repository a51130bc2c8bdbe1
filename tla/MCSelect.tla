------------------------------- MODULE MCSelect -------------------------------
(* Instances of SELECT queries for TLC.                                        *)
EXTENDS SelectProperties

SomeNames == {"g", "x", "c", "z"}

nine == IntegerTerm(9)
ten == IntegerTerm(10)
two == Literal(<<2, 1>>, "none")                  \* the simple literal "2"
SomeSerialized == <<Iri("i"), Iri("j"), ten, two, nine>>

Row(group, value) == [NoRow EXCEPT !["g"] = group, !["x"] = value]
SomeRows ==
    {Row(Iri("i"), nine), Row(Iri("i"), ten), Row(Iri("i"), Error), Row(Iri("j"), nine),
     Row(Iri("j"), two), Row(Error, ten)}
SomeMatches == UNION {[1..n -> SomeRows] : n \in 0..3}

G == Variable("g")
X == Variable("x")
C == Variable("c")
Item(name, expression) == [variable |-> name, expression |-> expression]
Counting(name, aggregate, fallback) == [variable |-> name, expression |-> aggregate, fallback |-> fallback]
Up(expression) == [expression |-> expression, descending |-> FALSE]
Down(expression) == [expression |-> expression, descending |-> TRUE]

CountRows == Aggregate("COUNT", Everything, FALSE)
Of(kind) == Aggregate(kind, X, FALSE)
OfDistinct(kind) == Aggregate(kind, X, TRUE)
Numeric(n) == Constant(IntegerTerm(n))
More(left, right) == Binary("comparison", ">", left, right)
Sum(left, right) == Binary("arithmetic", "+", left, right)

Plain == [aggregates |-> <<>>, binds |-> <<>>, group |-> <<>>, having |-> <<>>, order |-> <<>>,
          variables |-> {"g", "x"}, distinct |-> FALSE, offset |-> 0, limit |-> -1]
ByGroup == [Plain EXCEPT !.group = <<Item("g", G)>>, !.variables = {"g"}]
PerGroup(aggregate) ==
    [ByGroup EXCEPT !.aggregates = <<Counting("c", aggregate, Unsupported)>>, !.variables = {"g", "c"}]
Whole(aggregate) == [PerGroup(aggregate) EXCEPT !.group = <<>>, !.variables = {"c"}]

PlainQueries ==
    {Plain,
     [Plain EXCEPT !.order = <<Up(X), Down(G)>>],
     [Plain EXCEPT !.order = <<Down(G)>>, !.offset = 1, !.limit = 1],
     [Plain EXCEPT !.order = <<Up(Sum(X, X))>>, !.variables = {"g"}, !.distinct = TRUE, !.limit = 2],
     [Plain EXCEPT !.distinct = TRUE, !.offset = 1],
     [Plain EXCEPT !.variables = {"x"}, !.distinct = TRUE, !.offset = 1, !.limit = 1],
     [Plain EXCEPT !.limit = 0],
     [Plain EXCEPT !.binds = <<Item("c", Sum(X, Numeric(1))), Item("z", Sum(C, X))>>,
                   !.order = <<Down(Variable("z"))>>, !.variables = {"c", "z"}, !.distinct = TRUE]}

GroupQueries ==
    {ByGroup,
     [ByGroup EXCEPT !.order = <<Down(G)>>, !.limit = 1],
     [ByGroup EXCEPT !.group = <<Item("g", G), Item("z", Sum(X, Numeric(1)))>>, !.variables = {"z"}, !.offset = 1],
     [PerGroup(CountRows) EXCEPT !.group = <<Item("z", More(X, Numeric(9)))>>, !.variables = {"z", "c"}]}

AggregateQueries ==
    {PerGroup(a) : a \in {CountRows, Aggregate("COUNT", Everything, TRUE), OfDistinct("COUNT"), Of("SUM"), OfDistinct("SUM"),
                          Of("AVG"), Of("MIN"), Of("MAX"), Of("SAMPLE")}}
    \cup {Whole(a) : a \in {CountRows, Of("SUM"), Of("AVG"), Of("MAX"), Of("SAMPLE")}}
    \cup
    {\* COALESCE
     [Whole(Of("MAX")) EXCEPT !.aggregates[1].fallback = Numeric(0)],
     [PerGroup(Of("SUM")) EXCEPT !.aggregates[1].fallback = G],
     \* HAVING, with a name and with an aggregate of its own
     [PerGroup(Of("SUM")) EXCEPT !.having = <<More(C, Numeric(9))>>],
     [ByGroup EXCEPT !.having = <<More(CountRows, Numeric(1)), More(Of("MAX"), Numeric(9))>>],
     [ByGroup EXCEPT !.having = <<Binary("logical", "||", More(Of("SUM"), Numeric(9)), More(CountRows, Numeric(1)))>>],
     \* ORDER BY, with a name and with an aggregate, alone and before a key
     [PerGroup(CountRows) EXCEPT !.order = <<Down(C), Up(G)>>, !.limit = 1],
     [PerGroup(Of("SAMPLE")) EXCEPT !.order = <<Up(C)>>, !.offset = 1],
     [ByGroup EXCEPT !.order = <<Down(CountRows)>>, !.limit = 1],
     [ByGroup EXCEPT !.order = <<Down(CountRows), Up(G)>>, !.limit = 1],
     [PerGroup(CountRows) EXCEPT !.variables = {"c"}, !.distinct = TRUE, !.order = <<Up(C)>>],
     \* expressions with aggregates
     [ByGroup EXCEPT !.binds = <<Item("z", Sum(Of("SUM"), CountRows))>>, !.variables = {"g", "z"}],
     [Whole(CountRows) EXCEPT !.binds = <<Item("z", Function("IF", <<More(C, Numeric(1)), Of("MIN"), Numeric(0)>>))>>,
                              !.variables = {"c", "z"}],
     [ByGroup EXCEPT !.group = <<>>, !.binds = <<Item("z", Function("STR", <<Of("AVG")>>))>>, !.variables = {"g", "z"}]}

SomeQueries == PlainQueries \cup GroupQueries \cup AggregateQueries
OrderQueries == {[ByGroup EXCEPT !.order = <<Down(CountRows), Up(G)>>, !.limit = 1]}
=============================================================================
