----------------------------- MODULE MCExpression -----------------------------
(* Instances of expressions for TLC.                                          *)
EXTENDS ExpressionProperties

Name(name) == [t |-> "variable", name |-> name]
Value(term) == [t |-> "constant", term |-> term, typed |-> FALSE]
Typed(term) == [t |-> "constant", term |-> term, typed |-> TRUE]

Numeral(n) == Value(IntegerTerm(n))
Text(lexical) == Value(Literal(<<lexical>>, "string"))
OneDecimal == Literal(<<1, 1, "1.0">>, "decimal")
IllNumber == Literal(<<"x">>, "integer")

Rows(names, terms) == [names -> terms]

\* Which operator binds: numbers, so that another tree has another value.
Operators ==
    [atoms |-> {Name("a"), Numeral(2), Name("b")},
     prefixes |-> {"-", "(", "!"}, infixes |-> {"+", "-", "*", "<", "||", "&&"}, lists |-> {}, functions |-> {},
     tokens |-> 7,
     rows |-> {("a" :> IntegerTerm(3)) @@ ("b" :> IntegerTerm(1)),
               ("a" :> Error) @@ ("b" :> IntegerTerm(0))}]

\* Which error is absorbed, and what is equal to what.
Values ==
    [atoms |-> {Name("a"), Name("b"), Typed(OneDecimal), Text("a")},
     prefixes |-> {"!", "("}, infixes |-> {"=", "!=", "<=", ">", "||", "&&"}, lists |-> {}, functions |-> {},
     tokens |-> 5,
     rows |-> Rows({"a", "b"},
                   {Error, IntegerTerm(1), OneDecimal, IllNumber, Literal(<<"a">>, "none"), Tagged(<<"a">>, "en"),
                    Literal(<<"a">>, "units"), Literal(<<"day1">>, "date"), Iri("i"), Boolean(TRUE)})]

\* Lists of IN and functions.
Functions ==
    [atoms |-> {Name("a"), Name("b"), Numeral(1)},
     prefixes |-> {}, infixes |-> {"=", "/"}, lists |-> {"IN", "NOT IN"}, functions |-> {"COALESCE", "BOUND", "STR", "IF"},
     tokens |-> 8,
     rows |-> Rows({"a", "b"}, {Error, IntegerTerm(0), OneDecimal, Literal(<<"a">>, "none")})]

\* Filters that look like the comparison of a variable with a literal.
Filters ==
    [atoms |-> {Name("a"), Typed(Literal(<<"a">>, "units")), Typed(Literal(<<1, 1>>, "integer")), Text("a"), Numeral(1)},
     prefixes |-> {"("}, infixes |-> {"=", "||"}, lists |-> {}, functions |-> {},
     tokens |-> 8,
     rows |-> {("a" :> term) : term \in
                  {Error, IntegerTerm(1), OneDecimal, IllNumber, Literal(<<"a">>, "none"), Tagged(<<"a">>, "en"),
                   Literal(<<"a">>, "string"), Literal(<<"a">>, "units"), Literal(<<"a">>, "date"), Iri("i")}}]

SomeVocabularies == [operators |-> Operators, values |-> Values, functions |-> Functions, filters |-> Filters]
=============================================================================
