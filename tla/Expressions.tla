------------------------------ MODULE Expressions ------------------------------
(***************************************************************************)
(* Values of expressions: evaluate_expression, evaluate_function and what  *)
(* they call in src/src/lib.rs. An expression has a term for value or an   *)
(* error, which is no value at all (Option::None).                         *)
(*                                                                         *)
(* A literal has a lexical form, a tuple: <<n, d>> for a number written in *)
(* the usual way, with a third entry for another way of writing it, <<s>>  *)
(* for any other text. "none" is no datatype, or no language tag.           *)
(***************************************************************************)
EXTENDS Integers, SequencesExt, FiniteSetsExt

Error == [kind |-> "error"]
IsError(term) == term.kind = "error"

Iri(name) == [kind |-> "iri", name |-> name]
Literal(lexical, datatype) ==
    [kind |-> "literal", lexical |-> lexical, datatype |-> datatype, language |-> "none"]
Tagged(lexical, language) ==
    [kind |-> "literal", lexical |-> lexical, datatype |-> "none", language |-> language]

IsLiteral(term) == term.kind = "literal"
HasDatatype(term, datatypes) == IsLiteral(term) /\ term.datatype \in datatypes

Integers_ == {"integer", "long"}                 \* is_integer_datatype
Exacts == Integers_ \cup {"decimal"}
Floats == {"float", "double"}
Numerics == Exacts \cup Floats                    \* is_numeric_datatype
Texts == {"none", "string"}
XsdTypes == Numerics \cup {"string", "boolean", "date"}

-----------------------------------------------------------------------------
(* Numbers: fractions in lowest terms, and NaN.                              *)

GreatestDivisor(n, d) ==
    Max({k \in 1..d : d % k = 0 /\ (IF n < 0 THEN -n ELSE n) % k = 0})
Fraction(n, d) == LET k == GreatestDivisor(n, d) IN <<n \div k, d \div k>>

Plus(p, q) == Fraction(p[1] * q[2] + q[1] * p[2], p[2] * q[2])
Minus(p, q) == Plus(p, <<-q[1], q[2]>>)
Times(p, q) == Fraction(p[1] * q[1], p[2] * q[2])
Divided(p, q) == IF q[1] > 0 THEN Fraction(p[1] * q[2], p[2] * q[1]) ELSE Fraction(-p[1] * q[2], -p[2] * q[1])
Below(p, q) == p[1] * q[2] < q[1] * p[2]

NotANumber == <<"NaN">>

\* term_numeric_value and numeric_term: what str::parse makes of the lexical
\* form, nothing if it is ill-formed or the datatype is not numeric.
NumberOf(term) ==
    IF ~HasDatatype(term, Numerics) THEN <<>>
    ELSE IF Len(term.lexical) >= 2 THEN <<term.lexical[1], term.lexical[2]>>
    ELSE IF term.lexical = NotANumber THEN NotANumber
    ELSE <<>>

IsNumber(term) == NumberOf(term) # <<>>
IsRational(term) == Len(NumberOf(term)) = 2

\* exact_decimal_from_term: decimal arithmetic for everything but floats.
IsExact(term) == HasDatatype(term, Exacts) /\ IsRational(term)

\* promoted_numeric_datatype
Promoted(left, right) ==
    CASE "double" \in {left, right} -> "double"
      [] "float" \in {left, right} -> "float"
      [] OTHER -> "decimal"

Number(value, datatype) == Literal(value, datatype)
Boolean(value) == Literal(<<IF value THEN "true" ELSE "false">>, "boolean")
IntegerTerm(n) == Number(<<n, 1>>, "integer")

ArithmeticType(operator, left, right) ==
    IF {left, right} \cap Floats # {} THEN Promoted(left, right)
    ELSE IF operator # "/" /\ {left, right} \subseteq Integers_ THEN "integer"
    ELSE "decimal"

Arithmetic(operator, left, right) ==
    LET l == NumberOf(left)
        r == NumberOf(right)
        type == ArithmeticType(operator, left.datatype, right.datatype)
    IN  CASE ~IsNumber(left) \/ ~IsNumber(right) -> Error
          [] operator = "/" /\ r = <<0, 1>> -> Error
          [] NotANumber \in {l, r} -> Number(NotANumber, type)
          [] operator = "+" -> Number(Plus(l, r), type)
          [] operator = "-" -> Number(Minus(l, r), type)
          [] operator = "*" -> Number(Times(l, r), type)
          [] operator = "/" -> Number(Divided(l, r), type)

-----------------------------------------------------------------------------
(* Comparing.                                                                *)

\* sparql_term_equal: simple literals are xsd:string literals.
SameText(left, right) ==
    left = right \/ /\ HasDatatype(left, Texts) /\ HasDatatype(right, Texts)
                    /\ left.language = "none" /\ right.language = "none"
                    /\ left.lexical = right.lexical

\* Where a text or a date stands among those the model has; bound: the texts
\* and the dates that can be compared are these.
OrderedTexts == <<<<"">>, <<0, 1>>, <<1, 1>>, <<1, 1, "1.0">>, <<2, 1>>, <<"a">>, <<"b">>, <<"false">>, <<"true">>>>
Days == <<<<"day1">>, <<"day2">>>>
PlaceIn(list, lexical) == CHOOSE i \in DOMAIN list : list[i] = lexical

\* sparql_value_ordering: "less", "equal", "greater", or none of them.
Order(p, q) == IF p < q THEN "less" ELSE IF p = q THEN "equal" ELSE "greater"
NumberOrder(left, right) ==
    CASE NotANumber \in {left, right} -> "none"
      [] Below(left, right) -> "less"
      [] Below(right, left) -> "greater"
      [] OTHER -> "equal"

ValueOrder(left, right) ==
    CASE IsNumber(left) /\ IsNumber(right) -> NumberOrder(NumberOf(left), NumberOf(right))
      [] /\ HasDatatype(left, Texts) /\ HasDatatype(right, Texts)
         /\ left.language = "none" /\ right.language = "none" ->
            Order(PlaceIn(OrderedTexts, left.lexical), PlaceIn(OrderedTexts, right.lexical))
      [] HasDatatype(left, {"date"}) /\ HasDatatype(right, {"date"}) ->
            Order(PlaceIn(Days, left.lexical), PlaceIn(Days, right.lexical))
      [] OTHER -> "none"

\* sparql_value_equal, as IN uses it.
ValueEqual(left, right) == ValueOrder(left, right) = "equal" \/ SameText(left, right)

\* sparql_value_equal_defined, as = and != use it.
UnknownType(term) == IsLiteral(term) /\ term.datatype \notin XsdTypes \cup {"none"}
IllFormed(term) == HasDatatype(term, Numerics) /\ ~IsRational(term)

Equality(left, right) ==
    CASE SameText(left, right) -> Boolean(TRUE)
      [] IsLiteral(left) # IsLiteral(right) -> Boolean(FALSE)
      [] IsLiteral(left) /\ IsLiteral(right) /\ (left.language = "none") # (right.language = "none") -> Boolean(FALSE)
      [] UnknownType(left) \/ UnknownType(right) -> Error
      [] IllFormed(left) \/ IllFormed(right) -> Error
      [] OTHER -> Boolean(ValueEqual(left, right))

Inequality(operator, left, right) ==
    LET order == ValueOrder(left, right)
    IN  CASE order = "none" -> Error
          [] operator = "<" -> Boolean(order = "less")
          [] operator = ">" -> Boolean(order = "greater")
          [] operator = "<=" -> Boolean(order # "greater")
          [] operator = ">=" -> Boolean(order # "less")

-----------------------------------------------------------------------------
(* Truth.                                                                    *)

\* expression_boolean: the effective boolean value of a term, or Error.
TrueTexts == {<<"true">>, <<1, 1>>}              \* "true", "1"
FalseTexts == {<<"false">>, <<0, 1>>}
Truth(term) ==
    CASE HasDatatype(term, {"boolean"}) ->
            IF term.lexical \in TrueTexts \cup FalseTexts THEN Boolean(term.lexical \in TrueTexts) ELSE Error
      [] HasDatatype(term, Texts) -> Boolean(term.lexical # <<"">>)
      [] IsNumber(term) -> Boolean(NumberOf(term) \notin {<<0, 1>>, NotANumber})
      [] OTHER -> Error

Holds(term) == Truth(term) = Boolean(TRUE)
Fails(term) == Truth(term) = Boolean(FALSE)

Negation(term) == IF IsError(Truth(term)) THEN Error ELSE Boolean(Fails(term))

\* Fault: an error of the left side is an error of the whole.
OrStrict(left, right) ==
    CASE Holds(left) -> Boolean(TRUE)
      [] Fails(left) -> Truth(right)
      [] OTHER -> Error

\* An error of one side gives way to the other side where that decides.
Or(left, right) ==
    CASE Holds(left) -> Boolean(TRUE)
      [] Fails(left) -> Truth(right)
      [] OTHER -> IF Holds(right) THEN Boolean(TRUE) ELSE Error
And(left, right) ==
    CASE Fails(left) -> Boolean(FALSE)
      [] Holds(left) -> Truth(right)
      [] OTHER -> IF Fails(right) THEN Boolean(FALSE) ELSE Error

\* Expression::In: all candidates are evaluated, an error among them is one of
\* the list, also after a match.
Membership(value, candidates, negated) ==
    IF IsError(value) \/ \E c \in candidates : IsError(c) THEN Error
    ELSE Boolean(negated # (\E c \in candidates : ValueEqual(value, c)))

-----------------------------------------------------------------------------
(* Functions of terms, an error if an argument is one.                       *)

\* What a function on strings takes for a string.
IsString(term) == HasDatatype(term, Texts)

TermTest(name, term) ==
    CASE name = "ISIRI" -> Boolean(term.kind = "iri")
      [] name = "ISBLANK" -> Boolean(term.kind = "blank")
      [] name = "ISLITERAL" -> Boolean(IsLiteral(term))
      \* The datatype alone decides, whether or not the number is well-formed.
      [] name = "ISNUMERIC" -> Boolean(HasDatatype(term, Numerics))

Str(term) == IF term.kind = "blank" THEN Error
             ELSE Literal(IF term.kind = "iri" THEN <<term.name>> ELSE term.lexical, "string")

Lang(term) == IF ~IsLiteral(term) THEN Error
              ELSE Literal(<<IF term.language = "none" THEN "" ELSE term.language>>, "string")

\* Fault: a literal has the datatype that is written.
DatatypeWritten(term) ==
    IF IsLiteral(term) /\ term.datatype # "none" THEN Iri(term.datatype) ELSE Error

Datatype(term) ==
    CASE ~IsLiteral(term) -> Error
      [] term.language # "none" -> Iri("langString")
      [] term.datatype = "none" -> Iri("string")
      [] OTHER -> Iri(term.datatype)

StrDt(term, datatype) ==
    IF IsString(term) /\ term.language = "none" /\ datatype.kind = "iri"
    THEN Literal(term.lexical, datatype.name) ELSE Error

\* Bound: the tags of the model are in lower case, as STRLANG makes them.
StrLang(term, language) ==
    IF /\ IsString(term) /\ term.language = "none"
       /\ IsString(language) /\ language.language = "none" /\ language.lexical # <<"">>
    THEN Tagged(term.lexical, language.lexical[1]) ELSE Error

Absolute(term) ==
    LET n == NumberOf(term)
        type == IF IsExact(term) THEN term.datatype ELSE "decimal"
    IN  CASE n = <<>> -> Error
          [] n = NotANumber -> Number(n, type)
          [] OTHER -> Number(<<IF n[1] < 0 THEN -n[1] ELSE n[1], n[2]>>, type)

\* The number that a literal of another type stands for when it is cast: a text
\* stands for what str::parse makes of it, NaN included.
CastSource(term) ==
    CASE HasDatatype(term, {"boolean"}) ->
            IF IsError(Truth(term)) THEN <<>> ELSE IF Holds(term) THEN <<1, 1>> ELSE <<0, 1>>
      [] IsString(term) /\ term.language = "none" ->
            NumberOf(Number(term.lexical, "double"))
      [] OTHER -> NumberOf(term)

\* cast_numeric: a number of the type already stays as it is written. NaN is not
\* the text of a decimal (is_xsd_decimal_lexical).
CastNumeric(term, datatype) ==
    CASE CastSource(term) = <<>> -> Error
      [] datatype = "decimal" /\ IsString(term) /\ CastSource(term) = NotANumber -> Error
      [] HasDatatype(term, {datatype}) -> term
      [] OTHER -> Number(CastSource(term), datatype)

Truncated(n) == <<IF n[1] < 0 THEN -((-n[1]) \div n[2]) ELSE n[1] \div n[2], 1>>

\* cast_integer: of a text only what is written as an integer, of a number what is
\* before the point.
CastInteger(term) ==
    LET n == CastSource(term)
    IN  IF \/ Len(n) # 2
           \/ IsString(term) /\ term.lexical # <<n[1], 1>>
        THEN Error ELSE Number(Truncated(n), "integer")

CastBoolean(term) ==
    CASE IsString(term) /\ term.language = "none" ->
            CASE term.lexical \in TrueTexts -> Boolean(TRUE)
              [] term.lexical \in FalseTexts -> Boolean(FALSE)
              [] OTHER -> Error
      [] HasDatatype(term, {"boolean"}) -> Truth(term)
      [] IsNumber(term) -> Boolean(NumberOf(term) # <<0, 1>>)
      [] OTHER -> Error

Apply(name, a) ==
    CASE \E i \in DOMAIN a : IsError(a[i]) -> Error
      [] name \in {"ISIRI", "ISBLANK", "ISLITERAL", "ISNUMERIC"} -> TermTest(name, a[1])
      [] name \in {"STR", "XSD:STRING"} -> Str(a[1])
      [] name = "LANG" -> Lang(a[1])
      [] name = "DATATYPE" -> Datatype(a[1])
      [] name = "SAMETERM" -> Boolean(a[1] = a[2])
      [] name = "STRDT" -> StrDt(a[1], a[2])
      [] name = "STRLANG" -> StrLang(a[1], a[2])
      [] name = "ABS" -> Absolute(a[1])
      [] name = "XSD:DECIMAL" -> CastNumeric(a[1], "decimal")
      [] name = "XSD:DOUBLE" -> CastNumeric(a[1], "double")
      [] name = "XSD:INTEGER" -> CastInteger(a[1])
      [] name = "XSD:BOOLEAN" -> CastBoolean(a[1])
      [] OTHER -> Error

-----------------------------------------------------------------------------
(* Expressions, and their value for a solution: a function from variables to *)
(* terms, Error for one that is not bound.                                   *)

Variable(name) == [op |-> "variable", name |-> name]
Constant(term) == [op |-> "constant", term |-> term]
Not(inner) == [op |-> "not", inner |-> inner]
Binary(op, operator, left, right) == [op |-> op, operator |-> operator, left |-> left, right |-> right]
Function(name, arguments) == [op |-> "function", name |-> name, arguments |-> arguments]
In(value, candidates, negated) ==
    [op |-> "in", value |-> value, candidates |-> candidates, negated |-> negated]
Unsupported == [op |-> "error"]

RECURSIVE Evaluate(_, _)

\* Another number of arguments is an error.
Arity(name) == CASE name = "IF" -> {3} [] name = "COALESCE" -> 1..9
                 [] name \in {"SAMETERM", "STRDT", "STRLANG"} -> {2} [] OTHER -> {1}

\* BOUND looks at a variable; IF and COALESCE do not evaluate all they are given.
EvaluateFunction(e, row) ==
    LET value(i) == Evaluate(e.arguments[i], row)
    IN  CASE Len(e.arguments) \notin Arity(e.name) -> Error
          [] e.name = "BOUND" ->
                IF e.arguments[1].op = "variable" THEN Boolean(~IsError(row[e.arguments[1].name])) ELSE Error
          [] e.name = "IF" ->
                CASE Holds(value(1)) -> value(2)
                  [] Fails(value(1)) -> value(3)
                  [] OTHER -> Error
          [] e.name = "COALESCE" ->
                LET valued == {i \in DOMAIN e.arguments : ~IsError(value(i))}
                IN  IF valued = {} THEN Error ELSE value(Min(valued))
          [] OTHER -> Apply(e.name, [i \in DOMAIN e.arguments |-> value(i)])

Evaluate(e, row) ==
    CASE e.op = "variable" -> row[e.name]
      [] e.op = "constant" -> e.term
      [] e.op = "not" -> Negation(Evaluate(e.inner, row))
      [] e.op = "arithmetic" -> Arithmetic(e.operator, Evaluate(e.left, row), Evaluate(e.right, row))
      [] e.op = "logical" ->
            IF e.operator = "||" THEN Or(Evaluate(e.left, row), Evaluate(e.right, row))
            ELSE And(Evaluate(e.left, row), Evaluate(e.right, row))
      [] e.op = "comparison" ->
            LET left == Evaluate(e.left, row)
                right == Evaluate(e.right, row)
            IN  CASE IsError(left) \/ IsError(right) -> Error
                  [] e.operator = "=" -> Equality(left, right)
                  [] e.operator = "!=" -> Negation(Equality(left, right))
                  [] OTHER -> Inequality(e.operator, left, right)
      [] e.op = "in" -> Membership(Evaluate(e.value, row),
                                   {Evaluate(c, row) : c \in ToSet(e.candidates)}, e.negated)
      [] e.op = "function" -> EvaluateFunction(e, row)
      [] e.op \in {"error", "aggregate"} -> Error
=============================================================================
