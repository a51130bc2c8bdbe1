---------------------------- MODULE ExpressionText ----------------------------
(***************************************************************************)
(* An expression written token by token, and the tree that parse_expression *)
(* in src/src/sparql.rs makes of it: it has no grammar but splits the text  *)
(* again and again, at the operator that binds least of those it sees.      *)
(*                                                                          *)
(* The splitting looks at characters, so it matters whether the tokens of a *)
(* text stand apart (spaced) or touch each other. IN is always apart.       *)
(***************************************************************************)
EXTENDS Expressions

\* What texts are made of, by name: [atoms, prefixes, infixes, lists, functions,
\* tokens, rows].
CONSTANT Vocabularies

VARIABLES
    vocabulary,     \* the name of what this text is made of
    text,           \* the tokens written so far
    spaced

textVars == <<vocabulary, text, spaced>>

Words == Vocabularies[vocabulary]

Token(t) == [t |-> t]
Is(token, ts) == token.t \in ts

Comparisons == {"=", "!=", "<", ">", "<=", ">="}
Signs == {"+", "-"}
ArithmeticOperators == Signs \cup {"*", "/"}
Memberships == {"IN", "NOT IN"}
FunctionNames == {"COALESCE", "BOUND", "IF", "STR", "DATATYPE"}

\* A variable, or a constant: its text ends with > if it is an IRI or has a datatype.
IsAtom(token) == Is(token, {"variable", "constant"})
EndsWithBracket(token) ==
    Is(token, {"constant"}) /\ (token.term.kind = "iri" \/ token.typed)

-----------------------------------------------------------------------------
(* What the splitting sees.                                                  *)

\* starts_iri: without a blank before the next >, < is taken for the beginning
\* of an IRI.
StartsIri(s, i) ==
    /\ ~spaced
    /\ Is(s[i], {"<", "<="})
    /\ \E j \in i+1..Len(s) : Is(s[j], {">", ">="}) \/ EndsWithBracket(s[j])

\* One pass over the characters: the tokens at the top level, up to a closing
\* parenthesis too many, where the pass gives up.
See(s) ==
    FoldLeftDomain(
        LAMBDA pass, i :
            CASE pass.broken -> pass
              [] pass.iri -> [pass EXCEPT !.iri = ~(Is(s[i], {">", ">="}) \/ EndsWithBracket(s[i]))]
              [] StartsIri(s, i) -> [pass EXCEPT !.iri = TRUE]
              [] Is(s[i], {"("}) -> [pass EXCEPT !.depth = @ + 1]
              [] Is(s[i], {")"}) -> IF pass.depth = 0 THEN [pass EXCEPT !.broken = TRUE]
                                    ELSE [pass EXCEPT !.depth = @ - 1]
              [] OTHER -> IF pass.depth = 0 THEN [pass EXCEPT !.seen = @ \cup {i}] ELSE pass,
        [depth |-> 0, iri |-> FALSE, seen |-> {}, broken |-> FALSE], s)

Seen(s, ts) == {i \in See(s).seen : Is(s[i], ts)}

\* matching_paren: 0 if the parenthesis at open is not closed.
Closing(s, open) ==
    LET depth(i) == Cardinality({j \in open..i : Is(s[j], {"("})}) - Cardinality({j \in open..i : Is(s[j], {")"})})
        closed == {i \in open..Len(s) : depth(i) = 0}
    IN  IF closed = {} THEN 0 ELSE Min(closed)

Part(s, from, to) == SubSeq(s, from, to)
Before(s, i) == SubSeq(s, 1, i - 1)
After(s, i) == SubSeq(s, i + 1, Len(s))

\* split_logical_expression, split_arithmetic_expression: the last one.
Logical(s, operator) == IF See(s).broken THEN {} ELSE Seen(s, {operator})

LastOf(set) == Max(set)

\* An operator right after another is a sign. In a spaced text there is a blank
\* between them, and it is not.
Arithmetics(s, operators) ==
    IF See(s).broken THEN {}
    ELSE {i \in Seen(s, operators) : i > 1 /\ ~(~spaced /\ Is(s[i - 1], ArithmeticOperators))}

\* split_comparison_expression: the first one. An = that touches a > is half of >=.
ComparisonsIn(s) ==
    {i \in Seen(s, Comparisons) :
        ~(~spaced /\ i > 1 /\ Is(s[i], {"="}) /\ EndsWithBracket(s[i - 1]))}

\* split_in_expression: the first one with a list that ends the text.
MembershipsIn(s) ==
    {i \in Seen(s, Memberships) : i < Len(s) /\ Is(s[i + 1], {"("}) /\ Closing(s, i + 1) = Len(s)}

\* split_expression_arguments
Arguments(s) ==
    LET commas == Seen(s, {","})
        ends == SetToSortSeq(commas \cup {Len(s) + 1}, <)
        starts == <<1>> \o [i \in 1..Len(ends) - 1 |-> ends[i] + 1]
    IN  IF s = <<>> THEN <<>> ELSE [i \in DOMAIN ends |-> Part(s, starts[i], ends[i] - 1)]

-----------------------------------------------------------------------------
(* parse_expression. A part that is not supported fails the whole.           *)

Node(parts, e) == IF Unsupported \in parts THEN Unsupported ELSE e

Zero == Constant(IntegerTerm(0))

RECURSIVE Parse(_)

ParseBoth(op, s, at) ==
    LET left == Parse(Before(s, at))
        right == Parse(After(s, at))
    IN  Node({left, right}, Binary(op, s[at].t, left, right))

ParseList(s) == LET parts == Arguments(s) IN [i \in DOMAIN parts |-> Parse(parts[i])]

ParseIn(s, at) ==
    LET value == Parse(Before(s, at))
        candidates == ParseList(Part(s, at + 2, Len(s) - 1))
    IN  Node({value} \cup ToSet(candidates), In(value, candidates, Is(s[at], {"NOT IN"})))

ParseFunction(s) ==
    LET arguments == ParseList(Part(s, 3, Len(s) - 1))
    IN  IF See(Part(s, 3, Len(s) - 1)).broken THEN Unsupported
        ELSE Node(ToSet(arguments), Function(s[1].t, arguments))

Atom(token) == IF Is(token, {"variable"}) THEN Variable(token.name) ELSE Constant(token.term)

\* A sign is taken off only after the logical operators and the comparison, and
\* what follows it is its operand, however long.
ParseSign(s) ==
    LET operand == Parse(Tail(s))
    IN  IF Is(s[1], {"+"}) THEN operand
        ELSE Node({operand}, Binary("arithmetic", "-", Zero, operand))

Parse(s) ==
    CASE s = <<>> -> Unsupported
      [] Is(s[1], {"("}) /\ Closing(s, 1) = 0 -> Unsupported
      [] Is(s[1], {"("}) /\ Closing(s, 1) = Len(s) -> Parse(Part(s, 2, Len(s) - 1))
      [] Logical(s, "||") # {} -> ParseBoth("logical", s, LastOf(Logical(s, "||")))
      [] Logical(s, "&&") # {} -> ParseBoth("logical", s, LastOf(Logical(s, "&&")))
      [] Is(s[1], {"!"}) -> LET inner == Parse(Tail(s)) IN Node({inner}, Not(inner))
      [] ComparisonsIn(s) # {} -> ParseBoth("comparison", s, Min(ComparisonsIn(s)))
      [] Is(s[1], Signs) -> ParseSign(s)
      [] Len(s) = 1 /\ IsAtom(s[1]) -> Atom(s[1])
      [] MembershipsIn(s) # {} -> ParseIn(s, Min(MembershipsIn(s)))
      [] Arithmetics(s, Signs) # {} -> ParseBoth("arithmetic", s, LastOf(Arithmetics(s, Signs)))
      [] Arithmetics(s, {"*", "/"}) # {} -> ParseBoth("arithmetic", s, LastOf(Arithmetics(s, {"*", "/"})))
      [] Len(s) > 2 /\ Is(s[1], FunctionNames) /\ Is(s[2], {"("}) /\ Is(s[Len(s)], {")"}) -> ParseFunction(s)
      [] OTHER -> Unsupported

-----------------------------------------------------------------------------
(* FILTER: parse_equality_filter takes what it can before parse_expression.  *)

\* trim_matches takes off the parentheses at either end up to the first blank:
\* those of FILTER ( ) itself, and if nothing stands apart, those of the text too.
Trimmed(s) ==
    LET inside == {i \in DOMAIN s : spaced \/ ~Is(s[i], {"(", ")"})}
    IN  IF inside = {} THEN <<>> ELSE Part(s, Min(inside), Max(inside))

\* ?variable = and a number or a literal. The text of a datatype is all between
\* ^^< and the > that ends the filter, whatever it is: the rest of a longer
\* expression too.
IsEqualityFilter(s) ==
    LET t == Trimmed(s)
        value == t[3]
    IN  /\ Len(t) >= 3
        /\ Is(t[1], {"variable"}) /\ Is(t[2], {"="}) /\ Is(value, {"constant"})
        /\ IsLiteral(value.term) /\ value.term.language = "none"
        /\ value.term.datatype = "boolean" => value.typed
        /\ Len(t) = 3 \/ (value.typed /\ EndsWithBracket(t[Len(t)]))

\* What parse_equality_filter is there for: a bare ?variable = literal.
IsBareEquality(s) == IsEqualityFilter(s) /\ Len(Trimmed(s)) = 3

EqualityFilter(s) ==
    LET t == Trimmed(s)
        datatype == IF IsBareEquality(s) THEN t[3].term.datatype ELSE "no type"
    IN  [variable |-> t[1].name, value |-> Literal(t[3].term.lexical, datatype)]

\* boolean_lexical
BooleanText(lexical) ==
    CASE lexical \in TrueTexts -> "true"
      [] lexical \in FalseTexts -> "false"
      [] OTHER -> "none"

\* Fault: a literal of another datatype is another literal.
MatchesWritten(term, value) == IsLiteral(term) /\ [term EXCEPT !.language = "none"] = value

\* Filter::Equal in matches_filter. The tag of a literal is not looked at.
MatchesEquality(term, value) ==
    CASE ~IsLiteral(term) -> FALSE
      [] {term.datatype, value.datatype} \subseteq Numerics ->
            NumberOf(term) = NumberOf(value) /\ NumberOf(term) # NotANumber
      [] value.datatype = "boolean" -> BooleanText(term.lexical) = BooleanText(value.lexical)
      [] OTHER ->
            /\ term.lexical = value.lexical
            /\ IF value.datatype = "none" THEN term.datatype \in Texts
               ELSE \/ term.datatype = value.datatype
                    \/ value.datatype = "string" /\ term.datatype = "none"

\* Whether FILTER (s) keeps a solution.
Keeps(s, row) ==
    IF IsEqualityFilter(s)
    THEN LET filter == EqualityFilter(s) IN MatchesEquality(row[filter.variable], filter.value)
    ELSE Holds(Evaluate(Parse(s), row))

-----------------------------------------------------------------------------
(* Writing.                                                                  *)

Depth(s) == Cardinality({i \in DOMAIN s : Is(s[i], {"("})}) - Cardinality({i \in DOMAIN s : Is(s[i], {")"})})
Operand(s) == s # <<>> /\ (IsAtom(Last(s)) \/ Is(Last(s), {")"}))
Complete(s) == Operand(s) /\ Depth(s) = 0

\* Within a list: the parenthesis open last belongs to a function or to IN.
InList(s) ==
    LET open == {i \in DOMAIN s : Is(s[i], {"("}) /\ Depth(Part(s, i, Len(s))) > 0}
    IN  open # {} /\ Max(open) > 1 /\ Is(s[Max(open) - 1], FunctionNames \cup Memberships)

Init ==
    /\ vocabulary \in DOMAIN Vocabularies
    /\ text = <<>>
    /\ spaced \in BOOLEAN

\* Bound: every parenthesis that is opened can still be closed.
Append_(tokens) ==
    /\ Len(text) + Len(tokens) + Depth(text \o tokens)
          + (IF IsAtom(Last(tokens)) \/ Is(Last(tokens), {")"}) THEN 0 ELSE 1) <= Words.tokens
    /\ text' = text \o tokens
    /\ UNCHANGED <<vocabulary, spaced>>

WriteAtom == ~Operand(text) /\ \E atom \in Words.atoms : Append_(<<atom>>)
WritePrefix == ~Operand(text) /\ \E t \in Words.prefixes : Append_(<<Token(t)>>)
WriteInfix == Operand(text) /\ \E t \in Words.infixes : Append_(<<Token(t)>>)
WriteIn == Operand(text) /\ \E t \in Words.lists : Append_(<<Token(t), Token("(")>>)
WriteFunction == ~Operand(text) /\ \E name \in Words.functions : Append_(<<Token(name), Token("(")>>)
WriteComma == Operand(text) /\ InList(text) /\ Append_(<<Token(",")>>)
Close == Operand(text) /\ Depth(text) > 0 /\ Append_(<<Token(")")>>)

Next ==
    \/ WriteAtom \/ WritePrefix \/ WriteInfix
    \/ WriteIn \/ WriteFunction \/ WriteComma \/ Close

Spec == Init /\ [][Next]_textVars
=============================================================================
