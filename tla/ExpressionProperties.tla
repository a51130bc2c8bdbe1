-------------------------- MODULE ExpressionProperties --------------------------
(***************************************************************************)
(* What must be true of expressions: the splitting of the text finds the   *)
(* tree the grammar gives it, up to misreadings that are named here, and   *)
(* evaluation finds the value of that tree.                                *)
(***************************************************************************)
EXTENDS ExpressionGrammar

-----------------------------------------------------------------------------
(* Where the reading of a text departs from the grammar.                     *)

IsSign(i) == Is(text[i], Signs \cup {"!"}) /\ ~Operand(Before(text, i))

\* An operator after i on its level, or on one of its levels before a separator.
After_(i, ts, separators) ==
    \E j \in i+1..Len(text) :
        /\ Is(text[j], ts)
        /\ Depth(Part(text, i, j - 1)) = 0
        /\ \A k \in i+1..j-1 :
            /\ Depth(Part(text, i, k)) >= 0
            /\ Depth(Part(text, i, k)) = 0 => ~Is(text[k], separators)

\* ! and a sign are taken for all that follows on their level, not for the
\* primary expression: !?a = ?b is !(?a = ?b), -?a + ?b is -(?a + ?b).
UnaryTakesAll ==
    \E i \in DOMAIN text :
        /\ IsSign(i)
        /\ IF Is(text[i], {"!"})
           THEN After_(i, Comparisons \cup Memberships \cup ArithmeticOperators, {"||", "&&", ","})
           ELSE After_(i, Memberships \cup Signs, {"||", "&&", ","} \cup Comparisons)

\* + before an operand is dropped, so that it also lets pass what is no number.
PlusDropped == \E i \in DOMAIN text : IsSign(i) /\ Is(text[i], {"+"})

\* With a blank in between, the sign after an operator is an operator too.
SignAfterBlank ==
    /\ spaced
    /\ \E i \in 2..Len(text) : IsSign(i) /\ Is(text[i], Signs) /\ Is(text[i - 1], ArithmeticOperators)

\* Without a blank, < begins an IRI if there is a > later on.
LessTakenForIri == \E i \in DOMAIN text : StartsIri(text, i)

\* Without a blank, the = after a datatype or an IRI is half of >=.
EqualsTakenForGreater ==
    /\ ~spaced
    /\ \E i \in 2..Len(text) : Is(text[i], {"="}) /\ EndsWithBracket(text[i - 1])

Misread == UnaryTakesAll \/ PlusDropped \/ SignAfterBlank \/ LessTakenForIri \/ EqualsTakenForGreater

Grammatical == Complete(text) /\ Tree(text) # Unsupported

\* Two values are the same for every use that can be made of them.
SameValue(left, right) == left = right \/ (~IsError(left) /\ ~IsError(right) /\ SameText(left, right))

\* The code's reading of a text and evaluation of what it read (parse_expression
\* and evaluate_expression) give the value that the grammar and the semantics of
\* SPARQL give it, with every error absorbed or passed on as they say. A
\* misreading that comes from the blanks of a text never gives it another value:
\* such a text is refused as a whole (RuntimeError::UnsupportedSparql).
ValueAsWritten ==
    Grammatical =>
        LET read == Parse(text)
            meant == Tree(text)
        IN  /\ ~Misread => \A row \in Words.rows : SameValue(Evaluate(read, row), Meaning(meant, row))
            /\ SignAfterBlank \/ LessTakenForIri \/ EqualsTakenForGreater => read = Unsupported

-----------------------------------------------------------------------------
(* Functions of terms.                                                       *)

TermsOfRows == UNION {{row[name] : name \in DOMAIN row} : row \in Words.rows} \ {Error}

\* A literal put together again from its text and its datatype or language is
\* the same literal, and a number or boolean survives being cast to a string and
\* back (STR, DATATYPE, LANG, STRDT, STRLANG and the casts of evaluate_function).
TextRoundTrip ==
    \A term \in TermsOfRows :
        /\ IsLiteral(term) =>
            SameText(term, IF term.language = "none" THEN Apply("STRDT", <<Str(term), Datatype(term)>>)
                           ELSE Apply("STRLANG", <<Str(term), Lang(term)>>))
        /\ \A cast \in {"XSD:DECIMAL", "XSD:INTEGER", "XSD:BOOLEAN"} :
            LET value == Apply(cast, <<term>>)
                again == Apply(cast, <<Str(value)>>)
            IN  IsError(value) \/ (TermsEqual(again, value) = Boolean(TRUE) /\ again.datatype = value.datatype)

-----------------------------------------------------------------------------
(* Filters.                                                                  *)

\* Where the fast path takes more than it was written for: of ?a = "x"^^<t> || ...
\* it reads t> || ... up to the last > as the datatype (sparql.rs:3627), although
\* the comment at sparql.rs:3601 leaves such a filter to parse_expression.
TakenForOneLiteral == IsEqualityFilter(text) /\ ~IsBareEquality(text)

\* Where the fast path decides otherwise than =: a term with a tag, a filter with
\* a boolean, two numbers that are none.
FilterDeviates(row) ==
    LET filter == EqualityFilter(text)
        term == row[filter.variable]
    IN  \/ IsLiteral(term) /\ term.language # "none"
        \/ filter.value.datatype = "boolean"
        \/ IllFormed(term) /\ IllFormed(filter.value)

\* FILTER keeps the same solutions when its expression is a bare comparison with
\* a literal, which parse_equality_filter and matches_filter take, as when it is
\* evaluated like any other expression, up to FilterDeviates. A longer expression
\* that they take for such a comparison keeps no solution at all, whatever it
\* means (TakenForOneLiteral).
FilterPathsAgree ==
    Grammatical =>
        \A row \in Words.rows :
            /\ IsBareEquality(text) =>
                  FilterDeviates(row) \/ Keeps(text, row) = Holds(Meaning(Tree(text), row))
            /\ TakenForOneLiteral => ~Keeps(text, row)
=============================================================================
