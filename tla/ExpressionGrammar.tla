--------------------------- MODULE ExpressionGrammar ---------------------------
(***************************************************************************)
(* What an expression means: the grammar of SPARQL 1.1 (ConditionalOr down *)
(* to PrimaryExpression) as a relation between tokens and trees, and the   *)
(* value of a tree. Arithmetic and the functions of terms are those of     *)
(* Expressions; the operators of logic and comparison are stated anew.     *)
(* The code orders no booleans, and compares them and NaN as texts, where  *)
(* SPARQL compares values; and IN has no error where = has one because a   *)
(* datatype is unknown. Here it is as in the code: see the README.         *)
(***************************************************************************)
EXTENDS ExpressionText

\* Outside all parentheses.
Outside(s, ts) == {i \in DOMAIN s : Is(s[i], ts) /\ Depth(Before(s, i)) = 0}

\* An operator between two operands; the others are signs.
Infix(s, ts) == {i \in Outside(s, ts) : Operand(Before(s, i))}

Relations(s) == Infix(s, Comparisons \cup Memberships)

Bracketed(s, i) == i < Len(s) /\ Is(s[i], {"("}) /\ Closing(s, i) = Len(s)

\* The arguments of a list in parentheses.
Listed(s) ==
    LET ends == SetToSortSeq(Outside(s, {","}) \cup {Len(s) + 1}, <)
    IN  [i \in DOMAIN ends |-> Part(s, IF i = 1 THEN 1 ELSE ends[i - 1] + 1, ends[i] - 1)]

-----------------------------------------------------------------------------
RECURSIVE Tree(_)

TreeOf(op, s, at) ==
    LET left == Tree(Before(s, at))
        right == Tree(After(s, at))
    IN  Node({left, right}, Binary(op, s[at].t, left, right))

TreesOf(s) == LET parts == Listed(s) IN [i \in DOMAIN parts |-> Tree(parts[i])]

\* A comparison or IN, of which there is at most one at a level.
RelationOf(s) ==
    LET at == Min(Relations(s))
        candidates == TreesOf(Part(s, at + 2, Len(s) - 1))
        value == Tree(Before(s, at))
    IN  CASE Cardinality(Relations(s)) > 1 -> Unsupported
          [] Is(s[at], Comparisons) -> TreeOf("comparison", s, at)
          [] Bracketed(s, at + 1) ->
                Node({value} \cup ToSet(candidates), In(value, candidates, Is(s[at], {"NOT IN"})))
          [] OTHER -> Unsupported

PrimaryOf(s) ==
    CASE Len(s) = 1 /\ IsAtom(s[1]) -> Atom(s[1])
      [] Len(s) > 2 /\ Bracketed(s, 1) -> Tree(Part(s, 2, Len(s) - 1))
      [] Len(s) > 3 /\ Is(s[1], FunctionNames) /\ Bracketed(s, 2) ->
            LET arguments == TreesOf(Part(s, 3, Len(s) - 1))
            IN  IF Len(arguments) \notin Arity(s[1].t) THEN Unsupported
                ELSE Node(ToSet(arguments), Function(s[1].t, arguments))
      [] OTHER -> Unsupported

\* A unary operator applies to a primary expression.
UnaryOf(s) ==
    LET operand == PrimaryOf(Tail(s))
    IN  CASE Is(s[1], {"!"}) -> Node({operand}, Not(operand))
          [] Is(s[1], Signs) -> Node({operand}, Function(s[1].t, <<operand>>))
          [] OTHER -> PrimaryOf(s)

Tree(s) ==
    CASE s = <<>> -> Unsupported
      [] Infix(s, {"||"}) # {} -> TreeOf("logical", s, Max(Infix(s, {"||"})))
      [] Infix(s, {"&&"}) # {} -> TreeOf("logical", s, Max(Infix(s, {"&&"})))
      [] Relations(s) # {} -> RelationOf(s)
      [] Infix(s, Signs) # {} -> TreeOf("arithmetic", s, Max(Infix(s, Signs)))
      [] Infix(s, {"*", "/"}) # {} -> TreeOf("arithmetic", s, Max(Infix(s, {"*", "/"})))
      [] OTHER -> UnaryOf(s)

-----------------------------------------------------------------------------
(* Values.                                                                   *)

Known(term) == ~UnknownType(term) /\ ~IllFormed(term)
BothIn(left, right, datatypes) == HasDatatype(left, datatypes) /\ HasDatatype(right, datatypes)

\* Terms are equal if they are the same or stand for the same value, and are not
\* known to be different if one of them stands for no value that is known.
TermsEqual(left, right) ==
    CASE left = right -> Boolean(TRUE)
      [] ~IsLiteral(left) \/ ~IsLiteral(right) -> Boolean(FALSE)
      [] (left.language = "none") # (right.language = "none") -> Boolean(FALSE)
      [] ~Known(left) \/ ~Known(right) -> Error
      [] IsRational(left) /\ IsRational(right) -> Boolean(NumberOf(left) = NumberOf(right))
      [] BothIn(left, right, Texts) -> Boolean(left.lexical = right.lexical /\ left.language = right.language)
      [] OTHER -> Boolean(FALSE)

TermsOrdered(operator, left, right) ==
    LET known == \/ IsRational(left) /\ IsRational(right)
                 \/ BothIn(left, right, Texts) /\ left.language = "none" /\ right.language = "none"
                 \/ BothIn(left, right, {"date"})
        less == ValueOrder(left, right) = "less"
        equal == TermsEqual(left, right) = Boolean(TRUE)
    IN  CASE ~known -> Error
          [] operator = "<" -> Boolean(less)
          [] operator = "<=" -> Boolean(less \/ equal)
          [] operator = ">" -> Boolean(~less /\ ~equal)
          [] operator = ">=" -> Boolean(~less)

Connected(operator, truths) ==
    LET deciding == Boolean(operator = "||")
    IN  IF deciding \in truths THEN deciding
        ELSE IF Error \in truths THEN Error
        ELSE Boolean(operator = "&&")

\* The comment at lib.rs:2322: all candidates are computed, and an error among
\* them is not hidden by a match.
MemberOf(value, candidates, negated) ==
    IF Error \in {value} \cup candidates THEN Error
    ELSE Boolean(negated # (\E c \in candidates : TermsEqual(value, c) = Boolean(TRUE)))

RECURSIVE Meaning(_, _)
Meaning(e, row) ==
    LET left == Meaning(e.left, row)
        right == Meaning(e.right, row)
        argument == [i \in DOMAIN e.arguments |-> Meaning(e.arguments[i], row)]
    IN  CASE e.op = "variable" -> row[e.name]
          [] e.op = "constant" -> e.term
          [] e.op = "not" -> Negation(Meaning(e.inner, row))
          [] e.op = "logical" -> Connected(e.operator, {Truth(left), Truth(right)})
          [] e.op = "arithmetic" -> Arithmetic(e.operator, left, right)
          [] e.op = "in" -> MemberOf(Meaning(e.value, row), {Meaning(c, row) : c \in ToSet(e.candidates)}, e.negated)
          [] e.op = "comparison" ->
                CASE Error \in {left, right} -> Error
                  [] e.operator = "=" -> TermsEqual(left, right)
                  [] e.operator = "!=" -> Negation(TermsEqual(left, right))
                  [] OTHER -> TermsOrdered(e.operator, left, right)
          [] e.op = "function" ->
                CASE e.name = "+" -> Arithmetic("+", IntegerTerm(0), argument[1])
                  [] e.name = "-" -> Arithmetic("-", IntegerTerm(0), argument[1])
                  [] e.name = "BOUND" -> EvaluateFunction(e, row)
                  [] e.name = "IF" ->
                        LET condition == Truth(argument[1])
                        IN  IF condition = Error THEN Error
                            ELSE argument[IF condition = Boolean(TRUE) THEN 2 ELSE 3]
                  [] e.name = "COALESCE" ->
                        LET valued == SelectSeq(argument, LAMBDA term : term # Error)
                        IN  IF valued = <<>> THEN Error ELSE Head(valued)
                  [] OTHER -> Apply(e.name, argument)
=============================================================================
