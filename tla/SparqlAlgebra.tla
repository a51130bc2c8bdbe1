---------------------------- MODULE SparqlAlgebra ----------------------------
(***************************************************************************)
(* What SPARQL says a query means: the algebra of SPARQL 1.1, section 18,  *)
(* evaluated from the innermost group outwards, every group on its own.    *)
(* meaning is the stack of groups being read, each with the bag of its     *)
(* solutions; the actions are those of GraphPattern, which reads the same  *)
(* text.                                                                   *)
(***************************************************************************)
EXTENDS Solutions, Naturals, SequencesExt, FiniteSetsExt, Bags

CONSTANTS Middle     \* a variable of no query, for the node inside a path
VARIABLES dataset, meaning

R == INSTANCE Reachability

-----------------------------------------------------------------------------
(* Bags of solutions.                                                        *)

BagOf(solutions, count(_)) == [s \in {s \in solutions : count(s) > 0} |-> count(s)]

Image(bag, f(_)) ==
    BagOf({f(s) : s \in DOMAIN bag},
          LAMBDA t : MapThenSumSet(LAMBDA s : bag[s], {s \in DOMAIN bag : f(s) = t}))

JoinBags(left, right, Holds(_)) ==
    LET pairs == {p \in (DOMAIN left) \X (DOMAIN right) :
                     Compatible(p[1], p[2]) /\ Holds(Merge(p[1], p[2]))}
    IN  BagOf({Merge(p[1], p[2]) : p \in pairs},
              LAMBDA s : MapThenSumSet(LAMBDA p : left[p[1]] * right[p[2]],
                                       {p \in pairs : Merge(p[1], p[2]) = s}))

Join(left, right) == JoinBags(left, right, LAMBDA s : TRUE)

Sub(bag, Holds(_)) == [s \in {s \in DOMAIN bag : Holds(s)} |-> bag[s]]

LeftJoin(left, right, Holds(_)) ==
    JoinBags(left, right, Holds)
    (+) Sub(left, LAMBDA l : \A r \in DOMAIN right : ~(Compatible(l, r) /\ Holds(Merge(l, r))))

Minus(left, right) ==
    Sub(left, LAMBDA l : \A r \in DOMAIN right :
                            \/ ~Compatible(l, r)
                            \/ \A v \in Variables : ~(Bound(l, v) /\ Bound(r, v)))

Unit == SetToBag({NoBinding})

-----------------------------------------------------------------------------
(* Triples and paths.                                                        *)

Edges(predicate) == IF predicate \in DOMAIN dataset.rows THEN dataset.rows[predicate] ELSE <<>>

Matches(token, term) == token \in Variables \/ token = term

Solution(s, o, edge) == [v \in Variables |-> IF v = s THEN edge[1] ELSE IF v = o THEN edge[2] ELSE Unbound]

\* A bag: as many solutions as the predicate has fitting rows.
TripleMeaning(s, p, o) ==
    LET fitting == {i \in DOMAIN Edges(p) : Matches(s, Edges(p)[i][1]) /\ Matches(o, Edges(p)[i][2])}
    IN  BagOf({Solution(s, o, Edges(p)[i]) : i \in fitting},
              LAMBDA m : Cardinality({i \in fitting : Solution(s, o, Edges(p)[i]) = m}))

BlockMeaning(block) ==
    FoldLeft(LAMBDA bag, t : Join(bag, TripleMeaning(t.s, t.p, t.o)), Unit, block)

TermsOf(edges) == UNION {{edges[i][1], edges[i][2]} : i \in DOMAIN edges}
GraphTerms == UNION {TermsOf(dataset.rows[p]) : p \in DOMAIN dataset.rows}

\* A set: the ends of paths of any length, of length 0 if there are no edges.
ClosureMeaning(s, edges, o, nodes) ==
    SetToBag({Solution(s, o, e) :
        e \in {e \in nodes \X nodes :
                  /\ R!Reaches(ToSet(edges), nodes, e[1], e[2])
                  /\ Matches(s, e[1]) /\ Matches(o, e[2])
                  /\ s = o => e[1] = e[2]}})

PathMeaning(path) ==
    CASE path.path = "inverse" -> TripleMeaning(path.o, path.p, path.s)
      [] path.path = "alternative" ->
            TripleMeaning(path.s, path.p, path.o) (+) TripleMeaning(path.s, path.q, path.o)
      [] path.path = "sequence" ->
            Image(Join(TripleMeaning(path.s, path.p, Middle), TripleMeaning(Middle, path.q, path.o)),
                  LAMBDA m : Hide(m, {Middle}))
      [] path.path = "closure" -> ClosureMeaning(path.s, Edges(path.p), path.o, GraphTerms)
      [] path.path = "zero" ->
            ClosureMeaning(path.s, <<>>, path.o, GraphTerms \cup ({path.s, path.o} \cap Terms))

-----------------------------------------------------------------------------
(* Groups. The filters of a group hold of its solutions as a whole; those of *)
(* an OPTIONAL decide what it adds.                                          *)

NewMeaning(opening) == [opening |-> opening, bag |-> Unit, operand |-> <<>>, filters |-> {}]

Init == meaning = <<NewMeaning([kind |-> "query"])>>

Top == Last(meaning)
Outer == meaning[Len(meaning) - 1]

Settled(group) ==
    [group EXCEPT !.bag = IF group.operand = <<>> THEN @ ELSE Join(@, group.operand[1]),
                  !.operand = <<>>]

Holds(solution, filter) ==
    IF filter.test = "exists"
    THEN filter.negated # (\E s \in filter.solutions :
                              /\ Compatible(solution, s)
                              /\ \A f \in filter.filters : MatchesFilter(Merge(solution, s), f))
    ELSE MatchesFilter(solution, filter)

HoldAll(solution, filters) == \A f \in filters : Holds(solution, f)

Meaning(group) == Sub(Settled(group).bag, LAMBDA s : HoldAll(s, group.filters))

SetTop(group) == meaning' = Append(Front(meaning), group)
SetOuter(group) == meaning' = Append(SubSeq(meaning, 1, Len(meaning) - 2), group)

Add(bag) == SetTop([Settled(Top) EXCEPT !.bag = Join(@, bag)])

Triples(block) == Add(BlockMeaning(block))
Path(path) == Add(PathMeaning(path))
Values(table) == Add(ToBag(table))
Bind(source, alias) ==
    SetTop([Settled(Top) EXCEPT !.bag =
        Image(@, LAMBDA s : IF Bound(s, source) THEN [s EXCEPT ![alias] = s[source]] ELSE s)])
AddFilter(filter) == SetTop([Top EXCEPT !.filters = @ \cup {filter}])

Open(opening) ==
    meaning' = Append(Front(meaning), IF opening.kind = "union" THEN Top ELSE Settled(Top))
               \o <<NewMeaning(opening)>>

CloseBraces == SetOuter([Outer EXCEPT !.operand = <<Meaning(Top)>>])

CloseSubquery ==
    LET selection == Top.opening.selection
        projected == Image(Meaning(Top), LAMBDA s : Hide(s, Variables \ selection.keep))
    IN  SetOuter([Outer EXCEPT !.operand =
            <<IF selection.distinct THEN SetToBag(DOMAIN projected) ELSE projected>>])

CloseUnion == SetOuter([Outer EXCEPT !.operand = <<@[1] (+) Meaning(Top)>>])

CloseOptional ==
    SetOuter([Outer EXCEPT !.bag = LeftJoin(@, Settled(Top).bag, LAMBDA s : HoldAll(s, Top.filters))])

CloseMinus == SetOuter([Outer EXCEPT !.bag = Minus(@, Meaning(Top))])

\* A filter of the group around it, wherever it stands.
CloseExists ==
    SetOuter([Outer EXCEPT !.filters = @ \cup
        {[test |-> "exists", negated |-> Top.opening.negated,
          solutions |-> DOMAIN Settled(Top).bag, filters |-> Top.filters]}])
=============================================================================
