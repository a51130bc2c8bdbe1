----------------------------- MODULE GraphQuery -----------------------------
(* The program and SPARQL read the same query: GraphPattern and SparqlAlgebra *)
(* item by item in step.                                                      *)
EXTENDS GraphPattern

CONSTANT Themes     \* what queries are made of: [blocks, paths, tables, aliases, filters, openings, items]

VARIABLES
    theme,          \* bound: what this query is made of
    items,          \* how many of them have been read, theme.items at most
    meaning

Algebra == INSTANCE SparqlAlgebra WITH Middle <- Middles[1]

allVars == <<vars, theme, items, meaning>>

QueryInit == Init /\ Algebra!Init /\ items = 0 /\ theme \in Themes

\* Bound: the pattern of an EXISTS has no group and no alias inside, so that
\* putting the values of a solution into it is joining the solution with it.
InExists == Top.opening.kind = "exists"

Item(opens) ==
    /\ items + (IF opens THEN 2 ELSE 1) <= theme.items
    /\ items' = items + 1
    /\ UNCHANGED theme

ReadItem ==
    \/ \E block \in theme.blocks : Item(FALSE) /\ Triples(block) /\ Algebra!Triples(block)
    \/ \E path \in theme.paths : Item(FALSE) /\ Path(path) /\ Algebra!Path(path)
    \/ \E table \in theme.tables : Item(FALSE) /\ Values(table) /\ Algebra!Values(table)
    \/ \E alias \in theme.aliases :
          ~InExists /\ Item(FALSE) /\ Bind(alias[1], alias[2]) /\ Algebra!Bind(alias[1], alias[2])
    \/ \E filter \in theme.filters : Item(FALSE) /\ AddFilter(filter) /\ Algebra!AddFilter(filter)
    \/ \E opening \in theme.openings :
          ~InExists /\ Item(TRUE) /\ Open(opening) /\ Algebra!Open(opening)

\* Bound: no group is empty.
Filled == Settled(Top).current # Empty \/ Top.filters # <<>>

CloseGroup ==
    /\ Filled
    /\ UNCHANGED <<theme, items>>
    /\ \/ CloseBraces /\ Algebra!CloseBraces
       \/ CloseSubquery /\ Algebra!CloseSubquery
       \/ CloseUnion /\ Algebra!CloseUnion
       \/ CloseOptional /\ Algebra!CloseOptional
       \/ CloseMinus /\ Algebra!CloseMinus
       \/ CloseExists /\ Algebra!CloseExists
       \/ RejectExists /\ UNCHANGED meaning

Next == ReadItem \/ CloseGroup \/ (Answer /\ UNCHANGED <<theme, items, meaning>>)

Spec == QueryInit /\ [][Next]_allVars
=============================================================================
