-------------------------------- MODULE Joins --------------------------------
(* Relations, which are sequences of solutions, and how a group of triples     *)
(* joins those of its triples (join_binding_relations, next_bgp_candidate in   *)
(* src/src/lib.rs): one after the other, picked by what has been found so far. *)
EXTENDS Solutions, Naturals, SequencesExt, FiniteSetsExt

ASSUME VariablesAssumption == IsFiniteSet(Variables)

\* join: a solution, or none.
JoinOne(left, right) == IF Compatible(left, right) THEN <<Merge(left, right)>> ELSE <<>>

\* The solutions of right that go with one of left.
Joined(left, right) == FlattenSeq([j \in DOMAIN right |-> JoinOne(left, right[j])])

\* Those of them that an index on one of the keys finds.
JoinedByKey(keys, left, right) ==
    LET key == CHOOSE v \in keys : TRUE
    IN  FlattenSeq([j \in DOMAIN right |-> IF right[j][key] = left[key] THEN JoinOne(left, right[j]) ELSE <<>>])

JoinByKey(keys, left, right) ==
    FlattenSeq([i \in DOMAIN left |-> IF keys = {} THEN Joined(left[i], right) ELSE JoinedByKey(keys, left[i], right)])

\* Fault: a variable that the first solutions bind is taken for one all bind.
JoinOnFirst(left, right) ==
    JoinByKey({v \in Variables : \A row \in {left[i] : i \in DOMAIN left \cap {1}}
                                        \cup {right[i] : i \in DOMAIN right \cap {1}} : Bound(row, v)},
              left, right)

\* join_binding_relations: an index on a variable that every solution of both
\* sides binds, where there is one.
JoinRelations(left, right) ==
    JoinByKey({v \in Variables : \A row \in ToSet(left) \cup ToSet(right) : Bound(row, v)}, left, right)

BoundNames(rows) == {v \in Variables : \E row \in ToSet(rows) : Bound(row, v)}

\* next_bgp_candidate: most variables in common, then fewest solutions, then first.
NextCandidate(rows, candidates) ==
    LET shared(i) == Cardinality(BoundNames(candidates[i]) \cap BoundNames(rows))
        better(i, j) == \/ shared(i) > shared(j)
                        \/ shared(i) = shared(j) /\ Len(candidates[i]) < Len(candidates[j])
    IN  CHOOSE i \in DOMAIN candidates :
            \A j \in DOMAIN candidates \ {i} : better(i, j) \/ (i < j /\ ~better(j, i))

\* Vec::swap_remove
SwapRemove(seq, i) == [j \in 1..Len(seq) - 1 |-> IF j = i THEN Last(seq) ELSE seq[j]]

\* The loop of select_bgp: what is joined, and what is left to join.
JoinNext(state) ==
    LET next == NextCandidate(state.rows, state.left)
    IN  [rows |-> JoinRelations(state.rows, state.left[next]), left |-> SwapRemove(state.left, next)]

JoinAll(rows, candidates) ==
    LET after[n \in 0..Len(candidates)] ==
            IF n = 0 THEN [rows |-> rows, left |-> candidates] ELSE JoinNext(after[n - 1])
    IN  after[Len(candidates)].rows
=============================================================================
