------------------------------ MODULE Solutions ------------------------------
(* Solutions of a query, and what may be asked of one: Binding in              *)
(* src/src/model.rs, join and matches_filter in src/src/lib.rs. A solution     *)
(* gives every variable a term or leaves it unbound.                           *)

CONSTANTS Variables, Terms, Unbound

Binding == [Variables -> Terms \cup {Unbound}]
NoBinding == [v \in Variables |-> Unbound]

Bound(solution, v) == solution[v] # Unbound

Compatible(left, right) ==
    \A v \in Variables : Bound(left, v) /\ Bound(right, v) => left[v] = right[v]

Merge(left, right) == [v \in Variables |-> IF Bound(left, v) THEN left[v] ELSE right[v]]

Hide(solution, names) == [v \in Variables |-> IF v \in names THEN Unbound ELSE solution[v]]

\* The filters of the model: bound(?v), !bound(?v), and ?v = value, an error
\* and so no match when ?v is not bound.
MatchesFilter(solution, filter) ==
    CASE filter.test = "bound" -> Bound(solution, filter.variable)
      [] filter.test = "unbound" -> ~Bound(solution, filter.variable)
      [] filter.test = "equals" -> solution[filter.variable] = filter.value
=============================================================================
