---------------------------- MODULE Reachability ----------------------------
(* What can be reached along the edges of a relation, stated without recursion: *)
(* b is reached from a when every set of nodes that contains a and is closed    *)
(* under the edges contains b.                                                  *)

Closed(R, S) == \A e \in R : e[1] \in S => e[2] \in S

Reaches(R, Nodes, a, b) == \A S \in SUBSET Nodes : a \in S /\ Closed(R, S) => b \in S
=============================================================================
