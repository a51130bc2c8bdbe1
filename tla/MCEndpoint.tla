----------------------------- MODULE MCEndpoint -----------------------------
(* Instances of the endpoint for TLC.                                        *)
EXTENDS EndpointProperties, TLC

AnyMedia  == {Media}                  \* no Accept header, or one with */*
SomeMedia == {Media, {"results"}}     \* or one naming the results format only

Symmetry == Permutations(Requests)
=============================================================================
