-------------------------- MODULE RequestContract --------------------------
(***************************************************************************)
(* What rtop's documentation promises of requests and their PostgreSQL     *)
(* work (CONTEXT.md "request isolation", ADR 0004): a request is answered  *)
(* at most once, it works on a session of its own, the session is released *)
(* before the answer, and nothing is started for an answered request.      *)
(***************************************************************************)
CONSTANTS
    Requests,
    Held        \* requests whose work need not end by itself

VARIABLES
    working,    \* requests that hold a PostgreSQL session
    released,   \* requests whose session was released
    answered    \* requests the endpoint is finished with

vars == <<working, released, answered>>

Init == working = {} /\ released = {} /\ answered = {}

Begin(r) ==
    /\ r \notin working \cup released \cup answered
    /\ working' = working \cup {r}
    /\ UNCHANGED <<released, answered>>

Release(r) ==
    /\ r \in working
    /\ working' = working \ {r}
    /\ released' = released \cup {r}
    /\ UNCHANGED answered

Answer(r) ==
    /\ r \notin working \cup answered
    /\ answered' = answered \cup {r}
    /\ UNCHANGED <<working, released>>

Next == \E r \in Requests : Begin(r) \/ Release(r) \/ Answer(r)

Spec == Init /\ [][Next]_vars

\* A session taken is given back, unless the work it does never ends.
FairSpec == Spec /\ \A r \in Requests \ Held : WF_vars(Release(r))
=============================================================================
