------------------------- MODULE EndpointProperties -------------------------
(***************************************************************************)
(* What the endpoint of Endpoint.tla must guarantee.                       *)
(***************************************************************************)
EXTENDS Endpoint

\* Work is orphaned when the endpoint is finished with a request whose query
\* still holds, or may still open, a PostgreSQL session.
Orphaned(r) == handler[r] \in Answered /\ worker[r] \notin {"none", "done", "panicked"}

\* The ways out of execute_until_disconnect that do not wait for the worker: the
\* watched socket fails, or could not be made non-blocking in the first place.
SocketFailed(r) == target[r] = "sparql" /\ (client[r] = "reset" \/ r \notin nonblocking)

\* Only a request whose connection was reset or whose socket failed can leave
\* work behind: every other way out of execute_until_disconnect waits for the
\* worker, whose session is dropped before it sends its result.
OrphanedOnlyByFailure == \A r \in Requests : Orphaned(r) => SocketFailed(r)

\* "After the client cannot receive the answer, still wait for the query thread
\* to clean up, so that no PostgreSQL execution unit is left behind"
\* (server.rs:237): no way out of a request leaves work behind.
NoOrphanedWork == \A r \in Requests : ~Orphaned(r)

\* A query is cut short by a cancel request only on behalf of a client that has
\* left; a connected client never loses its answer to a cancellation.
CancelledOnlyAfterDeparture ==
    \A r \in Requests : outcome[r] = "cancelled" => client[r] # "open"

\* A client that stays connected is sent the whole answer the Content-Length
\* header announces (server.rs:158); the only connections closed without one
\* are those whose request could not be read.
WholeAnswer ==
    \A r \in Requests :
        handler[r] = "done" /\ client[r] = "open" /\ target[r] # "unreadable"
            => delivery[r] = "whole"

\* A process started on a broken configuration answers every route but the
\* health check with that diagnosis (server.rs:20-22), whatever has become of
\* the file since, and never opens a session; a client whose Accept header does
\* not admit text/plain gets 406 in its place (server.rs:142).
DiagnosisForTextClients ==
    server = "degraded" =>
        \A r \in Requests :
            /\ backend[r] = "none"
            /\ reply[r] # "none" /\ "text" \in accept[r]
                  => reply[r] = IF target[r] = "healthz" THEN "200" ELSE "500"

\* No step starts a statement for a request the endpoint is finished with,
\* except behind a failed socket.
NoStatementAfterAnswer ==
    [][\A r \in Requests :
          issued'[r] # issued[r] => handler[r] \notin Answered \/ SocketFailed(r)]_vars

-----------------------------------------------------------------------------
\* Every client that connects is answered (or its unreadable connection dropped)
\* though the statements of the requests in Hanging never end: no request waits
\* for another one's thread, channel or session.
Served ==
    \A r \in Requests \ Hanging :
        client[r] # "absent" ~> handler[r] = "done" \/ server = "exited"

\* The statement in progress when a watched client closes its connection is
\* ended even if it would never end by itself.
DisconnectEndsStatement ==
    \A r \in Requests :
        (handler[r] = "poll" /\ client[r] = "gone" /\ backend[r] = "active")
            ~> backend[r] # "active"

-----------------------------------------------------------------------------
(* The strengthening that makes the safety properties inductive.             *)

\* A session is open exactly while the query is between connecting and
\* finishing, and busy exactly while a statement is awaited.
SessionFollowsQuery(r) ==
    /\ worker[r] \in {"none", "load", "connect"} => backend[r] = "none"
    /\ worker[r] \in {"register", "build", "ready"} => backend[r] = "idle"
    /\ worker[r] \in {"describe", "exec"} => backend[r] = "active"
    /\ worker[r] \in {"sending", "done", "panicked"} => backend[r] \in {"none", "closed"}

\* A query is started by a handler that has read its request, and is waited for
\* on a socket it made non-blocking, or in its own thread.
QueryFollowsHandler(r) ==
    /\ handler[r] \in {"none", "read"} => worker[r] = "none" /\ r \notin nonblocking
    /\ handler[r] \in Watching => target[r] = "sparql" /\ r \in nonblocking
    /\ client[r] = "absent" => handler[r] = "none"

\* Every trace of a cancellation belongs to a client that has left.
CancellationFollowsClient(r) ==
    \/ handler[r] \in {"token", "cancel"} \/ token[r] = "taken"
    \/ r \in interrupt \/ outcome[r] = "cancelled"
    => client[r] \in {"half", "gone", "reset"}

\* A status is chosen once the request has been read, never before the
\* configuration has been; only the routes that run the query in the handler's
\* own thread can be unwound with it.
AnswerFollowsHandler(r) ==
    /\ server \in {"down", "bound"} => handler[r] = "none"
    /\ handler[r] \in {"none", "read"} => reply[r] = "none"
    /\ handler[r] = "sync" => target[r] \in {"predefined", "reformulate"}
    /\ worker[r] = "panicked" => "panic" \in Env

\* Behind a startup error no route gets as far as a query.
DiagnosisKept(r) ==
    server = "degraded" =>
        /\ handler[r] \in {"none", "read"} \cup Answered
        /\ worker[r] = "none"
        /\ reply[r] \in {"none", Negotiated(r, IF target[r] = "healthz" THEN "200" ELSE "500", "text")}

\* The faults that cost a connected client its answer: no descriptor for the
\* duplicate of its socket, a panic in the thread that would answer, a body that
\* outgrows the send buffer of a connection made non-blocking.
AnswerLostByFault(r) ==
    \/ "socket" \in Env
    \/ "panic" \in Env /\ target[r] \in {"predefined", "reformulate"}
    \/ "large" \in Env /\ r \in nonblocking /\ reply[r] = "200"

WholeUnlessFault(r) ==
    handler[r] = "done" /\ client[r] = "open" /\ target[r] # "unreadable"
        => delivery[r] = "whole" \/ AnswerLostByFault(r)

IInv ==
    /\ TypeOK
    /\ OrphanedOnlyByFailure
    /\ \A r \in Requests :
          /\ SessionFollowsQuery(r) /\ QueryFollowsHandler(r) /\ CancellationFollowsClient(r)
          /\ AnswerFollowsHandler(r) /\ DiagnosisKept(r) /\ WholeUnlessFault(r)

-----------------------------------------------------------------------------
(* The endpoint implements the contract.                                     *)
WorkingView  == Sessions
ReleasedView == {r \in Requests : backend[r] = "closed"}
AnsweredView == {r \in Requests : handler[r] \in Answered}

Contract == INSTANCE RequestContract
    WITH working <- WorkingView, released <- ReleasedView, answered <- AnsweredView,
         Held <- Hanging

\* Every step of the endpoint is a step the contract allows, and sessions are
\* given back: the case without connection resets.
ImplementsContract == Contract!FairSpec
=============================================================================
