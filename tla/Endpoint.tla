------------------------------ MODULE Endpoint ------------------------------
(***************************************************************************)
(* The SPARQL endpoint of rtop (src/src/server.rs): one handler thread per *)
(* accepted connection; for /sparql a second, worker thread that runs the  *)
(* query on a PostgreSQL session of its own while the handler watches the  *)
(* client's socket and cancels the query when the client leaves.           *)
(*                                                                         *)
(* One request is one connection (the server answers Connection: close).   *)
(* Threads talk through two one-place channels: the worker's result        *)
(* (worker[r] = "done", or "panicked" when the sender is dropped unused)   *)
(* and the cancel token (token[r]).                                        *)
(***************************************************************************)
EXTENDS Naturals, FiniteSets

CONSTANTS
    Requests,       \* connections clients may open
    Targets,        \* routes they may ask for
    Accepts,        \* Accept headers, each the set of media it admits
    Departures,     \* ways a client may leave before it is answered
    Env,            \* faults and conditions the environment may produce
    Hanging,        \* requests whose SQL may never end by itself
    MaxStatements,  \* bound: SQL statements a query sends in sequence
    MaxSessions,    \* PostgreSQL max_connections
    MaxEdits        \* bound: edits of the configuration file

ASSUME EndpointAssumption ==
    /\ Targets \subseteq {"healthz", "sparql", "predefined", "reformulate",
                          "ontology", "static", "unreadable"}
    /\ Accepts \subseteq SUBSET {"text", "results", "turtle"}
    /\ Departures \subseteq {"gone", "half", "reset"}
    /\ Env \subseteq {"connect", "query", "cancel", "panic", "socket",
                     "slow", "pipelined", "large"}
    /\ Hanging \subseteq Requests
    /\ {MaxStatements, MaxSessions, MaxEdits} \subseteq Nat

VARIABLES
    server,       \* the process: accept loop and startup_error
    config,       \* the configuration file, read again by every request
    edits,        \* edits of it so far
    client,       \* the client's side of the connection
    unread,       \* requests with bytes beyond the request still unread
    target,       \* the route requested
    accept,       \* the media the Accept header admits
    handler,      \* the handler thread
    reply,        \* the status it answers with
    delivery,     \* what of the answer the client can read
    nonblocking,  \* connections with O_NONBLOCK, shared by their duplicates
    worker,       \* the query: a thread of its own for /sparql
    outcome,      \* what the query came to
    token,        \* the cancel channel
    backend,      \* the PostgreSQL session of the query
    issued,       \* SQL statements it was sent
    interrupt     \* requests with a cancel request under way to PostgreSQL

serverVars == <<server, config, edits>>
clientVars == <<client, unread, target, accept>>
answerVars == <<reply, delivery, nonblocking>>
queryVars  == <<worker, outcome, token, issued>>
pgVars     == <<backend, interrupt>>
vars == <<serverVars, clientVars, handler, answerVars, queryVars, pgVars>>

Media == {"text", "results", "turtle"}
Statuses == {"200", "400", "404", "405", "406", "500"}
Watching == {"poll", "token", "cancel", "drain"}   \* execute_until_disconnect
Answered == {"reply", "done"}
OpenSession == {"idle", "active"}
Sessions == {r \in Requests : backend[r] \in OpenSession}

TypeOK ==
    /\ server \in {"down", "bound", "ready", "degraded", "exited"}
    /\ config \in {"valid", "unloadable", "unusable"}
    /\ edits \in 0..MaxEdits
    /\ client \in [Requests -> {"absent", "open", "half", "gone", "reset"}]
    /\ unread \subseteq Requests
    /\ target \in [Requests -> Targets \cup {"none"}]
    /\ accept \in [Requests -> SUBSET Media]
    /\ handler \in [Requests -> {"none", "read", "sync"} \cup Watching \cup Answered]
    /\ reply \in [Requests -> Statuses \cup {"none"}]
    /\ delivery \in [Requests -> {"none", "whole", "cut", "lost"}]
    /\ nonblocking \subseteq Requests
    /\ worker \in [Requests -> {"none", "load", "connect", "register", "build", "describe",
                                "ready", "exec", "sending", "done", "panicked"}]
    /\ outcome \in [Requests -> {"none", "rows", "malformed", "unacceptable",
                                 "failed", "cancelled", "disconnected", "absent"}]
    /\ token \in [Requests -> {"empty", "held", "taken"}]
    /\ issued \in [Requests -> 0..MaxStatements]
    /\ backend \in [Requests -> {"none", "closed"} \cup OpenSession]
    /\ interrupt \subseteq Requests

Init ==
    /\ server = "down" /\ config \in {"valid", "unloadable", "unusable"} /\ edits = 0
    /\ client = [r \in Requests |-> "absent"]
    /\ unread = {}
    /\ target = [r \in Requests |-> "none"]
    /\ accept = [r \in Requests |-> {}]
    /\ handler = [r \in Requests |-> "none"]
    /\ reply = [r \in Requests |-> "none"]
    /\ delivery = [r \in Requests |-> "none"]
    /\ nonblocking = {}
    /\ worker = [r \in Requests |-> "none"]
    /\ outcome = [r \in Requests |-> "none"]
    /\ token = [r \in Requests |-> "empty"]
    /\ issued = [r \in Requests |-> 0]
    /\ backend = [r \in Requests |-> "none"]
    /\ interrupt = {}

-----------------------------------------------------------------------------
(* The server process. *)

\* The listener is bound before the configuration is read, so that the health
\* check can tell a dead process from an unusable configuration.
Bind ==
    /\ server = "down"
    /\ server' = "bound"
    /\ UNCHANGED <<config, edits, clientVars, handler, answerVars, queryVars, pgVars>>

\* An unloadable configuration is remembered as startup_error; one that loads
\* but whose inputs do not validate ends the process.
LoadStartup ==
    /\ server = "bound"
    /\ server' = CASE config = "valid"      -> "ready"
                   [] config = "unloadable" -> "degraded"
                   [] config = "unusable"   -> "exited"
    /\ UNCHANGED <<config, edits, clientVars, handler, answerVars, queryVars, pgVars>>

EditConfig ==
    /\ edits < MaxEdits
    /\ \E c \in {"valid", "unloadable", "unusable"} \ {config} : config' = c
    /\ edits' = edits + 1
    /\ UNCHANGED <<server, clientVars, handler, answerVars, queryVars, pgVars>>

\* Fault: requests served one at a time.
AcceptInTurn(r) ==
    /\ server \in {"ready", "degraded"}
    /\ client[r] # "absent" /\ handler[r] = "none"
    /\ \A q \in Requests : handler[q] \in {"none", "done"}
    /\ handler' = [handler EXCEPT ![r] = "read"]
    /\ UNCHANGED <<serverVars, clientVars, answerVars, queryVars, pgVars>>

\* One thread per connection: accepting never waits for another request.
Accept(r) ==
    /\ server \in {"ready", "degraded"}
    /\ client[r] # "absent" /\ handler[r] = "none"
    /\ handler' = [handler EXCEPT ![r] = "read"]
    /\ UNCHANGED <<serverVars, clientVars, answerVars, queryVars, pgVars>>

-----------------------------------------------------------------------------
(* Clients. *)

Connect(r) ==
    /\ server \in {"bound", "ready", "degraded"}
    /\ client[r] = "absent"
    /\ client' = [client EXCEPT ![r] = "open"]
    /\ \E t \in Targets : target' = [target EXCEPT ![r] = t]
    /\ \E a \in Accepts : accept' = [accept EXCEPT ![r] = a]
    /\ \/ UNCHANGED unread
       \/ "pipelined" \in Env /\ unread' = unread \cup {r}
    /\ UNCHANGED <<serverVars, handler, answerVars, queryVars, pgVars>>

\* "half": the client shuts down its sending side and still reads; "gone": it
\* closes; "reset": the connection is aborted.
Leave(r) ==
    /\ client[r] = "open" /\ handler[r] # "done"
    /\ \E d \in Departures : client' = [client EXCEPT ![r] = d]
    /\ UNCHANGED <<serverVars, unread, target, accept, handler, answerVars, queryVars, pgVars>>

-----------------------------------------------------------------------------
(* The handler thread. *)

Respond(r, status) ==
    /\ handler' = [handler EXCEPT ![r] = "reply"]
    /\ reply' = [reply EXCEPT ![r] = status]
    /\ UNCHANGED <<delivery, nonblocking>>

\* negotiate: applied to every answer a route returns as Ok, whatever its
\* status; an Err is turned into its status without it.
Negotiated(r, status, media) == IF media \in accept[r] THEN status ELSE "406"

\* An I/O error while reading the request, or no descriptor for the duplicate it
\* is read from, ends the handler without an answer.
AbandonRead(r) ==
    /\ handler[r] = "read"
    /\ target[r] = "unreadable" \/ client[r] = "reset" \/ "socket" \in Env
    /\ handler' = [handler EXCEPT ![r] = "done"]
    /\ UNCHANGED <<serverVars, clientVars, answerVars, queryVars, pgVars>>

\* Routes that need no query: the health check, a process started with a broken
\* configuration, unknown paths (404), methods (405) and a missing query (400).
RouteLocal(r) ==
    /\ handler[r] = "read"
    /\ \/ target[r] = "healthz" /\ Respond(r, Negotiated(r, "200", "text"))
       \/ /\ target[r] \notin {"healthz", "unreadable"} /\ server = "degraded"
          /\ Respond(r, Negotiated(r, "500", "text"))
       \/ /\ target[r] = "static" /\ server = "ready"
          /\ \E s \in {"404", "405"} :
                Respond(r, Negotiated(r, s, "text")) \/ Respond(r, "400")
    /\ UNCHANGED <<serverVars, clientVars, queryVars, pgVars>>

\* Fault: an unreadable ontology ends the handler without an answer.
RouteOntologyOrDrop(r) ==
    /\ handler[r] = "read" /\ target[r] = "ontology" /\ server = "ready"
    /\ \/ /\ config # "valid" /\ handler' = [handler EXCEPT ![r] = "done"]
          /\ UNCHANGED answerVars
       \/ config # "unloadable" /\ Respond(r, Negotiated(r, "200", "text"))
    /\ UNCHANGED <<serverVars, clientVars, queryVars, pgVars>>

\* /ontology reads the configuration and the file in the handler thread.
RouteOntology(r) ==
    /\ handler[r] = "read" /\ target[r] = "ontology" /\ server = "ready"
    /\ \/ config # "valid" /\ Respond(r, "500")
       \/ config # "unloadable" /\ Respond(r, Negotiated(r, "404", "text"))
       \/ config # "unloadable" /\ Respond(r, Negotiated(r, "200", "text"))
    /\ UNCHANGED <<serverVars, clientVars, queryVars, pgVars>>

\* /sparql: start the worker, then make the duplicate of the socket that is
\* watched non-blocking, which makes the connection itself non-blocking.
RouteSparql(r) ==
    /\ handler[r] = "read" /\ target[r] = "sparql" /\ server = "ready"
    /\ \/ /\ handler' = [handler EXCEPT ![r] = "poll"]
          /\ nonblocking' = nonblocking \cup {r}
          /\ worker' = [worker EXCEPT ![r] = "load"]
          /\ UNCHANGED <<reply, delivery>>
       \/ /\ "socket" \in Env            \* the duplicate cannot be made, or not made
          /\ Respond(r, "500")            \* non-blocking: then the worker has started
          /\ UNCHANGED worker \/ worker' = [worker EXCEPT ![r] = "load"]
    /\ UNCHANGED <<serverVars, clientVars, outcome, token, issued, pgVars>>

\* Fault: these routes forget the startup error.
RouteSyncUnchecked(r) ==
    /\ handler[r] = "read" /\ target[r] \in {"predefined", "reformulate"}
    /\ handler' = [handler EXCEPT ![r] = "sync"]
    /\ worker' = [worker EXCEPT ![r] = "load"]
    /\ UNCHANGED <<serverVars, clientVars, answerVars, outcome, token, issued, pgVars>>

\* /predefined and /ontop/reformulate run the same query path in the handler.
RouteSync(r) ==
    /\ handler[r] = "read" /\ target[r] \in {"predefined", "reformulate"} /\ server = "ready"
    /\ handler' = [handler EXCEPT ![r] = "sync"]
    /\ worker' = [worker EXCEPT ![r] = "load"]
    /\ UNCHANGED <<serverVars, clientVars, answerVars, outcome, token, issued, pgVars>>

StatusOf(o) ==
    CASE o = "rows"         -> "200"
      [] o = "malformed"    -> "400"
      [] o = "absent"       -> "404"
      [] o = "unacceptable" -> "406"
      [] OTHER              -> "500"

ResultMedia(r) == CASE target[r] = "sparql"     -> "results"
                    [] target[r] = "predefined" -> "turtle"
                    [] OTHER                    -> "text"

\* The result arrived, or its sender was dropped by a panicking worker: while
\* polling, or in the final blocking receive. "sync": the call returned.
ReceiveResult(r) ==
    /\ \/ /\ handler[r] \in {"poll", "drain", "sync"} /\ worker[r] = "done"
          /\ Respond(r, StatusOf(outcome[r]))
       \/ /\ handler[r] \in {"poll", "drain"} /\ worker[r] = "panicked"
          /\ Respond(r, "500")
    /\ UNCHANGED <<serverVars, clientVars, queryVars, pgVars>>

\* Fault: a socket with nothing to read is taken for one that was closed.
PeekEofOrNothing(r) ==
    /\ handler[r] = "poll" /\ r \notin unread
    /\ handler' = [handler EXCEPT ![r] = "token"]
    /\ UNCHANGED <<serverVars, clientVars, answerVars, queryVars, pgVars>>

\* peek returned 0 bytes: the client closed its sending side and nothing it
\* sent is left unread. Bytes left unread hide the end of the stream.
PeekEof(r) ==
    /\ handler[r] = "poll"
    /\ client[r] \in {"half", "gone"} /\ r \notin unread
    /\ handler' = [handler EXCEPT ![r] = "token"]
    /\ UNCHANGED <<serverVars, clientVars, answerVars, queryVars, pgVars>>

\* peek failed: the error is returned at once, the worker is left to itself.
PeekError(r) ==
    /\ handler[r] = "poll"
    /\ client[r] = "reset" /\ r \notin unread
    /\ Respond(r, "500")
    /\ UNCHANGED <<serverVars, clientVars, queryVars, pgVars>>

TakeToken(r) ==
    /\ handler[r] = "token" /\ token[r] = "held"
    /\ handler' = [handler EXCEPT ![r] = "cancel"]
    /\ token' = [token EXCEPT ![r] = "taken"]
    /\ UNCHANGED <<serverVars, clientVars, answerVars, worker, outcome, issued, pgVars>>

\* Fault: without a token there is nothing to wait for.
GiveUpTokenReturns(r) ==
    /\ handler[r] = "token" /\ token[r] = "empty"
    /\ worker[r] \in {"sending", "done", "panicked"} \/ "slow" \in Env
    /\ Respond(r, "500")
    /\ UNCHANGED <<serverVars, clientVars, queryVars, pgVars>>

\* No token: the worker ended without sending one, or the second is over
\* before the worker has a session.
GiveUpToken(r) ==
    /\ handler[r] = "token" /\ token[r] = "empty"
    /\ worker[r] \in {"sending", "done", "panicked"} \/ "slow" \in Env
    /\ handler' = [handler EXCEPT ![r] = "drain"]
    /\ UNCHANGED <<serverVars, clientVars, answerVars, queryVars, pgVars>>

\* Fault: the worker is not waited for after the cancel request.
SendCancelReturns(r) ==
    /\ handler[r] = "cancel"
    /\ Respond(r, "500")
    /\ interrupt' = interrupt \cup {r}
    /\ UNCHANGED <<serverVars, clientVars, queryVars, backend>>

\* Fault: the token is taken and never used.
SendCancelNothing(r) ==
    /\ handler[r] = "cancel"
    /\ handler' = [handler EXCEPT ![r] = "drain"]
    /\ UNCHANGED <<serverVars, clientVars, answerVars, queryVars, pgVars>>

\* One cancel request is sent, its failure is ignored.
SendCancel(r) ==
    /\ handler[r] = "cancel"
    /\ handler' = [handler EXCEPT ![r] = "drain"]
    /\ \/ interrupt' = interrupt \cup {r}
       \/ "cancel" \in Env /\ UNCHANGED interrupt
    /\ UNCHANGED <<serverVars, clientVars, answerVars, queryVars, backend>>

\* A panic in the handler's own thread unwinds it: no answer.
UnwindSync(r) ==
    /\ handler[r] = "sync" /\ worker[r] = "panicked"
    /\ handler' = [handler EXCEPT ![r] = "done"]
    /\ UNCHANGED <<serverVars, clientVars, answerVars, queryVars, pgVars>>

\* The answer is written with one write!; on a non-blocking connection a body
\* that outgrows the send buffer fails with WouldBlock, the rest is dropped.
WriteReply(r) ==
    /\ handler[r] = "reply"
    /\ handler' = [handler EXCEPT ![r] = "done"]
    /\ \/ /\ client[r] \in {"open", "half"}
          /\ delivery' = [delivery EXCEPT ![r] = "whole"]
       \/ /\ client[r] \in {"open", "half"}
          /\ r \in nonblocking /\ reply[r] = "200" /\ "large" \in Env
          /\ delivery' = [delivery EXCEPT ![r] = "cut"]
       \/ /\ client[r] \in {"gone", "reset"}
          /\ delivery' = [delivery EXCEPT ![r] = "lost"]
    /\ UNCHANGED <<serverVars, clientVars, reply, nonblocking, queryVars, pgVars>>

-----------------------------------------------------------------------------
(* The query: execute_cancellable on the worker thread, execute_loaded and   *)
(* reformulate on the handler's.                                             *)

\* Fault: the runtime outlives the sending of the result.
FinishHolding(r, o) ==
    /\ worker' = [worker EXCEPT ![r] = "sending"]
    /\ outcome' = [outcome EXCEPT ![r] = o]
    /\ UNCHANGED backend

\* Fault: a failed query leaks its session.
FinishLeaking(r, o) ==
    /\ worker' = [worker EXCEPT ![r] = "sending"]
    /\ outcome' = [outcome EXCEPT ![r] = o]
    /\ backend' = [backend EXCEPT ![r] = IF @ \in OpenSession /\ o = "rows" THEN "closed" ELSE @]

\* Leaving the function drops the runtime and with it the session; only then
\* is the result sent.
Finish(r, o) ==
    /\ worker' = [worker EXCEPT ![r] = "sending"]
    /\ outcome' = [outcome EXCEPT ![r] = o]
    /\ backend' = [backend EXCEPT ![r] = IF @ \in OpenSession THEN "closed" ELSE @]

Load(r) ==
    /\ worker[r] = "load"
    /\ \/ config = "unloadable" /\ Finish(r, "failed")
       \/ /\ config # "unloadable" /\ target[r] = "predefined"
          /\ \E o \in {"malformed", "failed",
                     IF "text" \in accept[r] THEN "absent" ELSE "unacceptable"} : Finish(r, o)
       \/ /\ config # "unloadable"
          /\ worker' = [worker EXCEPT ![r] = "connect"]
          /\ UNCHANGED <<outcome, backend>>
    /\ UNCHANGED <<serverVars, clientVars, handler, answerVars, token, issued, interrupt>>

OpenBackend(r) ==
    /\ worker[r] = "connect"
    /\ \/ /\ Cardinality(Sessions) < MaxSessions
          /\ backend' = [backend EXCEPT ![r] = "idle"]
          /\ worker' = [worker EXCEPT ![r] = IF target[r] = "sparql" THEN "register" ELSE "build"]
          /\ UNCHANGED outcome
       \/ /\ Cardinality(Sessions) >= MaxSessions \/ "connect" \in Env
          /\ Finish(r, "failed")
    /\ UNCHANGED <<serverVars, clientVars, handler, answerVars, token, issued, interrupt>>

\* The send fails only when the receiver is gone, which is when the handler
\* has returned from execute_until_disconnect.
Register(r) ==
    /\ worker[r] = "register"
    /\ \/ /\ handler[r] \in Watching
          /\ token' = [token EXCEPT ![r] = "held"]
          /\ worker' = [worker EXCEPT ![r] = "build"]
          /\ UNCHANGED <<outcome, backend>>
       \/ /\ handler[r] \notin Watching
          /\ Finish(r, "disconnected")
          /\ UNCHANGED token
    /\ UNCHANGED <<serverVars, clientVars, handler, answerVars, issued, interrupt>>

\* runtime_from_loaded reads mapping, facts and ontology (a Direct Mapping is
\* read from the catalog, with statements of its own); the query is parsed.
Build(r) ==
    /\ worker[r] = "build"
    /\ \/ config = "unusable" /\ Finish(r, "failed")
       \/ "query" \in Env /\ Finish(r, "malformed")
       \/ /\ config # "unusable"
          /\ worker' = [worker EXCEPT ![r] = "ready"]
          /\ UNCHANGED <<outcome, backend>>
    /\ UNCHANGED <<serverVars, clientVars, handler, answerVars, token, issued, interrupt>>

\* One statement of the catalog lookup or of the evaluation: a query sends one
\* per mapping plan, per OPTIONAL row, per spatial function call.
StartStatement(r) ==
    /\ issued[r] < MaxStatements
    /\ \/ worker[r] = "build" /\ worker' = [worker EXCEPT ![r] = "describe"]
       \/ /\ worker[r] = "ready" /\ target[r] # "reformulate"
          /\ worker' = [worker EXCEPT ![r] = "exec"]
    /\ backend' = [backend EXCEPT ![r] = "active"]
    /\ issued' = [issued EXCEPT ![r] = @ + 1]
    /\ UNCHANGED <<serverVars, clientVars, handler, answerVars, outcome, token, interrupt>>

EndStatement(r) ==
    /\ worker[r] \in {"describe", "exec"}
    /\ \/ /\ worker' = [worker EXCEPT ![r] = IF @ = "exec" THEN "ready" ELSE "build"]
          /\ backend' = [backend EXCEPT ![r] = "idle"]
          /\ UNCHANGED outcome
       \/ "query" \in Env /\ Finish(r, "failed")
    /\ UNCHANGED <<serverVars, clientVars, handler, answerVars, token, issued, interrupt>>

\* Evaluation needs no further statement: render the result, or fail (a
\* reformulation is parsed only now).
Evaluate(r) ==
    /\ worker[r] = "ready"
    /\ \/ Finish(r, IF ResultMedia(r) \in accept[r] THEN "rows" ELSE "unacceptable")
       \/ "query" \in Env /\ \E o \in {"failed", "malformed"} : Finish(r, o)
    /\ UNCHANGED <<serverVars, clientVars, handler, answerVars, token, issued, interrupt>>

SendResult(r) ==
    /\ worker[r] = "sending"
    /\ worker' = [worker EXCEPT ![r] = "done"]
    /\ UNCHANGED <<serverVars, clientVars, handler, answerVars, outcome, token, issued, pgVars>>

\* A panic while evaluating unwinds the thread: session and channels drop.
Panic(r) ==
    /\ "panic" \in Env /\ worker[r] \in {"build", "ready"}
    /\ worker' = [worker EXCEPT ![r] = "panicked"]
    /\ backend' = [backend EXCEPT ![r] = "closed"]
    /\ UNCHANGED <<serverVars, clientVars, handler, answerVars, outcome, token, issued, interrupt>>

-----------------------------------------------------------------------------
(* PostgreSQL acts on a cancel request: it ends the statement in progress    *)
(* with SQLSTATE 57014, and is forgotten when there is none.                 *)
DeliverInterrupt(r) ==
    /\ r \in interrupt
    /\ interrupt' = interrupt \ {r}
    /\ \/ backend[r] = "active" /\ Finish(r, "cancelled")
       \/ backend[r] # "active" /\ UNCHANGED <<worker, outcome, backend>>
    /\ UNCHANGED <<serverVars, clientVars, handler, answerVars, token, issued>>

\* Every client answered, or no server to answer them: nothing left to do.
Quiescent ==
    /\ server = "exited" \/ \A r \in Requests : handler[r] = "done" /\ worker[r] \in {"none", "done", "panicked"}
    /\ UNCHANGED vars

HandlerStep(r) ==
    \/ AbandonRead(r) \/ RouteLocal(r) \/ RouteOntology(r) \/ RouteSparql(r) \/ RouteSync(r)
    \/ ReceiveResult(r) \/ PeekEof(r) \/ PeekError(r) \/ TakeToken(r) \/ GiveUpToken(r)
    \/ SendCancel(r) \/ UnwindSync(r) \/ WriteReply(r)

QueryStep(r) ==
    \/ Load(r) \/ OpenBackend(r) \/ Register(r) \/ Build(r) \/ StartStatement(r)
    \/ Evaluate(r) \/ SendResult(r) \/ Panic(r)

Next ==
    \/ Bind \/ LoadStartup \/ EditConfig \/ Quiescent
    \/ \E r \in Requests :
          \/ Accept(r) \/ Connect(r) \/ Leave(r)
          \/ HandlerStep(r) \/ QueryStep(r) \/ EndStatement(r) \/ DeliverInterrupt(r)

Spec == Init /\ [][Next]_vars

\* The scheduler runs every thread; PostgreSQL acts on a cancel request and,
\* for requests outside Hanging, ends every statement. Clients owe nothing.
Fairness ==
    /\ WF_vars(Bind) /\ WF_vars(LoadStartup)
    /\ \A r \in Requests :
          /\ WF_vars(Accept(r)) /\ WF_vars(HandlerStep(r))
          /\ WF_vars(QueryStep(r)) /\ WF_vars(DeliverInterrupt(r))
    /\ \A r \in Requests \ Hanging : WF_vars(EndStatement(r))

FairSpec == Spec /\ Fairness
=============================================================================
