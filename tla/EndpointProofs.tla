--------------------------- MODULE EndpointProofs ---------------------------
(***************************************************************************)
(* Theorems about the endpoint for every set of requests, every bound and  *)
(* every environment. Liveness is left to TLC.                             *)
(***************************************************************************)
EXTENDS EndpointProperties, TLAPS

\* Each variable keeps its type: the case split on the actions of Next that
\* the other proofs rest on.
THEOREM TypeCorrect == Spec => []TypeOK
<1> USE EndpointAssumption DEF Statuses, Watching, Answered, OpenSession, Media
<1>1. Init => TypeOK
  BY DEF Init, TypeOK
<1>2. TypeOK /\ [Next]_vars => TypeOK'
  <2> SUFFICES ASSUME TypeOK, [Next]_vars PROVE TypeOK'
    OBVIOUS
  <2> USE DEF TypeOK, serverVars, clientVars, answerVars, queryVars, pgVars
  <2>1. CASE Bind
    BY <2>1 DEF Bind
  <2>2. CASE LoadStartup
    BY <2>2 DEF LoadStartup
  <2>3. CASE EditConfig
    BY <2>3 DEF EditConfig
  <2>4. CASE UNCHANGED vars
    BY <2>4 DEF vars
  <2>5. ASSUME NEW r \in Requests, Accept(r) \/ Connect(r) \/ Leave(r)
        PROVE TypeOK'
    <3>1. CASE Accept(r)
      BY <3>1 DEF Accept
    <3>2. CASE Connect(r)
      BY <3>2 DEF Connect
    <3>3. CASE Leave(r)
      BY <3>3 DEF Leave
    <3>. QED  BY <2>5, <3>1, <3>2, <3>3
  <2>6. ASSUME NEW r \in Requests, HandlerStep(r)
        PROVE TypeOK'
    <3>1. CASE AbandonRead(r) \/ UnwindSync(r) \/ PeekEof(r) \/ GiveUpToken(r)
      BY <3>1 DEF AbandonRead, UnwindSync, PeekEof, GiveUpToken
    <3>2. CASE RouteLocal(r)
      BY <3>2 DEF RouteLocal, Respond, Negotiated
    <3>3. CASE RouteOntology(r)
      BY <3>3 DEF RouteOntology, Respond, Negotiated
    <3>4. CASE RouteSparql(r) \/ RouteSync(r)
      BY <3>4 DEF RouteSparql, RouteSync, Respond
    <3>5. CASE ReceiveResult(r) \/ PeekError(r)
      BY <3>5 DEF ReceiveResult, PeekError, Respond, StatusOf
    <3>6. CASE TakeToken(r) \/ SendCancel(r)
      BY <3>6 DEF TakeToken, SendCancel
    <3>7. CASE WriteReply(r)
      BY <3>7 DEF WriteReply
    <3>. QED  BY <2>6, <3>1, <3>2, <3>3, <3>4, <3>5, <3>6, <3>7 DEF HandlerStep
  <2>7. ASSUME NEW r \in Requests, QueryStep(r)
        PROVE TypeOK'
    <3>1. CASE Load(r)
      BY <2>7, <3>1 DEF Load, Finish
    <3>2. CASE OpenBackend(r)
      BY <3>2 DEF OpenBackend, Finish
    <3>3. CASE Register(r) \/ Build(r)
      BY <3>3 DEF Register, Build, Finish
    <3>4. CASE StartStatement(r)
      BY <3>4 DEF StartStatement
    <3>5. CASE Evaluate(r)
      BY <3>5 DEF Evaluate, Finish
    <3>6. CASE SendResult(r) \/ Panic(r)
      BY <3>6 DEF SendResult, Panic
    <3>. QED  BY <2>7, <3>1, <3>2, <3>3, <3>4, <3>5, <3>6 DEF QueryStep
  <2>8. ASSUME NEW r \in Requests, EndStatement(r) \/ DeliverInterrupt(r)
        PROVE TypeOK'
    BY <2>8 DEF EndStatement, DeliverInterrupt, Finish
  <2>. QED  BY <2>1, <2>2, <2>3, <2>4, <2>5, <2>6, <2>7, <2>8 DEF Next, Quiescent
<1>. QED  BY <1>1, <1>2, PTL DEF Spec

-----------------------------------------------------------------------------
\* What IInv says of one request, its type apart: of its query,
Inv1(r) ==
    /\ Orphaned(r) => SocketFailed(r)
    /\ SessionFollowsQuery(r) /\ QueryFollowsHandler(r) /\ CancellationFollowsClient(r)

\* and of its answer.
Answer1(r) == AnswerFollowsHandler(r) /\ DiagnosisKept(r) /\ WholeUnlessFault(r)

\* All that Inv1 and Answer1 look at, the server apart.
StateOf(r) == <<client[r], target[r], accept[r], handler[r], reply[r], delivery[r],
                r \in nonblocking, worker[r], outcome[r], token[r], issued[r], backend[r],
                r \in interrupt>>

\* The steps of request r.
StepOf(r) ==
    \/ Accept(r) \/ Connect(r) \/ Leave(r)
    \/ HandlerStep(r) \/ QueryStep(r) \/ EndStatement(r) \/ DeliverInterrupt(r)

\* A step of request r keeps what IInv says of r and touches no other request.
LEMMA StepOfRequest ==
    ASSUME TypeOK, TypeOK', NEW r \in Requests, Inv1(r), StepOf(r)
    PROVE  /\ Inv1(r)'
           /\ \A q \in Requests \ {r} : UNCHANGED StateOf(q)
<1> USE EndpointAssumption
    DEF StateOf, TypeOK, serverVars, clientVars, answerVars, queryVars, pgVars, Inv1, Orphaned, SocketFailed,
        SessionFollowsQuery, QueryFollowsHandler, CancellationFollowsClient,
        Watching, Answered, OpenSession
<1>1. CASE Accept(r)
  BY <1>1 DEF Accept
<1>2. CASE Connect(r)
  BY <1>2 DEF Connect
<1>3. CASE Leave(r)
  BY <1>3 DEF Leave
<1>4. CASE HandlerStep(r)
  <2>1. CASE AbandonRead(r) \/ UnwindSync(r)
    BY <2>1 DEF AbandonRead, UnwindSync
  <2>2. CASE PeekEof(r) \/ GiveUpToken(r)
    BY <2>2 DEF PeekEof, GiveUpToken
  <2>3. CASE RouteLocal(r) \/ RouteOntology(r)
    BY <2>3 DEF RouteLocal, RouteOntology, Respond
  <2>4. CASE RouteSparql(r)
    BY <2>4 DEF RouteSparql, Respond
  <2>5. CASE ReceiveResult(r) \/ PeekError(r)
    BY <2>5 DEF ReceiveResult, PeekError, Respond
  <2>6. CASE TakeToken(r) \/ SendCancel(r)
    BY <2>6 DEF TakeToken, SendCancel
  <2>7. CASE WriteReply(r) \/ RouteSync(r)
    BY <2>7 DEF WriteReply, RouteSync
  <2>. QED  BY <1>4, <2>1, <2>2, <2>3, <2>4, <2>5, <2>6, <2>7 DEF HandlerStep
<1>5. CASE QueryStep(r)
  <2>1. CASE Load(r) \/ OpenBackend(r)
    BY <2>1 DEF Load, OpenBackend, Finish
  <2>2. CASE Register(r) \/ Build(r)
    BY <2>2 DEF Register, Build, Finish
  <2>3. CASE StartStatement(r) \/ SendResult(r) \/ Panic(r)
    BY <2>3 DEF StartStatement, SendResult, Panic
  <2>4. CASE Evaluate(r)
    BY <2>4 DEF Evaluate, Finish
  <2>. QED  BY <1>5, <2>1, <2>2, <2>3, <2>4 DEF QueryStep
<1>6. CASE EndStatement(r)
  BY <1>6 DEF EndStatement, Finish
<1>7. CASE DeliverInterrupt(r)
  BY <1>7 DEF DeliverInterrupt, Finish
<1>. QED  BY <1>1, <1>2, <1>3, <1>4, <1>5, <1>6, <1>7 DEF StepOf

\* A step of request r keeps what IInv says of its answer.
LEMMA AnswerOfRequest ==
    ASSUME TypeOK, TypeOK', NEW r \in Requests, Inv1(r), Answer1(r), StepOf(r)
    PROVE  Answer1(r)' /\ server' = server
<1> USE DEF TypeOK, serverVars, clientVars, answerVars, queryVars, pgVars, Inv1, Answer1,
        SessionFollowsQuery, QueryFollowsHandler, AnswerFollowsHandler, DiagnosisKept,
        WholeUnlessFault, AnswerLostByFault, Negotiated, Watching, Answered
<1>1. CASE Accept(r)
  BY <1>1 DEF Accept
<1>2. CASE Connect(r)
  BY <1>2 DEF Connect
<1>3. CASE Leave(r)
  BY <1>3, EndpointAssumption DEF Leave
<1>4. CASE HandlerStep(r)
  <2>1. CASE AbandonRead(r) \/ UnwindSync(r)
    BY <2>1 DEF AbandonRead, UnwindSync
  <2>2. CASE PeekEof(r) \/ GiveUpToken(r) \/ TakeToken(r) \/ SendCancel(r)
    BY <2>2 DEF PeekEof, GiveUpToken, TakeToken, SendCancel
  <2>3. CASE RouteLocal(r) \/ RouteOntology(r)
    BY <2>3 DEF RouteLocal, RouteOntology, Respond
  <2>4. CASE RouteSparql(r) \/ RouteSync(r)
    BY <2>4 DEF RouteSparql, RouteSync, Respond
  <2>5. CASE ReceiveResult(r) \/ PeekError(r)
    BY <2>5 DEF ReceiveResult, PeekError, Respond
  <2>6. CASE WriteReply(r)
    BY <2>6 DEF WriteReply
  <2>. QED  BY <1>4, <2>1, <2>2, <2>3, <2>4, <2>5, <2>6 DEF HandlerStep
<1>5. CASE QueryStep(r) \/ EndStatement(r) \/ DeliverInterrupt(r)
  <2>1. /\ worker[r] # "none" \/ worker'[r] = worker[r]
        /\ worker'[r] = "panicked" => worker[r] = "panicked" \/ "panic" \in Env
        /\ UNCHANGED <<serverVars, clientVars, handler, answerVars>>
    BY <1>5 DEF QueryStep, Load, OpenBackend, Register, Build, StartStatement, Evaluate,
                SendResult, Panic, EndStatement, DeliverInterrupt, Finish
  <2>. QED  BY <2>1
<1>. QED  BY <1>1, <1>2, <1>3, <1>4, <1>5 DEF StepOf

\* The strengthened invariant is inductive: every way through the handler, the
\* query and the cancellation, taken in any order by any number of requests.
THEOREM InvariantHolds == Spec => []IInv
<1>1. Init /\ TypeOK => IInv
  BY DEF Init, IInv, OrphanedOnlyByFailure, Orphaned, SessionFollowsQuery,
         QueryFollowsHandler, CancellationFollowsClient, AnswerFollowsHandler,
         DiagnosisKept, WholeUnlessFault, Answered, Watching
<1>2. IInv /\ TypeOK' /\ [Next]_vars => IInv'
  <2> SUFFICES ASSUME IInv, TypeOK', [Next]_vars PROVE IInv'
    OBVIOUS
  <2>1. \A q \in Requests : Inv1(q) /\ Answer1(q)
    BY DEF IInv, Inv1, Answer1, OrphanedOnlyByFailure
  <2>2. ASSUME \A q \in Requests : Inv1(q)' /\ Answer1(q)' PROVE IInv'
    BY <2>2 DEF IInv, Inv1, Answer1, OrphanedOnlyByFailure
  <2>3. ASSUME NEW q \in Requests, UNCHANGED StateOf(q), server' = server
        PROVE  Inv1(q)' /\ Answer1(q)'
    <3>1. Inv1(q)'
      BY <2>1, <2>3 DEF StateOf, Inv1, Orphaned, SocketFailed, SessionFollowsQuery,
                         QueryFollowsHandler, CancellationFollowsClient
    <3>2. Answer1(q)'
      BY <2>1, <2>3 DEF StateOf, Answer1, AnswerFollowsHandler, DiagnosisKept,
                         WholeUnlessFault, AnswerLostByFault, Negotiated
    <3>. QED  BY <3>1, <3>2
  <2>4. CASE \E r \in Requests : StepOf(r)
    <3>1. PICK r \in Requests : StepOf(r)
      BY <2>4
    <3>2. Inv1(r)' /\ \A q \in Requests \ {r} : UNCHANGED StateOf(q)
      BY <2>1, <3>1, StepOfRequest DEF IInv
    <3>3. Answer1(r)' /\ server' = server
      BY <2>1, <3>1, AnswerOfRequest DEF IInv
    <3>. QED  BY <2>2, <2>3, <3>2, <3>3
  <2>5. CASE Bind \/ LoadStartup
    <3>1. /\ \A q \in Requests : UNCHANGED StateOf(q)
          /\ server \in {"down", "bound"}
      BY <2>5 DEF Bind, LoadStartup, StateOf, clientVars, answerVars, queryVars, pgVars
    <3>2. ASSUME NEW q \in Requests PROVE Inv1(q)'
      BY <2>1, <3>1 DEF StateOf, Inv1, Orphaned, SocketFailed, SessionFollowsQuery,
                         QueryFollowsHandler, CancellationFollowsClient
    <3>3. ASSUME NEW q \in Requests PROVE Answer1(q)'
      BY <2>1, <3>1 DEF StateOf, Inv1, QueryFollowsHandler, Answer1, AnswerFollowsHandler,
                         DiagnosisKept, WholeUnlessFault
    <3>. QED  BY <2>2, <3>2, <3>3
  <2>6. CASE EditConfig \/ UNCHANGED vars
    <3>1. server' = server /\ \A q \in Requests : UNCHANGED StateOf(q)
      BY <2>6 DEF EditConfig, StateOf, vars, serverVars, clientVars, answerVars, queryVars, pgVars
    <3>. QED  BY <2>2, <2>3, <3>1
  <2>. QED  BY <2>4, <2>5, <2>6 DEF Next, Quiescent, StepOf
<1>. QED  BY <1>1, <1>2, TypeCorrect, PTL DEF Spec

\* Whatever the environment does, only a failed socket leaves work behind.
THEOREM OrphansNeedFailure == Spec => []OrphanedOnlyByFailure
BY InvariantHolds, PTL DEF IInv

\* A query is cancelled only on behalf of a client that has left.
THEOREM CancellationNeedsDeparture == Spec => []CancelledOnlyAfterDeparture
<1>1. IInv => CancelledOnlyAfterDeparture
  BY DEF IInv, CancellationFollowsClient, CancelledOnlyAfterDeparture
<1>. QED  BY <1>1, InvariantHolds, PTL

\* Whatever becomes of the configuration file, a process that started on a broken
\* one answers with that diagnosis and never opens a session.
THEOREM DiagnosisIsKept == Spec => []DiagnosisForTextClients
<1>1. IInv => DiagnosisForTextClients
  BY DEF IInv, TypeOK, SessionFollowsQuery, DiagnosisKept, Negotiated, DiagnosisForTextClients
<1>. QED  BY <1>1, InvariantHolds, PTL

\* A client that stays connected is sent its whole answer; in every environment the
\* exceptions are those of AnswerLostByFault, and without the three faults they
\* come from there are none.
THEOREM AnswerIsWhole ==
    ASSUME {"socket", "panic", "large"} \cap Env = {}
    PROVE  Spec => []WholeAnswer
<1>1. IInv => WholeAnswer
  BY DEF IInv, WholeUnlessFault, AnswerLostByFault, WholeAnswer
<1>. QED  BY <1>1, InvariantHolds, PTL

-----------------------------------------------------------------------------
\* The moves a step of request r makes in what the contract and the statement
\* count see of it: the session moves or the handler does, never both.
LEMMA MovesOfRequest ==
    ASSUME TypeOK, NEW r \in Requests, Inv1(r), StepOf(r)
    PROVE  /\ \/ /\ backend'[r] = backend[r]
                 /\ handler[r] \in Answered => handler'[r] \in Answered
              \/ /\ handler'[r] = handler[r]
                 /\ <<backend[r], backend'[r]>> \in
                       {<<"none", "idle">>, <<"idle", "active">>, <<"active", "idle">>,
                        <<"idle", "closed">>, <<"active", "closed">>}
           /\ issued'[r] # issued[r] => worker[r] \in {"build", "ready"}
<1> USE DEF TypeOK, serverVars, clientVars, answerVars, queryVars, pgVars, Inv1,
        SessionFollowsQuery, Answered, OpenSession
<1>1. CASE Accept(r) \/ Connect(r) \/ Leave(r)
  BY <1>1 DEF Accept, Connect, Leave
<1>2. CASE HandlerStep(r)
  <2>1. UNCHANGED <<backend, issued>>
    BY <1>2 DEF HandlerStep, AbandonRead, RouteLocal, RouteOntology, RouteSparql, RouteSync,
                ReceiveResult, PeekEof, PeekError, TakeToken, GiveUpToken, SendCancel,
                UnwindSync, WriteReply
  <2>2. handler[r] \in Answered => handler'[r] \in Answered
    BY <1>2 DEF HandlerStep, AbandonRead, RouteLocal, RouteOntology, RouteSparql, RouteSync,
                ReceiveResult, PeekEof, PeekError, TakeToken, GiveUpToken, SendCancel,
                UnwindSync, WriteReply
  <2>. QED  BY <2>1, <2>2
<1>3. CASE QueryStep(r)
  <2>1. CASE Load(r) \/ OpenBackend(r)
    BY <2>1 DEF Load, OpenBackend, Finish
  <2>2. CASE Register(r) \/ Build(r)
    BY <2>2 DEF Register, Build, Finish
  <2>3. CASE StartStatement(r)
    BY <2>3 DEF StartStatement
  <2>4. CASE Evaluate(r) \/ SendResult(r) \/ Panic(r)
    BY <2>4 DEF Evaluate, SendResult, Panic, Finish
  <2>. QED  BY <1>3, <2>1, <2>2, <2>3, <2>4 DEF QueryStep
<1>4. CASE EndStatement(r) \/ DeliverInterrupt(r)
  BY <1>4 DEF EndStatement, DeliverInterrupt, Finish
<1>. QED  BY <1>1, <1>2, <1>3, <1>4 DEF StepOf

\* No step starts a statement for a request the endpoint is finished with,
\* except behind a failed socket.
THEOREM AnsweredStartsNothing == Spec => NoStatementAfterAnswer
<1>1. IInv /\ TypeOK' /\ [Next]_vars
      => [\A r \in Requests :
             issued'[r] # issued[r] => handler[r] \notin Answered \/ SocketFailed(r)]_vars
  <2> SUFFICES ASSUME IInv, TypeOK', [Next]_vars, NEW r \in Requests,
                      issued'[r] # issued[r], handler[r] \in Answered
               PROVE  SocketFailed(r)
    OBVIOUS
  <2>1. \A q \in Requests : Inv1(q)
    BY DEF IInv, Inv1, OrphanedOnlyByFailure
  <2>2. PICK q \in Requests : StepOf(q)
    BY DEF Next, Quiescent, StepOf, Bind, LoadStartup, EditConfig, vars, queryVars
  <2>3. q = r
    BY <2>1, <2>2, StepOfRequest DEF IInv, StateOf
  <2>4. worker[r] \in {"build", "ready"}
    BY <2>1, <2>2, <2>3, MovesOfRequest DEF IInv
  <2>. QED  BY <2>1, <2>4 DEF Inv1, Orphaned
<1>. QED  BY <1>1, InvariantHolds, TypeCorrect, PTL DEF Spec, NoStatementAfterAnswer

-----------------------------------------------------------------------------
\* Without resets and socket failures no socket ever fails.
SocketSound(r) ==
    /\ client[r] # "reset"
    /\ target[r] = "sparql" /\ worker[r] # "none" => r \in nonblocking

\* A step of request r keeps the socket sound.
LEMMA SocketStaysSound ==
    ASSUME TypeOK, "reset" \notin Departures, "socket" \notin Env,
           NEW r \in Requests, Inv1(r), SocketSound(r), StepOf(r)
    PROVE  SocketSound(r)'
<1> USE DEF TypeOK, serverVars, clientVars, answerVars, queryVars, pgVars, Inv1,
        QueryFollowsHandler, SocketSound
<1>1. CASE Accept(r) \/ Connect(r) \/ Leave(r)
  BY <1>1 DEF Accept, Connect, Leave
<1>2. CASE RouteSparql(r) \/ RouteSync(r)
  BY <1>2 DEF RouteSparql, RouteSync
<1>3. CASE HandlerStep(r) /\ ~RouteSparql(r) /\ ~RouteSync(r)
  BY <1>3 DEF HandlerStep, AbandonRead, RouteLocal, RouteOntology, Respond, ReceiveResult,
              PeekEof, PeekError, TakeToken, GiveUpToken, SendCancel, UnwindSync, WriteReply
<1>4. CASE QueryStep(r)
  <2>1. worker[r] # "none" /\ UNCHANGED <<client, target, nonblocking>>
    BY <1>4 DEF QueryStep, Load, OpenBackend, Register, Build, StartStatement, Evaluate,
                SendResult, Panic
  <2>. QED  BY <2>1
<1>5. CASE EndStatement(r) \/ DeliverInterrupt(r)
  BY <1>5 DEF EndStatement, DeliverInterrupt, Finish, SessionFollowsQuery
<1>. QED  BY <1>1, <1>2, <1>3, <1>4, <1>5 DEF StepOf, HandlerStep

\* When connections are not reset and sockets do not fail, no way out of a
\* request leaves its query behind.
THEOREM NothingOrphaned ==
    ASSUME "reset" \notin Departures, "socket" \notin Env
    PROVE  Spec => []NoOrphanedWork
<1> DEFINE Sound == \A r \in Requests : SocketSound(r)
<1>1. Init => Sound
  BY DEF Init, SocketSound
<1>2. IInv /\ TypeOK' /\ Sound /\ [Next]_vars => Sound'
  <2> SUFFICES ASSUME IInv, TypeOK', Sound, [Next]_vars PROVE Sound'
    OBVIOUS
  <2>1. \A q \in Requests : Inv1(q)
    BY DEF IInv, Inv1, OrphanedOnlyByFailure
  <2>2. ASSUME NEW r \in Requests, StepOf(r) PROVE Sound'
    <3>1. SocketSound(r)'
      BY <2>1, <2>2, SocketStaysSound DEF IInv
    <3>2. \A q \in Requests \ {r} : SocketSound(q)'
      BY <2>1, <2>2, StepOfRequest DEF IInv, SocketSound, StateOf
    <3>. QED  BY <3>1, <3>2
  <2>3. CASE Bind \/ LoadStartup \/ EditConfig \/ UNCHANGED vars
    BY <2>3 DEF Bind, LoadStartup, EditConfig, vars, clientVars, answerVars, queryVars,
                pgVars, SocketSound
  <2>. QED  BY <2>2, <2>3 DEF Next, Quiescent, StepOf
<1>3. IInv /\ Sound => NoOrphanedWork
  BY DEF IInv, OrphanedOnlyByFailure, SocketFailed, SocketSound, NoOrphanedWork, Orphaned
<1>. QED  BY <1>1, <1>2, <1>3, InvariantHolds, TypeCorrect, PTL DEF Spec

-----------------------------------------------------------------------------
\* Under the same conditions every step of the endpoint is one the contract
\* allows: work begins for unanswered requests only, on a session of their own,
\* and the session is released before the answer.
THEOREM RefinesContract ==
    ASSUME "reset" \notin Departures, "socket" \notin Env
    PROVE  Spec => Contract!Spec
<1> USE DEF Contract!vars, WorkingView, ReleasedView, AnsweredView, Sessions
<1>1. Init => Contract!Init
  BY DEF Init, Contract!Init, OpenSession, Answered
<1>2. IInv /\ IInv' /\ NoOrphanedWork' /\ [Next]_vars => [Contract!Next]_(Contract!vars)
  <2> SUFFICES ASSUME IInv, IInv', NoOrphanedWork', [Next]_vars
               PROVE  [Contract!Next]_(Contract!vars)
    OBVIOUS
  <2>1. \A q \in Requests : Inv1(q)
    BY DEF IInv, Inv1, OrphanedOnlyByFailure
  <2>2. CASE Bind \/ LoadStartup \/ EditConfig \/ UNCHANGED vars
    BY <2>2 DEF Bind, LoadStartup, EditConfig, vars, pgVars
  <2>3. ASSUME NEW r \in Requests, StepOf(r)
        PROVE  [Contract!Next]_(Contract!vars)
    <3>1. \A q \in Requests \ {r} : UNCHANGED <<handler[q], backend[q]>>
      BY <2>1, <2>3, StepOfRequest DEF IInv, StateOf
    <3>2. \/ /\ backend'[r] = backend[r]
             /\ handler[r] \in Answered => handler'[r] \in Answered
          \/ /\ handler'[r] = handler[r]
             /\ <<backend[r], backend'[r]>> \in
                   {<<"none", "idle">>, <<"idle", "active">>, <<"active", "idle">>,
                    <<"idle", "closed">>, <<"active", "closed">>}
      BY <2>1, <2>3, MovesOfRequest DEF IInv
    <3>3. handler'[r] \in Answered => backend'[r] \notin OpenSession
      BY DEF NoOrphanedWork, Orphaned, IInv, SessionFollowsQuery, OpenSession
    <3>4. CASE backend'[r] = backend[r] /\ handler[r] \notin Answered /\ handler'[r] \in Answered
      <4>1. Contract!Answer(r)
        BY <3>1, <3>3, <3>4 DEF Contract!Answer
      <4>. QED  BY <4>1 DEF Contract!Next
    <3>5. CASE handler'[r] = handler[r] /\ backend[r] = "none" /\ backend'[r] = "idle"
      <4>1. Contract!Begin(r)
        BY <3>1, <3>3, <3>5 DEF Contract!Begin, OpenSession
      <4>. QED  BY <4>1 DEF Contract!Next
    <3>6. CASE handler'[r] = handler[r] /\ backend[r] \in OpenSession /\ backend'[r] = "closed"
      <4>1. Contract!Release(r)
        BY <3>1, <3>6 DEF Contract!Release, OpenSession
      <4>. QED  BY <4>1 DEF Contract!Next
    <3>7. CASE /\ backend'[r] = backend[r] \/ {backend[r], backend'[r]} \subseteq OpenSession
               /\ handler'[r] \in Answered <=> handler[r] \in Answered
      BY <3>1, <3>7 DEF OpenSession
    <3>. QED  BY <3>2, <3>4, <3>5, <3>6, <3>7 DEF OpenSession
  <2>. QED  BY <2>2, <2>3 DEF Next, Quiescent, StepOf
<1>. QED  BY <1>1, <1>2, InvariantHolds, NothingOrphaned, PTL DEF Spec, Contract!Spec
=============================================================================
