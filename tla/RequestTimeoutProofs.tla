------------------------ MODULE RequestTimeoutProofs ------------------------
(***************************************************************************)
(* Proofs about RequestTimeout, for any statuses and any amount of body.   *)
(***************************************************************************)
EXTENDS RequestTimeout, TLAPS

TimeoutResponse == [by |-> "timeout", status |-> GatewayTimeout, body |-> 0]

HandlerResponse == [by |-> "handler", status |-> produced.status, body |-> produced.body]

RecoveryResponse == [by |-> "recovery", status |-> InternalError, body |-> 0]

\* How the handler's goroutine stands.
HandlerSound ==
    /\ finished => handler = "returned"
    /\ handler = "running" => panic = "none"
    /\ handler = "unwinding" => panic # "none"
    /\ handler # "returned" => ~panicked
    /\ handler = "returned" => (panicked <=> panic # "none")

\* What the middleware has done so far, by where it is.
MiddlewareSound ==
    /\ mw # "done" => logged = None
    /\ mw \in {"select", "timing out", "panicking"} => wire = <<>>
    /\ mw = "select" => writer = "buffered" /\ ~timedOut /\ buffer = produced
    /\ mw \in {"timing out", "waiting"} => timedOut /\ buffer = Discarded
    /\ mw = "waiting" => wire = <<TimeoutResponse>>
    /\ mw = "panicking" => writer = "original" /\ finished /\ panicked
    /\ mw = "answered" =>
            /\ finished
            /\ \/ wire = <<TimeoutResponse>> /\ buffer = Discarded
               \/ wire = <<HandlerResponse>> /\ buffer = produced /\ ~panicked
    /\ mw = "done" =>
            /\ finished
            /\ \/ wire = <<TimeoutResponse>> /\ logged = GatewayTimeout
               \/ wire = <<HandlerResponse>> /\ logged = produced.status /\ ~panicked
               \/ wire = <<RecoveryResponse>> /\ logged = None
               \/ wire = <<>> /\ logged = None /\ panic = "abort"

\* The inductive invariant: the properties speak of the responses sent, which
\* are right because of what the buffer held when they were sent.
IInv == TypeOK /\ HandlerSound /\ MiddlewareSound

-----------------------------------------------------------------------------

\* IInv holds of every initial state.
THEOREM InitInvariant == Init => IInv
<1> SUFFICES ASSUME Init PROVE IInv
    OBVIOUS
<1>1. 0 \in 0..MaxWrites /\ OK \in Statuses
    BY TimeoutAssumption DEF Statuses
<1>2. wire \in Seq(Response)
    BY DEF Init
<1>3. produced \in [status: Statuses, body: 0..MaxWrites]
    BY <1>1 DEF Init
<1>4. buffer \in [status: Statuses \union {GatewayTimeout}, body: 0..MaxWrites]
    BY <1>1 DEF Init
<1>5. TypeOK
    BY <1>2, <1>3, <1>4 DEF Init, TypeOK, Panic
<1> QED
    BY <1>5 DEF Init, IInv, HandlerSound, MiddlewareSound

\* A step of the handler's goroutine while it is still running.
LEMMA HandlerRuns ==
    ASSUME IInv, handler = "running",
           produced' \in [status: Statuses, body: 0..MaxWrites],
           buffer' = IF timedOut THEN buffer ELSE produced',
           UNCHANGED <<handler, panic, panicked, finished, timedOut, expired, mw, writer,
                       wire, logged>>
    PROVE  IInv'
<1>1. ~finished
    BY DEF IInv, HandlerSound
<1>2. mw \in {"select", "timing out", "waiting"}
    BY <1>1 DEF IInv, TypeOK, MiddlewareSound
<1>3. TypeOK'
    BY DEF IInv, TypeOK
<1>4. MiddlewareSound'
    BY <1>2 DEF IInv, MiddlewareSound, TimeoutResponse, Discarded
<1> QED
    BY <1>3, <1>4 DEF IInv, HandlerSound

LEMMA HandlerStep ==
    ASSUME IInv,
           \/ \E s \in Status : WriteHeader(s)
           \/ Write
    PROVE  IInv'
<1>1. ~timedOut => buffer = produced
    <2>1. ~finished
        BY DEF IInv, HandlerSound, WriteHeader, Write
    <2> QED
        BY <2>1 DEF IInv, TypeOK, MiddlewareSound
<1>2. ASSUME NEW s \in Status, WriteHeader(s) PROVE IInv'
    <2>1. produced' \in [status: Statuses, body: 0..MaxWrites]
        BY <1>2 DEF IInv, TypeOK, WriteHeader, Statuses
    <2>2. buffer' = IF timedOut THEN buffer ELSE produced'
        BY <1>1, <1>2 DEF WriteHeader, Recorded
    <2> QED
        BY <1>2, <2>1, <2>2, HandlerRuns DEF WriteHeader
<1>3. CASE Write
    <2>1. produced' \in [status: Statuses, body: 0..MaxWrites]
        <3>1. produced.body \in 0..MaxWrites /\ produced.body < MaxWrites
            BY <1>3 DEF IInv, TypeOK, Write
        <3>2. produced.body + 1 \in 0..MaxWrites
            BY <3>1, TimeoutAssumption
        <3> QED
            BY <1>3, <3>2 DEF IInv, TypeOK, Write
    <2>2. buffer' = IF timedOut THEN buffer ELSE produced'
        BY <1>1, <1>3 DEF Write
    <2> QED
        BY <1>3, <2>1, <2>2, HandlerRuns DEF Write
<1> QED
    BY <1>2, <1>3

\* The handler ends: what it has produced, and so the buffer, stays as it is.
LEMMA HandlerEnds ==
    ASSUME IInv, Return \/ (\E p \in Panic \ {"none"} : Die(p)) \/ Unwind
    PROVE  IInv'
<1>1. ~finished
    BY DEF IInv, HandlerSound, Return, Die, Unwind, PassPanicOn, CloseFinished
<1>2. mw \in {"select", "timing out", "waiting"}
    BY <1>1 DEF IInv, TypeOK, MiddlewareSound
<1>3. CASE Return
    BY <1>2, <1>3 DEF IInv, TypeOK, HandlerSound, MiddlewareSound, Return
<1>4. ASSUME NEW p \in Panic \ {"none"}, Die(p) PROVE IInv'
    BY <1>2, <1>4 DEF IInv, TypeOK, HandlerSound, MiddlewareSound, Die
<1>5. CASE PassPanicOn
    BY <1>2, <1>5 DEF IInv, TypeOK, HandlerSound, MiddlewareSound, PassPanicOn
<1>6. CASE CloseFinished
    BY <1>2, <1>6 DEF IInv, TypeOK, HandlerSound, MiddlewareSound, CloseFinished, CloseLast
<1> QED
    BY <1>3, <1>4, <1>5, <1>6 DEF Unwind

-----------------------------------------------------------------------------

LEMMA SendTyped ==
    ASSUME wire \in Seq(Response), NEW r \in Response
    PROVE  Append(wire, r) \in Seq(Response)
    OBVIOUS

LEMMA MiddlewareStep ==
    ASSUME IInv, Middleware
    PROVE  IInv'
<1> USE DEF goroutine
<1>1. CASE SeeFinished
    <2>1. [by |-> "handler", status |-> buffer.status, body |-> buffer.body] \in Response
        BY DEF IInv, TypeOK, Response
    <2>2. TypeOK'
        BY <1>1, <2>1, SendTyped DEF IInv, TypeOK, SeeFinished, Send, PutBack
    <2>3. wire = <<>> /\ logged = None /\ buffer = produced /\ writer = "buffered"
        BY <1>1 DEF IInv, MiddlewareSound, SeeFinished
    <2>4. finished' /\ (panicked' <=> panicked) /\ logged' = logged
          /\ produced' = produced /\ buffer' = buffer
        BY <1>1 DEF SeeFinished
    <2>5. ASSUME panicked PROVE MiddlewareSound'
        <3>1. mw' = "panicking" /\ writer' = "original" /\ wire' = wire
            BY <1>1, <2>5 DEF SeeFinished, PutBack
        <3> QED
            BY <2>3, <2>4, <2>5, <3>1 DEF MiddlewareSound
    <2>6. ASSUME ~panicked PROVE MiddlewareSound'
        <3>1. mw' = "answered" /\ wire' = Append(wire, HandlerResponse)
            BY <1>1, <2>3, <2>6 DEF SeeFinished, Send, HandlerResponse
        <3>2. wire' = <<HandlerResponse>> /\ HandlerResponse' = HandlerResponse
            BY <2>3, <2>4, <3>1 DEF HandlerResponse
        <3>3. wire' = <<HandlerResponse'>> /\ buffer' = produced' /\ ~panicked'
            BY <2>3, <2>4, <2>6, <3>2
        <3> QED
            BY <2>3, <2>4, <3>1, <3>3 DEF MiddlewareSound
    <2>7. HandlerSound'
        BY <1>1 DEF IInv, HandlerSound, SeeFinished
    <2> QED
        BY <2>2, <2>5, <2>6, <2>7 DEF IInv
<1>2. CASE SeeExpired
    <2>0. Discarded \in [status: Statuses \union {GatewayTimeout}, body: 0..MaxWrites]
        BY TimeoutAssumption DEF Discarded
    <2>1. TypeOK' /\ HandlerSound'
        BY <1>2, <2>0 DEF IInv, TypeOK, HandlerSound, SeeExpired
    <2>2. MiddlewareSound'
        <3>1. wire = <<>> /\ logged = None
            BY <1>2 DEF IInv, MiddlewareSound, SeeExpired
        <3>2. mw' = "timing out" /\ timedOut' /\ buffer' = Discarded /\ wire' = wire
              /\ logged' = logged /\ Discarded' = Discarded
            BY <1>2 DEF SeeExpired, Discarded
        <3> QED
            BY <3>1, <3>2 DEF MiddlewareSound
    <2> QED
        BY <2>1, <2>2 DEF IInv
<1>3. CASE SendTimeout
    <2>1. TimeoutResponse \in Response
        BY TimeoutAssumption DEF TimeoutResponse, Response
    <2>2. wire = <<>> /\ wire' = Append(wire, TimeoutResponse)
        BY <1>3 DEF IInv, MiddlewareSound, SendTimeout, Send, TimeoutResponse
    <2>3. TypeOK' /\ HandlerSound'
        BY <1>3, <2>1, <2>2, SendTyped DEF IInv, TypeOK, HandlerSound, SendTimeout
    <2>4. MiddlewareSound'
        <3>1. timedOut /\ buffer = Discarded /\ logged = None
            BY <1>3 DEF IInv, MiddlewareSound, SendTimeout
        <3>2. mw' = "waiting" /\ timedOut' = timedOut /\ buffer' = buffer /\ logged' = logged
            BY <1>3 DEF SendTimeout
        <3>3. wire' = <<TimeoutResponse>> /\ TimeoutResponse' = TimeoutResponse
              /\ Discarded' = Discarded
            BY <2>2 DEF TimeoutResponse, Discarded
        <3> QED
            BY <3>1, <3>2, <3>3 DEF MiddlewareSound
    <2> QED
        BY <2>3, <2>4 DEF IInv
<1>4. CASE AwaitHandler
    <2>1. TypeOK' /\ HandlerSound'
        BY <1>4 DEF IInv, TypeOK, HandlerSound, AwaitHandler
    <2>2. MiddlewareSound'
        <3>1. wire = <<TimeoutResponse>> /\ buffer = Discarded /\ logged = None /\ finished
            BY <1>4 DEF IInv, MiddlewareSound, AwaitHandler, HandlerGone
        <3>2. mw' = "answered" /\ wire' = wire /\ buffer' = buffer /\ logged' = logged
              /\ finished' = finished
            BY <1>4 DEF AwaitHandler
        <3>3. TimeoutResponse' = TimeoutResponse /\ Discarded' = Discarded
            BY DEF TimeoutResponse, Discarded
        <3> QED
            BY <3>1, <3>2, <3>3 DEF MiddlewareSound
    <2> QED
        BY <2>1, <2>2 DEF IInv
<1>5. CASE LogRequest
    <2>1. TypeOK' /\ HandlerSound'
        BY <1>5 DEF IInv, TypeOK, HandlerSound, LogRequest
    <2>2. MiddlewareSound'
        <3>1. finished
            BY <1>5 DEF IInv, MiddlewareSound, LogRequest
        <3>2. mw' = "done" /\ wire' = wire /\ logged' = buffer.status /\ finished' = finished
              /\ panicked' = panicked /\ produced' = produced
            BY <1>5 DEF LogRequest
        <3>3. TimeoutResponse' = TimeoutResponse /\ HandlerResponse' = HandlerResponse
            BY <3>2 DEF TimeoutResponse, HandlerResponse
        <3>4. \/ wire = <<TimeoutResponse>> /\ buffer = Discarded
              \/ wire = <<HandlerResponse>> /\ buffer = produced /\ ~panicked
            BY <1>5 DEF IInv, MiddlewareSound, LogRequest
        <3>5. \/ wire' = <<TimeoutResponse'>> /\ logged' = GatewayTimeout
              \/ wire' = <<HandlerResponse'>> /\ logged' = produced'.status /\ ~panicked'
            BY <3>2, <3>3, <3>4 DEF Discarded
        <3> QED
            BY <3>1, <3>2, <3>5 DEF MiddlewareSound
    <2> QED
        BY <2>1, <2>2 DEF IInv
<1>6. CASE Recover
    <2>1. RecoveryResponse \in Response
        BY TimeoutAssumption DEF RecoveryResponse, Response
    <2>2. wire = <<>> /\ logged = None /\ writer = "original" /\ finished /\ panicked
        BY <1>6 DEF IInv, MiddlewareSound, Recover
    <2>3. IF panic # "abort" THEN wire' = Append(wire, RecoveryResponse) ELSE wire' = wire
        BY <1>6, <2>2 DEF Recover, Send, RecoveryResponse
    <2>4. TypeOK' /\ HandlerSound'
        BY <1>6, <2>1, <2>3, SendTyped DEF IInv, TypeOK, HandlerSound, Recover
    <2>5. MiddlewareSound'
        <3>1. mw' = "done" /\ logged' = logged /\ finished' = finished /\ panic' = panic
            BY <1>6 DEF Recover
        <3>2. \/ wire' = <<RecoveryResponse'>>
              \/ wire' = <<>> /\ panic' = "abort"
            BY <2>2, <2>3, <3>1 DEF RecoveryResponse
        <3> QED
            BY <2>2, <3>1, <3>2 DEF MiddlewareSound
    <2> QED
        BY <2>4, <2>5 DEF IInv
<1> QED
    BY <1>1, <1>2, <1>3, <1>4, <1>5, <1>6 DEF Middleware

LEMMA OnlyExpired ==
    ASSUME IInv, expired' \in BOOLEAN,
           UNCHANGED <<goroutine, buffer, timedOut, mw, writer, wire, logged>>
    PROVE  IInv'
<1> USE DEF goroutine
<1>1. TypeOK'
    BY DEF IInv, TypeOK
<1>2. HandlerSound'
    BY DEF IInv, HandlerSound
<1>3. TimeoutResponse' = TimeoutResponse /\ HandlerResponse' = HandlerResponse
      /\ RecoveryResponse' = RecoveryResponse /\ Discarded' = Discarded
    BY DEF TimeoutResponse, HandlerResponse, RecoveryResponse, Discarded
<1>4. MiddlewareSound'
    BY <1>3 DEF IInv, MiddlewareSound
<1> QED
    BY <1>1, <1>2, <1>4 DEF IInv

\* Every step, and every stuttering one, keeps IInv.
THEOREM NextInvariant == IInv /\ [Next]_vars => IInv'
<1> SUFFICES ASSUME IInv, [Next]_vars PROVE IInv'
    OBVIOUS
<1>1. CASE UNCHANGED vars
    BY <1>1, OnlyExpired DEF vars, IInv, TypeOK
<1>2. CASE Expire
    BY <1>2, OnlyExpired DEF Expire, IInv, TypeOK
<1> QED
    BY <1>1, <1>2, HandlerStep, HandlerEnds, MiddlewareStep DEF Next, Over

-----------------------------------------------------------------------------

\* What the theorems below follow from: IInv is an invariant of every behaviour.
THEOREM Invariance == Spec => []IInv
    BY InitInvariant, NextInvariant, PTL DEF Spec

\* Every variable keeps its type.
THEOREM TypeCorrect == Spec => []TypeOK
    BY Invariance, PTL DEF IInv

\* What has been sent, seen from the end of the request.
LEMMA Sent ==
    ASSUME IInv
    PROVE  \/ wire = <<>> /\ logged = None /\ (mw = "done" => panic = "abort")
           \/ wire = <<TimeoutResponse>> /\ logged \in {None, GatewayTimeout}
           \/ /\ wire = <<HandlerResponse>> /\ logged \in {None, produced.status}
              /\ handler = "returned" /\ panic = "none"
           \/ wire = <<RecoveryResponse>> /\ logged = None
    BY DEF IInv, TypeOK, HandlerSound, MiddlewareSound

\* One response at most, and one unless the client has gone.
THEOREM OneResponse == Spec => []AnsweredOnce
<1>1. ASSUME IInv PROVE AnsweredOnce
    <2>1. wire = <<>> \/ wire = <<TimeoutResponse>> \/ wire = <<HandlerResponse>>
          \/ wire = <<RecoveryResponse>>
        BY <1>1, Sent
    <2>2. wire = <<>> => (mw = "done" => panic = "abort")
        BY <1>1, Sent
    <2>3. wire # <<>> => Len(wire) = 1
        BY <2>1
    <2>4. wire = <<>> => Len(wire) = 0
        OBVIOUS
    <2>5. Len(wire) <= 1
        BY <2>3, <2>4
    <2> QED
        BY <2>2, <2>3, <2>5 DEF AnsweredOnce
<1> QED
    BY <1>1, Invariance, PTL

\* A handler's response is sent whole, or not at all.
THEOREM WholeResponse == Spec => []ResponseIsWhole
<1>1. ASSUME IInv PROVE ResponseIsWhole
    <2>1. CASE wire = <<>>
        BY <2>1 DEF ResponseIsWhole
    <2>2. CASE wire \in {<<TimeoutResponse>>, <<RecoveryResponse>>}
        BY <2>2 DEF ResponseIsWhole, TimeoutResponse, RecoveryResponse
    <2>3. CASE wire = <<HandlerResponse>> /\ handler = "returned" /\ panic = "none"
        BY <2>3 DEF ResponseIsWhole, HandlerResponse
    <2> QED
        BY <1>1, <2>1, <2>2, <2>3, Sent
<1> QED
    BY <1>1, Invariance, PTL

\* The status in the access log is the one the client was sent.
THEOREM TruthfulLog == Spec => []LoggedStatusWasSent
<1>1. ASSUME IInv PROVE LoggedStatusWasSent
    <2>1. CASE wire = <<TimeoutResponse>> /\ logged \in {None, GatewayTimeout}
        BY <2>1 DEF LoggedStatusWasSent, TimeoutResponse
    <2>2. CASE wire = <<HandlerResponse>> /\ logged \in {None, produced.status}
        BY <2>2 DEF LoggedStatusWasSent, HandlerResponse
    <2> QED
        BY <1>1, <2>1, <2>2, Sent DEF LoggedStatusWasSent
<1> QED
    BY <1>1, Invariance, PTL

\* The gin.Context is never in two goroutines' hands.
THEOREM ContextHandedBack == Spec => []ContextNotShared
<1>1. IInv => ContextNotShared
    BY DEF IInv, TypeOK, MiddlewareSound, ContextNotShared
<1> QED
    BY <1>1, Invariance, PTL

=============================================================================
