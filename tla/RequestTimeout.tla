--------------------------- MODULE RequestTimeout ---------------------------
(***************************************************************************)
(* One request under REQUEST_TIMEOUT: the handler runs on a goroutine of   *)
(* its own and writes into a buffer, while the middleware waits for it or  *)
(* for the deadline and is the only one to touch the real response. Around *)
(* it, the logging middleware reports a status and the recovery middleware *)
(* turns a panic into a 500.                                               *)
(***************************************************************************)
EXTENDS Naturals, Sequences

CONSTANTS
    Status,     \* the statuses a handler sends
    MaxWrites,  \* how many pieces of body it writes at most
    None        \* nothing logged

OK == 200
InternalError == 500
GatewayTimeout == 504

Statuses == Status \union {OK}

ASSUME TimeoutAssumption ==
    /\ Status \subseteq Nat
    /\ MaxWrites \in Nat
    /\ None \notin Nat

\* What reaches the client: who sent it, and its status and pieces of body.
Response == [by: {"handler", "timeout", "recovery"},
             status: Statuses \union {InternalError, GatewayTimeout}, body: 0..MaxWrites]

Panic == {"none", "error", "abort"}  \* abort: the client has gone

VARIABLES
    handler,   \* "running", then "unwinding" if it panics, then "returned"
    produced,  \* the status and body the handler has asked for so far
    panic,     \* the panic the handler died of
    buffer,    \* timeoutWriter: the status and body it holds
    timedOut,  \* timeoutWriter: its response has been given up
    panicked,  \* the channel the handler's panic is passed on
    finished,  \* the channel closed when the handler's goroutine ends
    expired,   \* the request's context is done
    mw,        \* the middleware's goroutine
    writer,    \* c.Writer: the "buffered" writer or the "original" one
    wire,      \* responses written to the original writer
    logged     \* the status the access log reports

goroutine == <<handler, produced, panic, panicked, finished>>
vars == <<goroutine, buffer, timedOut, expired, mw, writer, wire, logged>>

Send(by, status, body) == wire' = Append(wire, [by |-> by, status |-> status, body |-> body])

-----------------------------------------------------------------------------
(* The handler's goroutine.                                                *)

\* Mutant: a status is recorded whether or not the response was given up.
AlwaysRecorded(s) == [buffer EXCEPT !.status = s]

Recorded(s) == IF timedOut THEN buffer ELSE [buffer EXCEPT !.status = s]

WriteHeader(s) ==
    /\ handler = "running"
    /\ produced' = [produced EXCEPT !.status = s]
    /\ buffer' = Recorded(s)
    /\ UNCHANGED <<handler, panic, panicked, finished, timedOut, expired, mw, writer,
                   wire, logged>>

\* After the timeout a write is discarded, and reported as written.
Write ==
    /\ handler = "running"
    /\ produced.body < MaxWrites
    /\ produced' = [produced EXCEPT !.body = @ + 1]
    /\ buffer' = IF timedOut THEN buffer ELSE [buffer EXCEPT !.body = @ + 1]
    /\ UNCHANGED <<handler, panic, panicked, finished, timedOut, expired, mw, writer,
                   wire, logged>>

Return ==
    /\ handler = "running"
    /\ handler' = "returned"
    /\ UNCHANGED <<produced, panic, panicked, finished, buffer, timedOut, expired, mw,
                   writer, wire, logged>>

Die(p) ==
    /\ handler = "running"
    /\ handler' = "unwinding"
    /\ panic' = p
    /\ UNCHANGED <<produced, panicked, finished, buffer, timedOut, expired, mw, writer,
                   wire, logged>>

\* The deferred recover passes the panic on.
PassPanicOn ==
    /\ handler = "unwinding"
    /\ panicked' = TRUE
    /\ handler' = "returned"
    /\ UNCHANGED <<produced, panic, finished, buffer, timedOut, expired, mw, writer,
                   wire, logged>>

\* Mutant: the two deferred calls are registered in the other order.
CloseFirst == handler \in {"unwinding", "returned"}

\* The deferred close was registered first, and so runs last.
CloseLast == handler = "returned"

CloseFinished ==
    /\ CloseLast
    /\ ~finished
    /\ finished' = TRUE
    /\ UNCHANGED <<handler, produced, panic, panicked, buffer, timedOut, expired, mw,
                   writer, wire, logged>>

-----------------------------------------------------------------------------
(* The middleware's goroutine.                                             *)

\* The deadline passes, or the client disconnects.
Expire ==
    /\ ~expired
    /\ expired' = TRUE
    /\ UNCHANGED <<goroutine, buffer, timedOut, mw, writer, wire, logged>>

\* Mutant: recovery is left with the buffered writer.
StillBuffered == "buffered"

PutBack == "original"

\* flush: the handler has finished, so its response goes out whole. A panic is
\* raised again instead, on this goroutine and with the real writer put back.
SeeFinished ==
    /\ mw = "select"
    /\ finished
    /\ IF panicked
         THEN /\ mw' = "panicking"
              /\ writer' = PutBack
              /\ UNCHANGED wire
         ELSE /\ mw' = "answered"
              /\ Send("handler", buffer.status, buffer.body)
              /\ UNCHANGED writer
    /\ UNCHANGED <<goroutine, buffer, timedOut, expired, logged>>

\* Mutant: everything the buffer holds is zeroed, the status with it.
Zeroed == [status |-> 0, body |-> 0]

Discarded == [status |-> GatewayTimeout, body |-> 0]

\* timeout, under the mutex. Both cases of the select may be ready. That flush
\* has not run is clear here: it runs on this goroutine.
SeeExpired ==
    /\ mw = "select"
    /\ expired
    /\ mw' = "timing out"
    /\ timedOut' = TRUE
    /\ buffer' = Discarded
    /\ UNCHANGED <<goroutine, expired, writer, wire, logged>>

\* timeout, after the mutex has been released.
SendTimeout ==
    /\ mw = "timing out"
    /\ mw' = "waiting"
    /\ Send("timeout", GatewayTimeout, 0)
    /\ UNCHANGED <<goroutine, buffer, timedOut, expired, writer, logged>>

\* Mutant: return as soon as the client has its answer.
NoWait == TRUE

HandlerGone == finished

\* The gin.Context is the handler's until it finishes. Its panic is only logged.
AwaitHandler ==
    /\ mw = "waiting"
    /\ HandlerGone
    /\ mw' = "answered"
    /\ UNCHANGED <<goroutine, buffer, timedOut, expired, writer, wire, logged>>

\* The access log, outside this middleware, reads c.Writer.Status().
LogRequest ==
    /\ mw = "answered"
    /\ mw' = "done"
    /\ logged' = buffer.status
    /\ UNCHANGED <<goroutine, buffer, timedOut, expired, writer, wire>>

\* Recovery, outermost: a client that has gone is not answered.
Recover ==
    /\ mw = "panicking"
    /\ mw' = "done"
    /\ IF panic # "abort" /\ writer = "original"
         THEN Send("recovery", InternalError, 0)
         ELSE UNCHANGED wire
    /\ UNCHANGED <<goroutine, buffer, timedOut, expired, writer, logged>>

\* The request is over for both goroutines.
Over == mw = "done" /\ finished /\ UNCHANGED vars

-----------------------------------------------------------------------------

Init ==
    /\ handler = "running"
    /\ produced = [status |-> OK, body |-> 0]
    /\ panic = "none"
    /\ buffer = [status |-> OK, body |-> 0]
    /\ timedOut = FALSE
    /\ panicked = FALSE
    /\ finished = FALSE
    /\ expired = FALSE
    /\ mw = "select"
    /\ writer = "buffered"
    /\ wire = <<>>
    /\ logged = None

Middleware ==
    SeeFinished \/ SeeExpired \/ SendTimeout \/ AwaitHandler \/ LogRequest \/ Recover

Unwind == PassPanicOn \/ CloseFinished

Next ==
    \/ \E s \in Status : WriteHeader(s)
    \/ Write \/ Return
    \/ \E p \in Panic \ {"none"} : Die(p)
    \/ Unwind
    \/ Expire
    \/ Middleware
    \/ Over

\* The timer fires, goroutines are scheduled, deferred calls run; that the
\* handler's own code ever returns is not assumed.
Fairness == WF_vars(Expire) /\ WF_vars(Middleware) /\ WF_vars(Unwind)

Spec == Init /\ [][Next]_vars /\ Fairness

-----------------------------------------------------------------------------
(* Properties.                                                             *)

TypeOK ==
    /\ handler \in {"running", "unwinding", "returned"}
    /\ produced \in [status: Statuses, body: 0..MaxWrites]
    /\ panic \in Panic
    /\ buffer \in [status: Statuses \union {GatewayTimeout}, body: 0..MaxWrites]
    /\ timedOut \in BOOLEAN /\ panicked \in BOOLEAN
    /\ finished \in BOOLEAN /\ expired \in BOOLEAN
    /\ mw \in {"select", "answered", "panicking", "timing out", "waiting", "done"}
    /\ writer \in {"buffered", "original"}
    /\ wire \in Seq(Response)
    /\ logged \in Statuses \union {GatewayTimeout, None}

\* "A response with two status codes" is never produced, and no request ends
\* without one while its client is there.
AnsweredOnce ==
    /\ Len(wire) <= 1
    /\ mw = "done" /\ panic # "abort" => Len(wire) = 1

\* A handler's response is sent whole or not at all: it is everything the
\* handler produced, and the handler returned normally.
ResponseIsWhole ==
    \A i \in 1..Len(wire) : wire[i].by = "handler" =>
        /\ handler = "returned" /\ panic = "none"
        /\ wire[i].status = produced.status /\ wire[i].body = produced.body

\* The access log reports the status that was sent, whatever an abandoned
\* handler goes on writing.
LoggedStatusWasSent ==
    logged # None => Len(wire) = 1 /\ wire[1].status = logged

\* The middleware does not hand the gin.Context back while the handler's
\* goroutine is still walking it.
ContextNotShared == mw \in {"answered", "panicking", "done"} => finished

\* net/http keeps so short a response in its buffers until the goroutine that
\* serves the request returns: nothing here flushes them.
Delivered == mw = "done" /\ wire # <<>>

\* No handler keeps its caller waiting. True of a handler that ends of itself,
\* and not of every one: the response waits for the handler, past the deadline.
EventuallyAnswered == <>(Delivered \/ panic = "abort")

=============================================================================
