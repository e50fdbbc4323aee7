----------------------------- MODULE RateLimiter -----------------------------
(***************************************************************************)
(* The token buckets in front of the routes, one per store and caller.     *)
(* Time is counted in units of refill: a bucket gains one unit per tick    *)
(* and a request costs Cost of them. What happens inside one bucket is     *)
(* golang.org/x/time/rate, modelled from its documented arithmetic. A      *)
(* clock read and the lock taken next to it count as one step; so do       *)
(* Reserve and Delay, which reads the clock once more: between the two a   *)
(* wait can only run out, and the request be let in that much later.       *)
(***************************************************************************)
EXTENDS Integers, Sequences, FiniteSetsExt

CONSTANTS
    Store,     \* the limiter stores: one per middleware
    Caller,    \* their keys: c.ClientIP()
    Request,   \* requests, each on a goroutine of its own
    Cost,      \* units a request takes: 1 / limit
    Burst,     \* requests a full bucket holds
    TTL,       \* idleLimiterTTL
    Stall,     \* the longest a request stays inside allow
    Second,    \* ticks of a second
    MaxTime,   \* bound on the clock
    NoBucket,  \* no entry in the map
    None       \* nothing promised

Full == Burst * Cost

\* A call of allow does not last as long as a bucket is kept. That a bucket
\* refills within TTL is not assumed: config/validate.go does not demand it.
ASSUME LimiterAssumption ==
    /\ Cost \in Nat \ {0} /\ Burst \in Nat \ {0} /\ Second \in Nat \ {0}
    /\ TTL \in Nat /\ Stall \in Nat /\ MaxTime \in Nat
    /\ Stall <= TTL
    /\ None \notin Nat

Bucket == [tokens: Int, last: Nat, lastEvent: Int, seen: Nat]

ASSUME NoBucketAssumption == NoBucket \notin Bucket

VARIABLES
    now,        \* the clock
    bucket,     \* limiterStore.limiters: the bucket of a caller, if it has one
    visit,      \* where a request is inside allow, and its reservation
    admitted,   \* history: when, on its clock, a caller got requests through
    credit,     \* history: what buckets that were forgotten gave the caller
    disturbed,  \* history: reservations of this bucket overlapped, or were held
    promise     \* history: when the caller last refused may safely be back

history == <<admitted, credit, disturbed, promise>>
limiterVars == <<now, bucket, visit, history>>

Away == [at |-> "away"]  \* a request that has not been to a store yet
Visit == [at: {"found", "waiting", "admitted", "refused"},
          store: Store, caller: Caller, entered: Nat, act: Int, wait: Int]

Inside(r) == visit[r].at \in {"found", "waiting"}
Of(r) == bucket[visit[r].store][visit[r].caller]
Move(r, at) == visit' = [visit EXCEPT ![r].at = at]
SetBucket(r, b) == bucket' = [bucket EXCEPT ![visit[r].store][visit[r].caller] = b]

\* The clock of a caller. What it was given counts as time that has passed.
Clock(s, k) == now + credit[s][k]

-----------------------------------------------------------------------------
(* golang.org/x/time/rate.                                                 *)

NewLimiter == [tokens |-> Full, last |-> now, lastEvent |-> 0, seen |-> now]

\* advance: what the bucket holds at a time, and at the present one.
LevelAt(b, t) == Min({Full, b.tokens + (t - b.last)})
Level(b) == LevelAt(b, now)

WaitFor(tokens) == IF tokens < 0 THEN -tokens ELSE 0

\* reserveN: the token is taken even when there is none; the debt is a wait.
Reserved(b) ==
    LET left == Level(b) - Cost
    IN  [b EXCEPT !.tokens = left, !.last = now, !.lastEvent = now + WaitFor(left)]

\* What CancelAt gives back: nothing when the time to act has passed, and less
\* than was taken when later reservations have been made since.
Restored(b, act) == IF act < now THEN 0 ELSE Cost - (b.lastEvent - act)

Cancelled(b, act) ==
    LET back == Restored(b, act)
        prev == act - Cost
    IN  IF back <= 0 THEN b
        ELSE [b EXCEPT !.tokens = Min({Full, Level(b) + back}), !.last = now,
                       !.lastEvent = IF act = @ /\ prev >= now THEN prev ELSE @]

-----------------------------------------------------------------------------
(* limiterStore.allow.                                                     *)

\* Under the store's mutex: find or create the bucket and stamp it.
Lookup(r, s, k) ==
    LET found == bucket[s][k] # NoBucket
    IN  /\ visit' = [visit EXCEPT ![r] = [at |-> "found", store |-> s, caller |-> k,
                                          entered |-> now, act |-> 0, wait |-> 0]]
        /\ bucket' = [bucket EXCEPT ![s][k] =
                         IF found THEN [@ EXCEPT !.seen = now] ELSE NewLimiter]
        /\ disturbed' = [disturbed EXCEPT ![s][k] = found /\ @]
        /\ UNCHANGED <<now, admitted, credit, promise>>

\* Another request of this caller holds a reservation it will cancel.
Crowded(r) == \E other \in Request \ {r} :
    /\ visit[other].at = "waiting"
    /\ visit[other].store = visit[r].store /\ visit[other].caller = visit[r].caller

\* Mutant: a request one token short is let through.
OneShort(b) == Level(b) >= 0

HasToken(b) == Level(b) - Cost >= 0

\* limiter.Reserve, after the store's mutex has been released.
Reserve(r) ==
    /\ visit[r].at = "found"
    /\ LET s == visit[r].store
           k == visit[r].caller
           b == Reserved(Of(r))
       IN  /\ SetBucket(r, b)
           /\ disturbed' = [disturbed EXCEPT ![s][k] = @ \/ Crowded(r)]
           /\ IF HasToken(Of(r))
                THEN /\ Move(r, "admitted")
                     /\ admitted' = [admitted EXCEPT ![s][k] = Append(@, Clock(s, k))]
                ELSE /\ visit' = [visit EXCEPT ![r].at = "waiting", ![r].act = b.lastEvent,
                                               ![r].wait = b.lastEvent - now]
                     /\ UNCHANGED admitted
           /\ promise' = [promise EXCEPT ![s][k] = None]
           /\ UNCHANGED <<now, credit>>

\* enforce: whole seconds, and at least one.
RetryAfter(wait) == Max({1, wait \div Second})

\* Mutant: the refused request keeps its reservation.
NotCancelled(b, act) == b

Returned(b, act) == Cancelled(b, act)

\* reservation.Cancel, and the 429. The time of the promise is the one after
\* which Retry-After, a second more for the part cut off, has elapsed.
Cancel(r) ==
    /\ visit[r].at = "waiting"
    /\ LET s == visit[r].store
           k == visit[r].caller
           held == now # visit[r].act - visit[r].wait
       IN  /\ SetBucket(r, Returned(Of(r), visit[r].act))
           /\ Move(r, "refused")
           /\ disturbed' = [disturbed EXCEPT ![s][k] = @ \/ held]
           /\ promise' = [promise EXCEPT ![s][k] =
                             now + (RetryAfter(visit[r].wait) + 1) * Second]
           /\ UNCHANGED <<now, admitted, credit>>

-----------------------------------------------------------------------------
(* The sweeper, and time.                                                  *)

Expired(b) == b # NoBucket /\ b.seen < now - TTL

\* What a caller gains when its bucket is forgotten, as the next one is full:
\* what its limit does not leave it. The limit leaves what the bucket holds, and
\* no less than has been refilled since a request of its was last admitted.
Forgotten(s, k) ==
    LET times == admitted[s][k]
        idle == Clock(s, k) - times[Len(times)]
    IN  IF times = <<>> THEN 0 ELSE Full - Min({Full, Max({Level(bucket[s][k]), idle})})

\* The ticker may fire at any time: when is not what the properties depend on.
Sweep ==
    /\ \E s \in Store, k \in Caller : Expired(bucket[s][k])
    /\ bucket' = [s \in Store |-> [k \in Caller |->
                     IF Expired(bucket[s][k]) THEN NoBucket ELSE bucket[s][k]]]
    /\ credit' = [s \in Store |-> [k \in Caller |->
                     credit[s][k] + IF Expired(bucket[s][k]) THEN Forgotten(s, k) ELSE 0]]
    /\ UNCHANGED <<now, visit, admitted, disturbed, promise>>

\* allow makes no blocking call, so a request is soon out of it.
Tick ==
    /\ now < MaxTime
    /\ \A r \in Request : Inside(r) => now < visit[r].entered + Stall
    /\ now' = now + 1
    /\ UNCHANGED <<bucket, visit, history>>

-----------------------------------------------------------------------------

LimiterInit ==
    /\ now = 0
    /\ bucket = [s \in Store |-> [k \in Caller |-> NoBucket]]
    /\ visit = [r \in Request |-> Away]
    /\ admitted = [s \in Store |-> [k \in Caller |-> <<>>]]
    /\ credit = [s \in Store |-> [k \in Caller |-> 0]]
    /\ disturbed = [s \in Store |-> [k \in Caller |-> FALSE]]
    /\ promise = [s \in Store |-> [k \in Caller |-> None]]

Ask(r) == ~Inside(r) /\ \E s \in Store, k \in Caller : Lookup(r, s, k)

Allow(r) == Ask(r) \/ Reserve(r) \/ Cancel(r)

LimiterNext == (\E r \in Request : Allow(r)) \/ Sweep \/ Tick

LimiterSpec == LimiterInit /\ [][LimiterNext]_limiterVars

-----------------------------------------------------------------------------

LimiterTypeOK ==
    /\ now \in Nat
    /\ bucket \in [Store -> [Caller -> Bucket \union {NoBucket}]]
    /\ visit \in [Request -> Visit \union {Away}]
    /\ admitted \in [Store -> [Caller -> Seq(Nat)]]
    /\ credit \in [Store -> [Caller -> Nat]]
    /\ disturbed \in [Store -> [Caller -> BOOLEAN]]
    /\ promise \in [Store -> [Caller -> Nat \union {None}]]

\* In no window are more requests admitted than a full bucket and the refill
\* of that window allow.
WithinLimit(times) ==
    \A i \in DOMAIN times : \A j \in i..Len(times) :
        (j - i + 1) * Cost <= Full + times[j] - times[i]

\* Whatever a caller overlaps, however long it waits and whenever the sweeper
\* runs, it is let through no faster than its limit and the credit of forgotten
\* buckets allow: rate_limit.go's promise across allow, Cancel's refund and the
\* eviction of idle buckets, for any limit the configuration accepts.
NeverOverAdmits == \A s \in Store, k \in Caller : WithinLimit(admitted[s][k])

\* The comment on limiterStore: a bucket idle for idleLimiterTTL "has refilled
\* anyway, so nothing is lost by forgetting it".
ForgettingIsFree == \A s \in Store, k \in Caller : credit[s][k] = 0

OverLimit(r) ==
    LET s == visit[r].store
        k == visit[r].caller
    IN  ~WithinLimit(Append(admitted[s][k], visit[r].act - visit[r].wait + credit[s][k]))

\* A caller whose reservations do not overlap is refused only when admitting it
\* would have exceeded its limit: the refusals before cost it nothing, and
\* neither did a bucket that was forgotten. (allow, enforce.)
RefusalJustified ==
    \A r \in Request :
        visit[r].at = "waiting" /\ ~disturbed[visit[r].store][visit[r].caller] => OverLimit(r)

\* Such a caller finds a token when it comes back a second after the time
\* Retry-After named; at that time it may not, as the header is rounded down.
\* (enforce.)
ComeBackLater ==
    \A s \in Store, k \in Caller :
        LET b == bucket[s][k]
        IN  promise[s][k] # None /\ now >= promise[s][k] /\ ~disturbed[s][k] /\ b # NoBucket
                => HasToken(b)

\* The comment in enforce: "Retry-After tells a well-behaved client when to come
\* back". At the time it tells, such a caller would find a token.
ComeBackOnTime ==
    \A s \in Store, k \in Caller :
        LET b == bucket[s][k]
        IN  promise[s][k] # None /\ now >= promise[s][k] - Second /\ ~disturbed[s][k]
                /\ b # NoBucket => HasToken(b)

\* The comment in allow has it of every refusal, overlapped or not: the
\* cancelled reservation "puts the token back for whoever asks next".
EveryRefusalJustified ==
    \A r \in Request : visit[r].at = "waiting" => OverLimit(r)
=============================================================================
