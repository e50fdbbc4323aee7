-------------------------- MODULE RateLimiterProofs --------------------------
(***************************************************************************)
(* The types of RateLimiter, that no caller is ever let through faster     *)
(* than its limit and what forgotten buckets gave it, and when they give   *)
(* nothing: for any limit, burst, callers and requests.                    *)
(***************************************************************************)
EXTENDS RateLimiter, TLAPS

\* A reservation that Cancel may still give back.
Live(r) == visit[r].at = "waiting" /\ visit[r].act >= now
Same(r, o) == visit[r].store = visit[o].store /\ visit[r].caller = visit[o].caller
Times(r) == admitted[visit[r].store][visit[r].caller]
ClockOf(r) == Clock(visit[r].store, visit[r].caller)

\* What the requests from the i-th on have taken.
Spent(times, i) == (Len(times) - i + 1) * Cost

Holding(b) == IF b = NoBucket THEN Full ELSE Level(b)

Present ==
    \A r \in Request : Inside(r) =>
        Of(r) # NoBucket /\ visit[r].entered <= Of(r).seen /\ now <= visit[r].entered + Stall

Past ==
    \A s \in Store, k \in Caller : \A i \in DOMAIN admitted[s][k] :
        admitted[s][k][i] <= Clock(s, k)

Dated ==
    \A s \in Store, k \in Caller : bucket[s][k] # NoBucket =>
        /\ bucket[s][k].seen <= now
        /\ bucket[s][k].last <= now
        /\ admitted[s][k] # <<>> =>
              admitted[s][k][Len(admitted[s][k])] <= bucket[s][k].seen + Stall + credit[s][k]

\* While a reservation can be given back the bucket is in debt until its time.
InDebt ==
    \A r \in Request : Live(r) =>
        visit[r].act <= Of(r).lastEvent /\ Level(Of(r)) <= now - visit[r].act

Spaced ==
    \A r, o \in Request : r # o /\ Live(r) /\ Live(o) /\ Same(r, o) =>
        visit[r].act >= visit[o].act + Cost \/ visit[o].act >= visit[r].act + Cost

\* What giving it back would leave is no more than the limit allows.
Owed ==
    \A r \in Request : Live(r) => \A i \in DOMAIN Times(r) :
        Spent(Times(r), i) + (now - visit[r].act) + Cost <= Full + (ClockOf(r) - Times(r)[i])

Covered ==
    \A s \in Store, k \in Caller : \A i \in DOMAIN admitted[s][k] :
        Spent(admitted[s][k], i) + Holding(bucket[s][k]) <= Full + (Clock(s, k) - admitted[s][k][i])

IInv ==
    /\ LimiterTypeOK
    /\ Present
    /\ Past
    /\ Dated
    /\ InDebt
    /\ Spaced
    /\ Owed
    /\ Covered
    /\ NeverOverAdmits

-----------------------------------------------------------------------------

LEMMA FullFacts == Full \in Nat /\ Cost \in Nat /\ Cost >= 1 /\ Cost <= Full
  BY LimiterAssumption, SMT DEF Full

LEMMA MinOfTwo ==
  ASSUME NEW a \in Int, NEW b \in Int
  PROVE  Min({a, b}) = IF a <= b THEN a ELSE b
  <1> DEFINE m == IF a <= b THEN a ELSE b
  <1>1. m \in {a, b} /\ \A y \in {a, b} : m <= y
    OBVIOUS
  <1>2. \A x \in {a, b} : (\A y \in {a, b} : x <= y) => x = m
    OBVIOUS
  <1>3. QED
    BY <1>1, <1>2 DEF Min

LEMMA MaxOfTwo ==
  ASSUME NEW a \in Int, NEW b \in Int
  PROVE  Max({a, b}) = IF a >= b THEN a ELSE b
  <1> DEFINE m == IF a >= b THEN a ELSE b
  <1>1. m \in {a, b} /\ \A y \in {a, b} : m >= y
    OBVIOUS
  <1>2. \A x \in {a, b} : (\A y \in {a, b} : x >= y) => x = m
    OBVIOUS
  <1>3. QED
    BY <1>1, <1>2 DEF Max

\* A table with one cell changed.
LEMMA CellFacts ==
  ASSUME NEW S, NEW f \in [Store -> [Caller -> S]], NEW s \in Store, NEW k \in Caller, NEW x,
         NEW g, g = [f EXCEPT ![s][k] = x]
  PROVE  /\ g[s][k] = x
         /\ \A t \in Store, c \in Caller : t # s \/ c # k => g[t][c] = f[t][c]
         /\ x \in S => g \in [Store -> [Caller -> S]]
  OBVIOUS

LEMMA LevelAtFacts ==
  ASSUME NEW b \in Bucket, NEW t \in Nat
  PROVE  /\ LevelAt(b, t) \in Int
         /\ LevelAt(b, t) = IF Full <= b.tokens + (t - b.last) THEN Full
                            ELSE b.tokens + (t - b.last)
  BY FullFacts, MinOfTwo DEF LevelAt, Bucket

LEMMA LevelStep ==
  ASSUME NEW b \in Bucket, NEW t \in Nat
  PROVE  /\ LevelAt(b, t) \in Int /\ LevelAt(b, t + 1) \in Int
         /\ LevelAt(b, t + 1) <= LevelAt(b, t) + 1
  <1>1. t + 1 \in Nat
    OBVIOUS
  <1>2. b.tokens \in Int /\ b.last \in Nat
    BY DEF Bucket
  <1>3. /\ LevelAt(b, t) \in Int
        /\ LevelAt(b, t) = IF Full <= b.tokens + (t - b.last) THEN Full
                            ELSE b.tokens + (t - b.last)
    BY LevelAtFacts
  <1>4. ASSUME NEW u \in Nat, u = t + 1
        PROVE  /\ LevelAt(b, u) \in Int
               /\ LevelAt(b, u) = IF Full <= b.tokens + (u - b.last) THEN Full
                                  ELSE b.tokens + (u - b.last)
    BY LevelAtFacts
  <1>5. ASSUME NEW u \in Nat, u = t + 1
        PROVE  LevelAt(b, u) \in Int /\ LevelAt(b, u) <= LevelAt(b, t) + 1
    BY <1>2, <1>3, <1>4, <1>5, FullFacts
  <1>6. QED
    BY <1>1, <1>3, <1>5

LEMMA LevelFacts ==
  ASSUME NEW b \in Bucket, now \in Nat
  PROVE  /\ Level(b) \in Int
         /\ Level(b) = IF Full <= b.tokens + (now - b.last) THEN Full
                       ELSE b.tokens + (now - b.last)
  BY LevelAtFacts DEF Level

LEMMA LevelAtMostFull ==
  ASSUME NEW b \in Bucket, now \in Nat
  PROVE  Level(b) <= Full
  <1>1. PICK held \in Int : held = b.tokens + (now - b.last)
    BY DEF Bucket
  <1>2. Level(b) = IF Full <= held THEN Full ELSE held
    BY <1>1, LevelFacts
  <1>3. QED
    BY <1>2, FullFacts

LEMMA ReservedFacts ==
  ASSUME NEW b \in Bucket, now \in Nat
  PROVE  /\ Reserved(b) \in Bucket
         /\ Reserved(b).seen = b.seen
         /\ Reserved(b).last = now
         /\ Reserved(b).tokens = Level(b) - Cost
         /\ Reserved(b).lastEvent = IF Level(b) < Cost THEN now + (Cost - Level(b)) ELSE now
         /\ Level(Reserved(b)) = Level(b) - Cost
  <1>1. Reserved(b) = [b EXCEPT !.tokens = Level(b) - Cost, !.last = now,
                                !.lastEvent = now + WaitFor(Level(b) - Cost)]
    BY DEF Reserved
  <1>2. Level(b) - Cost \in Int /\ now + WaitFor(Level(b) - Cost) \in Int
    BY LevelFacts, FullFacts DEF WaitFor
  <1>3. /\ Reserved(b) \in Bucket
        /\ Reserved(b).tokens = Level(b) - Cost
        /\ Reserved(b).last = now
    BY <1>1, <1>2 DEF Bucket
  <1>4. Level(Reserved(b)) = Level(b) - Cost
    <2>1. Level(b) \in Int /\ Level(b) - Cost < Full
      BY LevelFacts, FullFacts DEF Bucket
    <2>2. Level(Reserved(b)) = IF Full <= Level(b) - Cost + (now - now) THEN Full
                               ELSE Level(b) - Cost + (now - now)
      BY <1>3, LevelFacts
    <2>3. QED
      BY <2>1, <2>2, FullFacts
  <1>5. QED
    BY <1>1, <1>3, <1>4, LevelFacts, FullFacts DEF Bucket, WaitFor

LEMMA CancelledFacts ==
  ASSUME NEW b \in Bucket, NEW act \in Int, now \in Nat
  PROVE  \/ Cancelled(b, act) = b
         \/ /\ act >= now
            /\ b.lastEvent - act < Cost
            /\ Cancelled(b, act) \in Bucket
            /\ Cancelled(b, act).seen = b.seen
            /\ Cancelled(b, act).last = now
            /\ Cancelled(b, act).lastEvent =
                  IF act = b.lastEvent /\ act - Cost >= now THEN act - Cost ELSE b.lastEvent
            /\ Level(Cancelled(b, act)) <= Level(b) + Cost - (b.lastEvent - act)
  <1> DEFINE back == Restored(b, act)
             tokens == Min({Full, Level(b) + back})
             event == IF act = b.lastEvent /\ act - Cost >= now THEN act - Cost ELSE b.lastEvent
  <1>1. CASE back <= 0
    BY <1>1 DEF Cancelled
  <1>2. CASE ~(back <= 0)
    <2>1. act >= now /\ back = Cost - (b.lastEvent - act) /\ b.lastEvent - act < Cost
      BY <1>2, FullFacts DEF Restored, Bucket
    <2>2. back \in Int
      BY <2>1, FullFacts DEF Bucket
    <2>3. tokens \in Int /\ tokens <= Full /\ tokens <= Level(b) + back
      BY <2>2, LevelFacts, FullFacts, MinOfTwo
    <2>4. Cancelled(b, act) = [b EXCEPT !.tokens = tokens, !.last = now, !.lastEvent = event]
      BY <1>2 DEF Cancelled, Bucket
    <2>5. event \in Int
      BY FullFacts DEF Bucket
    <2> HIDE DEF tokens, event
    <2>6. /\ Cancelled(b, act) \in Bucket
          /\ Cancelled(b, act).seen = b.seen
          /\ Cancelled(b, act).last = now
          /\ Cancelled(b, act).lastEvent = event
          /\ Cancelled(b, act).tokens = tokens
      BY <2>3, <2>4, <2>5 DEF Bucket
    <2>7. Level(Cancelled(b, act)) = tokens
      BY <2>3, <2>6, LevelFacts, FullFacts
    <2>8. QED
      BY <2>1, <2>3, <2>6, <2>7 DEF event
  <1>3. QED
    BY <1>1, <1>2

\* What the proofs need to know of an appended sequence.
Extended(more, times, t) ==
    /\ more \in Seq(Nat) /\ times \in Seq(Nat) /\ t \in Nat
    /\ Len(more) = Len(times) + 1 /\ Len(times) \in Nat
    /\ DOMAIN more = 1..(Len(times) + 1) /\ DOMAIN times = 1..Len(times)
    /\ more[Len(times) + 1] = t
    /\ \A i \in 1..Len(times) : more[i] = times[i] /\ times[i] \in Nat
    /\ \A i \in 1..Len(times) : Spent(more, i) = Spent(times, i) + Cost /\ Spent(times, i) \in Nat
    /\ Spent(more, Len(times) + 1) = Cost

LEMMA SpentFacts ==
  ASSUME NEW times \in Seq(Nat), NEW t \in Nat
  PROVE  /\ \A i \in DOMAIN times : Spent(times, i) \in Nat
         /\ \A i \in DOMAIN times : Spent(Append(times, t), i) = Spent(times, i) + Cost
         /\ Spent(Append(times, t), Len(times) + 1) = Cost
  <1> USE LimiterAssumption
  <1>1. ASSUME NEW i \in DOMAIN times PROVE Spent(times, i) \in Nat
    <2>1. Len(times) - i + 1 \in Nat
      BY <1>1
    <2>2. QED
      BY <2>1 DEF Spent
  <1>2. ASSUME NEW i \in DOMAIN times
        PROVE  Spent(Append(times, t), i) = Spent(times, i) + Cost
    <2>1. Len(Append(times, t)) = Len(times) + 1
      OBVIOUS
    <2>2. \A m \in Int : (m + 1) * Cost = m * Cost + Cost
      OBVIOUS
    <2>3. Len(times) + 1 - i + 1 = (Len(times) - i + 1) + 1 /\ Len(times) - i + 1 \in Int
      BY <1>2
    <2>4. ((Len(times) - i + 1) + 1) * Cost = (Len(times) - i + 1) * Cost + Cost
      BY <2>2, <2>3
    <2>5. (Len(times) + 1 - i + 1) * Cost = (Len(times) - i + 1) * Cost + Cost
      BY <2>3, <2>4
    <2>6. QED
      BY <2>1, <2>5 DEF Spent
  <1>3. Spent(Append(times, t), Len(times) + 1) = Cost
    BY DEF Spent
  <1>4. QED
    BY <1>1, <1>2, <1>3

LEMMA AppendFacts ==
  ASSUME NEW times \in Seq(Nat), NEW t \in Nat
  PROVE  Extended(Append(times, t), times, t)
  <1>1. \A i \in DOMAIN times : times[i] \in Nat /\ Append(times, t)[i] = times[i]
    OBVIOUS
  <1>2. DOMAIN times = 1..Len(times) /\ Len(times) \in Nat
    OBVIOUS
  <1>3. /\ Append(times, t) \in Seq(Nat)
        /\ Len(Append(times, t)) = Len(times) + 1
        /\ DOMAIN Append(times, t) = 1..(Len(times) + 1)
        /\ Append(times, t)[Len(times) + 1] = t
    OBVIOUS
  <1>4. QED
    BY <1>1, <1>2, <1>3, SpentFacts DEF Extended

-----------------------------------------------------------------------------
(* The initial state.                                                      *)

LEMMA InitInv == LimiterInit => IInv
  <1> SUFFICES ASSUME LimiterInit PROVE IInv
    OBVIOUS
  <1>1. LimiterTypeOK
    BY DEF LimiterInit, LimiterTypeOK
  <1>2. \A r \in Request : visit[r].at = "away"
    BY DEF LimiterInit, Away
  <1>3. \A s \in Store, k \in Caller : admitted[s][k] = <<>> /\ bucket[s][k] = NoBucket
    BY DEF LimiterInit
  <1>4. Present /\ InDebt /\ Spaced /\ Owed
    BY <1>2 DEF Present, InDebt, Spaced, Owed, Inside, Live
  <1>5. Past /\ Dated /\ Covered /\ NeverOverAdmits
    BY <1>3 DEF Past, Dated, Covered, NeverOverAdmits, WithinLimit
  <1>6. QED
    BY <1>1, <1>4, <1>5 DEF IInv

-----------------------------------------------------------------------------
(* Lookup.                                                                 *)

LEMMA LookupInv ==
  ASSUME IInv, NEW r \in Request, NEW s \in Store, NEW k \in Caller,
         ~Inside(r), Lookup(r, s, k)
  PROVE  IInv'
  <1> DEFINE new == IF bucket[s][k] # NoBucket
                    THEN [bucket[s][k] EXCEPT !.seen = now] ELSE NewLimiter
  <1> USE DEF LimiterTypeOK
  <1>0. LimiterTypeOK
    BY DEF IInv
  <1>1. /\ visit'[r] = [at |-> "found", store |-> s, caller |-> k,
                        entered |-> now, act |-> 0, wait |-> 0]
        /\ \A o \in Request \ {r} : visit'[o] = visit[o]
    BY <1>0 DEF Lookup
  <1>2. /\ now' = now /\ admitted' = admitted
        /\ bucket'[s][k] = new
        /\ \A t \in Store, c \in Caller : t # s \/ c # k => bucket'[t][c] = bucket[t][c]
    BY <1>0 DEF Lookup
  <1>c. \A t \in Store, c \in Caller :
          /\ Clock(t, c)' = Clock(t, c) /\ Clock(t, c) \in Nat
          /\ credit'[t][c] = credit[t][c] /\ credit[t][c] \in Nat
    BY <1>0 DEF Lookup, Clock
  <1>3. /\ new \in Bucket /\ new # NoBucket
        /\ new.seen = now /\ new.last <= now
        /\ bucket[s][k] # NoBucket =>
              new.lastEvent = bucket[s][k].lastEvent /\ new.last = bucket[s][k].last
                /\ new.tokens = bucket[s][k].tokens
        /\ bucket[s][k] = NoBucket => new.tokens = Full /\ new.last = now
    <2>1. CASE bucket[s][k] = NoBucket
      BY <1>0, <2>1, FullFacts, NoBucketAssumption DEF NewLimiter, Bucket
    <2>2. CASE bucket[s][k] # NoBucket
      <3>1. bucket[s][k] \in Bucket /\ bucket[s][k].last <= now
        BY <1>0, <2>2 DEF IInv, Dated
      <3>2. QED
        BY <1>0, <2>2, <3>1, NoBucketAssumption DEF Bucket
    <2>3. QED
      BY <2>1, <2>2
  <1> HIDE DEF new
  <1>4. Level(new) = Holding(bucket[s][k])
    <2>1. CASE bucket[s][k] = NoBucket
      BY <1>0, <1>3, <2>1, LevelFacts, FullFacts DEF Holding
    <2>2. CASE bucket[s][k] # NoBucket
      BY SMTT(30), <1>0, <1>3, <2>2, LevelFacts DEF Holding, Bucket
    <2>3. QED
      BY <2>1, <2>2
  <1>5. LimiterTypeOK'
    BY <1>0, <1>2, <1>3 DEF Lookup, Visit, new
  <1>6. ASSUME NEW o \in Request, Live(o)'
        PROVE  /\ o # r /\ Live(o) /\ visit'[o] = visit[o] /\ visit[o] \in Visit
               /\ Of(o) # NoBucket
               /\ Of(o)'.lastEvent = Of(o).lastEvent
               /\ Level(Of(o))' = Level(Of(o))
    <2>1. o # r
      BY <1>1, <1>6 DEF Live
    <2>2. visit'[o] = visit[o] /\ Live(o)
      BY <1>1, <1>2, <1>6, <2>1 DEF Live
    <2>3. visit[o] \in Visit
      BY <1>0, <2>2 DEF Live, Away
    <2>4. Of(o) # NoBucket
      BY <2>2 DEF IInv, Present, Inside, Live
    <2>5. CASE visit[o].store = s /\ visit[o].caller = k
      <3>1. Of(o) = bucket[s][k] /\ Of(o)' = new
        BY <1>2, <2>2, <2>5 DEF Of
      <3>2. QED
        BY <1>2, <1>3, <1>4, <2>1, <2>2, <2>3, <2>4, <3>1 DEF Holding, Level
    <2>6. CASE ~(visit[o].store = s /\ visit[o].caller = k)
      <3>1. Of(o)' = Of(o)
        BY <1>2, <2>2, <2>3, <2>6 DEF Of, Visit
      <3>2. QED
        BY <1>2, <2>1, <2>2, <2>3, <2>4, <3>1 DEF Level
    <2>7. QED
      BY <2>5, <2>6
  <1>7. Present'
    <2> SUFFICES ASSUME NEW o \in Request, Inside(o)'
                 PROVE  (Of(o) # NoBucket /\ visit[o].entered <= Of(o).seen
                           /\ now <= visit[o].entered + Stall)'
      BY DEF Present
    <2>1. CASE o = r
      BY <1>0, <1>1, <1>2, <1>3, <2>1, LimiterAssumption DEF Of
    <2>2. CASE o # r
      <3>1. /\ visit'[o] = visit[o] /\ visit[o] \in Visit
            /\ Of(o) # NoBucket /\ visit[o].entered <= Of(o).seen
            /\ now <= visit[o].entered + Stall
        BY <1>0, <1>1, <2>2 DEF IInv, Present, Inside, Away
      <3>2. CASE visit[o].store = s /\ visit[o].caller = k
        BY <1>0, <1>2, <1>3, <3>1, <3>2, <2>2 DEF Of, IInv, Dated, Visit, Bucket
      <3>3. CASE ~(visit[o].store = s /\ visit[o].caller = k)
        BY <1>2, <3>1, <3>3 DEF Of, Visit
      <3>4. QED
        BY <3>2, <3>3
    <2>3. QED
      BY <2>1, <2>2
  <1>8. Dated'
    <2> SUFFICES ASSUME NEW t \in Store, NEW c \in Caller, bucket'[t][c] # NoBucket
                 PROVE  (/\ bucket[t][c].seen <= now
                         /\ bucket[t][c].last <= now
                         /\ admitted[t][c] # <<>> =>
                              admitted[t][c][Len(admitted[t][c])]
                                <= bucket[t][c].seen + Stall + credit[t][c])'
      BY DEF Dated
    <2>1. CASE t = s /\ c = k
      <3>1. admitted[s][k] \in Seq(Nat)
        BY <1>0
      <3>2. admitted[s][k] # <<>> =>
              admitted[s][k][Len(admitted[s][k])] <= now + credit[s][k]
        BY <3>1 DEF IInv, Past, Clock
      <3>3. admitted[s][k] # <<>> => admitted[s][k][Len(admitted[s][k])] \in Nat
        BY <3>1
      <3>4. QED
        <4>1. Stall \in Nat /\ now \in Nat /\ credit[s][k] \in Nat
          BY <1>0, LimiterAssumption
        <4>2. /\ bucket'[t][c].seen = now /\ bucket'[t][c].last <= now /\ now' = now
              /\ admitted'[t][c] = admitted[s][k] /\ credit'[t][c] = credit[s][k]
          BY <1>0, <1>2, <1>3, <1>c, <2>1
        <4>3. QED
          BY <3>2, <3>3, <4>1, <4>2
    <2>2. CASE ~(t = s /\ c = k)
      BY <1>2, <1>c, <2>2 DEF IInv, Dated
    <2>3. QED
      BY <2>1, <2>2
  <1>9. InDebt'
    BY <1>2, <1>6 DEF InDebt, IInv
  <1>10. Spaced'
    <2> SUFFICES ASSUME NEW o \in Request, NEW p \in Request,
                        (o # p /\ Live(o) /\ Live(p) /\ Same(o, p))'
                 PROVE  (visit[o].act >= visit[p].act + Cost
                           \/ visit[p].act >= visit[o].act + Cost)'
      BY DEF Spaced
    <2>1. Live(o) /\ visit'[o] = visit[o] /\ Live(p) /\ visit'[p] = visit[p]
      BY <1>6
    <2>2. QED
      BY <2>1 DEF IInv, Spaced, Same
  <1>11. Owed'
    <2> SUFFICES ASSUME NEW o \in Request, Live(o)', NEW i \in DOMAIN Times(o)'
                 PROVE  (Spent(Times(o), i) + (now - visit[o].act) + Cost
                           <= Full + (ClockOf(o) - Times(o)[i]))'
      BY DEF Owed
    <2>1. Live(o) /\ visit'[o] = visit[o]
      BY <1>6
    <2>2. Times(o)' = Times(o) /\ ClockOf(o)' = ClockOf(o)
      BY <1>2, <1>6, <1>c, <2>1 DEF Times, ClockOf, Visit
    <2>3. QED
      BY <1>2, <2>1, <2>2 DEF IInv, Owed, Spent
  <1>12. Covered'
    <2> SUFFICES ASSUME NEW t \in Store, NEW c \in Caller
                 PROVE  Holding(bucket[t][c])' = Holding(bucket[t][c])
      BY <1>2, <1>c DEF IInv, Covered, Spent
    <2>1. CASE t = s /\ c = k
      BY <1>2, <1>3, <1>4, <2>1 DEF Holding, Level
    <2>2. CASE ~(t = s /\ c = k)
      BY <1>2, <2>2 DEF Holding, Level
    <2>3. QED
      BY <2>1, <2>2
  <1>13. Past' /\ NeverOverAdmits'
    BY <1>2, <1>c DEF IInv, Past, NeverOverAdmits, WithinLimit
  <1>14. QED
    BY <1>5, <1>7, <1>8, <1>9, <1>10, <1>11, <1>12, <1>13 DEF IInv

-----------------------------------------------------------------------------
(* Reserve.                                                                *)

\* Reserve, with names for what it finds and what it leaves.
ReserveEffect(r, s, k, old, new, more) ==
    /\ visit[r].at = "found" /\ s = visit[r].store /\ k = visit[r].caller
    /\ old = bucket[s][k] /\ new = Reserved(old)
    /\ now' = now /\ credit' = credit
    /\ bucket' = [bucket EXCEPT ![s][k] = new]
    /\ disturbed' = [disturbed EXCEPT ![s][k] = @ \/ Crowded(r)]
    /\ promise' = [promise EXCEPT ![s][k] = None]
    /\ HasToken(old) => /\ visit' = [visit EXCEPT ![r].at = "admitted"]
                        /\ admitted' = [admitted EXCEPT ![s][k] = more]
    /\ ~HasToken(old) =>
          /\ visit' = [visit EXCEPT ![r].at = "waiting", ![r].act = new.lastEvent,
                                    ![r].wait = new.lastEvent - now]
          /\ admitted' = admitted

LEMMA ReserveHasEffect ==
  ASSUME NEW r \in Request, Reserve(r)
  PROVE  LET s == visit[r].store
             k == visit[r].caller
         IN  ReserveEffect(r, s, k, bucket[s][k], Reserved(bucket[s][k]),
                           Append(admitted[s][k], Clock(s, k)))
  BY DEF Reserve, SetBucket, Move, Of, ReserveEffect

LEMMA ReserveEffectInv ==
  ASSUME IInv, NEW r \in Request, NEW s, NEW k, NEW old, NEW new, NEW times, NEW more, NEW cl,
         ReserveEffect(r, s, k, old, new, more), cl = Clock(s, k),
         times = admitted[s][k], Extended(more, times, cl)
  PROVE  IInv'
  <1> USE DEF LimiterTypeOK
  <1>0. LimiterTypeOK
    BY DEF IInv
  <1>1. /\ visit[r] \in Visit /\ visit[r].at = "found" /\ s \in Store /\ k \in Caller
        /\ s = visit[r].store /\ k = visit[r].caller /\ old = bucket[s][k]
    <2>1. /\ visit[r].at = "found" /\ s = visit[r].store /\ k = visit[r].caller
          /\ old = bucket[s][k]
      BY DEF ReserveEffect
    <2>2. visit[r] \in Visit \union {Away}
      BY <1>0
    <2>3. visit[r] # Away
      BY <2>1 DEF Away
    <2>4. visit[r].store \in Store /\ visit[r].caller \in Caller
      BY <2>2, <2>3 DEF Visit
    <2>5. QED
      BY <2>1, <2>2, <2>3, <2>4
  <1>2. old # NoBucket /\ old \in Bucket /\ visit[r].entered <= old.seen
          /\ now <= visit[r].entered + Stall
    <2>1. Inside(r) /\ Of(r) = old
      BY <1>1 DEF Inside, Of
    <2>2. Present
      BY DEF IInv
    <2>3. old # NoBucket /\ visit[r].entered <= old.seen /\ now <= visit[r].entered + Stall
      BY <2>1, <2>2 DEF Present
    <2>4. old \in Bucket \union {NoBucket}
      BY <1>0, <1>1
    <2>5. QED
      BY <2>3, <2>4
  <1>3. /\ new \in Bucket /\ new # NoBucket /\ new.seen = old.seen /\ new.last = now
        /\ new.lastEvent = IF Level(old) < Cost THEN now + (Cost - Level(old)) ELSE now
        /\ Level(new) = Level(old) - Cost
        /\ Level(old) \in Int
    <2>1. new = Reserved(old)
      BY DEF ReserveEffect
    <2>2. old \in Bucket /\ now \in Nat
      BY <1>0, <1>2
    <2>3. QED
      BY <2>1, <2>2, ReservedFacts, LevelFacts, NoBucketAssumption
  <1>a. /\ now' = now
        /\ bucket' = [bucket EXCEPT ![s][k] = new]
        /\ disturbed' = [disturbed EXCEPT ![s][k] = @ \/ Crowded(r)]
        /\ promise' = [promise EXCEPT ![s][k] = None]
        /\ HasToken(old) => /\ visit' = [visit EXCEPT ![r].at = "admitted"]
                            /\ admitted' = [admitted EXCEPT ![s][k] = more]
        /\ ~HasToken(old) =>
              /\ visit' = [visit EXCEPT ![r].at = "waiting", ![r].act = new.lastEvent,
                                        ![r].wait = new.lastEvent - now]
              /\ admitted' = admitted
    BY DEF ReserveEffect
  <1>c. times \in Seq(Nat) /\ now \in Nat /\ cl \in Nat
    BY <1>0 DEF Extended
  <1>e. /\ cl = Clock(s, k)
        /\ \A t \in Store, c \in Caller :
              /\ Clock(t, c)' = Clock(t, c) /\ Clock(t, c) \in Nat
              /\ credit'[t][c] = credit[t][c] /\ credit[t][c] \in Nat
              /\ Clock(t, c) = now + credit[t][c]
    <2>1. now' = now /\ credit' = credit
      BY DEF ReserveEffect
    <2>2. \A t \in Store, c \in Caller : credit[t][c] \in Nat
      BY <1>0
    <2>3. QED
      BY <1>c, <2>1, <2>2 DEF Clock
  <1>d. /\ more \in Seq(Nat) /\ Len(more) = Len(times) + 1 /\ Len(times) \in Nat
        /\ DOMAIN more = 1..(Len(times) + 1) /\ DOMAIN times = 1..Len(times)
        /\ more[Len(times) + 1] = cl
        /\ \A i \in 1..Len(times) : more[i] = times[i] /\ times[i] \in Nat
    BY DEF Extended
  <1>b. HasToken(old) <=> Level(old) >= Cost
    BY <1>3, FullFacts DEF HasToken
  <1>4. /\ now' = now
        /\ bucket'[s][k] = new
        /\ \A t \in Store, c \in Caller : t # s \/ c # k => bucket'[t][c] = bucket[t][c]
        /\ \A o \in Request \ {r} : visit'[o] = visit[o]
        /\ \A t \in Store, c \in Caller : t # s \/ c # k => admitted'[t][c] = admitted[t][c]
    <2>1. /\ bucket'[s][k] = new
          /\ \A t \in Store, c \in Caller : t # s \/ c # k => bucket'[t][c] = bucket[t][c]
      <3>1. bucket \in [Store -> [Caller -> Bucket \union {NoBucket}]]
        BY <1>0
      <3>2. bucket' = [bucket EXCEPT ![s][k] = new] /\ s \in Store /\ k \in Caller
        BY <1>1, <1>a
      <3>3. QED
        BY <3>1, <3>2, CellFacts
    <2>2. \A o \in Request \ {r} : visit'[o] = visit[o]
      BY <1>0, <1>a
    <2>3. \A t \in Store, c \in Caller : t # s \/ c # k => admitted'[t][c] = admitted[t][c]
      <3>1. CASE admitted' = admitted
        BY <3>1
      <3>2. CASE admitted' = [admitted EXCEPT ![s][k] = more]
        BY <1>0, <1>1, <3>2, CellFacts
      <3>3. QED
        BY <1>a, <3>1, <3>2
    <2>4. QED
      BY <1>a, <2>1, <2>2, <2>3
  <1>5. visit'[r].at \in {"admitted", "waiting"} /\ visit'[r].entered = visit[r].entered
          /\ visit'[r].store = s /\ visit'[r].caller = k
    BY <1>0, <1>1, <1>a DEF Visit
  <1>6. ASSUME NEW o \in Request \ {r}, visit[o].at = "waiting"
        PROVE  /\ visit'[o] = visit[o] /\ visit[o] \in Visit
               /\ Live(o)' <=> Live(o)
               /\ Same(o, r) => Of(o) = old /\ Of(o)' = new
               /\ ~Same(o, r) => Of(o)' = Of(o) /\ Times(o)' = Times(o)
               /\ ClockOf(o)' = ClockOf(o)
    <2>1. visit'[o] = visit[o] /\ visit[o] \in Visit
      BY <1>0, <1>4, <1>6 DEF Away
    <2>2. visit[o].store \in Store /\ visit[o].caller \in Caller
      BY <2>1 DEF Visit
    <2>3. Live(o)' <=> Live(o)
      BY <1>4, <2>1 DEF Live
    <2>4. ASSUME Same(o, r) PROVE Of(o) = old /\ Of(o)' = new
      BY <1>1, <1>4, <2>1, <2>4 DEF Same, Of
    <2>5. ASSUME ~Same(o, r) PROVE Of(o)' = Of(o) /\ Times(o)' = Times(o)
      <3>1. visit[o].store # s \/ visit[o].caller # k
        BY <1>1, <2>5 DEF Same
      <3>2. /\ bucket'[visit[o].store][visit[o].caller] = bucket[visit[o].store][visit[o].caller]
            /\ admitted'[visit[o].store][visit[o].caller]
                 = admitted[visit[o].store][visit[o].caller]
        BY <1>4, <2>2, <3>1
      <3>3. QED
        BY <2>1, <3>2 DEF Of, Times
    <2>6. ClockOf(o)' = ClockOf(o)
      BY <1>e, <2>1, <2>2 DEF ClockOf
    <2>7. QED
      BY <2>1, <2>3, <2>4, <2>5, <2>6
  <1>7. LimiterTypeOK'
    <2>1. visit' \in [Request -> Visit \union {Away}]
      <3>1. new.lastEvent \in Int /\ new.lastEvent - now \in Int
        BY <1>0, <1>3 DEF Bucket
      <3>2. /\ [visit[r] EXCEPT !.at = "admitted"] \in Visit
            /\ [visit[r] EXCEPT !.at = "waiting", !.act = new.lastEvent,
                                !.wait = new.lastEvent - now] \in Visit
        BY <1>1, <3>1 DEF Visit
      <3>3. \/ visit' = [visit EXCEPT ![r] = [visit[r] EXCEPT !.at = "admitted"]]
            \/ visit' = [visit EXCEPT ![r] = [visit[r] EXCEPT !.at = "waiting",
                            !.act = new.lastEvent, !.wait = new.lastEvent - now]]
        BY <1>0, <1>1, <1>a
      <3>4. QED
        BY <1>0, <3>2, <3>3
    <2>2. bucket' \in [Store -> [Caller -> Bucket \union {NoBucket}]]
      BY <1>0, <1>1, <1>3, <1>a
    <2>3. admitted' \in [Store -> [Caller -> Seq(Nat)]]
      <3>1. CASE admitted' = admitted
        BY <1>0, <3>1
      <3>2. CASE admitted' = [admitted EXCEPT ![s][k] = more]
        <4>1. admitted \in [Store -> [Caller -> Seq(Nat)]]
          BY <1>0
        <4>2. s \in Store /\ k \in Caller /\ more \in Seq(Nat)
          BY <1>1, <1>d
        <4>3. QED
          BY <3>2, <4>1, <4>2, CellFacts
      <3>3. QED
        BY <1>a, <3>1, <3>2
    <2>4. disturbed' \in [Store -> [Caller -> BOOLEAN]]
      BY <1>0, <1>1, <1>a
    <2>5. promise' \in [Store -> [Caller -> Nat \union {None}]]
      BY <1>0, <1>1, <1>a
    <2>6. credit' = credit
      BY DEF ReserveEffect
    <2>7. QED
      BY <1>0, <1>a, <2>1, <2>2, <2>3, <2>4, <2>5, <2>6
  <1>8. Present'
    <2> SUFFICES ASSUME NEW o \in Request, Inside(o)'
                 PROVE  (Of(o) # NoBucket /\ visit[o].entered <= Of(o).seen
                           /\ now <= visit[o].entered + Stall)'
      BY DEF Present
    <2>1. CASE o = r
      BY <1>1, <1>2, <1>3, <1>4, <1>5, <2>1 DEF Of
    <2>2. CASE o # r
      <3>1. /\ visit'[o] = visit[o] /\ visit[o] \in Visit
            /\ Of(o) # NoBucket /\ visit[o].entered <= Of(o).seen
            /\ now <= visit[o].entered + Stall
        BY <1>0, <1>4, <2>2 DEF IInv, Present, Inside, Away
      <3>2. CASE visit[o].store = s /\ visit[o].caller = k
        <4>1. Of(o) = old /\ Of(o)' = new
          BY <1>1, <1>4, <3>1, <3>2 DEF Of
        <4>2. QED
          BY <1>3, <1>4, <3>1, <4>1
      <3>3. CASE ~(visit[o].store = s /\ visit[o].caller = k)
        BY <1>4, <3>1, <3>3 DEF Of, Visit
      <3>4. QED
        BY <3>2, <3>3
    <2>3. QED
      BY <2>1, <2>2
  <1>9. CASE HasToken(old)
    <2>1. Level(old) >= Cost
      BY <1>9, <1>b
    <2>2. visit'[r].at = "admitted" /\ admitted'[s][k] = more
      <3>1. /\ visit' = [visit EXCEPT ![r].at = "admitted"]
            /\ admitted' = [admitted EXCEPT ![s][k] = more]
        BY <1>9, <1>a
      <3>2. /\ visit \in [Request -> Visit \union {Away}]
            /\ admitted \in [Store -> [Caller -> Seq(Nat)]]
        BY <1>0
      <3>3. visit[r] \in Visit /\ s \in Store /\ k \in Caller
        BY <1>1
      <3>4. visit'[r].at = "admitted"
        BY <3>1, <3>2, <3>3 DEF Visit
      <3>5. admitted'[s][k] = more
        BY <3>1, <3>2, <3>3, CellFacts
      <3>6. QED
        BY <3>4, <3>5
    <2>c. \A i \in DOMAIN times : Spent(times, i) + Level(old) <= Full + (cl - times[i])
      BY <1>1, <1>2, <1>e DEF IInv, Covered, Holding
    <2>d. Clock(s, k)' = cl
      BY <1>1, <1>e, <2>2
    <2>b. /\ \A i \in 1..Len(times) : Spent(more, i) = Spent(times, i) + Cost
                                       /\ Spent(times, i) \in Nat
          /\ Spent(more, Len(times) + 1) = Cost
      BY DEF Extended
    <2>4. ASSUME NEW o \in Request, Live(o)'
          PROVE  /\ o # r /\ Live(o) /\ visit'[o] = visit[o] /\ ~Same(o, r)
                 /\ Of(o)' = Of(o) /\ Times(o)' = Times(o) /\ ClockOf(o)' = ClockOf(o)
      <3>1. o # r
        BY <2>2, <2>4 DEF Live
      <3>2. visit[o].at = "waiting"
        BY <1>4, <2>4, <3>1 DEF Live
      <3>3. ~Same(o, r)
        <4> SUFFICES ASSUME Same(o, r) PROVE FALSE
          OBVIOUS
        <4>1. Level(old) <= now - visit[o].act /\ visit[o].act >= now /\ visit[o].act \in Int
          BY <1>6, <2>4, <3>1, <3>2 DEF IInv, InDebt, Live, Visit
        <4>2. QED
          BY <1>3, <2>1, <1>c, <4>1, FullFacts
      <3>4. QED
        BY <1>6, <2>4, <3>1, <3>2, <3>3
    <2>5. InDebt' /\ Spaced'
      BY <1>4, <2>4 DEF IInv, InDebt, Spaced, Same, Level
    <2>6. Owed'
      BY <1>4, <2>4 DEF IInv, Owed, Spent
    <2>7. Past'
      <3> SUFFICES ASSUME NEW t \in Store, NEW c \in Caller, NEW i \in DOMAIN admitted'[t][c]
                   PROVE  admitted'[t][c][i] <= Clock(t, c)
        BY <1>e DEF Past
      <3>1. CASE t = s /\ c = k
        <4>1. i \in DOMAIN more
          BY <2>2, <3>1
        <4>2. CASE i \in 1..Len(times)
          BY <1>1, <2>2, <2>b, <1>d, <3>1, <4>2 DEF IInv, Past
        <4>3. CASE i = Len(times) + 1
          BY <1>c, <1>e, <2>2, <2>b, <1>d, <3>1, <4>3
        <4>4. QED
          BY <2>2, <1>d, <4>1, <4>2, <4>3
      <3>2. CASE ~(t = s /\ c = k)
        BY <1>4, <3>2 DEF IInv, Past
      <3>3. QED
        BY <3>1, <3>2
    <2>8. Dated'
      <3> SUFFICES ASSUME NEW t \in Store, NEW c \in Caller, bucket'[t][c] # NoBucket
                   PROVE  (/\ bucket[t][c].seen <= now
                           /\ bucket[t][c].last <= now
                           /\ admitted[t][c] # <<>> =>
                                admitted[t][c][Len(admitted[t][c])]
                                <= bucket[t][c].seen + Stall + credit[t][c])'
        BY DEF Dated
      <3>1. CASE t = s /\ c = k
        <4>1. admitted'[t][c][Len(admitted'[t][c])] = cl
          BY <2>2, <2>b, <1>d, <3>1
        <4>2. old.seen <= now /\ visit[r].entered \in Nat /\ old.seen \in Nat
          BY <1>1, <1>2 DEF IInv, Dated, Visit, Bucket
        <4>3. now <= old.seen + Stall
          <5>1. visit[r].entered <= old.seen /\ now <= visit[r].entered + Stall
            BY <1>2
          <5>2. Stall \in Nat /\ now \in Nat
            BY <1>c, LimiterAssumption
          <5>3. QED
            BY <4>2, <5>1, <5>2
        <4>4. PICK cr \in Nat : cr = credit[s][k] /\ cl = now + cr /\ credit'[t][c] = cr
          <5>1. s \in Store /\ k \in Caller
            BY <1>1
          <5>2. /\ cl = Clock(s, k) /\ credit'[s][k] = credit[s][k] /\ credit[s][k] \in Nat
                /\ Clock(s, k) = now + credit[s][k]
            BY <1>e, <5>1
          <5>3. QED
            BY <3>1, <5>2
        <4>5. cl <= old.seen + Stall + cr
          BY <1>c, <4>2, <4>3, <4>4, LimiterAssumption
        <4>6. bucket'[t][c] = new /\ now' = now
          BY <1>4, <3>1
        <4>7. QED
          BY <1>3, <1>c, <4>1, <4>2, <4>4, <4>5, <4>6
      <3>2. CASE ~(t = s /\ c = k)
        <4>1. /\ admitted'[t][c] = admitted[t][c] /\ bucket'[t][c] = bucket[t][c]
              /\ now' = now
          BY <1>4, <3>2
        <4>2. credit'[t][c] = credit[t][c]
          BY <1>e
        <4>3. Dated
          BY DEF IInv
        <4>4. QED
          BY <4>1, <4>2, <4>3 DEF Dated
      <3>3. QED
        BY <3>1, <3>2
    <2>9. Covered'
      <3> SUFFICES ASSUME NEW t \in Store, NEW c \in Caller, NEW i \in DOMAIN admitted'[t][c]
                   PROVE  (Spent(admitted[t][c], i) + Holding(bucket[t][c])
                             <= Full + (Clock(t, c) - admitted[t][c][i]))'
        BY DEF Covered
      <3>1. CASE t = s /\ c = k
        <4>1. Holding(bucket[t][c])' = Level(old) - Cost
          BY <1>3, <1>4, <3>1 DEF Holding, Level
        <4>2. CASE i = Len(times) + 1
          <5>1. Spent(admitted[t][c], i)' = Cost /\ admitted'[t][c][i] = cl
            <6>1. admitted'[t][c] = more
              BY <2>2, <3>1
            <6>2. Spent(more, i) = Cost /\ more[i] = cl
              <7>1. Spent(more, Len(times) + 1) = Cost
                BY <2>b
              <7>2. more[Len(times) + 1] = cl
                BY <1>d
              <7>3. QED
                BY <4>2, <7>1, <7>2, Zenon
            <6>3. Spent(admitted[t][c], i)' = Spent(more, i)
              BY <6>1 DEF Spent
            <6>4. QED
              BY <6>1, <6>2, <6>3, Zenon
          <5>2. Level(old) <= Full
            BY <1>2, <1>c, LevelAtMostFull
          <5>3. QED
            BY <1>3, <1>c, <2>d, <3>1, <4>1, <5>1, <5>2, FullFacts
        <4>3. CASE i \in 1..Len(times)
          <5>1. Spent(admitted[t][c], i)' = Spent(times, i) + Cost
                  /\ admitted'[t][c][i] = times[i] /\ Spent(times, i) \in Nat
                  /\ times[i] \in Nat
            <6>1. admitted'[t][c] = more
              BY <2>2, <3>1
            <6>2. /\ Spent(more, i) = Spent(times, i) + Cost /\ Spent(times, i) \in Nat
                  /\ more[i] = times[i] /\ times[i] \in Nat
              BY <2>b, <1>d, <4>3
            <6>3. Spent(admitted[t][c], i)' = Spent(more, i)
              BY <6>1 DEF Spent
            <6>4. QED
              BY <6>1, <6>2, <6>3
          <5>2. Spent(times, i) + Level(old) <= Full + (cl - times[i])
            BY <1>d, <2>c, <4>3
          <5>3. QED
            BY <1>3, <1>c, <2>d, <3>1, <4>1, <5>1, <5>2, FullFacts
        <4>4. i \in DOMAIN more
          BY <2>2, <3>1
        <4>5. i \in 1..Len(times) \/ i = Len(times) + 1
          BY <2>b, <1>d, <4>4
        <4>6. QED
          BY <4>2, <4>3, <4>5
      <3>2. CASE ~(t = s /\ c = k)
        <4>1. /\ admitted'[t][c] = admitted[t][c] /\ bucket'[t][c] = bucket[t][c]
              /\ now' = now
          BY <1>4, <3>2
        <4>2. Clock(t, c)' = Clock(t, c)
          BY <1>e
        <4>3. /\ Spent(admitted[t][c], i)' = Spent(admitted[t][c], i)
              /\ Holding(bucket[t][c])' = Holding(bucket[t][c])
          BY <4>1 DEF Spent, Holding, Level
        <4>4. Spent(admitted[t][c], i) + Holding(bucket[t][c])
                <= Full + (Clock(t, c) - admitted[t][c][i])
          BY <4>1 DEF IInv, Covered
        <4>5. QED
          BY <4>1, <4>2, <4>3, <4>4, Zenon
      <3>3. QED
        BY <3>1, <3>2
    <2>10. NeverOverAdmits'
      <3> SUFFICES ASSUME NEW t \in Store, NEW c \in Caller
                   PROVE  WithinLimit(admitted'[t][c])
        BY DEF NeverOverAdmits, WithinLimit
      <3>1. CASE t = s /\ c = k
        <4> SUFFICES ASSUME NEW i \in DOMAIN more, NEW j \in i..Len(more)
                     PROVE  (j - i + 1) * Cost <= Full + more[j] - more[i]
          BY <2>2, <3>1 DEF WithinLimit
        <4>1. CASE j \in 1..Len(times)
          <5>1. i \in 1..Len(times) /\ j \in i..Len(times)
            BY <1>d, <4>1
          <5>2. (j - i + 1) * Cost <= Full + times[j] - times[i]
            BY <1>1, <1>d, <5>1 DEF IInv, NeverOverAdmits, WithinLimit
          <5>3. \A n \in 1..Len(times) : more[n] = times[n]
            BY <1>d
          <5>4. more[j] = times[j] /\ more[i] = times[i]
            BY <4>1, <5>1, <5>3
          <5>5. QED
            BY <5>2, <5>4, Zenon
        <4>2. CASE j = Len(times) + 1
          <5>1. (j - i + 1) * Cost = Spent(more, i) /\ more[j] = cl
            BY <2>2, <1>d, <4>2 DEF Spent
          <5>2. CASE i = Len(times) + 1
            BY <1>c, <2>2, <2>b, <1>d, <5>1, <5>2, FullFacts
          <5>3. CASE i \in 1..Len(times)
            <6>1. Spent(times, i) + Level(old) <= Full + (cl - times[i])
              BY <1>d, <2>c, <5>3
            <6>2. QED
              <7>1. Spent(more, i) = Spent(times, i) + Cost /\ Spent(times, i) \in Nat
                BY <2>b, <5>3
              <7>2. more[i] = times[i] /\ times[i] \in Nat
                BY <1>d, <5>3
              <7>3. Level(old) \in Int /\ Level(old) >= Cost
                BY <1>3, <2>1
              <7>4. Spent(more, i) <= Full + cl - times[i]
                <8> DEFINE sp == Spent(times, i)
                           lv == Level(old)
                           ti == times[i]
                <8>1. sp \in Nat /\ lv \in Int /\ ti \in Nat /\ sp + lv <= Full + (cl - ti)
                        /\ Cost <= lv
                  BY <6>1, <7>1, <7>2, <7>3
                <8> HIDE DEF sp, lv, ti
                <8>2. sp + Cost <= Full + cl - ti
                  BY <1>c, <8>1, FullFacts
                <8>3. QED
                  BY <7>1, <8>2 DEF sp, ti
              <7>5. QED
                <8>1. more[j] = cl
                  BY <5>1, Zenon
                <8>2. more[i] = times[i]
                  BY <7>2, Zenon
                <8>3. (j - i + 1) * Cost = Spent(more, i)
                  BY <5>1, Zenon
                <8>4. QED
                  BY <7>4, <8>1, <8>2, <8>3, Zenon
          <5>4. i \in 1..(Len(times) + 1) /\ Len(times) \in Nat
            BY <1>d
          <5>5. i = Len(times) + 1 \/ i \in 1..Len(times)
            BY <5>4
          <5>6. QED
            BY <5>2, <5>3, <5>5
        <4>3. j = Len(times) + 1 \/ j \in 1..Len(times)
          BY <1>d
        <4>4. QED
          BY <4>1, <4>2, <4>3
      <3>2. CASE ~(t = s /\ c = k)
        BY <1>4, <3>2 DEF IInv, NeverOverAdmits
      <3>3. QED
        BY <3>1, <3>2
    <2>11. QED
      BY <1>7, <1>8, <2>5, <2>6, <2>7, <2>8, <2>9, <2>10 DEF IInv
  <1>10. CASE ~HasToken(old)
    <2>1. /\ admitted' = admitted /\ new.lastEvent = now + (Cost - Level(old))
          /\ Level(old) < Cost
      BY <1>3, <1>10, <1>a, <1>b, FullFacts
    <2>2. /\ visit'[r].at = "waiting" /\ visit'[r].act = now + (Cost - Level(old))
          /\ now \in Nat
      <3>1. visit' = [visit EXCEPT ![r].at = "waiting", ![r].act = new.lastEvent,
                                   ![r].wait = new.lastEvent - now]
        BY <1>10, <1>a
      <3>2. visit \in [Request -> Visit \union {Away}] /\ visit[r] \in Visit /\ now \in Nat
        BY <1>0, <1>1
      <3>3. visit'[r].at = "waiting" /\ visit'[r].act = new.lastEvent
        BY <3>1, <3>2 DEF Visit
      <3>4. QED
        BY <2>1, <3>2, <3>3
    <2>3. ASSUME NEW o \in Request \ {r}, Live(o)'
          PROVE  /\ Live(o) /\ visit'[o] = visit[o] /\ visit[o].act \in Int
                 /\ visit[o].act >= now
                 /\ Same(o, r) => /\ Of(o)' = new
                                  /\ visit[o].act + Cost <= now + (Cost - Level(old))
                 /\ ~Same(o, r) => Of(o)' = Of(o)
      <3>1. visit[o].at = "waiting"
        BY <1>4, <2>3 DEF Live
      <3>2. Live(o) /\ visit[o] \in Visit
        BY <1>6, <2>3, <3>1
      <3>3. Same(o, r) => Level(old) <= now - visit[o].act
        BY <1>6, <3>1, <3>2 DEF IInv, InDebt
      <3>4. QED
        BY <1>3, <1>6, <2>2, <3>1, <3>2, <3>3, FullFacts DEF Live, Visit
    <2>4. Of(r)' = new
      BY <1>4, <1>5 DEF Of
    <2>5. InDebt'
      <3> SUFFICES ASSUME NEW o \in Request, Live(o)'
                   PROVE  (visit[o].act <= Of(o).lastEvent /\ Level(Of(o)) <= now - visit[o].act)'
        BY DEF InDebt
      <3>1. CASE o = r
        BY <1>3, <1>4, <2>1, <2>2, <2>4, <3>1, FullFacts DEF Level
      <3>2. CASE o # r /\ Same(o, r)
        BY <1>3, <1>4, <2>1, <2>2, <2>3, <3>2, FullFacts DEF Level
      <3>3. CASE o # r /\ ~Same(o, r)
        BY <1>4, <2>3, <3>3 DEF IInv, InDebt, Level
      <3>4. QED
        BY <3>1, <3>2, <3>3
    <2>6. Spaced'
      <3> SUFFICES ASSUME NEW o \in Request, NEW p \in Request,
                          (o # p /\ Live(o) /\ Live(p) /\ Same(o, p))'
                   PROVE  (visit[o].act >= visit[p].act + Cost
                             \/ visit[p].act >= visit[o].act + Cost)'
        BY DEF Spaced
      <3>a. ASSUME NEW q \in Request \ {r}, Live(q)', Same(q, r)'
            PROVE  visit'[q].act + Cost <= visit'[r].act
        BY <1>1, <1>5, <2>2, <2>3, <3>a DEF Same
      <3>1. CASE o = r
        BY <3>a, <3>1 DEF Same
      <3>2. CASE p = r
        BY <3>a, <3>2
      <3>3. CASE o # r /\ p # r
        BY <2>3, <3>3 DEF IInv, Spaced, Same
      <3>4. QED
        BY <3>1, <3>2, <3>3
    <2>7. Owed'
      <3> SUFFICES ASSUME NEW o \in Request, Live(o)', NEW i \in DOMAIN Times(o)'
                   PROVE  (Spent(Times(o), i) + (now - visit[o].act) + Cost
                             <= Full + (ClockOf(o) - Times(o)[i]))'
        BY DEF Owed
      <3>1. CASE o = r
        <4>1. Times(o)' = admitted[s][k]
          BY <1>5, <2>1, <3>1 DEF Times
        <4>2. i \in DOMAIN admitted[s][k] /\ admitted[s][k] \in Seq(Nat)
          BY <1>0, <1>1, <4>1
        <4>3. Spent(admitted[s][k], i) + Level(old) <= Full + (Clock(s, k) - admitted[s][k][i])
          BY <1>1, <1>2, <4>2 DEF IInv, Covered, Holding
        <4>4. Spent(admitted[s][k], i) \in Nat /\ admitted[s][k][i] \in Nat
          BY <4>2, SpentFacts
        <4>5. Spent(Times(o), i)' = Spent(admitted[s][k], i)
          BY <4>1 DEF Spent
        <4>6. ClockOf(o)' = Clock(s, k) /\ Clock(s, k) \in Nat
          BY <1>1, <1>5, <1>e, <3>1 DEF ClockOf
        <4>7. QED
          BY <1>3, <1>4, <2>2, <3>1, <4>1, <4>3, <4>4, <4>5, <4>6, FullFacts
      <3>2. CASE o # r
        <4>1. Times(o)' = Times(o) /\ ClockOf(o)' = ClockOf(o)
          BY <1>6, <2>1, <2>3, <3>2 DEF Times, Live
        <4>2. QED
          BY <1>4, <2>3, <3>2, <4>1 DEF IInv, Owed, Spent
      <3>3. QED
        BY <3>1, <3>2
    <2>8. Past' /\ NeverOverAdmits'
      BY <1>4, <1>e, <2>1 DEF IInv, Past, NeverOverAdmits, WithinLimit
    <2>9. Dated'
      <3> SUFFICES ASSUME NEW t \in Store, NEW c \in Caller, bucket'[t][c] # NoBucket
                   PROVE  (/\ bucket[t][c].seen <= now
                           /\ bucket[t][c].last <= now
                           /\ admitted[t][c] # <<>> =>
                                admitted[t][c][Len(admitted[t][c])]
                                <= bucket[t][c].seen + Stall + credit[t][c])'
        BY DEF Dated
      <3>1. CASE t = s /\ c = k
        <4>1. admitted'[t][c] = admitted[s][k] /\ bucket'[t][c] = new /\ now' = now
          BY <1>4, <2>1, <3>1
        <4>2. /\ old.seen <= now
              /\ admitted[s][k] # <<>> =>
                    admitted[s][k][Len(admitted[s][k])] <= old.seen + Stall + credit[s][k]
          <5>1. s \in Store /\ k \in Caller /\ bucket[s][k] = old /\ old # NoBucket
            BY <1>1, <1>2
          <5>2. Dated
            BY DEF IInv
          <5>3. QED
            BY <5>1, <5>2 DEF Dated
        <4>3. new.seen = old.seen /\ new.last = now /\ now <= now
          BY <1>3, <1>c
        <4>4. QED
          BY <1>1, <1>e, <3>1, <4>1, <4>2, <4>3
      <3>2. CASE ~(t = s /\ c = k)
        <4>1. /\ admitted'[t][c] = admitted[t][c] /\ bucket'[t][c] = bucket[t][c]
              /\ now' = now
          BY <1>4, <2>1, <3>2
        <4>2. credit'[t][c] = credit[t][c]
          BY <1>e
        <4>3. Dated
          BY DEF IInv
        <4>4. QED
          BY <4>1, <4>2, <4>3 DEF Dated
      <3>3. QED
        BY <3>1, <3>2
    <2>10. Covered'
      <3> SUFFICES ASSUME NEW t \in Store, NEW c \in Caller, NEW i \in DOMAIN admitted'[t][c]
                   PROVE  (Spent(admitted[t][c], i) + Holding(bucket[t][c])
                             <= Full + (Clock(t, c) - admitted[t][c][i]))'
        BY DEF Covered
      <3>1. CASE t = s /\ c = k
        <4>1. Holding(bucket[t][c])' = Level(old) - Cost
          BY <1>3, <1>4, <3>1 DEF Holding, Level
        <4>2. admitted[s][k] \in Seq(Nat) /\ i \in DOMAIN admitted[s][k]
          BY <1>0, <1>1, <2>1, <3>1
        <4>3. Spent(admitted[s][k], i) + Level(old) <= Full + (Clock(s, k) - admitted[s][k][i])
          BY <1>1, <1>2, <4>2 DEF IInv, Covered, Holding
        <4>4. Spent(admitted[s][k], i) \in Nat /\ admitted[s][k][i] \in Nat
          BY <4>2, SpentFacts
        <4>5. Spent(admitted[t][c], i)' = Spent(admitted[s][k], i)
          BY <2>1, <3>1 DEF Spent
        <4>6. Clock(t, c)' = Clock(s, k) /\ Clock(s, k) \in Nat
          <5>1. s \in Store /\ k \in Caller
            BY <1>1
          <5>2. QED
            BY <1>e, <3>1, <5>1
        <4>7. admitted'[t][c][i] = admitted[s][k][i]
          BY <2>1, <3>1
        <4>8. Spent(admitted[s][k], i) + (Level(old) - Cost)
                <= Full + (Clock(s, k) - admitted[s][k][i])
          <5>1. Level(old) \in Int
            BY <1>3
          <5>2. QED
            BY <4>3, <4>4, <4>6, <5>1, FullFacts
        <4>9. QED
          BY <4>1, <4>5, <4>6, <4>7, <4>8, Zenon
      <3>2. CASE ~(t = s /\ c = k)
        <4>1. /\ admitted'[t][c] = admitted[t][c] /\ bucket'[t][c] = bucket[t][c]
              /\ now' = now
          BY <1>4, <2>1, <3>2
        <4>2. Clock(t, c)' = Clock(t, c)
          BY <1>e
        <4>3. /\ Spent(admitted[t][c], i)' = Spent(admitted[t][c], i)
              /\ Holding(bucket[t][c])' = Holding(bucket[t][c])
          BY <4>1 DEF Spent, Holding, Level
        <4>4. Spent(admitted[t][c], i) + Holding(bucket[t][c])
                <= Full + (Clock(t, c) - admitted[t][c][i])
          BY <4>1 DEF IInv, Covered
        <4>5. QED
          BY <4>1, <4>2, <4>3, <4>4, Zenon
      <3>3. QED
        BY <3>1, <3>2
    <2>11. QED
      BY <1>7, <1>8, <2>5, <2>6, <2>7, <2>8, <2>9, <2>10 DEF IInv
  <1>11. QED
    BY <1>9, <1>10

LEMMA ReserveInv ==
  ASSUME IInv, NEW r \in Request, Reserve(r)
  PROVE  IInv'
  <1> DEFINE s == visit[r].store
             k == visit[r].caller
  <1>1. s \in Store /\ k \in Caller
    BY DEF IInv, LimiterTypeOK, Reserve, Visit, Away
  <1>2. Extended(Append(admitted[s][k], Clock(s, k)), admitted[s][k], Clock(s, k))
    BY <1>1, AppendFacts DEF IInv, LimiterTypeOK, Clock
  <1>3. QED
    BY <1>2, ReserveHasEffect, ReserveEffectInv

-----------------------------------------------------------------------------
(* Cancel.                                                                 *)

\* Cancel, with names for what it finds and what it leaves.
CancelEffect(r, s, k, act, old, new) ==
    /\ visit[r].at = "waiting" /\ s = visit[r].store /\ k = visit[r].caller
    /\ act = visit[r].act /\ old = bucket[s][k] /\ new = Cancelled(old, act)
    /\ now' = now /\ admitted' = admitted /\ credit' = credit
    /\ bucket' = [bucket EXCEPT ![s][k] = new]
    /\ visit' = [visit EXCEPT ![r].at = "refused"]
    /\ disturbed' = [disturbed EXCEPT ![s][k] = @ \/ now # visit[r].act - visit[r].wait]
    /\ promise' = [promise EXCEPT ![s][k] = now + (RetryAfter(visit[r].wait) + 1) * Second]

LEMMA CancelHasEffect ==
  ASSUME NEW r \in Request, Cancel(r)
  PROVE  LET s == visit[r].store
             k == visit[r].caller
         IN  CancelEffect(r, s, k, visit[r].act, bucket[s][k],
                          Cancelled(bucket[s][k], visit[r].act))
  BY DEF Cancel, SetBucket, Move, Of, Returned, CancelEffect

LEMMA RetryAfterFacts ==
  ASSUME NEW wait \in Int
  PROVE  RetryAfter(wait) \in Nat
  <1>1. wait \div Second \in Int
    BY LimiterAssumption
  <1>2. QED
    BY <1>1, MaxOfTwo DEF RetryAfter

LEMMA CancelEffectInv ==
  ASSUME IInv, NEW r \in Request, NEW s, NEW k, NEW act, NEW old, NEW new,
         CancelEffect(r, s, k, act, old, new)
  PROVE  IInv'
  <1> USE DEF LimiterTypeOK
  <1>0. LimiterTypeOK /\ now \in Nat
    BY DEF IInv
  <1>1. /\ visit[r] \in Visit /\ visit[r].at = "waiting" /\ s \in Store /\ k \in Caller
        /\ s = visit[r].store /\ k = visit[r].caller /\ old = bucket[s][k]
        /\ act = visit[r].act /\ act \in Int /\ visit[r].wait \in Int
    BY <1>0 DEF CancelEffect, Away, Visit
  <1>2. old # NoBucket /\ old \in Bucket /\ visit[r].entered <= old.seen
          /\ now <= visit[r].entered + Stall
    BY <1>0, <1>1 DEF IInv, Present, Inside, Of
  <1>a. /\ now' = now /\ admitted' = admitted
        /\ bucket' = [bucket EXCEPT ![s][k] = new]
        /\ visit' = [visit EXCEPT ![r].at = "refused"]
        /\ disturbed' = [disturbed EXCEPT ![s][k] = @ \/ now # visit[r].act - visit[r].wait]
        /\ promise' = [promise EXCEPT ![s][k] = now + (RetryAfter(visit[r].wait) + 1) * Second]
        /\ credit' = credit
    BY DEF CancelEffect
  <1>c. \A t \in Store, c \in Caller :
          /\ Clock(t, c)' = Clock(t, c) /\ Clock(t, c) \in Nat
          /\ credit'[t][c] = credit[t][c] /\ credit[t][c] \in Nat
    BY <1>0, <1>a DEF Clock
  <1>3. \/ new = old
        \/ /\ act >= now
           /\ old.lastEvent - act < Cost
           /\ new \in Bucket
           /\ new.seen = old.seen
           /\ new.last = now
           /\ new.lastEvent = IF act = old.lastEvent /\ act - Cost >= now THEN act - Cost
                              ELSE old.lastEvent
           /\ Level(new) <= Level(old) + Cost - (old.lastEvent - act)
    BY <1>0, <1>1, <1>2, CancelledFacts DEF CancelEffect
  <1>4. /\ new \in Bucket /\ new # NoBucket /\ new.seen = old.seen
        /\ old.last <= now => new.last <= now
        /\ Level(old) \in Int /\ Level(new) \in Int
    BY <1>0, <1>2, <1>3, LevelFacts, NoBucketAssumption
  <1>5. /\ bucket'[s][k] = new
        /\ \A t \in Store, c \in Caller : t # s \/ c # k => bucket'[t][c] = bucket[t][c]
        /\ bucket' \in [Store -> [Caller -> Bucket \union {NoBucket}]]
    <2>1. bucket \in [Store -> [Caller -> Bucket \union {NoBucket}]]
      BY <1>0
    <2>2. /\ bucket' = [bucket EXCEPT ![s][k] = new] /\ s \in Store /\ k \in Caller
          /\ new \in Bucket \union {NoBucket}
      BY <1>1, <1>4, <1>a
    <2>3. QED
      BY <2>1, <2>2, CellFacts
  <1>6. /\ visit'[r].at = "refused"
        /\ \A o \in Request \ {r} : visit'[o] = visit[o]
        /\ visit' \in [Request -> Visit \union {Away}]
    <2>1. [visit[r] EXCEPT !.at = "refused"] \in Visit
      BY <1>1 DEF Visit
    <2>2. QED
      BY <1>0, <1>1, <1>a, <2>1
  <1>7. LimiterTypeOK'
    <2>1. disturbed' \in [Store -> [Caller -> BOOLEAN]]
      BY <1>0, <1>1, <1>a
    <2>2. now + (RetryAfter(visit[r].wait) + 1) * Second \in Nat
      <3>1. RetryAfter(visit[r].wait) \in Nat
        BY <1>1, RetryAfterFacts
      <3> DEFINE m == RetryAfter(visit[r].wait) + 1
      <3>2. m \in Nat /\ Second \in Nat
        BY <3>1, LimiterAssumption
      <3> HIDE DEF m
      <3>3. m * Second \in Nat
        BY <3>2
      <3>4. now + m * Second \in Nat
        BY <1>0, <3>3
      <3>5. QED
        BY <3>4 DEF m
    <2>3. promise' \in [Store -> [Caller -> Nat \union {None}]]
      BY <1>0, <1>1, <1>a, <2>2, CellFacts
    <2>4. QED
      BY <1>0, <1>5, <1>6, <1>a, <2>1, <2>3
  <1>8. ASSUME NEW o \in Request, Live(o)'
        PROVE  /\ o # r /\ Live(o) /\ visit'[o] = visit[o] /\ visit[o].act \in Int
               /\ visit[o].act >= now
               /\ Same(o, r) => Of(o) = old /\ Of(o)' = new
               /\ ~Same(o, r) => Of(o)' = Of(o)
               /\ ClockOf(o)' = ClockOf(o)
    <2>1. o # r
      BY <1>6, <1>8 DEF Live
    <2>2. visit'[o] = visit[o] /\ Live(o)
      BY <1>6, <1>8, <1>a, <2>1 DEF Live
    <2>3. visit[o] \in Visit
      BY <1>0, <2>2 DEF Live, Away
    <2>4. QED
      BY <1>1, <1>5, <1>c, <2>1, <2>2, <2>3 DEF Same, Of, Live, Visit, ClockOf
  <1>9. ASSUME NEW o \in Request, Live(o)', Same(o, r)
        PROVE  visit[o].act <= new.lastEvent /\ Level(new) <= now - visit[o].act
    <2> DEFINE a == visit[o].act
    <2>1. a \in Int /\ a >= now /\ a <= old.lastEvent /\ Level(old) <= now - a
      BY <1>8, <1>9 DEF IInv, InDebt
    <2>2. CASE new = old
      BY <2>1, <2>2
    <2>3. CASE new # old
      <3>1. act >= now /\ act <= old.lastEvent /\ Level(old) <= now - act
        BY <1>1, <1>3, <2>3 DEF IInv, InDebt, Live, Of
      <3>2. act >= a + Cost \/ a >= act + Cost
        <4>1. Live(r)
          BY <1>1, <3>1 DEF Live
        <4>2. QED
          BY <1>1, <1>8, <1>9, <4>1 DEF IInv, Spaced
      <3>3. old.lastEvent \in Int
        BY <1>2 DEF Bucket
      <3> HIDE DEF a
      <3>b. /\ old.lastEvent - act < Cost /\ act \in Int
            /\ new.lastEvent = IF act = old.lastEvent /\ act - Cost >= now THEN act - Cost
                               ELSE old.lastEvent
            /\ Level(new) <= Level(old) + Cost - (old.lastEvent - act)
        BY <1>1, <1>3, <2>3
      <3>4. act >= a + Cost
        BY <2>1, <3>2, <3>3, <3>b, FullFacts
      <3>5. a <= new.lastEvent
        BY <2>1, <3>3, <3>4, <3>b, FullFacts
      <3>6. Level(new) <= now - a
        <4>1. PICK m \in Int, le \in Int, lo \in Int, ln \in Int :
                  /\ m = now /\ le = old.lastEvent /\ lo = Level(old) /\ ln = Level(new)
          BY <1>0, <1>4, <3>3
        <4>2. ln <= lo + Cost - (le - act) /\ lo <= m - act /\ act <= le
          BY <3>1, <3>b, <4>1
        <4>3. ln <= m - a
          BY <2>1, <3>4, <3>b, <4>2, FullFacts
        <4>4. QED
          BY <4>1, <4>3
      <3>7. QED
        BY <3>5, <3>6 DEF a
    <2>4. QED
      BY <2>2, <2>3
  <1>10. InDebt'
    <2> SUFFICES ASSUME NEW o \in Request, Live(o)'
                 PROVE  (visit[o].act <= Of(o).lastEvent /\ Level(Of(o)) <= now - visit[o].act)'
      BY DEF InDebt
    <2>1. CASE Same(o, r)
      BY <1>8, <1>9, <1>a, <2>1 DEF Level
    <2>2. CASE ~Same(o, r)
      BY <1>8, <1>a, <2>2 DEF IInv, InDebt, Level
    <2>3. QED
      BY <2>1, <2>2
  <1>11. Spaced'
    BY <1>8 DEF IInv, Spaced, Same
  <1>12. Owed'
    <2> SUFFICES ASSUME NEW o \in Request, Live(o)', NEW i \in DOMAIN Times(o)'
                 PROVE  (Spent(Times(o), i) + (now - visit[o].act) + Cost
                           <= Full + (ClockOf(o) - Times(o)[i]))'
      BY DEF Owed
    <2>1. Times(o)' = Times(o)
      BY <1>8, <1>a DEF Times
    <2>2. QED
      BY <1>8, <1>a, <2>1 DEF IInv, Owed, Spent
  <1>13. Past' /\ NeverOverAdmits'
    BY <1>a, <1>c DEF IInv, Past, NeverOverAdmits, WithinLimit
  <1>14. Dated'
    <2> SUFFICES ASSUME NEW t \in Store, NEW c \in Caller, bucket'[t][c] # NoBucket
                 PROVE  (/\ bucket[t][c].seen <= now
                         /\ bucket[t][c].last <= now
                         /\ admitted[t][c] # <<>> =>
                              admitted[t][c][Len(admitted[t][c])]
                                <= bucket[t][c].seen + Stall + credit[t][c])'
      BY DEF Dated
    <2>1. CASE t = s /\ c = k
      BY <1>1, <1>2, <1>4, <1>5, <1>a, <1>c, <2>1 DEF IInv, Dated
    <2>2. CASE ~(t = s /\ c = k)
      BY <1>5, <1>a, <1>c, <2>2 DEF IInv, Dated
    <2>3. QED
      BY <2>1, <2>2
  <1>15. Present'
    <2> SUFFICES ASSUME NEW o \in Request, Inside(o)'
                 PROVE  (Of(o) # NoBucket /\ visit[o].entered <= Of(o).seen
                           /\ now <= visit[o].entered + Stall)'
      BY DEF Present
    <2>1. o # r
      BY <1>6 DEF Inside
    <2>2. /\ visit'[o] = visit[o] /\ visit[o] \in Visit
          /\ Of(o) # NoBucket /\ visit[o].entered <= Of(o).seen
          /\ now <= visit[o].entered + Stall
      BY <1>0, <1>6, <2>1 DEF IInv, Present, Inside, Away
    <2>3. CASE visit[o].store = s /\ visit[o].caller = k
      <3>1. Of(o) = old /\ Of(o)' = new
        BY <1>1, <1>5, <2>2, <2>3 DEF Of
      <3>2. QED
        BY <1>4, <1>a, <2>2, <3>1
    <2>4. CASE ~(visit[o].store = s /\ visit[o].caller = k)
      BY <1>5, <1>a, <2>2, <2>4 DEF Of, Visit
    <2>5. QED
      BY <2>3, <2>4
  <1>16. Covered'
    <2> SUFFICES ASSUME NEW t \in Store, NEW c \in Caller, NEW i \in DOMAIN admitted[t][c]
                 PROVE  (Spent(admitted[t][c], i) + Holding(bucket[t][c])
                           <= Full + (Clock(t, c) - admitted[t][c][i]))'
      BY <1>a DEF Covered
    <2> DEFINE sp == Spent(admitted[t][c], i)
               ti == admitted[t][c][i]
               cl == Clock(t, c)
    <2>1. /\ Spent(admitted[t][c], i)' = sp /\ admitted'[t][c][i] = ti
          /\ Clock(t, c)' = cl /\ cl \in Nat
      BY <1>a, <1>c DEF Spent
    <2>2. sp \in Nat /\ ti \in Nat
      <3>1. admitted[t][c] \in Seq(Nat)
        BY <1>0
      <3>2. QED
        BY <3>1, SpentFacts
    <2>3. CASE t = s /\ c = k /\ new # old
      <3>1. Live(r) /\ act >= now /\ act <= old.lastEvent /\ Level(old) <= now - act
        BY <1>1, <1>3, <2>3 DEF IInv, InDebt, Live, Of
      <3>2. sp + (now - act) + Cost <= Full + (cl - ti)
        BY <1>1, <2>3, <3>1 DEF IInv, Owed, Times, ClockOf
      <3>3. Holding(bucket[t][c])' = Level(new)
        BY <1>4, <1>5, <1>a, <2>3 DEF Holding, Level
      <3>4. old.lastEvent \in Int
        BY <1>2 DEF Bucket
      <3>a. sp \in Nat /\ ti \in Nat /\ cl \in Nat
        BY <2>1, <2>2
      <3> HIDE DEF sp, ti, cl
      <3>5. sp + Level(new) <= Full + (cl - ti)
        <4>1. Level(new) <= Level(old) + Cost - (old.lastEvent - act)
          BY <1>3, <2>3
        <4> DEFINE le == old.lastEvent
                   lo == Level(old)
                   ln == Level(new)
        <4>2. le \in Int /\ lo \in Int /\ ln \in Int /\ act \in Int /\ ln <= lo + Cost - (le - act)
                /\ act <= le /\ lo <= now - act
          BY <1>1, <1>4, <3>1, <3>4, <4>1
        <4> HIDE DEF le, lo, ln
        <4>3. sp + ln <= Full + (cl - ti)
          BY <1>0, <3>a, <3>2, <4>2, FullFacts
        <4>4. QED
          BY <4>3 DEF ln
      <3>6. QED
        BY <1>a, <2>1, <3>3, <3>5 DEF sp, ti, cl
    <2>4. CASE ~(t = s /\ c = k /\ new # old)
      <3>1. Holding(bucket[t][c])' = Holding(bucket[t][c])
        <4>1. bucket'[t][c] = bucket[t][c]
          <5>1. CASE t = s /\ c = k
            BY <1>1, <1>5, <2>4, <5>1
          <5>2. CASE t # s \/ c # k
            BY <1>5, <5>2
          <5>3. QED
            BY <5>1, <5>2
        <4>2. QED
          BY <1>a, <4>1 DEF Holding, Level
      <3>2. sp + Holding(bucket[t][c]) <= Full + (cl - ti)
        BY DEF IInv, Covered
      <3>3. QED
        BY <1>a, <2>1, <3>1, <3>2
    <2>5. QED
      BY <2>3, <2>4
  <1>17. QED
    BY <1>7, <1>10, <1>11, <1>12, <1>13, <1>14, <1>15, <1>16 DEF IInv

LEMMA CancelInv ==
  ASSUME IInv, NEW r \in Request, Cancel(r)
  PROVE  IInv'
  BY CancelHasEffect, CancelEffectInv

-----------------------------------------------------------------------------
(* The sweeper, and time.                                                  *)

\* What forgetting a bucket gives is what the next one, full, has too much, and
\* nothing when the caller has been idle until the bucket was full.
LEMMA ForgottenFacts ==
  ASSUME IInv, NEW s \in Store, NEW k \in Caller, bucket[s][k] # NoBucket
  PROVE  /\ Forgotten(s, k) \in Nat
         /\ \A i \in DOMAIN admitted[s][k] :
               Spent(admitted[s][k], i) <= Forgotten(s, k) + (Clock(s, k) - admitted[s][k][i])
         /\ (\/ admitted[s][k] = <<>>
             \/ Full <= Clock(s, k) - admitted[s][k][Len(admitted[s][k])])
                => Forgotten(s, k) = 0
  <1>1. PICK times \in Seq(Nat), b \in Bucket, cl \in Nat :
            times = admitted[s][k] /\ b = bucket[s][k] /\ cl = Clock(s, k)
    BY DEF IInv, LimiterTypeOK, Clock
  <1>2. PICK level \in Int : level = Level(b)
    BY LevelFacts DEF IInv, LimiterTypeOK
  <1>3. CASE times = <<>>
    <2>1. Forgotten(s, k) = 0 /\ DOMAIN admitted[s][k] = {}
      BY <1>1, <1>3 DEF Forgotten
    <2>2. QED
      BY <2>1
  <1>4. CASE times # <<>>
    <2>1. PICK n \in Nat, last \in Nat :
              n = Len(times) /\ n \in 1..Len(times) /\ DOMAIN times = 1..n /\ last = times[n]
      BY <1>4
    <2>2. last <= cl
      BY <1>1, <2>1 DEF IInv, Past
    <2>3. PICK idle \in Nat : idle = cl - last
      BY <2>2
    <2>4. PICK most \in Int :
              /\ most = Max({level, idle})
              /\ most = IF level >= idle THEN level ELSE idle
      BY MaxOfTwo
    <2>5. PICK left \in Int :
              /\ left = Min({Full, most})
              /\ left = IF Full <= most THEN Full ELSE most
      BY FullFacts, MinOfTwo
    <2>6. Forgotten(s, k) = Full - left
      BY <1>1, <1>2, <1>4, <2>1, <2>3, <2>4, <2>5 DEF Forgotten
    <2>7. left \in Nat /\ left <= Full /\ (left <= level \/ left <= idle)
            /\ (Full <= idle => left = Full)
      <3>1. most >= idle /\ most \in Int /\ (most = level \/ most = idle)
        BY <2>3, <2>4
      <3>2. left = IF Full <= most THEN Full ELSE most
        BY <2>5
      <3> HIDE <2>3, <2>4, <2>5
      <3>3. QED
        BY <3>1, <3>2, FullFacts
    <2>8. ASSUME NEW i \in DOMAIN times
          PROVE  Spent(times, i) <= (Full - left) + (cl - times[i])
      <3>1. PICK sp \in Nat, ti \in Nat : sp = Spent(times, i) /\ ti = times[i]
        BY SpentFacts
      <3>2. sp + level <= Full + (cl - ti)
        BY <1>1, <1>2, <3>1 DEF IInv, Covered, Holding
      <3>3. sp <= Full + last - ti
        <4>1. WithinLimit(times)
          BY <1>1 DEF IInv, NeverOverAdmits
        <4>2. n \in i..Len(times)
          BY <2>1
        <4>3. (n - i + 1) * Cost <= Full + times[n] - times[i]
          BY <4>1, <4>2 DEF WithinLimit
        <4>4. QED
          BY <2>1, <3>1, <4>3 DEF Spent
      <3>4. sp <= (Full - left) + (cl - ti)
        BY <2>3, <2>7, <3>2, <3>3, FullFacts
      <3>5. QED
        BY <3>1, <3>4
    <2>9. Full - left \in Nat /\ Forgotten(s, k) = Full - left
      BY <2>6, <2>7, FullFacts
    <2>10. \A i \in DOMAIN admitted[s][k] :
             Spent(admitted[s][k], i) <= Forgotten(s, k) + (Clock(s, k) - admitted[s][k][i])
      BY <1>1, <2>8, <2>9
    <2>11. Full <= idle => Forgotten(s, k) = 0
      BY <2>7, <2>9, FullFacts
    <2>12. idle = Clock(s, k) - admitted[s][k][Len(admitted[s][k])] /\ admitted[s][k] # <<>>
      BY <1>1, <1>4, <2>1, <2>3
    <2>13. QED
      BY <2>9, <2>10, <2>11, <2>12
  <1>5. QED
    BY <1>3, <1>4

LEMMA SweepInv ==
  ASSUME IInv, Sweep
  PROVE  IInv'
  <1> USE DEF LimiterTypeOK
  <1>0. LimiterTypeOK /\ now \in Nat /\ TTL \in Nat /\ Stall \in Nat /\ Stall <= TTL
    BY LimiterAssumption DEF IInv
  <1>1. UNCHANGED <<now, visit, admitted, disturbed, promise>>
    BY DEF Sweep
  <1>2. \A s \in Store, k \in Caller :
          bucket'[s][k] = IF Expired(bucket[s][k]) THEN NoBucket ELSE bucket[s][k]
    BY DEF Sweep
  <1>a. ASSUME NEW s \in Store, NEW k \in Caller
        PROVE  /\ credit'[s][k] =
                     IF Expired(bucket[s][k]) THEN credit[s][k] + Forgotten(s, k) ELSE credit[s][k]
               /\ credit'[s][k] \in Nat /\ credit[s][k] \in Nat /\ credit'[s][k] >= credit[s][k]
    <2>1. credit'[s][k] = credit[s][k] + IF Expired(bucket[s][k]) THEN Forgotten(s, k) ELSE 0
      BY DEF Sweep
    <2>2. Expired(bucket[s][k]) => Forgotten(s, k) \in Nat
      BY ForgottenFacts DEF Expired
    <2>3. credit[s][k] \in Nat
      BY <1>0
    <2>4. QED
      BY <2>1, <2>2, <2>3
  <1>b. \A s \in Store, k \in Caller :
          /\ Clock(s, k) \in Nat /\ Clock(s, k)' \in Nat /\ Clock(s, k)' >= Clock(s, k)
          /\ ~Expired(bucket[s][k]) => Clock(s, k)' = Clock(s, k)
    BY <1>0, <1>1, <1>a DEF Clock
  <1>3. LimiterTypeOK'
    <2>1. bucket' \in [Store -> [Caller -> Bucket \union {NoBucket}]]
      BY <1>0, <1>2 DEF Sweep
    <2>2. credit' \in [Store -> [Caller -> Nat]]
      <3>1. \A s \in Store, k \in Caller : credit'[s][k] \in Nat
        BY <1>a
      <3>2. credit' = [s \in Store |-> [k \in Caller |-> credit'[s][k]]]
        BY DEF Sweep
      <3>3. QED
        BY <3>1, <3>2
    <2>3. QED
      BY <1>0, <1>1, <2>1, <2>2
  <1>4. ASSUME NEW o \in Request, Inside(o)
        PROVE  Of(o) # NoBucket /\ Of(o)' = Of(o) /\ ClockOf(o)' = ClockOf(o)
    <2>1. /\ visit[o] \in Visit /\ Of(o) # NoBucket /\ visit[o].entered <= Of(o).seen
          /\ now <= visit[o].entered + Stall
      BY <1>0, <1>4 DEF IInv, Present, Inside, Away
    <2>2. Of(o) \in Bucket /\ visit[o].entered \in Nat
      BY <1>0, <2>1 DEF Of, Visit
    <2>3. ~Expired(Of(o))
      BY <1>0, <2>1, <2>2 DEF Expired, Bucket
    <2>4. QED
      BY <1>1, <1>2, <1>b, <2>1, <2>3 DEF Of, ClockOf, Visit
  <1>5. \A o \in Request : Live(o)' <=> Live(o)
    BY <1>1 DEF Live
  <1>6. Present'
    BY <1>1, <1>4 DEF IInv, Present, Inside
  <1>7. InDebt' /\ Spaced' /\ Owed'
    <2>1. \A o \in Request : Live(o) => Of(o)' = Of(o) /\ ClockOf(o)' = ClockOf(o)
      BY <1>4 DEF Live, Inside
    <2>2. InDebt'
      BY <1>1, <1>5, <2>1 DEF IInv, InDebt, Level
    <2>3. Spaced' /\ Owed'
      BY <1>1, <1>5, <2>1 DEF IInv, Spaced, Same, Owed, Times, Spent
    <2>4. QED
      BY <2>2, <2>3
  <1>8. Past' /\ NeverOverAdmits'
    <2>1. ASSUME NEW s \in Store, NEW k \in Caller, NEW i \in DOMAIN admitted[s][k]
          PROVE  admitted[s][k][i] <= Clock(s, k)'
      <3>1. admitted[s][k][i] \in Nat
        <4>1. admitted[s][k] \in Seq(Nat)
          BY <1>0
        <4>2. QED
          BY <4>1
      <3>2. admitted[s][k][i] <= Clock(s, k)
        BY DEF IInv, Past
      <3>3. QED
        BY <1>b, <3>1, <3>2
    <2>2. QED
      BY <1>1, <2>1 DEF IInv, Past, NeverOverAdmits, WithinLimit
  <1>9. Dated'
    <2>1. \A s \in Store, k \in Caller : bucket'[s][k] # NoBucket =>
            bucket'[s][k] = bucket[s][k] /\ credit'[s][k] = credit[s][k]
      BY <1>2, <1>a
    <2>2. QED
      BY <1>1, <2>1 DEF IInv, Dated
  <1>10. Covered'
    <2> SUFFICES ASSUME NEW t \in Store, NEW c \in Caller, NEW i \in DOMAIN admitted[t][c]
                 PROVE  (Spent(admitted[t][c], i) + Holding(bucket[t][c])
                           <= Full + (Clock(t, c) - admitted[t][c][i]))'
      BY <1>1 DEF Covered
    <2>1. CASE ~Expired(bucket[t][c])
      BY <1>1, <1>2, <1>b, <2>1 DEF IInv, Covered, Holding, Level, Spent
    <2>2. CASE Expired(bucket[t][c])
      <3>1. PICK times \in Seq(Nat) : times = admitted[t][c]
        BY <1>0
      <3>2. PICK sp \in Nat, ti \in Nat, cl \in Nat, gain \in Nat :
                /\ sp = Spent(times, i) /\ ti = times[i] /\ cl = Clock(t, c)
                /\ gain = Forgotten(t, c)
        <4>1. Clock(t, c) \in Nat
          BY <1>b
        <4>2. Forgotten(t, c) \in Nat
          BY <2>2, ForgottenFacts DEF Expired
        <4>3. Spent(times, i) \in Nat /\ times[i] \in Nat
          BY <3>1, SpentFacts
        <4>4. QED
          BY <4>1, <4>2, <4>3
      <3>3. sp <= gain + (cl - ti)
        BY <2>2, <3>1, <3>2, ForgottenFacts DEF Expired
      <3>4. Clock(t, c)' = cl + gain
        <4>1. PICK m \in Nat, cr \in Nat :
                  m = now /\ cr = credit[t][c] /\ now' = m /\ credit'[t][c] = cr + gain
          BY <1>0, <1>1, <1>a, <2>2, <3>2
        <4>2. QED
          BY <3>2, <4>1 DEF Clock
      <3>5. Holding(bucket[t][c])' = Full
        BY <1>2, <2>2 DEF Holding, Full
      <3>6. Spent(admitted[t][c], i)' = sp /\ admitted'[t][c][i] = ti
        BY <1>1, <3>1, <3>2 DEF Spent
      <3>7. QED
        BY <3>3, <3>4, <3>5, <3>6, FullFacts DEF Full
    <2>3. QED
      BY <2>1, <2>2
  <1>11. QED
    BY <1>3, <1>6, <1>7, <1>8, <1>9, <1>10 DEF IInv

LEMMA TickInv ==
  ASSUME IInv, Tick
  PROVE  IInv'
  <1> USE DEF LimiterTypeOK
  <1>0. LimiterTypeOK /\ now \in Nat
    BY DEF IInv
  <1>1. now' = now + 1 /\ UNCHANGED <<bucket, visit, admitted, credit, disturbed, promise>>
    BY DEF Tick, history
  <1>c. \A t \in Store, c \in Caller :
          /\ Clock(t, c)' = Clock(t, c) + 1 /\ Clock(t, c) \in Nat
          /\ credit'[t][c] = credit[t][c] /\ credit[t][c] \in Nat
    BY <1>0, <1>1 DEF Clock
  <1>2. LimiterTypeOK'
    BY <1>0, <1>1
  <1>3. ASSUME NEW b \in Bucket
        PROVE  Level(b)' <= Level(b) + 1 /\ Level(b) \in Int /\ Level(b)' \in Int
    <2>1. Level(b)' = LevelAt(b, now + 1) /\ Level(b) = LevelAt(b, now)
      BY <1>1 DEF Level
    <2>2. QED
      BY <1>0, <2>1, LevelStep
  <1>4. ASSUME NEW o \in Request, Live(o)'
        PROVE  /\ Live(o) /\ visit'[o] = visit[o] /\ visit[o].act \in Int
               /\ visit[o].act > now /\ Of(o) \in Bucket /\ Of(o)' = Of(o)
               /\ Times(o)' = Times(o)
               /\ ClockOf(o)' = ClockOf(o) + 1 /\ ClockOf(o) \in Nat
    <2>1. visit[o] \in Visit
      BY <1>0, <1>1, <1>4 DEF Live, Away
    <2>2. Live(o) /\ visit[o].act > now
      BY <1>0, <1>1, <1>4, <2>1 DEF Live, Visit
    <2>3. Of(o) # NoBucket
      BY <2>2 DEF IInv, Present, Inside, Live
    <2>4. QED
      BY <1>0, <1>1, <1>c, <2>1, <2>2, <2>3 DEF Of, Times, ClockOf, Visit
  <1>5. InDebt'
    BY <1>0, <1>1, <1>3, <1>4 DEF IInv, InDebt
  <1>6. Spaced'
    BY <1>1, <1>4 DEF IInv, Spaced, Same
  <1>7. Owed'
    <2> SUFFICES ASSUME NEW o \in Request, Live(o)', NEW i \in DOMAIN Times(o)'
                 PROVE  (Spent(Times(o), i) + (now - visit[o].act) + Cost
                           <= Full + (ClockOf(o) - Times(o)[i]))'
      BY DEF Owed
    <2> DEFINE sp == Spent(Times(o), i)
               ti == Times(o)[i]
               act == visit[o].act
               cl == ClockOf(o)
    <2>1. sp + (now - act) + Cost <= Full + (cl - ti)
      BY <1>4 DEF IInv, Owed
    <2>2. sp \in Nat /\ ti \in Nat /\ act \in Int /\ cl \in Nat
      <3>1. visit[o] \in Visit
        BY <1>0, <1>4 DEF Live, Away
      <3>2. Times(o) \in Seq(Nat)
        BY <1>0, <3>1 DEF Times, Visit
      <3>3. i \in DOMAIN Times(o)
        BY <1>4
      <3>4. QED
        BY <1>4, <3>2, <3>3, SpentFacts
    <2>3. Spent(Times(o), i)' = sp /\ Times(o)'[i] = ti /\ visit'[o].act = act
            /\ ClockOf(o)' = cl + 1
      BY <1>4 DEF Spent
    <2> HIDE DEF sp, ti, act, cl
    <2>4. sp + (now + 1 - act) + Cost <= Full + (cl + 1 - ti)
      BY <1>0, <2>1, <2>2, FullFacts
    <2>5. QED
      BY <1>0, <1>1, <2>2, <2>3, <2>4, FullFacts
  <1>8. Past' /\ Dated'
    <2>1. Past'
      <3> SUFFICES ASSUME NEW t \in Store, NEW c \in Caller, NEW i \in DOMAIN admitted[t][c]
                   PROVE  admitted[t][c][i] <= Clock(t, c) + 1
        BY <1>1, <1>c DEF Past
      <3>1. admitted[t][c] \in Seq(Nat)
        BY <1>0
      <3>2. admitted[t][c][i] \in Nat /\ admitted[t][c][i] <= Clock(t, c)
        BY <3>1 DEF IInv, Past
      <3>3. QED
        BY <1>c, <3>2
    <2>2. Dated'
      BY <1>0, <1>1, <1>c DEF IInv, Dated, Bucket
    <2>3. QED
      BY <2>1, <2>2
  <1>9. NeverOverAdmits'
    BY <1>1 DEF IInv, NeverOverAdmits, WithinLimit
  <1>10. Present'
    <2> SUFFICES ASSUME NEW o \in Request, Inside(o)
                 PROVE  Of(o) # NoBucket /\ visit[o].entered <= Of(o).seen
                          /\ now + 1 <= visit[o].entered + Stall
      BY <1>1 DEF Present, Inside, Of
    <2>1. visit[o] \in Visit
      BY <1>0 DEF Inside, Away
    <2>2. now < visit[o].entered + Stall
      BY DEF Tick
    <2>3. QED
      BY <1>0, <2>1, <2>2, LimiterAssumption DEF IInv, Present, Visit
  <1>11. Covered'
    <2> SUFFICES ASSUME NEW t \in Store, NEW c \in Caller, NEW i \in DOMAIN admitted[t][c]
                 PROVE  (Spent(admitted[t][c], i) + Holding(bucket[t][c])
                           <= Full + (Clock(t, c) - admitted[t][c][i]))'
      BY <1>1 DEF Covered
    <2> DEFINE sp == Spent(admitted[t][c], i)
               ti == admitted[t][c][i]
               cl == Clock(t, c)
               ho == Holding(bucket[t][c])
               hn == Holding(bucket[t][c])'
    <2>1. sp \in Nat /\ ti \in Nat
      <3>1. admitted[t][c] \in Seq(Nat)
        BY <1>0
      <3>2. QED
        BY <3>1, SpentFacts
    <2>2. ho \in Int /\ hn \in Int /\ hn <= ho + 1
      <3>1. CASE bucket[t][c] = NoBucket
        <4>1. ho = Full /\ hn = Full
          BY <1>1, <3>1 DEF Holding, Full
        <4>2. QED
          BY <4>1, FullFacts
      <3>2. CASE bucket[t][c] # NoBucket
        <4>1. bucket[t][c] \in Bucket
          BY <1>0, <3>2
        <4>2. ho = Level(bucket[t][c]) /\ hn = Level(bucket[t][c])'
          BY <1>1, <3>2 DEF Holding
        <4>3. Level(bucket[t][c])' = LevelAt(bucket[t][c], now + 1)
          BY <1>1 DEF Level
        <4>4. QED
          BY <1>0, <4>1, <4>2, <4>3, LevelStep DEF Level
      <3>3. QED
        BY <3>1, <3>2
    <2>3. sp + ho <= Full + (cl - ti)
      BY DEF IInv, Covered
    <2>4. /\ Spent(admitted[t][c], i)' = sp /\ admitted'[t][c][i] = ti
          /\ Clock(t, c)' = cl + 1 /\ cl \in Nat
      BY <1>1, <1>c DEF Spent
    <2> HIDE DEF sp, ti, cl, ho, hn
    <2>5. sp + hn <= Full + (cl + 1 - ti)
      BY <1>0, <2>1, <2>2, <2>3, <2>4, FullFacts
    <2>6. QED
      BY <1>0, <1>1, <2>1, <2>2, <2>4, <2>5, FullFacts DEF hn
  <1>12. QED
    BY <1>2, <1>5, <1>6, <1>7, <1>8, <1>9, <1>10, <1>11 DEF IInv

-----------------------------------------------------------------------------

LEMMA StepInv == IInv /\ [LimiterNext]_limiterVars => IInv'
  <1> SUFFICES ASSUME IInv, [LimiterNext]_limiterVars PROVE IInv'
    OBVIOUS
  <1>1. ASSUME NEW r \in Request, Ask(r) PROVE IInv'
    BY <1>1, LookupInv DEF Ask
  <1>2. ASSUME NEW r \in Request, Reserve(r) PROVE IInv'
    BY <1>2, ReserveInv
  <1>3. ASSUME NEW r \in Request, Cancel(r) PROVE IInv'
    BY <1>3, CancelInv
  <1>4. CASE Sweep
    BY <1>4, SweepInv
  <1>5. CASE Tick
    BY <1>5, TickInv
  <1>6. CASE UNCHANGED limiterVars
    <2> USE <1>6 DEF limiterVars, history
    <2>1. LimiterTypeOK' /\ Past' /\ Dated' /\ NeverOverAdmits'
      BY DEF IInv, LimiterTypeOK, Past, Dated, NeverOverAdmits, Clock, WithinLimit
    <2>2. Present' /\ InDebt' /\ Spaced'
      BY DEF IInv, Present, InDebt, Spaced, Inside, Of, Live, Same, Level
    <2>3. Owed' /\ Covered'
      BY DEF IInv, Owed, Covered, Live, Times, ClockOf, Clock, Spent, Holding, Level
    <2>4. QED
      BY <2>1, <2>2, <2>3 DEF IInv
  <1>7. QED
    BY <1>1, <1>2, <1>3, <1>4, <1>5, <1>6 DEF LimiterNext, Allow

\* The types of every variable are kept by every call of allow, by the sweeper
\* and as time passes.
THEOREM LimiterTypeCorrect == LimiterSpec => []LimiterTypeOK
  <1>1. IInv => LimiterTypeOK
    BY DEF IInv
  <1>2. QED
    BY InitInv, StepInv, <1>1, PTL DEF LimiterSpec

\* However requests overlap inside allow and whatever the sweeper forgets, in no
\* window is a caller let through more often than its burst, the refill of that
\* window and what the buckets forgotten in it gave allow (allow, sweep).
THEOREM NeverOverLimit == LimiterSpec => []NeverOverAdmits
  <1>1. IInv => NeverOverAdmits
    BY DEF IInv
  <1>2. QED
    BY InitInv, StepInv, <1>1, PTL DEF LimiterSpec

\* Nothing is given when a bucket refills, and a request is out of allow, within
\* idleLimiterTTL: the comment on limiterStore is then right, and NeverOverLimit
\* has it that a caller never exceeds its limit (sweep).
THEOREM NothingForgotten ==
  ASSUME Full + Stall <= TTL
  PROVE  LimiterSpec => []ForgettingIsFree
  <1>1. LimiterInit => ForgettingIsFree
    BY DEF LimiterInit, ForgettingIsFree
  <1>2. IInv /\ ForgettingIsFree /\ [LimiterNext]_limiterVars => ForgettingIsFree'
    <2> SUFFICES ASSUME IInv, ForgettingIsFree, [LimiterNext]_limiterVars,
                        NEW s \in Store, NEW k \in Caller
                 PROVE  credit'[s][k] = 0
      BY DEF ForgettingIsFree
    <2>1. credit[s][k] = 0
      BY DEF ForgettingIsFree
    <2>2. CASE Sweep /\ Expired(bucket[s][k])
      <3>1. credit'[s][k] = 0 + Forgotten(s, k)
        BY <2>1, <2>2 DEF Sweep
      <3>2. PICK times \in Seq(Nat), b \in Bucket, t \in Nat :
                times = admitted[s][k] /\ b = bucket[s][k] /\ t = now
        BY <2>2 DEF IInv, LimiterTypeOK, Expired
      <3>3. b.seen < t - TTL /\ b.seen \in Nat /\ b # NoBucket
        BY <2>2, <3>2 DEF Expired, Bucket
      <3>4. Clock(s, k) = t
        BY <2>1, <3>2 DEF Clock
      <3>5. ASSUME times # <<>> PROVE Full <= t - times[Len(times)]
        <4>1. PICK last \in Nat : last = times[Len(times)]
          BY <3>5
        <4>2. last <= b.seen + Stall + 0
          BY <2>1, <3>2, <3>3, <3>5, <4>1 DEF IInv, Dated
        <4>3. QED
          BY <3>3, <4>1, <4>2, FullFacts, LimiterAssumption
      <3>6. Forgotten(s, k) = 0
        BY <3>2, <3>3, <3>4, <3>5, ForgottenFacts
      <3>7. QED
        BY <3>1, <3>6
    <2>3. CASE Sweep /\ ~Expired(bucket[s][k])
      BY <2>1, <2>3 DEF Sweep
    <2>4. CASE ~Sweep
      BY <2>1, <2>4 DEF LimiterNext, Allow, Ask, Lookup, Reserve, Cancel, Tick, limiterVars, history
    <2>5. QED
      BY <2>2, <2>3, <2>4
  <1>3. QED
    BY InitInv, StepInv, <1>1, <1>2, PTL DEF LimiterSpec
-----------------------------------------------------------------------------
(* Refusals. As long as its reservations do not overlap, a bucket holds     *)
(* exactly what the limit leaves its caller, never less.                    *)

Waiting(s, k) ==
    {r \in Request : visit[r].at = "waiting" /\ visit[r].store = s /\ visit[r].caller = k}

\* What the limit leaves at time t, counting from the i-th request on.
Quota(times, i, t) == Full - Spent(times, i) + (t - times[i])

Tight(level, times, t) == level = Full \/ \E i \in DOMAIN times : level = Quota(times, i, t)

TightAt(s, k) ==
    Waiting(s, k) = {} => Tight(Level(bucket[s][k]), admitted[s][k], Clock(s, k))

\* What a reservation has taken is still what is missing, until it is cancelled.
RefusedAt(s, k) ==
    \A r \in Waiting(s, k) :
        /\ Waiting(s, k) = {r}
        /\ visit[r].wait >= 1
        /\ bucket[s][k].tokens = -visit[r].wait
        /\ bucket[s][k].last = visit[r].act - visit[r].wait
        /\ bucket[s][k].lastEvent = visit[r].act
        /\ \E i \in DOMAIN admitted[s][k] :
              Cost - visit[r].wait =
                 Quota(admitted[s][k], i, visit[r].act - visit[r].wait + credit[s][k])

\* Nobody has taken anything since the promise was made.
PromiseAt(s, k) ==
    promise[s][k] # None =>
        /\ Waiting(s, k) = {}
        /\ \/ bucket[s][k].tokens >= Cost
           \/ bucket[s][k].tokens + (promise[s][k] - bucket[s][k].last) >= Cost

ExactAt(s, k) ==
    bucket[s][k] # NoBucket /\ ~disturbed[s][k] =>
        TightAt(s, k) /\ RefusedAt(s, k) /\ PromiseAt(s, k)

\* IInv bounds a bucket from above; this bounds it from below.
Exact == \A s \in Store, k \in Caller : ExactAt(s, k)

LEMMA InitExact == LimiterInit => Exact
  <1> SUFFICES ASSUME LimiterInit, NEW s \in Store, NEW k \in Caller PROVE ExactAt(s, k)
    BY DEF Exact
  <1>1. bucket[s][k] = NoBucket
    BY DEF LimiterInit
  <1>2. QED
    BY <1>1 DEF ExactAt

\* What is between 0 and the level it divides: the part Retry-After cuts off.
LEMMA RetryAfterCovers ==
  ASSUME NEW wait \in Nat
  PROVE  /\ RetryAfter(wait) \in Nat
         /\ (RetryAfter(wait) + 1) * Second \in Nat
         /\ (RetryAfter(wait) + 1) * Second >= wait
  <1>1. Second \in Nat /\ Second >= 1
    BY LimiterAssumption
  <1>2. PICK q \in Nat, m \in Nat : q = wait \div Second /\ wait = q * Second + m /\ m < Second
    BY <1>1
  <1>3. PICK a \in Nat : a = RetryAfter(wait) /\ a >= q
    BY <1>2, MaxOfTwo DEF RetryAfter
  <1>4. PICK d \in Nat : a = q + d
    BY <1>3
  <1>5. (a + 1) * Second = q * Second + d * Second + Second /\ d * Second \in Nat
    BY <1>1, <1>4
  <1>6. (a + 1) * Second \in Nat /\ q * Second \in Nat
    BY <1>1
  <1>7. (a + 1) * Second >= wait
    BY <1>1, <1>2, <1>5, <1>6
  <1>8. QED
    BY <1>3, <1>6, <1>7

\* As time passes a bucket that is not full gains what its caller's quota gains.
LEMMA TightTick ==
  ASSUME NEW times \in Seq(Nat), NEW t \in Nat, NEW cl \in Nat, NEW b \in Bucket,
         Tight(LevelAt(b, t), times, cl)
  PROVE  Tight(LevelAt(b, t + 1), times, cl + 1)
  <1>1. PICK u \in Nat, cu \in Nat : u = t + 1 /\ cu = cl + 1
    OBVIOUS
  <1>2. PICK x \in Int, y \in Int : x = LevelAt(b, t) /\ y = LevelAt(b, u)
    BY LevelAtFacts
  <1>3. b.tokens \in Int /\ b.last \in Nat
    BY DEF Bucket
  <1>4. /\ x = IF Full <= b.tokens + (t - b.last) THEN Full ELSE b.tokens + (t - b.last)
        /\ y = IF Full <= b.tokens + (u - b.last) THEN Full ELSE b.tokens + (u - b.last)
    BY <1>2, LevelAtFacts
  <1>5. y = Full \/ (x # Full /\ y = x + 1)
    <2>1. PICK old \in Int, new \in Int :
              /\ old = b.tokens + (t - b.last) /\ new = b.tokens + (u - b.last) /\ new = old + 1
      <3>1. PICK tok \in Int, l \in Nat : tok = b.tokens /\ l = b.last
        BY <1>3
      <3>2. tok + (t - l) \in Int /\ tok + (u - l) = tok + (t - l) + 1
        BY <1>1
      <3>3. QED
        BY <3>1, <3>2
    <2>2. x = (IF Full <= old THEN Full ELSE old) /\ y = IF Full <= new THEN Full ELSE new
      BY <1>4, <2>1
    <2>3. QED
      BY <2>1, <2>2, FullFacts
  <1>6. ASSUME NEW i \in DOMAIN times, x = Quota(times, i, cl), y = x + 1
        PROVE  y = Quota(times, i, cu)
    <2>1. PICK n \in Nat, v \in Nat : n = Spent(times, i) /\ v = times[i]
      BY SpentFacts
    <2>2. Full \in Nat /\ x = Full - n + (cl - v)
      BY <1>6, <2>1, FullFacts DEF Quota
    <2>3. y = Full - n + (cu - v)
      <3>1. y = x + 1 /\ cu = cl + 1
        BY <1>1, <1>6
      <3>2. QED
        BY <2>2, <3>1
    <2>4. QED
      BY <2>1, <2>3 DEF Quota
  <1>7. Tight(y, times, cu)
    BY <1>2, <1>5, <1>6 DEF Tight
  <1>8. QED
    BY <1>1, <1>2, <1>7

\* An admission takes from the bucket and from every quota alike.
LEMMA TightAppend ==
  ASSUME NEW times, NEW more, NEW t, NEW x \in Int,
         Extended(more, times, t), Tight(x, times, t)
  PROVE  Tight(x - Cost, more, t)
  <1>1. PICK n \in Nat : n = Len(times)
    BY DEF Extended
  <1>2. /\ t \in Nat /\ DOMAIN more = 1..(n + 1) /\ DOMAIN times = 1..n /\ more[n + 1] = t
        /\ Spent(more, n + 1) = Cost
        /\ \A i \in 1..n : more[i] = times[i] /\ times[i] \in Nat
        /\ \A i \in 1..n : Spent(more, i) = Spent(times, i) + Cost /\ Spent(times, i) \in Nat
    BY <1>1 DEF Extended
  <1>3. CASE x = Full
    <2>1. x - Cost = Quota(more, n + 1, t)
      BY <1>2, <1>3, FullFacts DEF Quota
    <2>2. n + 1 \in DOMAIN more
      BY <1>2
    <2>3. QED
      BY <2>1, <2>2 DEF Tight
  <1>4. ASSUME NEW i \in DOMAIN times, x = Quota(times, i, t)
        PROVE  Tight(x - Cost, more, t)
    <2>1. PICK p \in Nat, v \in Nat : p = Spent(times, i) /\ v = times[i]
      BY <1>2
    <2>2. Spent(more, i) = p + Cost /\ more[i] = v /\ i \in DOMAIN more
      BY <1>2, <2>1
    <2>3. x - Cost = Quota(more, i, t)
      <3>1. x = Full - p + (t - v) /\ Full \in Nat /\ Cost \in Nat /\ t \in Nat
        BY <1>2, <1>4, <2>1, FullFacts DEF Quota
      <3>2. x - Cost = Full - (p + Cost) + (t - v)
        BY <3>1
      <3>3. QED
        BY <2>2, <3>2 DEF Quota
    <2>4. QED
      BY <2>2, <2>3 DEF Tight
  <1>5. QED
    BY <1>3, <1>4 DEF Tight

\* A step at another bucket.
LEMMA ExactElsewhere ==
  ASSUME NEW s \in Store, NEW k \in Caller, ExactAt(s, k), now' = now,
         bucket'[s][k] \in {bucket[s][k], NoBucket}, admitted'[s][k] = admitted[s][k],
         disturbed'[s][k] = disturbed[s][k], promise'[s][k] = promise[s][k],
         bucket'[s][k] # NoBucket => credit'[s][k] = credit[s][k],
         Waiting(s, k)' = Waiting(s, k), \A o \in Waiting(s, k) : visit'[o] = visit[o]
  PROVE  ExactAt(s, k)'
  <1> SUFFICES ASSUME bucket'[s][k] = bucket[s][k], bucket[s][k] # NoBucket, ~disturbed[s][k]
               PROVE  TightAt(s, k)' /\ RefusedAt(s, k)' /\ PromiseAt(s, k)'
    BY DEF ExactAt
  <1>1. TightAt(s, k) /\ RefusedAt(s, k) /\ PromiseAt(s, k)
    BY DEF ExactAt
  <1>2. TightAt(s, k)'
    BY <1>1 DEF TightAt, Tight, Quota, Spent, Level, Clock
  <1>3. RefusedAt(s, k)'
    BY <1>1 DEF RefusedAt, Quota, Spent
  <1>4. PromiseAt(s, k)'
    BY <1>1 DEF PromiseAt
  <1>5. QED
    BY <1>2, <1>3, <1>4

\* A request that is not waiting, before a step or after it, is of no bucket.
LEMMA WaitingElsewhere ==
  ASSUME NEW r \in Request, NEW s \in Store, NEW k \in Caller,
         NEW t \in Store, NEW c \in Caller, t # s \/ c # k,
         \A o \in Request \ {r} : visit'[o] = visit[o],
         visit[r].at = "waiting" => visit[r].store = s /\ visit[r].caller = k,
         visit'[r].at = "waiting" => visit'[r].store = s /\ visit'[r].caller = k
  PROVE  /\ Waiting(t, c)' = Waiting(t, c)
         /\ \A o \in Waiting(t, c) : visit'[o] = visit[o]
  <1>1. ASSUME NEW o \in Request
        PROVE  /\ (visit'[o].at = "waiting" /\ visit'[o].store = t /\ visit'[o].caller = c)
                     <=> (visit[o].at = "waiting" /\ visit[o].store = t /\ visit[o].caller = c)
               /\ visit[o].at = "waiting" /\ visit[o].store = t /\ visit[o].caller = c => o # r
    OBVIOUS
  <1>2. QED
    BY <1>1 DEF Waiting

LEMMA LookupExact ==
  ASSUME IInv, Exact, NEW r \in Request, NEW s \in Store, NEW k \in Caller,
         ~Inside(r), Lookup(r, s, k)
  PROVE  Exact'
  <1> USE DEF LimiterTypeOK
  <1>0. LimiterTypeOK /\ now \in Nat
    BY DEF IInv
  <1>1. PICK new : new = IF bucket[s][k] # NoBucket
                           THEN [bucket[s][k] EXCEPT !.seen = now] ELSE NewLimiter
    OBVIOUS
  <1>2. /\ now' = now /\ admitted' = admitted /\ promise' = promise /\ credit' = credit
        /\ bucket' = [bucket EXCEPT ![s][k] = new]
        /\ disturbed' = [disturbed EXCEPT ![s][k] = bucket[s][k] # NoBucket /\ @]
        /\ visit'[r].at = "found" /\ visit[r].at # "waiting"
        /\ \A o \in Request \ {r} : visit'[o] = visit[o]
    BY <1>0, <1>1 DEF Lookup, Inside
  <1>3. /\ bucket'[s][k] = new
        /\ \A t \in Store, c \in Caller : t # s \/ c # k =>
              bucket'[t][c] = bucket[t][c] /\ disturbed'[t][c] = disturbed[t][c]
    BY <1>0, <1>2
  <1>4. ASSUME NEW t \in Store, NEW c \in Caller, t # s \/ c # k PROVE ExactAt(t, c)'
    <2>1. Waiting(t, c)' = Waiting(t, c) /\ \A o \in Waiting(t, c) : visit'[o] = visit[o]
      BY <1>2, <1>4, WaitingElsewhere
    <2>2. QED
      BY <1>2, <1>3, <1>4, <2>1, ExactElsewhere DEF Exact
  <1>5. Waiting(s, k)' = Waiting(s, k) /\ \A o \in Waiting(s, k) : visit'[o] = visit[o]
    <2>1. \A o \in Request : (visit'[o].at = "waiting" <=> visit[o].at = "waiting")
                                /\ (visit[o].at = "waiting" => visit'[o] = visit[o])
      BY <1>2
    <2>2. QED
      BY <2>1 DEF Waiting
  <1>6. ASSUME bucket[s][k] = NoBucket PROVE ExactAt(s, k)'
    <2>1. Waiting(s, k) = {}
      BY <1>6 DEF Waiting, IInv, Present, Inside, Of
    <2>2. new \in Bucket /\ new.tokens = Full /\ new.last = now
      BY <1>0, <1>1, <1>6, FullFacts DEF NewLimiter, Bucket
    <2>3. Level(new) = Full
      BY <1>0, <2>2, LevelFacts, FullFacts
    <2>4. TightAt(s, k)'
      BY <1>2, <1>3, <2>3 DEF TightAt, Tight, Level, Full
    <2>5. RefusedAt(s, k)' /\ PromiseAt(s, k)'
      BY <1>3, <1>5, <2>1, <2>2, FullFacts DEF RefusedAt, PromiseAt
    <2>6. QED
      BY <2>4, <2>5 DEF ExactAt
  <1>7. ASSUME bucket[s][k] # NoBucket PROVE ExactAt(s, k)'
    <2>1. disturbed'[s][k] = disturbed[s][k]
      BY <1>0, <1>2, <1>7
    <2>2. /\ bucket[s][k] \in Bucket
          /\ new.tokens = bucket[s][k].tokens /\ new.last = bucket[s][k].last
          /\ new.lastEvent = bucket[s][k].lastEvent
      BY <1>0, <1>1, <1>7 DEF Bucket
    <2>3. Level(new) = Level(bucket[s][k])
      BY <2>2 DEF Level, LevelAt
    <2>4. SUFFICES ASSUME ~disturbed[s][k]
                   PROVE  TightAt(s, k)' /\ RefusedAt(s, k)' /\ PromiseAt(s, k)'
      BY <2>1 DEF ExactAt
    <2>5. TightAt(s, k) /\ RefusedAt(s, k) /\ PromiseAt(s, k)
      BY <1>7, <2>4 DEF Exact, ExactAt
    <2>6. TightAt(s, k)'
      BY <1>2, <1>3, <1>5, <2>3, <2>5 DEF TightAt, Tight, Quota, Spent, Level, Clock
    <2>7. RefusedAt(s, k)'
      BY <1>2, <1>3, <1>5, <2>2, <2>5 DEF RefusedAt, Quota, Spent
    <2>8. PromiseAt(s, k)'
      BY <1>2, <1>3, <1>5, <2>2, <2>5 DEF PromiseAt
    <2>9. QED
      BY <2>6, <2>7, <2>8
  <1>8. QED
    BY <1>4, <1>6, <1>7 DEF Exact

\* The wait a reservation is given is what its bucket lacks.
LEMMA DebtArithmetic ==
  ASSUME NEW level \in Int, NEW cost \in Int, NEW t \in Int, NEW wait \in Int, NEW act \in Int,
         level < cost, wait = cost - level, act = t + (cost - level)
  PROVE  wait = cost - level /\ wait >= 1 /\ act - wait = t /\ cost - wait = level
  OBVIOUS

LEMMA ReserveExact ==
  ASSUME IInv, Exact, NEW r \in Request, NEW s, NEW k, NEW old, NEW new, NEW times, NEW more,
         NEW cl, ReserveEffect(r, s, k, old, new, more), cl = Clock(s, k),
         times = admitted[s][k], Extended(more, times, cl)
  PROVE  Exact'
  <1> USE DEF LimiterTypeOK
  <1>0. LimiterTypeOK /\ now \in Nat
    BY DEF IInv
  <1>1. /\ visit[r] \in Visit /\ visit[r].at = "found" /\ s \in Store /\ k \in Caller
        /\ s = visit[r].store /\ k = visit[r].caller /\ old = bucket[s][k] /\ Inside(r)
    <2>1. /\ visit[r].at = "found" /\ s = visit[r].store /\ k = visit[r].caller
          /\ old = bucket[s][k]
      BY DEF ReserveEffect
    <2>2. visit[r] \in Visit \union {Away}
      BY <1>0
    <2>3. visit[r] # Away /\ Inside(r)
      BY <2>1 DEF Away, Inside
    <2>4. visit[r].store \in Store /\ visit[r].caller \in Caller
      BY <2>2, <2>3 DEF Visit
    <2>5. QED
      BY <2>1, <2>2, <2>3, <2>4
  <1>2. old # NoBucket /\ old \in Bucket
    <2>1. Of(r) = old /\ Of(r) # NoBucket
      BY <1>1 DEF IInv, Present, Of
    <2>2. bucket[s][k] \in Bucket \union {NoBucket}
      BY <1>0, <1>1
    <2>3. QED
      BY <1>1, <2>1, <2>2
  <1>3. PICK x \in Int : x = Level(old)
    BY <1>0, <1>2, LevelFacts
  <1>4. /\ Level(new) = x - Cost /\ new.tokens = x - Cost /\ new.last = now
        /\ new.lastEvent = IF x < Cost THEN now + (Cost - x) ELSE now
        /\ HasToken(old) <=> x >= Cost
    <2>1. HasToken(old) <=> x >= Cost
      BY <1>3, FullFacts DEF HasToken
    <2>2. new = Reserved(old)
      BY DEF ReserveEffect
    <2>3. QED
      BY <1>0, <1>2, <1>3, <2>1, <2>2, ReservedFacts
  <1>e. /\ cl = Clock(s, k) /\ cl = now + credit[s][k] /\ cl \in Nat /\ credit' = credit
        /\ credit[s][k] \in Nat
    <2>1. credit' = credit /\ cl = Clock(s, k)
      BY DEF ReserveEffect
    <2>2. credit[s][k] \in Nat /\ now \in Nat
      BY <1>0, <1>1
    <2>3. QED
      BY <2>1, <2>2 DEF Clock
  <1>5. /\ now' = now /\ bucket' = [bucket EXCEPT ![s][k] = new]
        /\ disturbed' = [disturbed EXCEPT ![s][k] = @ \/ Crowded(r)]
        /\ promise' = [promise EXCEPT ![s][k] = None]
        /\ HasToken(old) => /\ visit' = [visit EXCEPT ![r].at = "admitted"]
                            /\ admitted' = [admitted EXCEPT ![s][k] = more]
        /\ ~HasToken(old) =>
              /\ visit' = [visit EXCEPT ![r].at = "waiting", ![r].act = new.lastEvent,
                                        ![r].wait = new.lastEvent - now]
              /\ admitted' = admitted
    BY DEF ReserveEffect
  <1>6. /\ bucket'[s][k] = new /\ promise'[s][k] = None
        /\ disturbed'[s][k] = (disturbed[s][k] \/ Crowded(r))
        /\ \A t \in Store, c \in Caller : t # s \/ c # k =>
              /\ bucket'[t][c] = bucket[t][c] /\ disturbed'[t][c] = disturbed[t][c]
              /\ promise'[t][c] = promise[t][c] /\ admitted'[t][c] = admitted[t][c]
    <2>1. bucket'[s][k] = new /\ \A t \in Store, c \in Caller : t # s \/ c # k =>
            bucket'[t][c] = bucket[t][c]
      <3>1. bucket \in [Store -> [Caller -> Bucket \union {NoBucket}]]
        BY <1>0
      <3>2. bucket' = [bucket EXCEPT ![s][k] = new] /\ s \in Store /\ k \in Caller
        BY <1>1, <1>5
      <3>3. QED
        BY <3>1, <3>2, CellFacts
    <2>2. disturbed'[s][k] = (disturbed[s][k] \/ Crowded(r)) /\ \A t \in Store, c \in Caller :
            t # s \/ c # k => disturbed'[t][c] = disturbed[t][c]
      <3>1. disturbed \in [Store -> [Caller -> BOOLEAN]]
        BY <1>0
      <3>2. /\ disturbed' = [disturbed EXCEPT ![s][k] = disturbed[s][k] \/ Crowded(r)]
            /\ s \in Store /\ k \in Caller
        BY <1>1, <1>5
      <3>3. QED
        BY <3>1, <3>2, CellFacts
    <2>3. promise'[s][k] = None /\ \A t \in Store, c \in Caller : t # s \/ c # k =>
            promise'[t][c] = promise[t][c]
      <3>1. promise \in [Store -> [Caller -> Nat \union {None}]]
        BY <1>0
      <3>2. promise' = [promise EXCEPT ![s][k] = None] /\ s \in Store /\ k \in Caller
        BY <1>1, <1>5
      <3>3. QED
        BY <3>1, <3>2, CellFacts
    <2>4. \A t \in Store, c \in Caller : t # s \/ c # k => admitted'[t][c] = admitted[t][c]
      <3>1. CASE admitted' = admitted
        BY <3>1
      <3>2. CASE admitted' = [admitted EXCEPT ![s][k] = more]
        BY <1>0, <1>1, <3>2
      <3>3. QED
        BY <1>5, <3>1, <3>2
    <2>5. QED
      BY <2>1, <2>2, <2>3, <2>4
  <1>7. /\ \A o \in Request \ {r} : visit'[o] = visit[o]
        /\ visit'[r].store = s /\ visit'[r].caller = k
        /\ HasToken(old) => visit'[r].at = "admitted"
        /\ ~HasToken(old) => /\ visit'[r].at = "waiting" /\ visit'[r].act = new.lastEvent
                             /\ visit'[r].wait = new.lastEvent - now
    <2>1. visit \in [Request -> Visit \union {Away}] /\ visit[r] \in Visit
      BY <1>0, <1>1
    <2>2. CASE HasToken(old)
      <3>1. visit' = [visit EXCEPT ![r].at = "admitted"]
        BY <1>5, <2>2
      <3>2. QED
        BY <1>1, <2>1, <2>2, <3>1 DEF Visit
    <2>3. CASE ~HasToken(old)
      <3>1. visit' = [visit EXCEPT ![r].at = "waiting", ![r].act = new.lastEvent,
                                   ![r].wait = new.lastEvent - now]
        BY <1>5, <2>3
      <3>2. QED
        BY <1>1, <2>1, <2>3, <3>1 DEF Visit
    <2>4. QED
      BY <2>2, <2>3
  <1>8. ASSUME NEW t \in Store, NEW c \in Caller, t # s \/ c # k PROVE ExactAt(t, c)'
    <2>1. Waiting(t, c)' = Waiting(t, c) /\ \A o \in Waiting(t, c) : visit'[o] = visit[o]
      BY <1>1, <1>7, <1>8, WaitingElsewhere
    <2>2. QED
      BY <1>5, <1>6, <1>8, <1>e, <2>1, ExactElsewhere DEF Exact
  <1>9. ASSUME ~disturbed'[s][k]
        PROVE  TightAt(s, k)' /\ RefusedAt(s, k)' /\ PromiseAt(s, k)'
    <2>1. ~disturbed[s][k] /\ ~Crowded(r)
      BY <1>6, <1>9
    <2>2. Waiting(s, k) = {}
      BY <1>1, <2>1 DEF Crowded, Waiting
    <2>3. Tight(x, times, cl)
      BY <1>1, <1>2, <1>3, <1>e, <2>1, <2>2 DEF Exact, ExactAt, TightAt
    <2>4. PromiseAt(s, k)'
      BY <1>6 DEF PromiseAt
    <2>5. CASE HasToken(old)
      <3>1. Waiting(s, k)' = {}
        BY <1>1, <1>7, <2>2, <2>5 DEF Waiting
      <3>2. admitted'[s][k] = more
        <4>1. admitted' = [admitted EXCEPT ![s][k] = more] /\ s \in Store /\ k \in Caller
          BY <1>1, <1>5, <2>5
        <4>2. admitted \in [Store -> [Caller -> Seq(Nat)]]
          BY <1>0
        <4>3. QED
          BY <4>1, <4>2, CellFacts
      <3>3. Tight(x - Cost, more, cl)
        BY <2>3, TightAppend
      <3>4. TightAt(s, k)'
        <4>1. Clock(s, k)' = cl
          BY <1>5, <1>e DEF Clock
        <4>2. Level(bucket[s][k])' = x - Cost
          BY <1>4, <1>5, <1>6 DEF Level
        <4>3. QED
          BY <3>2, <3>3, <4>1, <4>2 DEF TightAt, Tight, Quota, Spent
      <3>5. QED
        BY <2>4, <3>1, <3>4 DEF RefusedAt
    <2>6. CASE ~HasToken(old)
      <3>1. Waiting(s, k)' = {r}
        <4>1. visit'[r].at = "waiting" /\ visit'[r].store = s /\ visit'[r].caller = k
          BY <1>7, <2>6
        <4>2. \A o \in Request \ {r} : visit'[o] = visit[o]
          BY <1>7
        <4>3. QED
          BY <2>2, <4>1, <4>2 DEF Waiting
      <3>2. /\ visit'[r].wait = Cost - x /\ visit'[r].act = now + (Cost - x)
            /\ x < Cost /\ admitted'[s][k] = times
        <4>1. admitted' = admitted /\ x < Cost
          BY <1>3, <1>4, <1>5, <2>6, FullFacts
        <4>2. QED
          BY <1>0, <1>3, <1>4, <1>7, <2>6, <4>1, FullFacts
      <3>3. PICK i \in DOMAIN times : x = Quota(times, i, cl)
        BY <2>3, <3>2, FullFacts DEF Tight
      <3>4. PICK w \in Int : w = visit'[r].wait
        BY <1>3, <3>2, FullFacts
      <3>5. /\ w >= 1 /\ new.tokens = -w /\ new.last = visit'[r].act - w
            /\ new.lastEvent = visit'[r].act /\ visit'[r].act - w = now /\ Cost - w = x
        <4>1. PICK a \in Int : a = visit'[r].act /\ a = now + (Cost - x)
          BY <1>0, <1>3, <3>2, FullFacts
        <4>2. w = Cost - x /\ w >= 1 /\ a - w = now /\ Cost - w = x
          <5>1. now \in Int /\ Cost \in Int /\ x < Cost
            BY <1>0, <3>2, FullFacts
          <5>2. w = Cost - x /\ a = now + (Cost - x)
            BY <3>2, <3>4, <4>1, Zenon
          <5>3. QED
            BY <5>1, <5>2, DebtArithmetic
        <4>3. new.tokens = -w /\ new.last = now /\ new.lastEvent = a
          BY <1>0, <1>3, <1>4, <3>2, <4>1, <4>2, FullFacts
        <4>4. QED
          BY <4>1, <4>2, <4>3
      <3>6. RefusedAt(s, k)'
        <4>1. bucket'[s][k] = new
          BY <1>6
        <4>2. credit'[s][k] = credit[s][k] /\ cl = now + credit[s][k]
          BY <1>e
        <4>3. Cost - w = Quota(times, i, visit'[r].act - w + credit[s][k])
          BY <3>3, <3>5, <4>2, Zenon
        <4>4. (Cost - visit[r].wait = Quota(admitted[s][k], i,
                                        visit[r].act - visit[r].wait + credit[s][k]))'
          BY <3>2, <3>4, <4>2, <4>3 DEF Quota, Spent
        <4>5. /\ visit'[r].wait >= 1 /\ bucket'[s][k].tokens = -visit'[r].wait
              /\ bucket'[s][k].last = visit'[r].act - visit'[r].wait
              /\ bucket'[s][k].lastEvent = visit'[r].act
          BY <3>4, <3>5, <4>1, Zenon
        <4>6. i \in DOMAIN admitted'[s][k]
          BY <3>2, <3>3
        <4>7. QED
          BY <3>1, <4>4, <4>5, <4>6, Zenon DEF RefusedAt
      <3>7. TightAt(s, k)'
        BY <3>1 DEF TightAt
      <3>8. QED
        BY <2>4, <3>6, <3>7
    <2>7. QED
      BY <2>5, <2>6
  <1>10. QED
    BY <1>8, <1>9 DEF Exact, ExactAt

LEMMA CancelExact ==
  ASSUME IInv, Exact, NEW r \in Request, NEW s, NEW k, NEW act, NEW old, NEW new,
         CancelEffect(r, s, k, act, old, new)
  PROVE  Exact'
  <1> USE DEF LimiterTypeOK
  <1>0. LimiterTypeOK /\ now \in Nat
    BY DEF IInv
  <1>1. PICK wait \in Int : wait = visit[r].wait
    BY <1>0 DEF CancelEffect, Away, Visit
  <1>2. /\ visit[r] \in Visit /\ visit[r].at = "waiting" /\ s \in Store /\ k \in Caller
        /\ s = visit[r].store /\ k = visit[r].caller /\ old = bucket[s][k]
        /\ act = visit[r].act /\ act \in Int /\ r \in Waiting(s, k)
    BY <1>0 DEF CancelEffect, Away, Visit, Waiting
  <1>3. old # NoBucket /\ old \in Bucket
    BY <1>0, <1>2 DEF IInv, Present, Of, Inside
  <1>4. /\ now' = now /\ admitted' = admitted /\ credit' = credit
        /\ bucket' = [bucket EXCEPT ![s][k] = new]
        /\ visit' = [visit EXCEPT ![r].at = "refused"]
        /\ disturbed' = [disturbed EXCEPT ![s][k] = @ \/ now # act - wait]
        /\ promise' = [promise EXCEPT ![s][k] = now + (RetryAfter(wait) + 1) * Second]
        /\ new = Cancelled(old, act)
    BY <1>1, <1>2 DEF CancelEffect
  <1>5. /\ bucket'[s][k] = new
        /\ promise'[s][k] = now + (RetryAfter(wait) + 1) * Second
        /\ disturbed'[s][k] = (disturbed[s][k] \/ now # act - wait)
        /\ \A t \in Store, c \in Caller : t # s \/ c # k =>
              /\ bucket'[t][c] = bucket[t][c] /\ disturbed'[t][c] = disturbed[t][c]
              /\ promise'[t][c] = promise[t][c]
    BY <1>0, <1>2, <1>4
  <1>6. visit'[r].at = "refused" /\ \A o \in Request \ {r} : visit'[o] = visit[o]
    BY <1>0, <1>2, <1>4 DEF Visit
  <1>7. ASSUME NEW t \in Store, NEW c \in Caller, t # s \/ c # k PROVE ExactAt(t, c)'
    <2>1. Waiting(t, c)' = Waiting(t, c) /\ \A o \in Waiting(t, c) : visit'[o] = visit[o]
      BY <1>2, <1>6, <1>7, WaitingElsewhere
    <2>2. QED
      BY <1>4, <1>5, <1>7, <2>1, ExactElsewhere DEF Exact
  <1>8. ASSUME ~disturbed'[s][k]
        PROVE  TightAt(s, k)' /\ RefusedAt(s, k)' /\ PromiseAt(s, k)'
    <2>1. ~disturbed[s][k] /\ now = act - wait
      BY <1>5, <1>8
    <2>2. RefusedAt(s, k)
      BY <1>2, <1>3, <2>1 DEF Exact, ExactAt
    <2>3. /\ Waiting(s, k) = {r} /\ wait >= 1
          /\ old.tokens = -wait /\ old.last = act - wait /\ old.lastEvent = act
      BY <1>1, <1>2, <2>2 DEF RefusedAt
    <2>4. PICK i \in DOMAIN admitted[s][k] :
              Cost - wait = Quota(admitted[s][k], i, Clock(s, k))
      BY <1>1, <1>2, <2>1, <2>2 DEF RefusedAt, Clock
    <2>5. Waiting(s, k)' = {}
      BY <1>2, <1>6, <2>3 DEF Waiting
    <2>6. /\ new \in Bucket /\ new.tokens = Cost - wait /\ new.last = now
          /\ Level(new) = Cost - wait
      <3>0. PICK a \in Int, m \in Nat, w \in Int :
              /\ a = act /\ m = now /\ w = wait /\ w >= 1 /\ m = a - w
        BY <1>0, <1>1, <1>2, <2>1, <2>3
      <3>1. act = now + wait /\ act >= now /\ wait \in Nat
        BY <3>0
      <3>2. Level(old) = -wait
        BY <1>0, <1>1, <1>3, <2>1, <2>3, LevelFacts, FullFacts
      <3>3. Restored(old, act) = Cost
        BY <1>0, <2>3, <3>1, FullFacts DEF Restored
      <3>4. Min({Full, Level(old) + Cost}) = Cost - wait
        BY <2>3, <3>1, <3>2, FullFacts, MinOfTwo
      <3>5. PICK e \in Int : new = [old EXCEPT !.tokens = Cost - wait, !.last = now,
                                               !.lastEvent = e]
        <4>1. act - Cost \in Int /\ old.lastEvent \in Int
          <5>1. old.lastEvent \in Int
            BY <1>3 DEF Bucket
          <5>2. act \in Int /\ Cost \in Int
            BY <3>0, FullFacts
          <5>3. QED
            BY <5>1, <5>2
        <4>2. PICK e \in Int : e = IF act = old.lastEvent /\ act - Cost >= now
                                     THEN act - Cost ELSE old.lastEvent
          BY <4>1
        <4>3. ~(Restored(old, act) <= 0)
          BY <3>3, FullFacts
        <4>4. Cancelled(old, act) =
                [old EXCEPT !.tokens = Cost - wait, !.last = now, !.lastEvent = e]
          BY <1>3, <3>3, <3>4, <4>2, <4>3 DEF Cancelled, Bucket
        <4>5. new = [old EXCEPT !.tokens = Cost - wait, !.last = now, !.lastEvent = e]
          BY <1>4, <4>4
        <4>6. QED
          BY <4>5
      <3>6. new \in Bucket /\ new.tokens = Cost - wait /\ new.last = now
        <4>1. PICK c \in Int, cut \in Nat : c = Cost - wait /\ cut = now
          BY <1>0, <1>1, FullFacts
        <4>2. new = [old EXCEPT !.tokens = c, !.last = cut, !.lastEvent = e]
          BY <3>5, <4>1
        <4>3. new \in Bucket /\ new.tokens = c /\ new.last = cut
          BY <1>3, <4>2 DEF Bucket
        <4>4. QED
          BY <4>1, <4>3
      <3>7. QED
        BY <1>0, <1>1, <2>3, <3>6, LevelFacts, FullFacts
    <2>7. TightAt(s, k)'
      BY <1>4, <1>5, <2>4, <2>6 DEF TightAt, Tight, Quota, Spent, Level, Clock
    <2>8. RefusedAt(s, k)'
      BY <2>5 DEF RefusedAt
    <2>9. PromiseAt(s, k)'
      <3>1. PICK p \in Nat : p = (RetryAfter(wait) + 1) * Second /\ p >= wait
        BY <1>1, <2>3, RetryAfterCovers
      <3>2. promise'[s][k] = now + p
        BY <1>5, <3>1
      <3>3. (Cost - wait) + ((now + p) - now) >= Cost
        BY <1>0, <1>1, <3>1, FullFacts
      <3>4. bucket'[s][k].tokens + (promise'[s][k] - bucket'[s][k].last) >= Cost
        BY <1>5, <2>6, <3>2, <3>3
      <3>5. QED
        BY <2>5, <3>4 DEF PromiseAt
    <2>10. QED
      BY <2>7, <2>8, <2>9
  <1>9. QED
    BY <1>7, <1>8 DEF Exact, ExactAt

LEMMA TickExact ==
  ASSUME IInv, Exact, Tick
  PROVE  Exact'
  <1> USE DEF LimiterTypeOK
  <1>0. LimiterTypeOK /\ now \in Nat
    BY DEF IInv
  <1>1. now' = now + 1 /\ UNCHANGED <<bucket, visit, admitted, credit, disturbed, promise>>
    BY DEF Tick, history
  <1> SUFFICES ASSUME NEW s \in Store, NEW k \in Caller, bucket[s][k] # NoBucket,
                      ~disturbed[s][k]
               PROVE  TightAt(s, k)' /\ RefusedAt(s, k)' /\ PromiseAt(s, k)'
    BY <1>1 DEF Exact, ExactAt
  <1>2. TightAt(s, k) /\ RefusedAt(s, k) /\ PromiseAt(s, k)
    BY DEF Exact, ExactAt
  <1>3. Waiting(s, k)' = Waiting(s, k)
    BY <1>1 DEF Waiting
  <1>4. TightAt(s, k)'
    <2> SUFFICES ASSUME Waiting(s, k) = {}
                 PROVE  Tight(Level(bucket[s][k]), admitted[s][k], Clock(s, k))'
      BY <1>3 DEF TightAt
    <2>1. bucket[s][k] \in Bucket /\ admitted[s][k] \in Seq(Nat)
      BY <1>0
    <2>2. Tight(LevelAt(bucket[s][k], now), admitted[s][k], Clock(s, k))
      BY <1>2 DEF TightAt, Level
    <2>3. Clock(s, k) \in Nat /\ Clock(s, k)' = Clock(s, k) + 1
      BY <1>0, <1>1 DEF Clock
    <2>4. Tight(LevelAt(bucket[s][k], now + 1), admitted[s][k], Clock(s, k) + 1)
      BY <1>0, <2>1, <2>2, <2>3, TightTick
    <2>5. QED
      BY <1>1, <2>3, <2>4 DEF Tight, Quota, Spent, Level
  <1>5. RefusedAt(s, k)'
    BY <1>1, <1>2, <1>3 DEF RefusedAt, Quota, Spent
  <1>6. PromiseAt(s, k)'
    BY <1>1, <1>2, <1>3 DEF PromiseAt
  <1>7. QED
    BY <1>4, <1>5, <1>6

LEMMA SweepExact ==
  ASSUME Exact, IInv, Sweep \/ UNCHANGED limiterVars
  PROVE  Exact'
  <1> SUFFICES ASSUME NEW s \in Store, NEW k \in Caller PROVE ExactAt(s, k)'
    BY DEF Exact
  <1>1. UNCHANGED <<now, visit, admitted, disturbed, promise>>
    BY DEF Sweep, history, limiterVars
  <1>2. /\ bucket'[s][k] \in {bucket[s][k], NoBucket}
        /\ bucket'[s][k] # NoBucket => credit'[s][k] = credit[s][k]
    <2>1. CASE UNCHANGED limiterVars
      BY <2>1 DEF limiterVars, history
    <2>2. CASE Sweep
      <3>1. bucket'[s][k] = IF Expired(bucket[s][k]) THEN NoBucket ELSE bucket[s][k]
        BY <2>2 DEF Sweep
      <3>2. credit'[s][k] = credit[s][k] + IF Expired(bucket[s][k]) THEN Forgotten(s, k) ELSE 0
        BY <2>2 DEF Sweep
      <3>3. credit[s][k] \in Nat
        BY DEF IInv, LimiterTypeOK
      <3>4. QED
        BY <3>1, <3>2, <3>3
    <2>3. QED
      BY <2>1, <2>2
  <1>3. Waiting(s, k)' = Waiting(s, k)
    BY <1>1 DEF Waiting
  <1>4. QED
    BY <1>1, <1>2, <1>3, ExactElsewhere DEF Exact

LEMMA StepExact == IInv /\ Exact /\ [LimiterNext]_limiterVars => Exact'
  <1> SUFFICES ASSUME IInv, Exact, [LimiterNext]_limiterVars PROVE Exact'
    OBVIOUS
  <1>1. ASSUME NEW r \in Request, Ask(r) PROVE Exact'
    BY <1>1, LookupExact DEF Ask
  <1>2. ASSUME NEW r \in Request, Reserve(r) PROVE Exact'
    <2> DEFINE s == visit[r].store
               k == visit[r].caller
    <2>1. s \in Store /\ k \in Caller
      BY <1>2 DEF IInv, LimiterTypeOK, Reserve, Visit, Away
    <2>2. Extended(Append(admitted[s][k], Clock(s, k)), admitted[s][k], Clock(s, k))
      BY <2>1, AppendFacts DEF IInv, LimiterTypeOK, Clock
    <2>3. QED
      BY <1>2, <2>2, ReserveHasEffect, ReserveExact
  <1>3. ASSUME NEW r \in Request, Cancel(r) PROVE Exact'
    BY <1>3, CancelHasEffect, CancelExact
  <1>4. QED
    BY <1>1, <1>2, <1>3, TickExact, SweepExact DEF LimiterNext, Allow

\* A caller whose reservations do not overlap is refused only when its limit, and
\* what forgotten buckets gave it, leave it no request: earlier refusals were
\* given back to the last unit, and so was a bucket (allow, enforce, sweep).
THEOREM RefusalsAreJustified == LimiterSpec => []RefusalJustified
  <1>1. IInv /\ Exact => RefusalJustified
    <2> SUFFICES ASSUME IInv, Exact, NEW r \in Request, visit[r].at = "waiting",
                        ~disturbed[visit[r].store][visit[r].caller]
                 PROVE  OverLimit(r)
      BY DEF RefusalJustified
    <2>1. PICK s \in Store, k \in Caller, w \in Int, act \in Int :
              /\ s = visit[r].store /\ k = visit[r].caller
              /\ w = visit[r].wait /\ act = visit[r].act
      <3>1. visit[r] \in Visit
        BY DEF IInv, LimiterTypeOK, Away
      <3>2. QED
        BY <3>1 DEF Visit
    <2>2. bucket[s][k] # NoBucket /\ bucket[s][k] \in Bucket
      BY <2>1 DEF IInv, LimiterTypeOK, Present, Inside, Of
    <2>3. RefusedAt(s, k) /\ r \in Waiting(s, k)
      BY <2>1, <2>2 DEF Exact, ExactAt, Waiting
    <2>4. PICK times \in Seq(Nat) : times = admitted[s][k]
      BY DEF IInv, LimiterTypeOK
    <2>5. PICK t \in Nat : t = act - w + credit[s][k]
      <3>1. credit[s][k] \in Nat /\ act - w \in Nat
        <4>1. credit[s][k] \in Nat
          BY DEF IInv, LimiterTypeOK
        <4>2. bucket[s][k].last = act - w
          BY <2>1, <2>3 DEF RefusedAt
        <4>3. QED
          BY <2>2, <4>1, <4>2 DEF Bucket
      <3>2. QED
        BY <3>1
    <2>6. PICK i \in DOMAIN times : Cost - w = Quota(times, i, t) /\ w >= 1
      BY <2>1, <2>3, <2>4, <2>5 DEF RefusedAt
    <2>7. PICK more : more = Append(times, t) /\ Extended(more, times, t)
      BY AppendFacts
    <2>8. PICK n \in Nat, p \in Nat, v \in Nat :
              n = Len(times) /\ p = Spent(times, i) /\ v = times[i]
      BY SpentFacts
    <2>9. /\ Len(more) = n + 1 /\ DOMAIN more = 1..(n + 1) /\ more[n + 1] = t /\ more[i] = v
          /\ Spent(more, i) = p + Cost /\ i \in 1..n
      BY <2>7, <2>8 DEF Extended
    <2>10. ((n + 1) - i + 1) * Cost = p + Cost
      BY <2>9 DEF Spent
    <2>11. p + Cost > Full + t - v
      <3>1. Cost - w = Full - p + (t - v)
        BY <2>6, <2>8 DEF Quota
      <3>2. QED
        BY <2>6, <3>1, FullFacts
    <2>12. ~WithinLimit(more)
      <3>1. i \in DOMAIN more /\ (n + 1) \in i..Len(more)
        BY <2>8, <2>9
      <3>2. ~(((n + 1) - i + 1) * Cost <= Full + more[n + 1] - more[i])
        BY <2>8, <2>9, <2>10, <2>11, FullFacts
      <3>3. QED
        BY <3>1, <3>2 DEF WithinLimit
    <2>13. QED
      BY <2>1, <2>4, <2>5, <2>7, <2>12 DEF OverLimit
  <1>2. QED
    BY InitInv, StepInv, InitExact, StepExact, <1>1, PTL DEF LimiterSpec

\* Such a caller has a token to come back for, a second after Retry-After at the
\* latest, whether its bucket was swept meanwhile or not (enforce).
THEOREM ComeBackWorks == LimiterSpec => []ComeBackLater
  <1>1. IInv /\ Exact => ComeBackLater
    <2> SUFFICES ASSUME IInv, Exact, NEW s \in Store, NEW k \in Caller, promise[s][k] # None,
                        now >= promise[s][k], ~disturbed[s][k], bucket[s][k] # NoBucket
                 PROVE  HasToken(bucket[s][k])
      BY DEF ComeBackLater
    <2>1. PromiseAt(s, k)
      BY DEF Exact, ExactAt
    <2>2. PICK b \in Bucket, p \in Nat : b = bucket[s][k] /\ p = promise[s][k]
      BY DEF IInv, LimiterTypeOK
    <2>3. now \in Nat /\ b.last <= now /\ b.tokens \in Int /\ b.last \in Nat
      BY <2>2 DEF IInv, LimiterTypeOK, Dated, Bucket
    <2>4. b.tokens >= Cost \/ b.tokens + (p - b.last) >= Cost
      BY <2>1, <2>2 DEF PromiseAt
    <2>5. Level(b) \in Int /\ Level(b) >= Cost
      BY <2>2, <2>3, <2>4, LevelFacts, FullFacts
    <2>6. QED
      BY <2>2, <2>5, FullFacts DEF HasToken
  <1>2. QED
    BY InitInv, StepInv, InitExact, StepExact, <1>1, PTL DEF LimiterSpec

=============================================================================
