----------------------------- MODULE GateProofs -----------------------------
(***************************************************************************)
(* The gate drives its limiters as RateLimiter lets any requests drive     *)
(* them, so what is proved of those holds of them here; and what the       *)
(* accepted configuration and the seeded roles keep out stays out.         *)
(***************************************************************************)
EXTENDS Gate, RateLimiterProofs, SequenceTheorems, FiniteSetTheorems

Link == {"cors", "body_limit", "rate_limit", "auth_rate_limit", "jwt", "authorize", "handler",
         "no_method", "no_route"}

Waits(r) ==
    /\ route[r] \in Route
    /\ index[r] \in DOMAIN Chain(route[r])
    /\ Chain(route[r])[index[r]] \in DOMAIN StoreOf

\* A request inside a store's allow is at the place of its chain that asks it.
InPlace ==
    /\ route \in [Request -> Route \union {None}]
    /\ index \in [Request -> Nat]
    /\ \A r \in Request : route[r] = None => index[r] = 0
    /\ \A r \in Request : index[r] # 0 => Waits(r)
    /\ \A r \in Request : Inside(r) => index[r] # 0 /\ visit[r].store = Asking(r)

-----------------------------------------------------------------------------
(* The chains.                                                             *)

LEMMA StoresAsked ==
  ASSUME NEW h \in DOMAIN StoreOf
  PROVE  StoreOf[h] \in Store
  BY StoresAssumption DEF StoreOf

LEMMA LinkFacts ==
  /\ <<"handler">> \in Seq(Link)
  /\ <<"auth_rate_limit", "handler">> \in Seq(Link)
  /\ <<"jwt", "handler">> \in Seq(Link)
  /\ <<"jwt", "authorize", "handler">> \in Seq(Link)
  /\ <<"no_method">> \in Seq(Link)
  /\ <<"no_route">> \in Seq(Link)
  BY DEF Link

LEMMA GlobalFacts ==
  Global \in Seq(Link) /\ Len(Global) = 3
  BY DEF Link, Global

LEMMA GroupFacts ==
  ASSUME NEW what
  PROVE  Group(what) \in Seq(Link)
  <1>1. CASE what = "probe"
    <2>1. Group(what) = <<"handler">>
      BY <1>1 DEF Group, Slug, ReadSlugs, WriteSlugs
    <2>2. QED
      BY <2>1, LinkFacts
  <1>2. CASE what = "auth"
    <2>1. Group(what) = <<"auth_rate_limit", "handler">>
      BY <1>2 DEF Group, Slug, ReadSlugs, WriteSlugs
    <2>2. QED
      BY <2>1, LinkFacts
  <1>3. CASE what = "own"
    <2>1. Group(what) = <<"jwt", "handler">>
      BY <1>3 DEF Group, Slug, ReadSlugs, WriteSlugs
    <2>2. QED
      BY <2>1, LinkFacts
  <1>4. CASE what \in Slug
    <2>1. Group(what) = <<"jwt", "authorize", "handler">>
      BY <1>4 DEF Group, Slug, ReadSlugs, WriteSlugs
    <2>2. QED
      BY <2>1, LinkFacts
  <1>5. CASE what \in {"options", "verb"}
    <2>1. Group(what) = <<"no_method">>
      BY <1>5 DEF Group, Slug, ReadSlugs, WriteSlugs
    <2>2. QED
      BY <2>1, LinkFacts
  <1>6. CASE what \notin {"probe", "auth", "own", "options", "verb"} \union Slug
    <2>1. Group(what) = <<"no_route">>
      BY <1>6 DEF Group, Slug, ReadSlugs, WriteSlugs
    <2>2. QED
      BY <2>1, LinkFacts
  <1>7. QED
    BY <1>1, <1>2, <1>3, <1>4, <1>5, <1>6

LEMMA ChainFacts ==
  ASSUME NEW what
  PROVE  /\ Chain(what) \in Seq(Link)
         /\ Len(Chain(what)) = 3 + Len(Group(what))
         /\ \A i \in 1..Len(Chain(what)) :
              Chain(what)[i] = IF i <= 3 THEN Global[i] ELSE Group(what)[i - 3]
  <1> DEFINE group == Group(what)
  <1>1. group \in Seq(Link)
    BY GroupFacts
  <1>2. Chain(what) = Global \o group
    BY DEF Chain
  <1> HIDE DEF group
  <1>3. Global \o group \in Seq(Link) /\ Len(Global \o group) = Len(Global) + Len(group)
    BY <1>1, GlobalFacts, ConcatProperties
  <1>4. \A i \in 1..Len(Global) + Len(group) :
          (Global \o group)[i] = IF i <= Len(Global) THEN Global[i] ELSE group[i - Len(Global)]
    BY <1>1, GlobalFacts, ConcatProperties
  <1>5. QED
    BY <1>2, <1>3, <1>4, GlobalFacts DEF group

LEMMA LooksFacts ==
  ASSUME NEW what, NEW from, NEW q \in Looks(what, from)
  PROVE  q.route = what /\ q.credential \in Credential
  BY DEF Looks, Credential, Refusal

LEMMA LimitedFacts ==
  ASSUME NEW h, NEW q, q.credential \in Credential, Verdict(h, q) = "limited"
  PROVE  h \in DOMAIN StoreOf
  <1>1. Authenticate(q) # "limited"
    BY DEF Authenticate, Credential, Refusal
  <1>2. CORS(q) # "limited" /\ BodyLimit(q) # "limited" /\ Authorize(q) # "limited"
    BY DEF CORS, BodyLimit, Authorize
  <1>3. QED
    BY <1>1, <1>2 DEF Verdict, StoreOf

\* Where a request stands after it ran.
LEMMA RunFacts ==
  ASSUME NEW r \in Request, NEW what, NEW from \in Nat \ {0}, NEW q \in Looks(what, from),
         Run(r, q, from), index \in [Request -> Nat]
  PROVE  \E stop \in Nat :
            /\ index' = [index EXCEPT ![r] = stop]
            /\ stop # 0 => stop \in DOMAIN Chain(what) /\ Chain(what)[stop] \in DOMAIN StoreOf
  <1>1. q.route = what /\ q.credential \in Credential
    BY LooksFacts
  <1>2. Len(Chain(what)) \in Nat /\ DOMAIN Chain(what) = 1..Len(Chain(what))
    BY ChainFacts
  <1>3. PICK stop \in from..Len(Chain(what)) :
          LET verdict == Verdict(Chain(what)[stop], q)
          IN  IF verdict = "limited" THEN index' = [index EXCEPT ![r] = stop]
                                     ELSE index' = [index EXCEPT ![r] = 0]
    BY <1>1 DEF Run
  <1>4. stop \in Nat /\ stop \in DOMAIN Chain(what)
    BY <1>2
  <1>5. CASE Verdict(Chain(what)[stop], q) = "limited"
    BY <1>1, <1>3, <1>4, <1>5, LimitedFacts
  <1>6. CASE Verdict(Chain(what)[stop], q) # "limited"
    BY <1>3, <1>6
  <1>7. QED
    BY <1>5, <1>6

LEMMA RunPlace ==
  ASSUME InPlace, NEW r \in Request, NEW what \in Route, NEW from \in Nat \ {0},
         NEW q \in Looks(what, from), Run(r, q, from),
         route' = [route EXCEPT ![r] = what],
         \A o \in Request : Inside(o)' => Inside(o) /\ o # r /\ visit'[o] = visit[o]
  PROVE  InPlace'
  <1> USE DEF InPlace
  <1>1. PICK stop \in Nat :
          /\ index' = [index EXCEPT ![r] = stop]
          /\ stop # 0 => stop \in DOMAIN Chain(what) /\ Chain(what)[stop] \in DOMAIN StoreOf
    BY RunFacts
  <1>2. /\ route'[r] = what /\ what # None /\ index'[r] = stop
        /\ \A o \in Request : o # r => route'[o] = route[o] /\ index'[o] = index[o]
    BY <1>1, RoutesAssumption
  <1>3. route' \in [Request -> Route \union {None}] /\ index' \in [Request -> Nat]
    BY <1>1
  <1>4. \A o \in Request : route'[o] = None => index'[o] = 0
    BY <1>2
  <1>5. ASSUME NEW o \in Request, index'[o] # 0
        PROVE  Waits(o)'
    <2>1. CASE o = r
      BY <1>1, <1>2, <1>5, <2>1 DEF Waits
    <2>2. CASE o # r
      BY <1>2, <1>5, <2>2 DEF Waits
    <2>3. QED
      BY <2>1, <2>2
  <1>6. ASSUME NEW o \in Request, Inside(o)'
        PROVE  index'[o] # 0 /\ visit'[o].store = Asking(o)'
    BY <1>2, <1>6 DEF Asking
  <1>7. QED
    BY <1>3, <1>4, <1>5, <1>6

-----------------------------------------------------------------------------
(* Each step of the gate is a step of its limiters, or none of theirs.     *)

\* A request that keeps its place, while its visit goes on.
LEMMA VisitPlace ==
  ASSUME InPlace, NEW r \in Request, UNCHANGED <<route, index>>, index[r] # 0,
         \A o \in Request : o # r => visit'[o] = visit[o],
         Inside(r)' => visit'[r].store = Asking(r)
  PROVE  InPlace'
  <1> USE DEF InPlace
  <1>1. \A o \in Request : Asking(o)' = Asking(o) /\ (Waits(o)' <=> Waits(o))
    BY DEF Asking, Waits
  <1>2. ASSUME NEW o \in Request, Inside(o)'
        PROVE  index'[o] # 0 /\ visit'[o].store = Asking(o)'
    BY <1>1, <1>2 DEF Inside
  <1>3. QED
    BY <1>1, <1>2

LEMMA ArriveStep ==
  ASSUME InPlace, NEW r \in Request, Arrive(r)
  PROVE  UNCHANGED limiterVars /\ InPlace'
  <1>1. UNCHANGED limiterVars /\ route[r] = None
    BY DEF Arrive
  <1>a. PICK what \in Routes[r] : \E q \in Looks(what, 1) :
          route' = [route EXCEPT ![r] = what] /\ Run(r, q, 1)
    BY DEF Arrive
  <1>2. PICK q \in Looks(what, 1) :
          route' = [route EXCEPT ![r] = what] /\ Run(r, q, 1)
    BY <1>a
  <1>3. what \in Route
    BY RoutesAssumption
  <1>4. \A o \in Request : Inside(o)' => Inside(o) /\ o # r /\ visit'[o] = visit[o]
    BY <1>1 DEF InPlace, Inside, limiterVars
  <1>5. 1 \in Nat \ {0}
    OBVIOUS
  <1>6. InPlace'
    BY <1>2, <1>3, <1>4, <1>5, RunPlace
  <1>7. QED
    BY <1>1, <1>6

LEMMA AskStoreStep ==
  ASSUME InPlace, LimiterTypeOK, NEW r \in Request, AskStore(r)
  PROVE  Ask(r) /\ InPlace'
  <1>1. PICK k \in Caller : Lookup(r, Asking(r), k)
    BY DEF AskStore
  <1>2. index[r] # 0 /\ Fresh(r) /\ UNCHANGED <<route, index>>
    BY DEF AskStore, AtStore, gateOnly
  <1>3. Asking(r) \in Store
    BY <1>2, StoresAsked DEF InPlace, Waits, Asking
  <1>4. ~Inside(r)
    BY <1>2 DEF InPlace, Fresh, Inside, Away
  <1>5. /\ visit'[r].store = Asking(r)
        /\ \A o \in Request : o # r => visit'[o] = visit[o]
    BY <1>1 DEF Lookup, LimiterTypeOK
  <1>6. QED
    BY <1>1, <1>2, <1>3, <1>4, <1>5, VisitPlace DEF Ask

LEMMA ReserveTokenStep ==
  ASSUME InPlace, LimiterTypeOK, NEW r \in Request, ReserveToken(r)
  PROVE  Reserve(r) /\ InPlace'
  <1>1. Reserve(r) /\ index[r] # 0 /\ UNCHANGED route
    BY DEF ReserveToken, AtStore
  <1>2. Inside(r) /\ visit[r].store = Asking(r) /\ visit[r] \in Visit
    BY <1>1 DEF Reserve, Inside, InPlace, LimiterTypeOK, Away
  <1>3. /\ \A o \in Request : o # r => visit'[o] = visit[o]
        /\ visit'[r].store = visit[r].store
    BY <1>1, <1>2 DEF Reserve, Move, LimiterTypeOK, Visit
  <1>4. CASE Admitted(r)
    <2>1. PICK q \in Looks(route[r], index[r] + 1) : Run(r, q, index[r] + 1)
      BY <1>4 DEF ReserveToken
    <2>2. route[r] \in Route /\ index[r] + 1 \in Nat \ {0}
      BY <1>1 DEF InPlace, Waits
    <2>3. route' = [route EXCEPT ![r] = route[r]]
      BY <1>1 DEF InPlace
    <2>4. ~Inside(r)'
      BY <1>4 DEF Admitted, Inside
    <2>5. \A o \in Request : Inside(o)' => Inside(o) /\ o # r /\ visit'[o] = visit[o]
      BY <1>3, <2>4 DEF Inside
    <2>6. QED
      BY <1>1, <2>1, <2>2, <2>3, <2>5, RunPlace
  <1>5. CASE ~Admitted(r)
    <2>1. UNCHANGED index
      BY <1>5 DEF ReserveToken
    <2>2. QED
      BY <1>1, <1>2, <1>3, <2>1, VisitPlace
  <1>6. QED
    BY <1>4, <1>5

LEMMA RefuseStep ==
  ASSUME InPlace, LimiterTypeOK, NEW r \in Request, Refuse(r)
  PROVE  Cancel(r) /\ InPlace'
  <1>1. Cancel(r) /\ index' = [index EXCEPT ![r] = 0] /\ UNCHANGED route
    BY DEF Refuse
  <1>2. visit' = [visit EXCEPT ![r].at = "refused"] /\ visit[r] \in Visit
    BY <1>1 DEF Cancel, Move, LimiterTypeOK, Away
  <1>3. ~Inside(r)' /\ \A o \in Request : o # r => visit'[o] = visit[o]
    BY <1>2 DEF Inside, LimiterTypeOK, Visit
  <1>4. \A o \in Request : Inside(o)' => Inside(o) /\ o # r
    BY <1>3 DEF Inside
  <1>5. index'[r] = 0 /\ \A o \in Request : o # r => index'[o] = index[o]
    BY <1>1 DEF InPlace
  <1>6. index' \in [Request -> Nat]
    BY <1>1 DEF InPlace
  <1>7. \A o \in Request : o # r => Asking(o)' = Asking(o) /\ (Waits(o)' <=> Waits(o))
    BY <1>1, <1>5 DEF Asking, Waits
  <1>8. QED
    BY <1>1, <1>3, <1>4, <1>5, <1>6, <1>7 DEF InPlace

-----------------------------------------------------------------------------

LEMMA GateStep ==
  ASSUME IInv, InPlace, [Next]_gateVars
  PROVE  [LimiterNext]_limiterVars /\ InPlace'
  <1>0. LimiterTypeOK
    BY DEF IInv
  <1>1. ASSUME UNCHANGED <<visit, route, index>>
        PROVE  InPlace'
    BY <1>1 DEF InPlace, Inside, Asking, Waits
  <1>2. CASE Start \/ Reject
    BY <1>1, <1>2 DEF Start, Reject, limiterVars, requestVars
  <1>3. ASSUME NEW r \in Request, Handle(r)
        PROVE  [LimiterNext]_limiterVars /\ InPlace'
    <2>1. CASE Arrive(r)
      BY <2>1, ArriveStep
    <2>2. CASE AskStore(r)
      BY <1>0, <2>2, AskStoreStep DEF LimiterNext, Allow
    <2>3. CASE ReserveToken(r)
      BY <1>0, <2>3, ReserveTokenStep DEF LimiterNext, Allow
    <2>4. CASE Refuse(r)
      BY <1>0, <2>4, RefuseStep DEF LimiterNext, Allow
    <2>5. QED
      BY <1>3, <2>1, <2>2, <2>3, <2>4 DEF Handle
  <1>4. CASE Sweep /\ UNCHANGED gateOnly
    BY <1>1, <1>4 DEF Sweep, gateOnly, LimiterNext
  <1>5. CASE Tick /\ UNCHANGED gateOnly
    BY <1>1, <1>5 DEF Tick, gateOnly, LimiterNext
  <1>6. CASE UNCHANGED gateVars
    BY <1>1, <1>6 DEF gateVars, gateOnly, limiterVars
  <1>7. QED
    BY <1>2, <1>3, <1>4, <1>5, <1>6 DEF Next, Done

LEMMA GateInit == Init => LimiterInit /\ IInv /\ InPlace
  BY InitInv DEF Init, LimiterInit, InPlace, Inside, Away

\* However the chains of the routes and the checks in between lead requests to
\* the stores, what happens there is what RateLimiter allows.
THEOREM GateLimits == Spec => LimiterSpec
  <1>1. IInv /\ InPlace /\ [Next]_gateVars => (IInv /\ InPlace)'
    BY GateStep, StepInv
  <1>2. IInv /\ InPlace /\ [Next]_gateVars => [LimiterNext]_limiterVars
    BY GateStep
  <1>3. QED
    BY GateInit, <1>1, <1>2, PTL DEF Spec, LimiterSpec

\* So no caller gets through either limiter of the service faster than its limit,
\* but for what the buckets that were forgotten give.
THEOREM GateNeverOverLimit == Spec => []NeverOverAdmits
  BY GateLimits, NeverOverLimit, PTL

\* Nor is one refused that has a request left, while its reservations do not
\* overlap,
THEOREM GateRefusalsAreJustified == Spec => []RefusalJustified
  BY GateLimits, RefusalsAreJustified, PTL

\* and it finds a token when it comes back a second after Retry-After.
THEOREM GateComeBackWorks == Spec => []ComeBackLater
  BY GateLimits, ComeBackWorks, PTL

-----------------------------------------------------------------------------
(* The configuration.                                                      *)

Safe == config # NotLoaded => ~(Wildcard \in config.origins /\ config.credentials = TRUE)

LEMMA StartIsSafe ==
  ASSUME Start
  PROVE  Safe'
  <1> DEFINE c == InForce(env)
             listed == c["CORS_ALLOWED_ORIGINS"]
  <1>1. ValidateCORS(c) = {}
    BY DEF Start, Problems, Validate
  <1>2. ~(HasWildcard(c) /\ c["CORS_ALLOW_CREDENTIALS"] = TRUE)
    BY <1>1 DEF ValidateCORS, Reported
  <1>3. /\ config'.origins = {listed[i] : i \in DOMAIN listed}
        /\ config'.credentials = c["CORS_ALLOW_CREDENTIALS"]
    BY DEF Start
  <1>4. QED
    BY <1>2, <1>3 DEF Safe, HasWildcard

\* Whatever environment the service starts with, no browser may send credentials
\* to it from an origin its operator did not list by name.
THEOREM NoCredentials == Spec => []NoCredentialsForAnyone
  <1>1. Init => Safe
    BY DEF Init, Safe
  <1>2. Safe /\ [Next]_gateVars => Safe'
    <2> SUFFICES ASSUME Safe, [Next]_gateVars PROVE Safe'
      OBVIOUS
    <2>1. CASE Start
      BY <2>1, StartIsSafe
    <2>2. CASE ~Start
      <3>1. UNCHANGED config
        BY <2>2 DEF Next, Reject, Handle, Arrive, AskStore, ReserveToken, Refuse, Done, gateVars,
           gateOnly
      <3>2. QED
        BY <3>1 DEF Safe
    <2>3. QED
      BY <2>1, <2>2
  <1>3. Safe => NoCredentialsForAnyone
    BY DEF Safe, NoCredentialsForAnyone, CORSHeaders, AllowsOrigin
  <1>4. QED
    BY <1>1, <1>2, <1>3, PTL DEF Spec

-----------------------------------------------------------------------------
(* The starts. A rule looks at the key it reports and, beside it, at keys  *)
(* that no rule reports on their own account: the guards. DATABASE_URL and *)
(* GOOGLE_CLIENT_ID are reported, but for what guards alone hold; only the *)
(* pool's idle connections are measured against a key that is no guard.    *)

Guards == {"APP_NAME", "SERVER_WRITE_TIMEOUT", "DATABASE_URL", "CORS_ALLOW_CREDENTIALS",
           "RATE_LIMIT_ENABLED", "MAIL_DRIVER", "GOOGLE_CLIENT_ID", "GOOGLE_CLIENT_SECRET"}

Idle == "DATABASE_MAX_IDLE_CONNS"
Open == "DATABASE_MAX_OPEN_CONNS"

LEMMA KeyFacts ==
  /\ Guards \subseteq Key /\ Guards \intersect DOMAIN Follows = {}
  /\ Idle \in Key /\ Open \in Key /\ {Idle, Open} \intersect DOMAIN Follows = {}
  /\ {Idle, Open} \intersect Guards = {}
  /\ "CORS_ALLOWED_ORIGINS" \in Key
  BY DEF Guards, Idle, Open, Key, Follows, Durations, Numbers, Booleans, Lists, Texts, Required,
     Optional

\* A value that is read as it stands, or replaced by its key's default.
LEMMA InForceFacts ==
  ASSUME NEW e, NEW k \in Key, k \notin DOMAIN Follows
  PROVE  InForce(e)[k] = IF e[k] = Unset \/ Misread(e, k) THEN DefaultOf(k) ELSE e[k]
  BY DEF InForce

LEMMA MisreadFacts ==
  ASSUME NEW e, NEW f, NEW k, e[k] = f[k]
  PROVE  Misread(e, k) <=> Misread(f, k)
  BY DEF Misread

\* A key that keeps its text keeps its value, if APP_NAME and GO_ENV, which others
\* take for their default, keep theirs.
LEMMA InForceKept ==
  ASSUME NEW e, NEW f, NEW k \in Key, e[k] = f[k],
         k \in DOMAIN Follows => k = "JWT_ISSUER" /\ e["APP_NAME"] = f["APP_NAME"]
  PROVE  InForce(e)[k] = InForce(f)[k]
  <1>1. CASE k \notin DOMAIN Follows
    BY <1>1, InForceFacts, MisreadFacts
  <1>2. CASE k \in DOMAIN Follows
    <2>1. k = "JWT_ISSUER" /\ Follows[k] = "APP_NAME" /\ "APP_NAME" \in Key
      BY <1>2, KeyFacts DEF Follows, Guards
    <2>2. Misread(e, k) <=> Misread(f, k)
      BY MisreadFacts
    <2>3. Misread(e, "APP_NAME") <=> Misread(f, "APP_NAME")
      BY <1>2, MisreadFacts
    <2>4. QED
      BY <1>2, <2>1, <2>2, <2>3 DEF InForce
  <1>3. QED
    BY <1>1, <1>2

\* What a rule says of a key in two configurations that agree on it and the guards.
Agree(c, d, k) == c[k] = d[k] /\ \A g \in Guards : c[g] = d[g]

LEMMA AppKept ==
  ASSUME NEW c, NEW d, NEW k, Agree(c, d, k), k \in ValidateApp(d)
  PROVE  k \in ValidateApp(c)
  BY DEF Agree, ValidateApp, ValidateAbsoluteURL, Reported

LEMMA ServerKept ==
  ASSUME NEW c, NEW d, NEW k, Agree(c, d, k), k \in ValidateServer(d)
  PROVE  k \in ValidateServer(c)
  BY DEF Agree, Guards, ValidateServer, Reported

LEMMA DatabaseKept ==
  ASSUME NEW c, NEW d, NEW k, Agree(c, d, k), k \in ValidateDatabase(d),
         k = Idle => c[Open] = d[Open]
  PROVE  k \in ValidateDatabase(c)
  BY DEF Agree, Guards, ValidateDatabase, Reported, Idle, Open

LEMMA AuthKept ==
  ASSUME NEW c, NEW d, NEW k, Agree(c, d, k), k \in ValidateAuth(d)
  PROVE  k \in ValidateAuth(c)
  BY DEF Agree, ValidateAuth, ValidateSecret, Reported

LEMMA CORSKept ==
  ASSUME NEW c, NEW d, NEW k, Agree(c, d, k), k \in ValidateCORS(d)
  PROVE  k \in ValidateCORS(c)
  BY DEF Agree, Guards, ValidateCORS, HasWildcard, Reported

LEMMA RateLimitKept ==
  ASSUME NEW c, NEW d, NEW k, Agree(c, d, k), k \in ValidateRateLimit(d)
  PROVE  k \in ValidateRateLimit(c)
  BY DEF Agree, Guards, ValidateRateLimit, NotPositive, Reported

LEMMA MailKept ==
  ASSUME NEW c, NEW d, NEW k, Agree(c, d, k), k \in ValidateMail(d)
  PROVE  k \in ValidateMail(c)
  BY DEF Agree, Guards, ValidateMail, Reported

LEMMA IntegrationsKept ==
  ASSUME NEW c, NEW d, NEW k, Agree(c, d, k), k \in ValidateIntegrations(d)
  PROVE  k \in ValidateIntegrations(c)
  BY DEF Agree, Guards, ValidateIntegrations, ValidateAbsoluteURL, Reported

LEMMA ValidateKept ==
  ASSUME NEW c, NEW d, NEW k, Agree(c, d, k), k \in Validate(d), k = Idle => c[Open] = d[Open]
  PROVE  k \in Validate(c)
  BY AppKept, ServerKept, DatabaseKept, AuthKept, CORSKept, RateLimitKept, MailKept,
     IntegrationsKept DEF Validate

\* The keys that rules report, and which of them are guards.
LEMMA ReportedKeys ==
  ASSUME NEW c, NEW k \in Validate(c)
  PROVE  /\ k \in Key
         /\ k \in DOMAIN Follows => k = "JWT_ISSUER"
         /\ k \in Guards => k \in {"DATABASE_URL", "GOOGLE_CLIENT_ID"}
  <1> USE DEF Key, Follows, Durations, Numbers, Booleans, Lists, Texts, Required, Optional, Guards,
              Reported
  <1>1. CASE k \in ValidateApp(c) \union ValidateServer(c)
    BY <1>1 DEF ValidateApp, ValidateServer, ValidateAbsoluteURL
  <1>2. CASE k \in ValidateDatabase(c)
    BY <1>2 DEF ValidateDatabase
  <1>3. CASE k \in ValidateAuth(c) \union ValidateCORS(c)
    BY <1>3 DEF ValidateAuth, ValidateSecret, ValidateCORS
  <1>4. CASE k \in ValidateRateLimit(c) \union ValidateMail(c)
    BY <1>4 DEF ValidateRateLimit, ValidateMail
  <1>5. CASE k \in ValidateIntegrations(c)
    BY <1>5 DEF ValidateIntegrations, ValidateAbsoluteURL
  <1>6. QED
    BY <1>1, <1>2, <1>3, <1>4, <1>5 DEF Validate

\* The guards that are reported are reported for what they and guards hold.
LEMMA DatabaseURLRule ==
  ASSUME NEW c, NEW d, c["DATABASE_URL"] = d["DATABASE_URL"], "DATABASE_URL" \in Validate(d)
  PROVE  "DATABASE_URL" \in Validate(c)
  <1>1. "DATABASE_URL" \in ValidateDatabase(d)
    BY DEF Validate, ValidateApp, ValidateServer, ValidateAuth, ValidateSecret, ValidateCORS,
           ValidateRateLimit, ValidateMail, ValidateIntegrations, ValidateAbsoluteURL, Reported
  <1>2. "DATABASE_URL" \in ValidateDatabase(c)
    BY <1>1 DEF ValidateDatabase, Reported
  <1>3. QED
    BY <1>2 DEF Validate

LEMMA GoogleClientRule ==
  ASSUME NEW c, NEW d, c["GOOGLE_CLIENT_ID"] = d["GOOGLE_CLIENT_ID"],
         c["GOOGLE_CLIENT_SECRET"] = d["GOOGLE_CLIENT_SECRET"],
         "GOOGLE_CLIENT_ID" \in Validate(d)
  PROVE  "GOOGLE_CLIENT_ID" \in Validate(c)
  <1>1. "GOOGLE_CLIENT_ID" \in ValidateIntegrations(d)
    <2>1. "GOOGLE_CLIENT_ID" \notin ValidateDatabase(d)
      BY DEF ValidateDatabase, Reported
    <2>2. QED
      BY <2>1 DEF Validate, ValidateApp, ValidateServer, ValidateAuth, ValidateSecret,
                  ValidateCORS, ValidateRateLimit, ValidateMail, ValidateAbsoluteURL, Reported
  <1>2. (d["GOOGLE_CLIENT_ID"] # Unset) # (d["GOOGLE_CLIENT_SECRET"] # Unset)
    BY <1>1 DEF ValidateIntegrations, ValidateAbsoluteURL, Reported
  <1>3. "GOOGLE_CLIENT_ID" \in ValidateIntegrations(c)
    BY <1>2 DEF ValidateIntegrations, Reported
  <1>4. QED
    BY <1>3 DEF Validate

\* The pool's rule, of an operator who had to raise the number of connections
\* and was not told of the idle ones.
LEMMA PoolRule ==
  ASSUME NEW c, NEW d, c["DATABASE_URL"] = d["DATABASE_URL"], c[Idle] = d[Idle],
         c[Idle] \in Int, c[Open] \in Int, d[Open] \in Int,
         Open \in Validate(c), Idle \notin Validate(c), Open \notin Validate(d)
  PROVE  Idle \notin Validate(d)
  <1> USE DEF Idle, Open
  <1>1. /\ Open \in ValidateDatabase(c)
        /\ Idle \notin ValidateDatabase(c) /\ Open \notin ValidateDatabase(d)
    BY DEF Validate, ValidateApp, ValidateServer, ValidateAuth, ValidateSecret, ValidateCORS,
           ValidateRateLimit, ValidateMail, ValidateIntegrations, ValidateAbsoluteURL, Reported
  <1>2. Idle \notin ValidateDatabase(d)
    BY <1>1 DEF ValidateDatabase, Reported
  <1>3. QED
    BY <1>2 DEF Validate, ValidateApp, ValidateServer, ValidateAuth, ValidateSecret, ValidateCORS,
                ValidateRateLimit, ValidateMail, ValidateIntegrations, ValidateAbsoluteURL, Reported

\* Nothing is left to report but what other keys' values made a rule report.
Settled(e) ==
    /\ \A k \in Key : ~Misread(e, k)
    /\ Problems(e) \intersect Guards = {}

LEMMA Unreported ==
  ASSUME NEW e, NEW fixed, Corrected(e, Problems(e), fixed), NEW k \in Problems(fixed), k \in Key
  PROVE  fixed[k] = e[k] /\ k \notin Problems(e)
  BY DEF Corrected

LEMMA FirstCorrection ==
  ASSUME NEW e, NEW fixed, \A k \in Key : Readable(k, e[k]), Corrected(e, Problems(e), fixed)
  PROVE  Settled(fixed)
  <1>1. ASSUME NEW k \in Key, Misread(fixed, k)
        PROVE  FALSE
    <2>1. k \in Problems(fixed)
      BY <1>1 DEF Problems
    <2>2. fixed[k] = e[k] /\ k \notin Problems(e)
      BY <2>1, Unreported
    <2>3. QED
      BY <1>1, <2>2, MisreadFacts DEF Problems
  <1>2. ASSUME NEW k \in Guards, k \in Problems(fixed)
        PROVE  FALSE
    <2>1. k \in Key /\ k \notin DOMAIN Follows
      BY KeyFacts
    <2>2. k \in Validate(InForce(fixed))
      BY <1>1, <1>2, <2>1 DEF Problems
    <2>3. fixed[k] = e[k] /\ k \notin Validate(InForce(e))
      BY <1>2, <2>1, Unreported DEF Problems
    <2>4. InForce(fixed)[k] = InForce(e)[k]
      BY <2>1, <2>3, InForceKept
    <2>5. CASE k = "DATABASE_URL"
      BY <2>2, <2>3, <2>4, <2>5, DatabaseURLRule
    <2>6. CASE k = "GOOGLE_CLIENT_ID"
      <3> DEFINE secret == "GOOGLE_CLIENT_SECRET"
      <3>1. secret \in Key /\ secret \notin DOMAIN Follows /\ secret \in Guards
        BY KeyFacts DEF Guards
      <3>2. secret \notin Validate(InForce(e))
        BY <3>1, ReportedKeys
      <3>3. ~Misread(e, secret)
        BY <3>1 DEF Readable, Misread, Required, Allowed, Durations, Numbers, Booleans
      <3>4. fixed[secret] = e[secret]
        BY <3>1, <3>2, <3>3 DEF Corrected, Problems
      <3>5. InForce(fixed)[secret] = InForce(e)[secret]
        BY <3>1, <3>4, InForceKept
      <3>6. QED
        BY <2>2, <2>3, <2>4, <2>6, <3>5, GoogleClientRule
    <2>7. QED
      BY <1>2, <2>2, <2>5, <2>6, ReportedKeys
  <1>3. QED
    BY <1>1, <1>2 DEF Settled

LEMMA PoolNumbers ==
  ASSUME NEW e, \A k \in Key : Readable(k, e[k]), NEW k \in {Idle, Open}
  PROVE  InForce(e)[k] \in Int
  <1>1. k \in Key /\ k \notin DOMAIN Follows /\ k \in DOMAIN Numbers /\ k \notin Floats
    BY KeyFacts DEF Idle, Open, Numbers, Floats
  <1>2. DefaultOf(k) \in Int
    <2>1. k \notin DOMAIN Durations /\ Numbers[k] \in Int
      BY DEF Idle, Open, Numbers, Durations
    <2>2. k \notin DOMAIN Booleans \union DOMAIN Lists \union DOMAIN Texts
      BY DEF Idle, Open, Booleans, Lists, Texts
    <2>3. DefaultOf(k) = Numbers[k]
      BY <1>1, <2>1, <2>2 DEF DefaultOf
    <2>4. QED
      BY <2>1, <2>3
  <1>3. e[k] \in {Unset, Malformed} \union Int
    BY <1>1 DEF Readable
  <1>4. e[k] = Malformed => Misread(e, k)
    BY DEF Misread
  <1>5. QED
    BY <1>1, <1>2, <1>3, <1>4, InForceFacts

LEMMA SecondCorrection ==
  ASSUME NEW e, NEW fixed, Settled(e), Corrected(e, Problems(e), fixed),
         \A k \in Key : Readable(k, e[k]) /\ Readable(k, fixed[k])
  PROVE  Problems(fixed) = {}
  <1> DEFINE c == InForce(e)
             d == InForce(fixed)
  <1> SUFFICES ASSUME NEW k \in Problems(fixed)
               PROVE  FALSE
    OBVIOUS
  <1>1. k \in Key
    BY ReportedKeys DEF Problems
  <1>2. fixed[k] = e[k] /\ k \notin Problems(e)
    BY <1>1, Unreported
  <1>3. k \in Validate(d) /\ k \notin Validate(c)
    <2>1. ~Misread(fixed, k)
      BY <1>1, <1>2, MisreadFacts DEF Settled
    <2>2. QED
      BY <1>2, <2>1 DEF Problems
  <1>4. \A g \in Guards : fixed[g] = e[g]
    BY KeyFacts DEF Settled, Corrected
  <1>5. \A g \in Guards : c[g] = d[g]
    BY <1>4, KeyFacts, InForceKept
  <1>6. c[k] = d[k]
    <2>1. k \in DOMAIN Follows => k = "JWT_ISSUER" /\ e["APP_NAME"] = fixed["APP_NAME"]
      BY <1>3, <1>4, ReportedKeys DEF Guards
    <2>2. QED
      BY <1>1, <1>2, <2>1, InForceKept
  <1>7. CASE k = Idle => c[Open] = d[Open]
    BY <1>3, <1>5, <1>6, <1>7, ValidateKept DEF Agree
  <1>8. CASE k = Idle /\ c[Open] # d[Open]
    <2>1. fixed[Open] # e[Open]
      BY <1>8, KeyFacts, InForceKept
    <2>2. Open \in Problems(e) /\ Open \notin Problems(fixed)
      BY <2>1, KeyFacts DEF Corrected
    <2>3. Open \in Validate(c) /\ Open \notin Validate(d)
      BY <2>2, KeyFacts DEF Problems, Settled
    <2>4. c[Idle] \in Int /\ c[Open] \in Int /\ d[Open] \in Int
      BY PoolNumbers
    <2>5. c["DATABASE_URL"] = d["DATABASE_URL"]
      BY <1>5 DEF Guards
    <2> HIDE DEF c, d
    <2>6. QED
      BY <1>3, <1>6, <1>8, <2>3, <2>4, <2>5, PoolRule
  <1>9. QED
    BY <1>7, <1>8

\* What is known of the environment while nothing has been accepted, and of what
\* was accepted.
Starting ==
    /\ config \in Kept \union {NotLoaded}
    /\ rejections \in 0..2
    /\ config = NotLoaded =>
          /\ \A k \in Key : Readable(k, env[k])
          /\ rejections >= 1 => Settled(env)
          /\ rejections >= 2 => Problems(env) = {}

LEMMA StartKept ==
  ASSUME Start, \A k \in Key : Readable(k, env[k])
  PROVE  config' \in Kept
  <1> DEFINE c == InForce(env)
             listed == c["CORS_ALLOWED_ORIGINS"]
             origins == {listed[i] : i \in DOMAIN listed}
  <1>1. Problems(env) = {}
    BY DEF Start
  <1>2. \A k \in Key : ~Misread(env, k)
    BY <1>1 DEF Problems
  <1>3. ASSUME NEW k \in {"CORS_ALLOW_CREDENTIALS", "RATE_LIMIT_ENABLED"}
        PROVE  c[k] \in BOOLEAN
    <2>1. k \in Key /\ k \notin DOMAIN Follows /\ k \in DOMAIN Booleans
      BY KeyFacts DEF Guards, Booleans
    <2>2. k \notin DOMAIN Durations \union DOMAIN Numbers \union DOMAIN Lists \union DOMAIN Texts
      BY DEF Durations, Numbers, Lists, Texts
    <2>3. DefaultOf(k) \in BOOLEAN
      <3>1. DefaultOf(k) = Booleans[k]
        BY <2>1, <2>2 DEF DefaultOf
      <3>2. Booleans[k] = TRUE
        BY DEF Booleans
      <3>3. QED
        BY <3>1, <3>2
    <2>4. env[k] \in {Unset, Malformed} \union BOOLEAN
      BY <2>1 DEF Readable
    <2>5. env[k] # Malformed
      BY <1>2, <2>1 DEF Misread
    <2>6. QED
      BY <1>2, <2>1, <2>3, <2>4, <2>5, InForceFacts
  <1>4. listed \in Seq(Origin \union {Wildcard, "with_path"})
    <2> DEFINE k == "CORS_ALLOWED_ORIGINS"
    <2>1. k \in Key /\ k \notin DOMAIN Follows
      BY KeyFacts DEF Follows
    <2>2. DefaultOf(k) = <<>>
      <3>1. k \notin DOMAIN Durations \union DOMAIN Numbers \union DOMAIN Booleans
                       \union DOMAIN Texts
        BY DEF Durations, Numbers, Booleans, Texts
      <3>2. k \in DOMAIN Lists /\ Lists[k] = <<>>
        BY DEF Lists
      <3>3. QED
        BY <3>1, <3>2 DEF DefaultOf
    <2>3. env[k] = Unset \/ env[k] \in Seq(Origin \union {Wildcard, "with_path"})
      BY <2>1 DEF Readable
    <2>4. listed = IF env[k] = Unset THEN <<>> ELSE env[k]
      BY <1>2, <2>1, <2>2, InForceFacts
    <2>5. <<>> \in Seq(Origin \union {Wildcard, "with_path"})
      OBVIOUS
    <2>6. QED
      BY <2>3, <2>4, <2>5
  <1>5. \A i \in DOMAIN listed : listed[i] # "with_path"
    BY <1>1 DEF Problems, Validate, ValidateCORS, Reported
  <1>6. config' = [origins |-> origins, credentials |-> c["CORS_ALLOW_CREDENTIALS"],
                   limited |-> c["RATE_LIMIT_ENABLED"]]
    BY DEF Start
  <1>7. c["CORS_ALLOW_CREDENTIALS"] \in BOOLEAN /\ c["RATE_LIMIT_ENABLED"] \in BOOLEAN
    BY <1>3
  <1> HIDE DEF c
  <1>8. origins \in SUBSET (Origin \union {Wildcard})
    BY <1>4, <1>5
  <1> HIDE DEF origins
  <1>9. QED
    BY <1>6, <1>7, <1>8 DEF Kept

LEMMA CorrectedFacts ==
  ASSUME NEW e, NEW fixed \in Corrections(e), \A k \in Key : Readable(k, e[k])
  PROVE  /\ Corrected(e, Problems(e), fixed)
         /\ \A k \in Key : Readable(k, fixed[k])
  <1>1. Corrected(e, Problems(e), fixed)
    BY DEF Corrections
  <1>2. QED
    BY <1>1, EnvironmentAssumption DEF Corrected

LEMMA StartingStep ==
  ASSUME Starting, [Next]_gateVars
  PROVE  Starting'
  <1> USE DEF Starting
  <1>1. CASE Start
    <2>1. config' \in Kept /\ rejections' = rejections
      BY <1>1, StartKept DEF Start
    <2>2. QED
      BY <2>1, NotLoadedAssumption
  <1>2. CASE Reject
    <2>1. /\ config = NotLoaded /\ config' = config /\ Problems(env) # {}
          /\ rejections' = rejections + 1 /\ env' \in Corrections(env)
      BY <1>2 DEF Reject
    <2>2. \A k \in Key : Readable(k, env[k])
      BY <2>1
    <2>3. PICK fixed \in Corrections(env) : fixed = env'
      BY <2>1
    <2>4. Corrected(env, Problems(env), fixed) /\ \A k \in Key : Readable(k, fixed[k])
      BY <2>2, CorrectedFacts
    <2>5. rejections \in {0, 1}
      BY <2>1
    <2>6. CASE rejections = 0
      <3>1. Settled(fixed)
        BY <2>2, <2>4, FirstCorrection
      <3>2. Settled(env)'
        BY <2>3, <3>1 DEF Settled, Problems, Misread, InForce
      <3>3. (\A k \in Key : Readable(k, env[k]))'
        BY <2>3, <2>4 DEF Readable
      <3>4. rejections' = 1
        BY <2>1, <2>6
      <3>5. QED
        BY <2>1, <3>2, <3>3, <3>4
    <2>7. CASE rejections = 1
      <3>1. Settled(env)
        BY <2>1, <2>7
      <3>2. Problems(fixed) = {} /\ Settled(fixed)
        BY <2>2, <2>4, <3>1, FirstCorrection, SecondCorrection
      <3>3. (Settled(env) /\ Problems(env) = {})'
        BY <2>3, <3>2 DEF Settled, Problems, Misread, InForce
      <3>4. (\A k \in Key : Readable(k, env[k]))'
        BY <2>3, <2>4 DEF Readable
      <3>5. rejections' = 2
        BY <2>1, <2>7
      <3>6. QED
        BY <2>1, <3>3, <3>4, <3>5
    <2>8. QED
      BY <2>5, <2>6, <2>7
  <1>3. CASE ~(Start \/ Reject)
    <2>1. UNCHANGED <<env, rejections, config>>
      BY <1>3 DEF Next, Handle, Arrive, AskStore, ReserveToken, Refuse, Done, gateVars, gateOnly
    <2>2. CASE config # NotLoaded
      BY <2>1, <2>2
    <2>3. CASE config = NotLoaded
      <3>1. PICK e : e = env
        OBVIOUS
      <3>2. e = env'
        BY <2>1, <3>1
      <3>3. \A k \in Key : Readable(k, e[k])
        BY <2>3, <3>1
      <3>4. (\A k \in Key : Readable(k, env[k]))'
        BY <3>2, <3>3 DEF Readable
      <3>5. rejections >= 1 => Settled(env)'
        <4>1. rejections >= 1 => Settled(e)
          BY <2>3, <3>1 DEF Settled, Problems, Misread, InForce
        <4>2. QED
          BY <3>2, <4>1 DEF Settled, Problems, Misread, InForce
      <3>6. rejections >= 2 => (Problems(env) = {})'
        <4>1. rejections >= 2 => Problems(e) = {}
          BY <2>3, <3>1 DEF Problems, Misread, InForce
        <4>2. QED
          BY <3>2, <4>1 DEF Problems, Misread, InForce
      <3>7. QED
        BY <2>1, <3>4, <3>5, <3>6
    <2>4. QED
      BY <2>2, <2>3
  <1>4. QED
    BY <1>1, <1>2, <1>3

LEMMA StartingInit == Init => Starting
  BY EnvironmentAssumption DEF Init, Starting

\* From any environment, whatever it takes for each key to be right and whatever
\* an operator sets it to, the third start at the latest is accepted.
THEOREM RefusedTwiceAtMost == Spec => []ThirdStartSucceeds
  <1>1. Starting => ThirdStartSucceeds
    BY DEF Starting, ThirdStartSucceeds
  <1>2. QED
    BY StartingInit, StartingStep, <1>1, PTL DEF Spec

-----------------------------------------------------------------------------
(* The seeded roles.                                                       *)

LEMMA OpensFacts ==
  ASSUME NEW role \in Role, NEW slug \in Slug
  PROVE  Opens(role, slug) <=> role \in Intended(slug)
  <1>1. role \in {"SUPER_ADMIN", "ADMIN", "MANAGER", "USER"}
    BY DEF Role, HierarchyLevel
  <1>2. RequiredLevel(slug) = IF slug \in ReadSlugs THEN 20 ELSE 10
    BY DEF RequiredLevel, HierarchyLevel
  <1>3. CASE role = "SUPER_ADMIN"
    BY <1>3 DEF Opens, Intended, HierarchyLevel, SuperAdminLevel
  <1>4. CASE role = "ADMIN"
    BY <1>2, <1>4 DEF Opens, Intended, HierarchyLevel, SuperAdminLevel, Grants
  <1>5. CASE role = "MANAGER"
    BY <1>2, <1>5 DEF Opens, Intended, HierarchyLevel, SuperAdminLevel, Grants
  <1>6. CASE role = "USER"
    BY <1>2, <1>6 DEF Opens, Intended, HierarchyLevel, SuperAdminLevel, Grants
  <1>7. QED
    BY <1>1, <1>3, <1>4, <1>5, <1>6

LEMMA VerdictFacts ==
  ASSUME NEW h, NEW q, q.credential \in Credential
  PROVE  /\ Verdict(h, q) \in Answer \union {"next", "limited"}
         /\ Verdict(h, q) = "HANDLED" => h = "handler"
         /\ Verdict(h, q) = "FORBIDDEN" =>
               h = "authorize" /\ q.credential \in Role /\ ~Opens(q.credential, q.route)
  <1>1. Authenticate(q) \in Answer \union {"next"} /\ Authenticate(q) \notin {"HANDLED", "FORBIDDEN"}
    BY DEF Authenticate, Credential, Refusal, Answer
  <1>2. CORS(q) \in Answer \union {"next"} /\ CORS(q) \notin {"HANDLED", "FORBIDDEN"}
    BY DEF CORS, Answer
  <1>3. /\ BodyLimit(q) \in Answer \union {"next"} /\ BodyLimit(q) \notin {"HANDLED", "FORBIDDEN"}
        /\ Enforce(q) \in {"next", "limited"}
    BY DEF BodyLimit, Enforce, Answer
  <1>4. Authorize(q) \in Answer \union {"next"} /\ Authorize(q) # "HANDLED"
    BY DEF Authorize, Answer, Refusal
  <1>5. Authorize(q) = "FORBIDDEN" => q.credential \in Role /\ ~Opens(q.credential, q.route)
    BY DEF Authorize
  <1>6. {"HANDLED", "METHOD_NOT_ALLOWED", "NOT_FOUND"} \subseteq Answer
    BY DEF Answer
  <1>7. QED
    BY <1>1, <1>2, <1>3, <1>4, <1>5, <1>6 DEF Verdict

LEMMA SlugChain ==
  ASSUME NEW slug \in Slug
  PROVE  /\ Len(Chain(slug)) = 6
         /\ Chain(slug)[1] = "cors" /\ Chain(slug)[2] = "body_limit"
         /\ Chain(slug)[3] = "rate_limit" /\ Chain(slug)[4] = "jwt"
         /\ Chain(slug)[5] = "authorize" /\ Chain(slug)[6] = "handler"
  <1>1. Group(slug) = <<"jwt", "authorize", "handler">>
    BY DEF Group, Slug, ReadSlugs, WriteSlugs
  <1> DEFINE group == Group(slug)
  <1>2. Len(group) = 3 /\ group[1] = "jwt" /\ group[2] = "authorize" /\ group[3] = "handler"
    BY <1>1
  <1>3. Global[1] = "cors" /\ Global[2] = "body_limit" /\ Global[3] = "rate_limit"
    BY DEF Global
  <1> HIDE DEF group
  <1>4. /\ Len(Chain(slug)) = 3 + Len(group)
        /\ \A i \in 1..Len(Chain(slug)) :
              Chain(slug)[i] = IF i <= 3 THEN Global[i] ELSE group[i - 3]
    BY ChainFacts DEF group
  <1>5. QED
    BY <1>2, <1>3, <1>4

\* What a request for a gated route is answered with, if it is answered.
LEMMA RunAnswers ==
  ASSUME NEW r \in Request, NEW what, NEW from \in Nat \ {0}, NEW q \in Looks(what, from),
         Run(r, q, from),
         answer \in [Request -> Answer \union {None}],
         claims \in [Request -> Role \union {None}]
  PROVE  /\ answer' \in [Request -> Answer \union {None}]
         /\ claims' \in [Request -> Role \union {None}]
         /\ \A o \in Request : o # r => answer'[o] = answer[o] /\ claims'[o] = claims[o]
         /\ what \in Slug /\ from <= 5 =>
               \/ answer'[r] = answer[r] /\ claims'[r] = claims[r]
               \/ /\ answer'[r] = "HANDLED" => claims'[r] \in Intended(what)
                  /\ answer'[r] = "FORBIDDEN" => claims'[r] \notin Intended(what)
  <1>1. q.route = what /\ q.credential \in Credential
    BY LooksFacts
  <1>2. PICK stop \in from..Len(Chain(what)) :
          /\ Verdict(Chain(what)[stop], q) # "next"
          /\ \A i \in from..(stop - 1) : Verdict(Chain(what)[i], q) = "next"
          /\ IF Verdict(Chain(what)[stop], q) = "limited"
               THEN UNCHANGED <<claims, answer>>
               ELSE /\ answer' = [answer EXCEPT ![r] = Verdict(Chain(what)[stop], q)]
                    /\ claims' = [claims EXCEPT ![r] = IF q.credential \in Role
                                                         THEN q.credential ELSE @]
    BY <1>1 DEF Run
  <1> DEFINE v == Verdict(Chain(what)[stop], q)
  <1>3. CASE v = "limited"
    BY <1>2, <1>3
  <1>4. CASE v # "limited"
    <2>1. v \in Answer
      BY <1>1, <1>2, <1>4, VerdictFacts
    <2>2. /\ answer' = [answer EXCEPT ![r] = v]
          /\ claims' = [claims EXCEPT ![r] = IF q.credential \in Role THEN q.credential ELSE @]
      BY <1>2, <1>4
    <2>3. ASSUME what \in Slug, from <= 5, v = "HANDLED"
          PROVE  q.credential \in Intended(what) /\ q.credential \in Role
      <3>1. Chain(what)[stop] = "handler"
        BY <1>1, <2>3, VerdictFacts
      <3>2. stop = 6
        BY <1>2, <2>3, <3>1, SlugChain
      <3>3. Authorize(q) = "next"
        <4>1. Verdict("authorize", q) = "next"
          BY <1>2, <2>3, <3>2, SlugChain
        <4>2. QED
          BY <4>1 DEF Verdict
      <3>4. q.credential \in Role /\ Opens(q.credential, what)
        BY <1>1, <3>3 DEF Authorize
      <3>5. QED
        BY <2>3, <3>4, OpensFacts
    <2>4. ASSUME what \in Slug, v = "FORBIDDEN"
          PROVE  q.credential \notin Intended(what) /\ q.credential \in Role
      BY <1>1, <2>4, VerdictFacts, OpensFacts
    <2> HIDE DEF v
    <2>5. answer'[r] = v /\ (q.credential \in Role => claims'[r] = q.credential)
      BY <2>2
    <2>6. QED
      BY <2>1, <2>2, <2>3, <2>4, <2>5
  <1>5. QED
    BY <1>3, <1>4

\* What has not been answered yet, beside what has.
Answered ==
    /\ answer \in [Request -> Answer \union {None}]
    /\ claims \in [Request -> Role \union {None}]
    /\ \A r \in Request : route[r] = None \/ index[r] # 0 => answer[r] = None
    /\ SeededAccess

LEMMA RunAnswered ==
  ASSUME Answered, InPlace, NEW r \in Request, NEW what \in Route, NEW from \in Nat \ {0},
         NEW q \in Looks(what, from), Run(r, q, from),
         route' = [route EXCEPT ![r] = what],
         what \in Slug => from <= 5, answer[r] = None
  PROVE  Answered'
  <1> USE DEF Answered
  <1>1. /\ answer' \in [Request -> Answer \union {None}]
        /\ claims' \in [Request -> Role \union {None}]
        /\ \A o \in Request : o # r => answer'[o] = answer[o] /\ claims'[o] = claims[o]
        /\ what \in Slug =>
               \/ answer'[r] = answer[r] /\ claims'[r] = claims[r]
               \/ /\ answer'[r] = "HANDLED" => claims'[r] \in Intended(what)
                  /\ answer'[r] = "FORBIDDEN" => claims'[r] \notin Intended(what)
    BY RunAnswers
  <1>2. /\ route'[r] = what /\ what # None
        /\ \A o \in Request : o # r => route'[o] = route[o]
    BY RoutesAssumption DEF InPlace
  <1>3. /\ \A o \in Request : o # r => index'[o] = index[o]
        /\ index'[r] # 0 => answer'[r] = None
    <2>1. /\ \A o \in Request : o # r => index'[o] = index[o]
          /\ index'[r] = 0 \/ UNCHANGED answer
      BY DEF Run, InPlace
    <2>2. QED
      BY <2>1
  <1>4. \A o \in Request : (route[o] = None \/ index[o] # 0 => answer[o] = None)'
    BY <1>1, <1>2, <1>3
  <1>5. SeededAccess'
    <2> SUFFICES ASSUME NEW o \in Request, route'[o] \in Slug
                 PROVE  /\ answer'[o] = "HANDLED" => claims'[o] \in Intended(route'[o])
                        /\ answer'[o] = "FORBIDDEN" => claims'[o] \notin Intended(route'[o])
      BY DEF SeededAccess, Handled, Intended
    <2>1. CASE o = r
      <3>1. None # "HANDLED" /\ None # "FORBIDDEN"
        BY AnswerAssumption DEF Answer
      <3>2. QED
        BY <1>1, <1>2, <2>1, <3>1
    <2>2. CASE o # r
      BY <1>1, <1>2, <2>2 DEF SeededAccess, Handled
    <2>3. QED
      BY <2>1, <2>2
  <1>6. QED
    BY <1>1, <1>4, <1>5

LEMMA AnsweredStep ==
  ASSUME Answered, InPlace, [Next]_gateVars
  PROVE  Answered'
  <1> USE DEF Answered
  <1>1. ASSUME UNCHANGED <<route, index, claims, answer>>
        PROVE  Answered'
    BY <1>1 DEF SeededAccess, Handled
  <1>2. ASSUME NEW r \in Request, Arrive(r)
        PROVE  Answered'
    <2>1. PICK what \in Routes[r] : \E q \in Looks(what, 1) :
            route' = [route EXCEPT ![r] = what] /\ Run(r, q, 1)
      BY <1>2 DEF Arrive
    <2>2. PICK q \in Looks(what, 1) : route' = [route EXCEPT ![r] = what] /\ Run(r, q, 1)
      BY <2>1
    <2>3. what \in Route /\ answer[r] = None /\ 1 \in Nat \ {0} /\ 1 <= 5
      BY <1>2, RoutesAssumption DEF Arrive
    <2>4. QED
      BY <2>2, <2>3, RunAnswered
  <1>3. ASSUME NEW r \in Request, AskStore(r)
        PROVE  Answered'
    BY <1>1, <1>3 DEF AskStore, gateOnly
  <1>4. ASSUME NEW r \in Request, ReserveToken(r)
        PROVE  Answered'
    <2>1. UNCHANGED route /\ index[r] # 0
      BY <1>4 DEF ReserveToken, AtStore
    <2>2. CASE Admitted(r)
      <3>1. PICK q \in Looks(route[r], index[r] + 1) : Run(r, q, index[r] + 1)
        BY <1>4, <2>2 DEF ReserveToken
      <3>2. route[r] \in Route /\ index[r] + 1 \in Nat \ {0} /\ Waits(r)
        BY <2>1 DEF InPlace, Waits
      <3>3. route' = [route EXCEPT ![r] = route[r]] /\ answer[r] = None
        BY <2>1 DEF InPlace
      <3>4. ASSUME route[r] \in Slug
            PROVE  index[r] + 1 <= 5
        <4>1. index[r] \in 1..Len(Chain(route[r])) /\ Len(Chain(route[r])) = 6
          <5>1. Len(Chain(route[r])) = 6
            BY <3>4, SlugChain
          <5>2. DOMAIN Chain(route[r]) = 1..Len(Chain(route[r]))
            BY ChainFacts
          <5>3. index[r] \in DOMAIN Chain(route[r])
            BY <3>2 DEF Waits
          <5>4. QED
            BY <5>1, <5>2, <5>3
        <4>2. Chain(route[r])[index[r]] \notin {"authorize", "handler"}
          BY <3>2 DEF Waits, StoreOf
        <4>3. index[r] # 5 /\ index[r] # 6
          BY <3>4, <4>2, SlugChain
        <4>4. QED
          BY <4>1, <4>3
      <3>5. QED
        BY <3>1, <3>2, <3>3, <3>4, RunAnswered
    <2>3. CASE ~Admitted(r)
      BY <1>1, <1>4, <2>1, <2>3 DEF ReserveToken
    <2>4. QED
      BY <2>2, <2>3
  <1>5. ASSUME NEW r \in Request, Refuse(r)
        PROVE  Answered'
    <2>1. /\ index' = [index EXCEPT ![r] = 0] /\ index[r] # 0
          /\ answer' = [answer EXCEPT ![r] = "RATE_LIMITED"] /\ UNCHANGED <<route, claims>>
      BY <1>5 DEF Refuse, AtStore
    <2>2. route[r] # None /\ "RATE_LIMITED" \in Answer
      BY <2>1, RoutesAssumption DEF InPlace, Answer
    <2>3. /\ answer'[r] = "RATE_LIMITED"
          /\ \A o \in Request : o # r => answer'[o] = answer[o] /\ index'[o] = index[o]
      BY <2>1 DEF InPlace
    <2>4. SeededAccess'
      BY <2>1, <2>3 DEF SeededAccess, Handled
    <2>5. QED
      BY <2>1, <2>2, <2>3, <2>4 DEF InPlace
  <1>6. CASE Start \/ Reject
    BY <1>1, <1>6 DEF Start, Reject, requestVars
  <1>7. CASE (Sweep \/ Tick \/ Done) /\ UNCHANGED gateOnly
    BY <1>1, <1>7 DEF gateOnly
  <1>8. CASE UNCHANGED gateVars
    BY <1>1, <1>8 DEF gateVars, gateOnly
  <1>9. QED
    BY <1>2, <1>3, <1>4, <1>5, <1>6, <1>7, <1>8 DEF Next, Handle, Done, gateVars

\* Through whatever routes, credentials and refusals, the seeded roles let in
\* those they are meant for and no one else.
THEOREM AccessAsSeeded == Spec => []SeededAccess
  <1>1. Init => Answered
    BY RoutesAssumption DEF Init, Answered, SeededAccess, Route
  <1>2. IInv /\ InPlace /\ [Next]_gateVars => (IInv /\ InPlace)'
    BY GateStep, StepInv
  <1>3. InPlace /\ Answered /\ [Next]_gateVars => Answered'
    BY AnsweredStep
  <1>4. Answered => SeededAccess
    BY DEF Answered
  <1>5. QED
    BY GateInit, <1>1, <1>2, <1>3, <1>4, PTL DEF Spec

\* Every variable keeps its type, what is accepted of any environment included.
THEOREM GateTypes == Spec => []TypeOK
  <1>1. Init => Answered
    BY RoutesAssumption DEF Init, Answered, SeededAccess, Route
  <1>2. IInv /\ InPlace /\ [Next]_gateVars => (IInv /\ InPlace)'
    BY GateStep, StepInv
  <1>3. InPlace /\ Answered /\ [Next]_gateVars => Answered'
    BY AnsweredStep
  <1>4. Starting /\ [Next]_gateVars => Starting'
    BY StartingStep
  <1>5. IInv /\ InPlace /\ Answered /\ Starting => TypeOK
    BY DEF IInv, InPlace, Answered, Starting, TypeOK
  <1>6. QED
    BY GateInit, StartingInit, <1>1, <1>2, <1>3, <1>4, <1>5, PTL DEF Spec

-----------------------------------------------------------------------------
(* What a request pays. Each token of a store has been taken by a request  *)
(* that passed it, and a request that passed one has gone on behind it.    *)

Limited == config # NotLoaded /\ config.limited

\* A request asks the store of the auth routes after the other one's.
PassedStore(s, r) ==
    /\ visit[r] # Away
    /\ \/ visit[r].store = s /\ visit[r].at = "admitted"
       \/ visit[r].store = "auth" /\ s = "global"

Passed(s) == {r \in Request : PassedStore(s, r)}

\* As many tokens are gone as requests have passed.
Counted == \A s \in Store :
    IsFiniteSet(TokensSpent(s)) /\ Cardinality(TokensSpent(s)) = Cardinality(Passed(s))

\* Where in its chain a request is, by the stores it has been to.
OnItsWay(r) ==
    /\ index[r] # 0 => route[r] # "probe"
    /\ index[r] = 3 => visit[r] = Away \/ (visit[r].store = "global" /\ Inside(r))
    /\ index[r] = 4 => /\ visit[r] # Away
                       /\ visit[r].store = "global" => visit[r].at = "admitted"
                       /\ visit[r].store = "auth" => Inside(r)
    /\ visit[r] # Away => /\ route[r] \notin {"probe", None}
                          /\ ~Preflight(r) /\ answer[r] # "PAYLOAD_TOO_LARGE"
                          /\ visit[r].store = "auth" => route[r] = "auth"
    /\ Limited /\ Handled(r) => \A s \in Owes(r) : PassedStore(s, r)
    /\ config = NotLoaded => route[r] = None

Paid == Counted /\ \A r \in Request : OnItsWay(r)

\* The places of a chain at which a store is asked.
LEMMA StorePlaces ==
  ASSUME NEW what \in Route, NEW i \in DOMAIN Chain(what)
  PROVE  /\ DOMAIN Chain(what) = 1..Len(Chain(what)) /\ Len(Chain(what)) \in Nat
         /\ Len(Chain(what)) >= 4
         /\ i = 3 <=> Chain(what)[i] = "rate_limit"
         /\ i <= 2 => Chain(what)[i] \in {"cors", "body_limit"}
         /\ i = 4 /\ what = "auth" <=> Chain(what)[i] = "auth_rate_limit"
         /\ i >= 4 => Chain(what)[i] \notin {"cors", "body_limit"}
         /\ i = 4 /\ what = "auth" => Chain(what)[i] # "handler"
  <1> DEFINE group == Group(what)
  <1>1. /\ Len(group) \in Nat \ {0}
        /\ \A j \in 1..Len(group) :
             /\ group[j] \notin {"cors", "body_limit", "rate_limit"}
             /\ group[j] = "auth_rate_limit" <=> j = 1 /\ what = "auth"
    <2>1. CASE what = "probe"
      <3>1. group = <<"handler">>
        BY <2>1 DEF Group, Slug, ReadSlugs, WriteSlugs
      <3> HIDE DEF group
      <3>2. QED
        BY <2>1, <3>1
    <2>2. CASE what = "auth"
      <3>1. group = <<"auth_rate_limit", "handler">>
        BY <2>2 DEF Group, Slug, ReadSlugs, WriteSlugs
      <3> HIDE DEF group
      <3>2. QED
        BY <2>2, <3>1
    <2>3. CASE what = "own"
      <3>1. group = <<"jwt", "handler">>
        BY <2>3 DEF Group, Slug, ReadSlugs, WriteSlugs
      <3> HIDE DEF group
      <3>2. QED
        BY <2>3, <3>1
    <2>4. CASE what \in Slug
      <3>1. group = <<"jwt", "authorize", "handler">>
        BY <2>4 DEF Group, Slug, ReadSlugs, WriteSlugs
      <3>2. what # "auth"
        BY <2>4 DEF Slug, ReadSlugs, WriteSlugs
      <3> HIDE DEF group
      <3>3. QED
        BY <3>1, <3>2
    <2>5. CASE what \in {"options", "verb"}
      <3>1. group = <<"no_method">>
        BY <2>5 DEF Group, Slug, ReadSlugs, WriteSlugs
      <3> HIDE DEF group
      <3>2. QED
        BY <2>5, <3>1
    <2>6. CASE what = "stray"
      <3>1. group = <<"no_route">>
        BY <2>6 DEF Group, Slug, ReadSlugs, WriteSlugs
      <3> HIDE DEF group
      <3>2. QED
        BY <2>6, <3>1
    <2>7. QED
      BY <2>1, <2>2, <2>3, <2>4, <2>5, <2>6 DEF Route
  <1>2. Global[1] = "cors" /\ Global[2] = "body_limit" /\ Global[3] = "rate_limit"
    BY DEF Global
  <1>3. /\ Chain(what) \in Seq(Link)
        /\ Len(Chain(what)) = 3 + Len(group)
        /\ \A j \in 1..Len(Chain(what)) :
             Chain(what)[j] = IF j <= 3 THEN Global[j] ELSE group[j - 3]
    BY ChainFacts DEF group
  <1>4. DOMAIN Chain(what) = 1..Len(Chain(what))
    BY <1>3
  <1> HIDE DEF group
  <1>5. i \in Int /\ 1 <= i /\ i <= 3 + Len(group)
    BY <1>1, <1>3, <1>4
  <1>6. CASE i <= 3
    <2>1. i \in {1, 2, 3} /\ Chain(what)[i] = Global[i]
      BY <1>3, <1>4, <1>5, <1>6
    <2>2. QED
      BY <1>1, <1>2, <1>3, <1>4, <2>1
  <1>7. CASE i >= 4
    <2>1. i - 3 \in 1..Len(group) /\ Chain(what)[i] = group[i - 3]
      BY <1>1, <1>3, <1>4, <1>5, <1>7
    <2>2. /\ group[i - 3] \notin {"cors", "body_limit", "rate_limit"}
          /\ group[i - 3] = "auth_rate_limit" <=> i - 3 = 1 /\ what = "auth"
      BY <1>1, <2>1
    <2>3. QED
      BY <1>1, <1>3, <1>4, <1>5, <1>7, <2>1, <2>2
  <1>8. QED
    BY <1>5, <1>6, <1>7

LEMMA PayingVerdicts ==
  ASSUME NEW h, NEW q, q.credential \in Credential
  PROVE  /\ Verdict(h, q) \in {"NO_CONTENT", "ORIGIN_REFUSED"} => h = "cors"
         /\ Verdict(h, q) = "PAYLOAD_TOO_LARGE" => h = "body_limit"
         /\ h \in {"rate_limit", "auth_rate_limit"} =>
               Verdict(h, q) = IF q.route = "probe" \/ ~config.limited THEN "next" ELSE "limited"
  <1>1. Authenticate(q) \notin {"NO_CONTENT", "ORIGIN_REFUSED", "PAYLOAD_TOO_LARGE"}
    BY DEF Authenticate, Credential, Refusal
  <1>2. Authorize(q) \notin {"NO_CONTENT", "ORIGIN_REFUSED", "PAYLOAD_TOO_LARGE"}
    BY DEF Authorize
  <1>3. CORS(q) # "PAYLOAD_TOO_LARGE" /\ BodyLimit(q) \notin {"NO_CONTENT", "ORIGIN_REFUSED"}
    BY DEF CORS, BodyLimit
  <1>4. Enforce(q) = IF q.route = "probe" \/ ~config.limited THEN "next" ELSE "limited"
    BY DEF Enforce, IsProbePath
  <1>5. QED
    BY <1>1, <1>2, <1>3, <1>4 DEF Verdict

\* A request that runs comes to the next store that it has to ask, or is answered;
\* while the limiters are enabled no handler answers it before it has asked.
LEMMA RunPays ==
  ASSUME NEW r \in Request, NEW what \in Route, NEW from \in {1, 4, 5}, NEW q \in Looks(what, from),
         Run(r, q, from), index \in [Request -> Nat], answer \in [Request -> Answer \union {None}]
  PROVE  /\ \A o \in Request : o # r => index'[o] = index[o] /\ answer'[o] = answer[o]
         /\ \/ /\ index'[r] \in {3, 4} /\ index'[r] >= from /\ UNCHANGED answer
               /\ what # "probe" /\ (index'[r] = 4 => what = "auth")
               /\ from = 1 => index'[r] = 3
            \/ /\ index'[r] = 0
               /\ from >= 4 =>
                    answer'[r] \notin {"NO_CONTENT", "ORIGIN_REFUSED", "PAYLOAD_TOO_LARGE"}
               /\ answer'[r] = "HANDLED" /\ config.limited =>
                    /\ from = 1 => what = "probe"
                    /\ from = 4 => what # "auth"
  <1> DEFINE chain == Chain(what)
             v(i) == Verdict(chain[i], q)
  <1>1. q.route = what /\ q.credential \in Credential
    BY LooksFacts
  <1>2. PICK stop \in from..Len(chain) :
          /\ v(stop) # "next"
          /\ \A i \in from..(stop - 1) : v(i) = "next"
          /\ IF v(stop) = "limited"
               THEN /\ index' = [index EXCEPT ![r] = stop]
                    /\ UNCHANGED answer
               ELSE /\ index' = [index EXCEPT ![r] = 0]
                    /\ answer' = [answer EXCEPT ![r] = v(stop)]
    BY <1>1 DEF Run
  <1>3. DOMAIN chain = 1..Len(chain) /\ Len(chain) \in Nat
    BY ChainFacts
  <1>4. stop \in DOMAIN chain /\ stop \in Nat /\ stop >= from
    BY <1>3
  <1>5. v(stop) = "HANDLED" => chain[stop] = "handler"
    BY <1>1, VerdictFacts
  <1>6. ASSUME config.limited, what # "probe", NEW i \in DOMAIN chain,
               chain[i] \in {"rate_limit", "auth_rate_limit"}
        PROVE  v(i) = "limited"
    BY <1>1, <1>6, PayingVerdicts
  <1>7. v(stop) = "limited" => /\ chain[stop] \in {"rate_limit", "auth_rate_limit"}
                               /\ config.limited /\ what # "probe"
    <2>1. v(stop) = "limited" => chain[stop] \in {"rate_limit", "auth_rate_limit"}
      BY <1>1, LimitedFacts DEF StoreOf
    <2>2. QED
      BY <1>1, <2>1, PayingVerdicts
  <1>8. v(stop) \in {"NO_CONTENT", "ORIGIN_REFUSED"} => chain[stop] = "cors"
    BY <1>1, PayingVerdicts
  <1>9. v(stop) = "PAYLOAD_TOO_LARGE" => chain[stop] = "body_limit"
    BY <1>1, PayingVerdicts
  <1>10. \A i \in DOMAIN chain :
           /\ i = 3 <=> chain[i] = "rate_limit"
           /\ i <= 2 => chain[i] \in {"cors", "body_limit"}
           /\ i = 4 /\ what = "auth" <=> chain[i] = "auth_rate_limit"
           /\ i >= 4 => chain[i] \notin {"cors", "body_limit"}
    BY StorePlaces
  <1>11. ASSUME config.limited, what # "probe", stop > 3
         PROVE  from # 1
    <2>1. CASE from = 1
      <3>1. 3 \in from..(stop - 1) /\ 3 \in DOMAIN chain
        BY <1>3, <1>4, <1>11, <2>1
      <3>2. v(3) = "next" /\ chain[3] = "rate_limit"
        BY <1>2, <1>10, <3>1
      <3>3. QED
        BY <1>6, <1>11, <3>1, <3>2
    <2>2. QED
      BY <2>1
  <1>12. ASSUME config.limited, what = "auth", stop > 4
         PROVE  from \notin {1, 4}
    <2>1. CASE from \in {1, 4}
      <3>1. 4 \in from..(stop - 1) /\ 4 \in DOMAIN chain
        BY <1>3, <1>4, <1>12, <2>1
      <3>2. v(4) = "next" /\ chain[4] = "auth_rate_limit"
        BY <1>2, <1>10, <1>12, <3>1
      <3>3. QED
        BY <1>6, <1>12, <3>1, <3>2
    <2>2. QED
      BY <2>1
  <1>13. \A o \in Request : o # r => index'[o] = index[o] /\ answer'[o] = answer[o]
    BY <1>2
  <1>14. CASE v(stop) = "limited"
    <2>1. index'[r] = stop /\ UNCHANGED answer
      BY <1>2, <1>14
    <2>2. stop \in {3, 4} /\ (stop = 4 => what = "auth") /\ what # "probe"
      BY <1>4, <1>7, <1>10, <1>14
    <2>3. from = 1 => stop = 3
      BY <1>7, <1>11, <1>14, <2>2
    <2>4. QED
      BY <1>4, <1>13, <2>1, <2>2, <2>3
  <1>15. CASE v(stop) # "limited"
    <2>1. index'[r] = 0 /\ answer'[r] = v(stop)
      BY <1>2, <1>15
    <2>2. from >= 4 => v(stop) \notin {"NO_CONTENT", "ORIGIN_REFUSED", "PAYLOAD_TOO_LARGE"}
      BY <1>4, <1>8, <1>9, <1>10
    <2>3. ASSUME v(stop) = "HANDLED", config.limited
          PROVE  /\ from = 1 => what = "probe"
                 /\ from = 4 => what # "auth"
      <3>1. chain[stop] = "handler"
        BY <1>5, <2>3
      <3>2. stop >= 4
        BY <1>4, <1>10, <3>1
      <3>3. what = "auth" => stop # 4
        BY <1>4, <1>10, <3>1
      <3>4. from = 1 => what = "probe"
        BY <1>11, <2>3, <3>2
      <3>5. from = 4 => what # "auth"
        BY <1>4, <1>12, <2>3, <3>2, <3>3
      <3>6. QED
        BY <3>4, <3>5
    <2>4. QED
      BY <1>13, <2>1, <2>2, <2>3
  <1>16. QED
    BY <1>14, <1>15

LEMMA CountedSame ==
  ASSUME Counted, UNCHANGED admitted,
         \A s \in Store, o \in Request : PassedStore(s, o)' <=> PassedStore(s, o)
  PROVE  Counted'
  <1> SUFFICES ASSUME NEW s \in Store
               PROVE  /\ IsFiniteSet(TokensSpent(s)')
                      /\ Cardinality(TokensSpent(s)') = Cardinality(Passed(s)')
    BY DEF Counted
  <1>1. TokensSpent(s)' = TokensSpent(s)
    BY DEF TokensSpent
  <1>2. Passed(s)' = Passed(s)
    BY DEF Passed
  <1>3. QED
    BY <1>1, <1>2 DEF Counted

LEMMA CountedMore ==
  ASSUME Counted, LimiterTypeOK, NEW s \in Store, NEW k \in Caller, NEW r \in Request,
         NEW at \in Nat, admitted' = [admitted EXCEPT ![s][k] = Append(@, at)],
         PassedStore(s, r)', ~PassedStore(s, r),
         \A t \in Store, o \in Request :
            t # s \/ o # r => (PassedStore(t, o)' <=> PassedStore(t, o))
  PROVE  Counted'
  <1> SUFFICES ASSUME NEW t \in Store
               PROVE  /\ IsFiniteSet(TokensSpent(t)')
                      /\ Cardinality(TokensSpent(t)') = Cardinality(Passed(t)')
    BY DEF Counted
  <1>1. IsFiniteSet(TokensSpent(t)) /\ Cardinality(TokensSpent(t)) = Cardinality(Passed(t))
    BY DEF Counted
  <1>2. IsFiniteSet(Passed(t))
    BY RequestsAssumption, FS_Subset DEF Passed
  <1>3. CASE t # s
    <2>1. Passed(t)' = Passed(t)
      BY <1>3 DEF Passed
    <2>2. admitted'[t] = admitted[t]
      BY <1>3 DEF LimiterTypeOK
    <2>3. TokensSpent(t)' = TokensSpent(t)
      BY <2>2 DEF TokensSpent
    <2>4. QED
      BY <1>1, <2>1, <2>3
  <1>4. CASE t = s
    <2>1. Passed(s)' = Passed(s) \union {r} /\ r \notin Passed(s)
      BY DEF Passed
    <2> DEFINE n == Len(admitted[s][k]) + 1
    <2>2. admitted[s][k] \in Seq(Nat)
      BY DEF LimiterTypeOK
    <2>3. admitted'[s][k] = Append(admitted[s][k], at)
      BY DEF LimiterTypeOK
    <2>4. \A j \in Caller : j # k => admitted'[s][j] = admitted[s][j]
      BY DEF LimiterTypeOK
    <2>5. DOMAIN admitted'[s][k] = DOMAIN admitted[s][k] \union {n} /\ n \notin DOMAIN admitted[s][k]
      BY <2>2, <2>3
    <2> HIDE DEF n
    <2>6. TokensSpent(s)' = TokensSpent(s) \union {<<k, n>>}
      <3>1. \A x : x \in TokensSpent(s)' <=> \E j \in Caller : x \in {j} \X DOMAIN admitted'[s][j]
        BY DEF TokensSpent
      <3>2. \A x : x \in TokensSpent(s) <=> \E j \in Caller : x \in {j} \X DOMAIN admitted[s][j]
        BY DEF TokensSpent
      <3>3. ASSUME NEW j \in Caller, j # k
            PROVE  {j} \X DOMAIN admitted'[s][j] = {j} \X DOMAIN admitted[s][j]
        BY <2>4, <3>3
      <3>4. {k} \X DOMAIN admitted'[s][k] = ({k} \X DOMAIN admitted[s][k]) \union {<<k, n>>}
        BY <2>5
      <3>5. ASSUME NEW x
            PROVE  x \in TokensSpent(s)' <=> x \in TokensSpent(s) \union {<<k, n>>}
        BY <3>1, <3>2, <3>3, <3>4
      <3>6. QED
        BY <3>5
    <2>7. <<k, n>> \notin TokensSpent(s)
      <3>1. ASSUME NEW j \in Caller, <<k, n>> \in {j} \X DOMAIN admitted[s][j]
            PROVE  FALSE
        BY <2>5, <3>1
      <3>2. QED
        BY <3>1 DEF TokensSpent
    <2>8. /\ IsFiniteSet(TokensSpent(s)')
          /\ Cardinality(TokensSpent(s)') = Cardinality(TokensSpent(s)) + 1
      BY <1>1, <1>4, <2>6, <2>7, FS_AddElement
    <2>9. Cardinality(Passed(s)') = Cardinality(Passed(s)) + 1
      BY <1>2, <1>4, <2>1, FS_AddElement
    <2>10. QED
      BY <1>1, <1>4, <2>8, <2>9
  <1>5. QED
    BY <1>3, <1>4

\* A request that nothing happens to stays on its way.
LEMMA Undisturbed ==
  ASSUME NEW o \in Request, OnItsWay(o), UNCHANGED config,
         route'[o] = route[o], index'[o] = index[o], answer'[o] = answer[o], visit'[o] = visit[o]
  PROVE  OnItsWay(o)' /\ \A s \in Store : PassedStore(s, o)' <=> PassedStore(s, o)
  <1>1. \A s : PassedStore(s, o)' <=> PassedStore(s, o)
    BY DEF PassedStore
  <1>2. Owes(o)' = Owes(o) /\ (Handled(o)' <=> Handled(o)) /\ (Preflight(o)' <=> Preflight(o))
    BY DEF Owes, Handled, Preflight
  <1>3. (Inside(o)' <=> Inside(o)) /\ (Limited' <=> Limited)
    BY DEF Inside, Limited
  <1>4. QED
    BY <1>1, <1>2, <1>3 DEF OnItsWay

LEMMA OwesFacts ==
  ASSUME NEW r \in Request
  PROVE  /\ route[r] \in {"probe", None} => Owes(r) = {}
         /\ route[r] = "auth" => Owes(r) = {"global", "auth"}
         /\ route[r] \notin {"probe", "auth", None} => Owes(r) = {"global"}
  <1>1. None # "auth"
    BY RoutesAssumption DEF Route
  <1>2. QED
    BY <1>1, StoresAssumption DEF Owes

LEMMA PaidArrive ==
  ASSUME Paid, Answered, InPlace, NEW r \in Request, Arrive(r)
  PROVE  Paid'
  <1>1. /\ config # NotLoaded /\ route[r] = None
        /\ UNCHANGED <<visit, admitted, config>>
    BY DEF Arrive, limiterVars, history
  <1>2. PICK what \in Routes[r] : \E q \in Looks(what, 1) :
          route' = [route EXCEPT ![r] = what] /\ Run(r, q, 1)
    BY DEF Arrive
  <1>3. PICK q \in Looks(what, 1) : route' = [route EXCEPT ![r] = what] /\ Run(r, q, 1)
    BY <1>2
  <1>4. what \in Route /\ what # None
    BY RoutesAssumption
  <1>5. /\ route'[r] = what /\ \A o \in Request : o # r => route'[o] = route[o]
        /\ index \in [Request -> Nat] /\ answer \in [Request -> Answer \union {None}]
    BY <1>3 DEF InPlace, Answered
  <1>6. /\ \A o \in Request : o # r => index'[o] = index[o] /\ answer'[o] = answer[o]
        /\ \/ index'[r] = 3 /\ UNCHANGED answer /\ what # "probe"
           \/ /\ index'[r] = 0
              /\ answer'[r] = "HANDLED" /\ config.limited => what = "probe"
    <2>1. 1 \in {1, 4, 5} /\ ~(1 >= 4)
      OBVIOUS
    <2>2. QED
      BY <1>3, <1>4, <1>5, <2>1, RunPays
  <1>7. visit[r] = Away /\ answer[r] = None
    BY <1>1, RoutesAssumption DEF Paid, OnItsWay, Answered
  <1>8. \A s \in Store, o \in Request : PassedStore(s, o)' <=> PassedStore(s, o)
    BY <1>1 DEF PassedStore
  <1>9. OnItsWay(r)'
    <2>1. visit'[r] = Away /\ config' = config /\ Limited' = Limited
      BY <1>1, <1>7 DEF Limited
    <2>2. ~(Limited /\ Handled(r))' \/ Owes(r)' = {}
      <3>1. CASE answer'[r] = "HANDLED"
        <4>1. answer[r] # "HANDLED"
          BY <1>7, AnswerAssumption DEF Answer
        <4>2. config'.limited => what = "probe"
          BY <1>1, <1>6, <3>1, <4>1
        <4>3. what = "probe" => Owes(r)' = {}
          BY <1>4, <1>5 DEF Owes
        <4>4. QED
          BY <4>2, <4>3 DEF Limited
      <3>2. CASE answer'[r] # "HANDLED"
        BY <3>2 DEF Handled
      <3>3. QED
        BY <3>1, <3>2
    <2>3. \/ index'[r] = 3 /\ what # "probe"
          \/ index'[r] = 0
      BY <1>6
    <2>4. QED
      BY <1>1, <1>5, <2>1, <2>2, <2>3 DEF OnItsWay
  <1>10. ASSUME NEW o \in Request, o # r
         PROVE  OnItsWay(o)'
    <2>1. visit'[o] = visit[o] /\ OnItsWay(o)
      BY <1>1 DEF Paid
    <2>2. QED
      BY <1>1, <1>5, <1>6, <1>10, <2>1, Undisturbed
  <1>11. QED
    BY <1>1, <1>8, <1>9, <1>10, CountedSame DEF Paid

\* Which store a request asks, by its place.
LEMMA AskingFacts ==
  ASSUME InPlace, NEW r \in Request, index[r] # 0
  PROVE  /\ route[r] \in Route /\ route[r] # None
         /\ \/ index[r] = 3 /\ Asking(r) = "global"
            \/ index[r] = 4 /\ Asking(r) = "auth" /\ route[r] = "auth"
  <1> DEFINE what == route[r]
             i == index[r]
  <1>1. what \in Route /\ i \in DOMAIN Chain(what) /\ Chain(what)[i] \in DOMAIN StoreOf
    BY DEF InPlace, Waits
  <1>2. Chain(what)[i] \in {"rate_limit", "auth_rate_limit"}
    BY <1>1 DEF StoreOf
  <1>3. /\ i = 3 <=> Chain(what)[i] = "rate_limit"
        /\ i = 4 /\ what = "auth" <=> Chain(what)[i] = "auth_rate_limit"
    BY <1>1, StorePlaces
  <1>4. what # None
    BY <1>1, RoutesAssumption
  <1>5. QED
    BY <1>1, <1>2, <1>3, <1>4 DEF Asking, StoreOf

LEMMA PaidAskStore ==
  ASSUME Paid, Answered, InPlace, LimiterTypeOK, NEW r \in Request, AskStore(r)
  PROVE  Paid'
  <1>1. PICK k \in Caller : Lookup(r, Asking(r), k)
    BY DEF AskStore
  <1>2. /\ index[r] # 0 /\ Fresh(r) /\ UNCHANGED <<route, index, answer, config>>
        /\ UNCHANGED admitted
    BY <1>1 DEF AskStore, AtStore, gateOnly, Lookup
  <1>3. OnItsWay(r) /\ answer[r] = None
    BY <1>2 DEF Paid, Answered
  <1>4. /\ route[r] \notin {"probe", None}
        /\ \/ index[r] = 3 /\ Asking(r) = "global" /\ visit[r] = Away
           \/ /\ index[r] = 4 /\ Asking(r) = "auth" /\ route[r] = "auth"
              /\ visit[r] # Away /\ visit[r].store = "global" /\ visit[r].at = "admitted"
    <2>1. /\ route[r] # None
          /\ \/ index[r] = 3 /\ Asking(r) = "global"
             \/ index[r] = 4 /\ Asking(r) = "auth" /\ route[r] = "auth"
      BY <1>2, AskingFacts
    <2>2. visit[r] # Away => visit[r].store \in {"global", "auth"} /\ visit[r].store # Asking(r)
      BY <1>2, StoresAssumption DEF Fresh, LimiterTypeOK, Visit
    <2>3. QED
      BY <1>2, <1>3, <2>1, <2>2 DEF OnItsWay
  <1>5. /\ visit'[r] # Away /\ visit'[r].at = "found" /\ visit'[r].store = Asking(r)
        /\ \A o \in Request : o # r => visit'[o] = visit[o]
    <2>1. /\ visit'[r].at = "found" /\ visit'[r].store = Asking(r)
          /\ \A o \in Request : o # r => visit'[o] = visit[o]
      BY <1>1 DEF Lookup, LimiterTypeOK
    <2>2. QED
      BY <2>1 DEF Away
  <1>6. \A s \in Store : PassedStore(s, r)' <=> PassedStore(s, r)
    BY <1>4, <1>5 DEF PassedStore
  <1>7. ~Handled(r)' /\ ~Preflight(r)' /\ answer'[r] # "PAYLOAD_TOO_LARGE"
    BY <1>2, <1>3, AnswerAssumption DEF Answer, Handled, Preflight
  <1>8. Inside(r)'
    BY <1>5 DEF Inside
  <1>9. OnItsWay(r)'
    BY <1>2, <1>3, <1>4, <1>5, <1>7, <1>8 DEF OnItsWay
  <1>10. ASSUME NEW o \in Request, o # r
         PROVE  OnItsWay(o)' /\ \A s \in Store : PassedStore(s, o)' <=> PassedStore(s, o)
    <2>1. visit'[o] = visit[o] /\ OnItsWay(o)
      BY <1>5, <1>10 DEF Paid
    <2>2. QED
      BY <1>2, <1>10, <2>1, Undisturbed
  <1>11. QED
    BY <1>2, <1>6, <1>9, <1>10, CountedSame DEF Paid

LEMMA PaidRefuse ==
  ASSUME Paid, Answered, InPlace, LimiterTypeOK, NEW r \in Request, Refuse(r)
  PROVE  Paid'
  <1>1. /\ Cancel(r) /\ index[r] # 0
        /\ index' = [index EXCEPT ![r] = 0] /\ answer' = [answer EXCEPT ![r] = "RATE_LIMITED"]
        /\ UNCHANGED <<route, config, admitted>>
    BY DEF Refuse, AtStore, Cancel
  <1>2. visit[r].at = "waiting" /\ visit' = [visit EXCEPT ![r].at = "refused"] /\ visit[r] \in Visit
    BY <1>1 DEF Cancel, Move, LimiterTypeOK, Away
  <1>3. /\ visit'[r].at = "refused" /\ visit'[r].store = visit[r].store
        /\ \A o \in Request : o # r => visit'[o] = visit[o]
    BY <1>2 DEF LimiterTypeOK, Visit
  <1>4. visit[r] # Away /\ visit'[r] # Away
    BY <1>2, <1>3 DEF Away
  <1>5. /\ index'[r] = 0 /\ answer'[r] = "RATE_LIMITED"
        /\ \A o \in Request : o # r => index'[o] = index[o] /\ answer'[o] = answer[o]
    BY <1>1 DEF InPlace, Answered
  <1>6. \A s \in Store : PassedStore(s, r)' <=> PassedStore(s, r)
    BY <1>2, <1>3, <1>4 DEF PassedStore
  <1>7. ~Handled(r)' /\ ~Preflight(r)'
    BY <1>5 DEF Handled, Preflight
  <1>8. OnItsWay(r)
    BY DEF Paid
  <1>9. OnItsWay(r)'
    BY <1>1, <1>3, <1>4, <1>5, <1>7, <1>8 DEF OnItsWay
  <1>10. ASSUME NEW o \in Request, o # r
         PROVE  OnItsWay(o)' /\ \A s \in Store : PassedStore(s, o)' <=> PassedStore(s, o)
    <2>1. visit'[o] = visit[o] /\ OnItsWay(o) /\ route'[o] = route[o] /\ UNCHANGED config
      BY <1>1, <1>3, <1>10 DEF Paid
    <2>2. QED
      BY <1>5, <1>10, <2>1, Undisturbed
  <1>11. QED
    BY <1>1, <1>6, <1>9, <1>10, CountedSame DEF Paid

\* The request that a store admits goes on, and one token more is gone.
LEMMA PaidAdmitted ==
  ASSUME Paid, Answered, InPlace, LimiterTypeOK, NEW r \in Request, ReserveToken(r), Admitted(r)
  PROVE  Paid'
  <1> DEFINE from == index[r] + 1
  <1>1. Reserve(r) /\ index[r] # 0 /\ ~Fresh(r) /\ UNCHANGED <<route, config>>
    BY DEF ReserveToken, AtStore
  <1>2. visit[r].at = "found" /\ visit[r] \in Visit /\ visit[r] # Away
    BY <1>1 DEF Reserve, LimiterTypeOK, Away
  <1>a. PICK s \in Store, k \in Caller : s = visit[r].store /\ k = visit[r].caller
    BY <1>2 DEF Visit
  <1>3. HasToken(Of(r))
    BY <1>2 DEF Admitted, ReserveToken, Reserve, Visit, LimiterTypeOK
  <1>4. /\ visit' = [visit EXCEPT ![r].at = "admitted"]
        /\ admitted' = [admitted EXCEPT ![s][k] = Append(@, Clock(s, k))]
        /\ Clock(s, k) \in Nat
    BY <1>1, <1>3, <1>a DEF Reserve, Move, Clock, LimiterTypeOK
  <1>5. /\ visit'[r].at = "admitted" /\ visit'[r].store = s
        /\ \A o \in Request : o # r => visit'[o] = visit[o]
    BY <1>2, <1>4, <1>a DEF LimiterTypeOK, Visit
  <1>6. visit'[r] # Away
    BY <1>5 DEF Away
  <1>7. /\ route[r] \in Route /\ route[r] # None
        /\ \/ index[r] = 3 /\ s = "global"
           \/ index[r] = 4 /\ s = "auth" /\ route[r] = "auth"
    BY <1>1, <1>2, <1>a, AskingFacts DEF Fresh
  <1>8. OnItsWay(r) /\ answer[r] = None /\ route[r] # "probe"
    BY <1>1, <1>2 DEF Paid, Answered, OnItsWay
  <1>9. PICK q \in Looks(route[r], from) : Run(r, q, from)
    BY <1>1 DEF ReserveToken
  <1>10. /\ index \in [Request -> Nat] /\ answer \in [Request -> Answer \union {None}]
         /\ from \in {1, 4, 5} /\ from # 1 /\ from >= 4
         /\ from = 4 <=> s = "global"
    BY <1>7 DEF InPlace, Answered
  <1> HIDE DEF from
  <1>11. /\ \A o \in Request : o # r => index'[o] = index[o] /\ answer'[o] = answer[o]
         /\ \/ /\ index'[r] \in {3, 4} /\ index'[r] >= from /\ UNCHANGED answer
               /\ index'[r] = 4 => route[r] = "auth"
            \/ /\ index'[r] = 0
               /\ answer'[r] \notin {"NO_CONTENT", "ORIGIN_REFUSED", "PAYLOAD_TOO_LARGE"}
               /\ answer'[r] = "HANDLED" /\ config.limited => (from = 4 => route[r] # "auth")
    BY <1>7, <1>9, <1>10, RunPays
  <1>12. /\ PassedStore(s, r)' /\ ~PassedStore(s, r)
         /\ \A t \in Store : t # s => (PassedStore(t, r)' <=> PassedStore(t, r))
    BY <1>2, <1>5, <1>6, <1>7, <1>a DEF PassedStore
  <1>13. answer'[r] \notin {"NO_CONTENT", "ORIGIN_REFUSED", "PAYLOAD_TOO_LARGE"}
    <2>1. None \notin {"NO_CONTENT", "ORIGIN_REFUSED", "PAYLOAD_TOO_LARGE"}
      BY AnswerAssumption DEF Answer
    <2>2. QED
      BY <1>8, <1>11, <2>1
  <1>14. ASSUME Limited, answer'[r] = "HANDLED"
         PROVE  \A t \in Owes(r)' : PassedStore(t, r)'
    <2>1. answer[r] # "HANDLED"
      BY <1>8, AnswerAssumption DEF Answer
    <2>2. from = 4 => route[r] # "auth"
      BY <1>11, <1>14, <2>1 DEF Limited
    <2>3. Owes(r)' = Owes(r)
      BY <1>1 DEF Owes
    <2>4. CASE s = "global"
      <3>1. Owes(r) = {"global"}
        BY <1>7, <1>8, <1>10, <2>2, <2>4, OwesFacts
      <3>2. QED
        BY <1>12, <2>3, <2>4, <3>1
    <2>5. CASE s = "auth"
      <3>1. Owes(r) \subseteq {"global", "auth"}
        BY <1>7, <2>5, OwesFacts
      <3>2. PassedStore("global", r)'
        BY <1>5, <1>6, <2>5 DEF PassedStore
      <3>3. QED
        BY <1>12, <2>3, <2>5, <3>1, <3>2
    <2>6. QED
      BY <1>7, <2>4, <2>5
  <1>15. index'[r] = 4 => s = "global"
    BY <1>7, <1>10, <1>11
  <1>16. OnItsWay(r)'
    <2>1. ~Preflight(r)' /\ (Handled(r)' <=> answer'[r] = "HANDLED") /\ (Limited' <=> Limited)
      BY <1>1, <1>13 DEF Preflight, Handled, Limited
    <2>2. index'[r] \in {0, 3, 4} /\ index'[r] # 3
      BY <1>10, <1>11
    <2>3. route'[r] = route[r] /\ config' = config
      BY <1>1
    <2>4. s = "auth" => route[r] = "auth"
      BY <1>7
    <2>5. "auth" # "global"
      OBVIOUS
    <2>6. config' = NotLoaded => route'[r] = None
      BY <1>8, <2>3 DEF OnItsWay
    <2>7. visit'[r].store = "auth" /\ index'[r] = 4 => FALSE
      BY <1>5, <1>15, <2>5
    <2>8. Limited' /\ Handled(r)' => \A t \in Owes(r)' : PassedStore(t, r)'
      BY <1>14, <2>1
    <2>9. route'[r] \notin {"probe", None}
      BY <1>7, <1>8, <2>3
    <2>10. QED
      BY <1>5, <1>6, <1>13, <2>1, <2>2, <2>3, <2>4, <2>6, <2>7, <2>8, <2>9 DEF OnItsWay
  <1>17. ASSUME NEW o \in Request, o # r
         PROVE  OnItsWay(o)' /\ \A t \in Store : PassedStore(t, o)' <=> PassedStore(t, o)
    <2>1. visit'[o] = visit[o] /\ OnItsWay(o) /\ route'[o] = route[o] /\ UNCHANGED config
      BY <1>1, <1>5, <1>17 DEF Paid
    <2>2. QED
      BY <1>11, <1>17, <2>1, Undisturbed
  <1>18. Counted'
    <2>1. \A t \in Store, o \in Request :
            t # s \/ o # r => (PassedStore(t, o)' <=> PassedStore(t, o))
      BY <1>12, <1>17
    <2>2. QED
      BY <1>4, <1>6, <1>12, <2>1, CountedMore DEF Paid
  <1>19. QED
    BY <1>16, <1>17, <1>18 DEF Paid

LEMMA PaidWaits ==
  ASSUME Paid, LimiterTypeOK, NEW r \in Request, ReserveToken(r), ~Admitted(r)
  PROVE  Paid'
  <1>1. Reserve(r) /\ UNCHANGED <<route, config, index, answer>>
    BY DEF ReserveToken
  <1>2. visit[r].at = "found" /\ visit[r] \in Visit
    BY <1>1 DEF Reserve, LimiterTypeOK, Away
  <1>3. ~HasToken(Of(r))
    BY <1>1, <1>2 DEF Reserve, Move, Admitted, LimiterTypeOK, Visit
  <1>4. /\ visit'[r].at = "waiting" /\ visit'[r].store = visit[r].store
        /\ \A o \in Request : o # r => visit'[o] = visit[o]
        /\ UNCHANGED admitted
    BY <1>1, <1>2, <1>3 DEF Reserve, LimiterTypeOK, Visit
  <1>5. visit[r] # Away /\ visit'[r] # Away /\ Inside(r) /\ Inside(r)'
    BY <1>2, <1>4 DEF Away, Inside
  <1>6. \A t : PassedStore(t, r)' <=> PassedStore(t, r)
    BY <1>2, <1>4, <1>5 DEF PassedStore
  <1>7. Owes(r)' = Owes(r) /\ (Handled(r)' <=> Handled(r)) /\ (Preflight(r)' <=> Preflight(r))
        /\ (Limited' <=> Limited)
    BY <1>1 DEF Owes, Handled, Preflight, Limited
  <1>8. OnItsWay(r)
    BY DEF Paid
  <1>9. OnItsWay(r)'
    BY <1>1, <1>2, <1>4, <1>5, <1>6, <1>7, <1>8 DEF OnItsWay
  <1>10. ASSUME NEW o \in Request, o # r
         PROVE  OnItsWay(o)' /\ \A s \in Store : PassedStore(s, o)' <=> PassedStore(s, o)
    <2>1. visit'[o] = visit[o] /\ OnItsWay(o)
      BY <1>4, <1>10 DEF Paid
    <2>2. QED
      BY <1>1, <2>1, Undisturbed
  <1>11. QED
    BY <1>4, <1>6, <1>9, <1>10, CountedSame DEF Paid

LEMMA PaidStep ==
  ASSUME Paid, Answered, InPlace, LimiterTypeOK, [Next]_gateVars
  PROVE  Paid'
  <1>1. ASSUME UNCHANGED <<config, route, index, answer, visit, admitted>>
        PROVE  Paid'
    <2>1. ASSUME NEW o \in Request
          PROVE  OnItsWay(o)' /\ \A s \in Store : PassedStore(s, o)' <=> PassedStore(s, o)
      BY <1>1, Undisturbed DEF Paid
    <2>2. QED
      BY <1>1, <2>1, CountedSame DEF Paid
  <1>2. CASE Start
    <2>1. /\ config = NotLoaded /\ UNCHANGED <<route, index, answer, visit, admitted>>
      BY <1>2 DEF Start, limiterVars, history, requestVars
    <2>2. ASSUME NEW o \in Request
          PROVE  OnItsWay(o)' /\ \A s \in Store : PassedStore(s, o)' <=> PassedStore(s, o)
      <3>1. OnItsWay(o)
        BY DEF Paid
      <3>2. route[o] = None
        BY <2>1, <3>1 DEF OnItsWay
      <3>3. index[o] = 0 /\ visit[o] = Away /\ answer[o] = None
        BY <3>1, <3>2 DEF InPlace, OnItsWay, Answered
      <3>4. index'[o] = 0 /\ visit'[o] = Away /\ route'[o] = None
        BY <2>1, <3>2, <3>3
      <3>5. ~Handled(o)'
        BY <2>1, <3>3, AnswerAssumption DEF Handled, Answer
      <3>6. OnItsWay(o)'
        BY <3>4, <3>5 DEF OnItsWay
      <3>7. \A s \in Store : PassedStore(s, o)' <=> PassedStore(s, o)
        BY <2>1 DEF PassedStore
      <3>8. QED
        BY <3>6, <3>7
    <2>3. QED
      BY <2>1, <2>2, CountedSame DEF Paid
  <1>3. CASE Reject
    BY <1>1, <1>3 DEF Reject, limiterVars, history, requestVars
  <1>4. ASSUME NEW r \in Request, Handle(r)
        PROVE  Paid'
    BY <1>4, PaidArrive, PaidAskStore, PaidAdmitted, PaidWaits, PaidRefuse DEF Handle
  <1>5. CASE Sweep /\ UNCHANGED gateOnly
    BY <1>1, <1>5 DEF Sweep, history, gateOnly
  <1>6. CASE Tick /\ UNCHANGED gateOnly
    BY <1>1, <1>6 DEF Tick, history, gateOnly
  <1>7. CASE UNCHANGED gateVars
    BY <1>1, <1>7 DEF gateVars, gateOnly, limiterVars, history
  <1>8. QED
    BY <1>2, <1>3, <1>4, <1>5, <1>6, <1>7 DEF Next, Done

LEMMA PaidInit == Init => Paid
  <1> SUFFICES ASSUME Init PROVE Paid
    OBVIOUS
  <1>1. Counted
    <2> SUFFICES ASSUME NEW s \in Store
                 PROVE  /\ IsFiniteSet(TokensSpent(s))
                        /\ Cardinality(TokensSpent(s)) = Cardinality(Passed(s))
      BY DEF Counted
    <2>1. \A k \in Caller : DOMAIN admitted[s][k] = {}
      BY DEF Init, LimiterInit
    <2>2. TokensSpent(s) = {}
      BY <2>1 DEF TokensSpent
    <2>3. Passed(s) = {}
      BY DEF Init, LimiterInit, Passed, PassedStore
    <2>4. QED
      BY <2>2, <2>3, FS_EmptySet
  <1>2. ASSUME NEW r \in Request
        PROVE  OnItsWay(r)
    <2>1. index[r] = 0 /\ visit[r] = Away /\ route[r] = None /\ config = NotLoaded
      BY DEF Init, LimiterInit
    <2>2. answer[r] = None
      BY DEF Init
    <2>3. ~Handled(r)
      BY <2>2, AnswerAssumption DEF Handled, Answer
    <2>4. QED
      BY <2>1, <2>3 DEF OnItsWay
  <1>3. QED
    BY <1>1, <1>2 DEF Paid

LEMMA PaidForHandlers ==
  ASSUME Paid, LimiterTypeOK, Limited, NEW s \in Store
  PROVE  LET handled == {r \in Request : Handled(r) /\ s \in Owes(r)}
             paying == {r \in Request : s \in Owes(r) /\ ~Preflight(r)
                                          /\ answer[r] # "PAYLOAD_TOO_LARGE"}
         IN  /\ Cardinality(handled) <= Cardinality(TokensSpent(s))
             /\ Cardinality(TokensSpent(s)) <= Cardinality(paying)
  <1> DEFINE handled == {r \in Request : Handled(r) /\ s \in Owes(r)}
             paying == {r \in Request : s \in Owes(r) /\ ~Preflight(r)
                                          /\ answer[r] # "PAYLOAD_TOO_LARGE"}
  <1>1. handled \subseteq Passed(s)
    BY DEF Paid, OnItsWay, Passed
  <1>2. ASSUME NEW r \in Passed(s)
        PROVE  r \in paying
    <2>1. r \in Request /\ PassedStore(s, r) /\ OnItsWay(r)
      BY DEF Passed, Paid
    <2>2. visit[r] # Away /\ (visit[r].store = s \/ (visit[r].store = "auth" /\ s = "global"))
      BY <2>1 DEF PassedStore
    <2>3. /\ route[r] \notin {"probe", None} /\ ~Preflight(r) /\ answer[r] # "PAYLOAD_TOO_LARGE"
          /\ visit[r].store = "auth" => route[r] = "auth"
      BY <2>1, <2>2 DEF OnItsWay
    <2>4. s \in Owes(r)
      BY <2>1, <2>2, <2>3, OwesFacts, StoresAssumption
    <2>5. QED
      BY <2>1, <2>3, <2>4
  <1>3. Passed(s) \subseteq paying
    BY <1>2
  <1>4. IsFiniteSet(Passed(s)) /\ IsFiniteSet(paying)
    BY RequestsAssumption, FS_Subset DEF Passed
  <1> HIDE DEF handled, paying
  <1>5. /\ Cardinality(handled) <= Cardinality(Passed(s))
        /\ Cardinality(Passed(s)) <= Cardinality(paying)
    BY <1>1, <1>3, <1>4, FS_Subset
  <1>6. Cardinality(TokensSpent(s)) = Cardinality(Passed(s))
    BY DEF Paid, Counted
  <1>7. QED
    BY <1>5, <1>6 DEF handled, paying

\* With any number of requests on their way at once, no more handlers have run
\* behind a limiter than it has given out tokens, and no more tokens are gone than
\* there are requests that had to pay.
THEOREM HandlersArePaidFor == Spec => []TokensPayForHandlers
  <1>1. Init => Answered
    BY RoutesAssumption DEF Init, Answered, SeededAccess, Route
  <1>2. IInv /\ InPlace /\ [Next]_gateVars => (IInv /\ InPlace)'
    BY GateStep, StepInv
  <1>3. InPlace /\ Answered /\ [Next]_gateVars => Answered'
    BY AnsweredStep
  <1>4. IInv /\ InPlace /\ Answered /\ Paid /\ [Next]_gateVars => Paid'
    BY PaidStep DEF IInv
  <1>5. IInv /\ Paid => TokensPayForHandlers
    BY PaidForHandlers DEF IInv, Limited, TokensPayForHandlers
  <1>6. QED
    BY GateInit, PaidInit, <1>1, <1>2, <1>3, <1>4, <1>5, PTL DEF Spec
=============================================================================
