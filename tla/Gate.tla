-------------------------------- MODULE Gate --------------------------------
(***************************************************************************)
(* The HTTP surface: an operator gets the service to start on a            *)
(* configuration, and requests then go through the chain of middleware in  *)
(* front of the handlers, the two rate limiters of RateLimiter among them. *)
(* Recovery, the request ID and the access log let every request through;  *)
(* the timeout is the subject of RequestTimeout.                           *)
(***************************************************************************)
EXTENDS RateLimiter, Config

CONSTANTS
    Environment,  \* the environments a first start may find
    Values,       \* what an operator may set a key to
    Routes,       \* what each request may be for
    Origin,       \* the origins of cross-origin requests
    NoOrigin,     \* the request carries no Origin header
    NotLoaded     \* no configuration has been accepted yet

ASSUME StoresAssumption == Store = {"global", "auth"}
ASSUME RequestsAssumption == IsFiniteSet(Request)

\* A key's text: only a number, a duration or a switch may fail to parse as
\* one, only a float may be NaN, and a listed origin that nothing refuses is one
\* that a browser may send.
Floats == {"RATE_LIMIT_RPS", "AUTH_RATE_LIMIT_RPM", "SENTRY_TRACES_SAMPLE_RATE"}

Readable(k, v) ==
    /\ v = Malformed => k \in DOMAIN Booleans \union DOMAIN Durations \union DOMAIN Numbers
    /\ k \in DOMAIN Booleans => v \in {Unset, Malformed} \union BOOLEAN
    /\ k \in DOMAIN Durations \union DOMAIN Numbers =>
          v \in {Unset, Malformed} \union Int \/ (v = NaN /\ k \in Floats)
    /\ k = "CORS_ALLOWED_ORIGINS" =>
          v = Unset \/ v \in Seq(Origin \union {Wildcard, "with_path"})

ASSUME EnvironmentAssumption ==
    \A k \in Key :
        /\ \A e \in Environment : Readable(k, e[k])
        /\ \A v \in Values[k] : Readable(k, v)

\* What the middleware keeps of an accepted configuration.
Kept == [origins: SUBSET (Origin \union {Wildcard}), credentials: BOOLEAN, limited: BOOLEAN]

ASSUME NotLoadedAssumption == NotLoaded \notin Kept

VARIABLES
    env,         \* the environment of the next start
    rejections,  \* starts refused so far
    config,      \* what the middleware took from the accepted configuration
    route,       \* what a request turned out to be for
    index,       \* gin's c.index: where in its chain a request waits for a store, or 0
    claims,      \* the role of a request's token, once one was accepted
    answer       \* what a request was answered with

gateOnly == <<env, rejections, config, route, index, claims, answer>>
gateVars == <<limiterVars, gateOnly>>
requestVars == <<route, index, claims, answer>>

-----------------------------------------------------------------------------
(* Roles and permissions as seeded: catalogue.go.                          *)

SuperAdminLevel == 1
HierarchyLevel == [SUPER_ADMIN |-> 1, ADMIN |-> 10, MANAGER |-> 20, USER |-> 100]
Role == DOMAIN HierarchyLevel

ReadSlugs == {"users:list", "users:read", "roles:list", "roles:read"}
WriteSlugs == {"users:manage", "roles:manage", "notifications:send", "mail:list"}
Slug == ReadSlugs \union WriteSlugs

Grants == [SUPER_ADMIN |-> {}, ADMIN |-> Slug, MANAGER |-> ReadSlugs, USER |-> {}]

\* The level each gated route asks for: registerRoutes.
RequiredLevel(slug) == HierarchyLevel[IF slug \in ReadSlugs THEN "MANAGER" ELSE "ADMIN"]

-----------------------------------------------------------------------------
(* The routes and their chains: registerRoutes.                            *)

\* A route is named by its group, a gated one by its slug. "options" is an
\* OPTIONS request for one of their paths (no route has that method), "verb"
\* another verb than the path has, a probe's path included, and "stray" a path
\* that no route has.
Route == {"probe", "auth", "own"} \union Slug \union {"options", "verb", "stray"}

ASSUME RoutesAssumption ==
    /\ \A r \in Request : Routes[r] \subseteq Route
    /\ None \notin Route \union Role

\* Mutant: the limiter runs before the preflight is answered.
LimitFirst == <<"rate_limit", "cors", "body_limit">>

\* engine.Use, without the ones that let everything through.
Global == <<"cors", "body_limit", "rate_limit">>

Group(r) ==
    CASE r = "probe" -> <<"handler">>
      [] r = "auth" -> <<"auth_rate_limit", "handler">>
      [] r = "own" -> <<"jwt", "handler">>
      [] r \in Slug -> <<"jwt", "authorize", "handler">>
      [] r \in {"options", "verb"} -> <<"no_method">>
      [] OTHER -> <<"no_route">>

Chain(r) == Global \o Group(r)

-----------------------------------------------------------------------------
(* Starting.                                                               *)

\* Load accepts, and the constructors of the middleware keep what they need.
Start ==
    /\ config = NotLoaded
    /\ Problems(env) = {}
    /\ LET c == InForce(env)
           origins == c["CORS_ALLOWED_ORIGINS"]
       IN  config' = [origins |-> {origins[i] : i \in DOMAIN origins},
                      credentials |-> c["CORS_ALLOW_CREDENTIALS"],
                      limited |-> c["RATE_LIMIT_ENABLED"]]
    /\ env' = NotLoaded
    /\ UNCHANGED <<limiterVars, rejections, requestVars>>

\* What the operator makes of an environment refused for the keys in wrong:
\* only these change, and none of them is reported again.
Corrected(e, wrong, fixed) ==
    /\ \A k \in Key : IF k \in wrong THEN fixed[k] \in Values[k] ELSE fixed[k] = e[k]
    /\ Problems(fixed) \intersect wrong = {}

\* Every way to set those keys.
Candidates(e, wrong) ==
    LET Reset(k, found) == {[f EXCEPT ![k] = v] : f \in found, v \in Values[k]}
    IN  FoldSet(Reset, {e}, wrong)

Corrections(e) ==
    LET wrong == Problems(e)
    IN  {fixed \in Candidates(e, wrong) : Corrected(e, wrong, fixed)}

\* Load refuses, listing its problems.
Reject ==
    /\ config = NotLoaded
    /\ Problems(env) # {}
    /\ rejections' = rejections + 1
    /\ env' \in Corrections(env)
    /\ UNCHANGED <<limiterVars, config, requestVars>>

-----------------------------------------------------------------------------
(* The middleware: what each makes of a request q, "next" or its answer.   *)
(* A request is what they look at: its route, its Origin header, whether   *)
(* its declared length is beyond the limit, and its credential.            *)

AllowsOrigin(origin) == Wildcard \in config.origins \/ origin \in config.origins

\* The headers that let a browser show the answer to a page of that origin.
CORSHeaders(origin) ==
    IF ~AllowsOrigin(origin) THEN {}
    ELSE {"allow_origin"} \union IF config.credentials THEN {"allow_credentials"} ELSE {}

\* A request of another origin runs, listed or not; its preflight does not.
CORS(q) ==
    IF q.route # "options" \/ q.origin = NoOrigin THEN "next"
    ELSE IF AllowsOrigin(q.origin) THEN "NO_CONTENT" ELSE "ORIGIN_REFUSED"

\* A declared length is refused here, one that lies fails in the handler.
BodyLimit(q) == IF q.oversized THEN "PAYLOAD_TOO_LARGE" ELSE "next"

IsProbePath(q) == q.route = "probe"

\* Probes are let through, and everything when the limiters are disabled; the
\* others wait for what the store makes of them.
Enforce(q) == IF IsProbePath(q) \/ ~config.limited THEN "next" ELSE "limited"

\* bearerToken, Parse and the guard: what each credential is refused with.
Refusal == [missing |-> "UNAUTHORIZED", malformed |-> "UNAUTHORIZED",
            expired |-> "TOKEN_EXPIRED", forged |-> "TOKEN_INVALID",
            suspended |-> "USER_SUSPENDED", stale |-> "TOKEN_STALE"]

Credential == DOMAIN Refusal \union Role

Authenticate(q) == IF q.credential \in Role THEN "next" ELSE Refusal[q.credential]

\* Mutant: lower is taken for less senior.
Inverted(role, slug) ==
    \/ HierarchyLevel[role] <= SuperAdminLevel
    \/ HierarchyLevel[role] >= RequiredLevel(slug) /\ slug \in Grants[role]

Opens(role, slug) ==
    \/ HierarchyLevel[role] <= SuperAdminLevel
    \/ HierarchyLevel[role] <= RequiredLevel(slug) /\ slug \in Grants[role]

Authorize(q) ==
    IF q.credential \notin Role THEN "UNAUTHORIZED"
    ELSE IF Opens(q.credential, q.route) THEN "next" ELSE "FORBIDDEN"

\* The last of a chain is a handler, whose answer is the other modules'
\* subject, or refuses a request that no route matches.
Verdict(h, q) ==
    CASE h = "cors" -> CORS(q)
      [] h = "body_limit" -> BodyLimit(q)
      [] h \in {"rate_limit", "auth_rate_limit"} -> Enforce(q)
      [] h = "jwt" -> Authenticate(q)
      [] h = "authorize" -> Authorize(q)
      [] h = "handler" -> "HANDLED"
      [] h = "no_method" -> "METHOD_NOT_ALLOWED"
      [] OTHER -> "NOT_FOUND"

-----------------------------------------------------------------------------
(* Requests. Between two visits to a limiter's store they touch nothing of *)
(* each other's, so a request runs that part of its chain in one step.     *)

StoreOf == [rate_limit |-> "global", auth_rate_limit |-> "auth"]

\* What there is to see of a request from a place in its chain on, up to the
\* store that has to be asked. A header is made up when it is looked at.
Looks(what, from) ==
    LET chain == Chain(what)
        asks == {i \in from..Len(chain) : chain[i] \in DOMAIN StoreOf
                                            /\ Enforce([route |-> what]) = "limited"}
        seen == {chain[i] : i \in {j \in from..Len(chain) : \A k \in asks : j < k}}
    IN  [route: {what},
         origin: {NoOrigin} \union IF "cors" \in seen /\ what = "options" THEN Origin ELSE {},
         oversized: {FALSE} \union IF "body_limit" \in seen THEN {TRUE} ELSE {},
         credential: {"missing"} \union IF "jwt" \in seen THEN Credential ELSE {}]

\* c.Next() until something answers, or a store has to be asked.
Run(r, q, from) ==
    \E stop \in from..Len(Chain(q.route)) :
        LET verdict == Verdict(Chain(q.route)[stop], q)
        IN  /\ verdict # "next"
            /\ \A i \in from..(stop - 1) : Verdict(Chain(q.route)[i], q) = "next"
            /\ IF verdict = "limited"
                 THEN /\ index' = [index EXCEPT ![r] = stop]
                      /\ UNCHANGED <<claims, answer>>
                 ELSE /\ index' = [index EXCEPT ![r] = 0]
                      /\ answer' = [answer EXCEPT ![r] = verdict]
                      /\ claims' = [claims EXCEPT ![r] = IF q.credential \in Role
                                                           THEN q.credential ELSE @]

Arrive(r) ==
    /\ config # NotLoaded
    /\ route[r] = None
    /\ \E what \in Routes[r] : \E q \in Looks(what, 1) :
          /\ route' = [route EXCEPT ![r] = what]
          /\ Run(r, q, 1)
    /\ UNCHANGED <<limiterVars, env, rejections, config>>

AtStore(r) == index[r] # 0
Asking(r) == StoreOf[Chain(route[r])[index[r]]]

\* The store it is at has not been asked yet.
Fresh(r) == visit[r] # Away => visit[r].store # Asking(r)

AskStore(r) ==
    /\ AtStore(r) /\ Fresh(r)
    /\ \E k \in Caller : (visit[r] # Away => k = visit[r].caller) /\ Lookup(r, Asking(r), k)
    /\ UNCHANGED gateOnly

Admitted(r) == visit'[r].at = "admitted"

ReserveToken(r) ==
    /\ AtStore(r) /\ ~Fresh(r)
    /\ Reserve(r)
    /\ IF Admitted(r) THEN \E q \in Looks(route[r], index[r] + 1) : Run(r, q, index[r] + 1)
                      ELSE UNCHANGED <<index, claims, answer>>
    /\ UNCHANGED <<env, rejections, config, route>>

Refuse(r) ==
    /\ AtStore(r) /\ ~Fresh(r)
    /\ Cancel(r)
    /\ index' = [index EXCEPT ![r] = 0]
    /\ answer' = [answer EXCEPT ![r] = "RATE_LIMITED"]
    /\ UNCHANGED <<env, rejections, config, route, claims>>

-----------------------------------------------------------------------------

Done == (\A r \in Request : answer[r] # None) /\ UNCHANGED gateVars

Init ==
    /\ LimiterInit
    /\ env \in Environment
    /\ rejections = 0
    /\ config = NotLoaded
    /\ route = [r \in Request |-> None]
    /\ index = [r \in Request |-> 0]
    /\ claims = [r \in Request |-> None]
    /\ answer = [r \in Request |-> None]

Handle(r) == Arrive(r) \/ AskStore(r) \/ ReserveToken(r) \/ Refuse(r)

Next ==
    \/ Start \/ Reject
    \/ \E r \in Request : Handle(r)
    \/ (Sweep /\ UNCHANGED gateOnly)
    \/ (config # NotLoaded /\ Tick /\ UNCHANGED gateOnly)
    \/ Done

Spec == Init /\ [][Next]_gateVars

-----------------------------------------------------------------------------

Answer == {"NO_CONTENT", "ORIGIN_REFUSED", "PAYLOAD_TOO_LARGE", "RATE_LIMITED", "FORBIDDEN"}
            \union {Refusal[c] : c \in DOMAIN Refusal}
            \union {"HANDLED", "METHOD_NOT_ALLOWED", "NOT_FOUND"}

ASSUME AnswerAssumption == None \notin Answer

TypeOK ==
    /\ LimiterTypeOK
    /\ rejections \in Nat
    /\ config \in Kept \union {NotLoaded}
    /\ route \in [Request -> Route \union {None}]
    /\ claims \in [Request -> Role \union {None}]
    /\ answer \in [Request -> Answer \union {None}]
    /\ index \in [Request -> Nat]
    /\ \A r \in Request : index[r] # 0 => route[r] # None /\ answer[r] = None

\* However many keys are wrong, an operator who corrects every key a refusal
\* lists is refused at most twice: Load gathers problems instead of returning
\* on the first. Its comment promises that one refusal lists everything, which
\* a rule that needs another key's value cannot keep. (reader, validate.)
ThirdStartSucceeds == rejections <= 2

\* No configuration the service starts with lets a browser send credentials to
\* it from an origin that was not listed by name. (validateCORS and the CORS
\* middleware, which leaves this case to it.)
NoCredentialsForAnyone ==
    config # NotLoaded =>
        \A origin \in Origin :
            "allow_credentials" \in CORSHeaders(origin) => origin \in config.origins

\* The tokens a store has given out.
TokensSpent(s) == UNION {{k} \X DOMAIN admitted[s][k] : k \in Caller}

\* The stores a request pays on its way to its handler.
Owes(r) ==
    CASE route[r] \in {"probe", None} -> {}
      [] route[r] = "auth" -> Store
      [] OTHER -> {"global"}

Handled(r) == answer[r] = "HANDLED"
Preflight(r) == answer[r] \in {"NO_CONTENT", "ORIGIN_REFUSED"}

\* No handler runs before its request has been let through by every limiter in
\* front of it, and a token is spent by nothing else: not by a probe, nor by a
\* preflight, nor by a body refused for its size. (registerRoutes, enforce.)
TokensPayForHandlers ==
    config # NotLoaded /\ config.limited =>
        \A s \in Store :
            LET handled == {r \in Request : Handled(r) /\ s \in Owes(r)}
                paying == {r \in Request : s \in Owes(r) /\ ~Preflight(r)
                                             /\ answer[r] # "PAYLOAD_TOO_LARGE"}
            IN  /\ Cardinality(handled) <= Cardinality(TokensSpent(s))
                /\ Cardinality(TokensSpent(s)) <= Cardinality(paying)

\* Whom the seeded roles are meant to let in.
Intended(slug) ==
    {"SUPER_ADMIN", "ADMIN"} \union IF slug \in ReadSlugs THEN {"MANAGER"} ELSE {}

\* With the roles as they are seeded, reading is for managers and whoever
\* stands above them and changing anything for administrators; a user's token
\* opens no gated route, and no route is closed to those it is meant for.
\* (catalogue.go, registerRoutes, Authorize.)
SeededAccess ==
    \A r \in Request :
        route[r] \in Slug =>
            /\ Handled(r) => claims[r] \in Intended(route[r])
            /\ answer[r] = "FORBIDDEN" => claims[r] \notin Intended(route[r])
=============================================================================
