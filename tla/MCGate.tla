------------------------------- MODULE MCGate -------------------------------
(* Environments with up to two keys wrong, and requests for the gate.      *)
EXTENDS Gate, TLC

CONSTANTS r1, r2, r3

\* What .env.example asks for, one listed origin, and no limiter.
Clone == [[k \in Key |-> Unset] EXCEPT !["DATABASE_URL"] = "postgres", !["JWT_SECRET"] = "strong",
                                       !["CORS_ALLOWED_ORIGINS"] = <<"app">>,
                                       !["RATE_LIMIT_ENABLED"] = FALSE]

\* What a key may be set to: one value of each kind its rules tell apart.
AllValues ==
    LET number == {Malformed, 0, 1, 30}
        duration == {Malformed, 0, 10, 40}
    IN  [k \in Key |->
           CASE k = "DATABASE_URL" -> {Unset, "unparsable", "no_host", "postgres"}
             [] k = "JWT_SECRET" -> {Unset, "placeholder", "short", "strong"}
             [] k = "TOKEN_SECRET" -> {"short", "strong"}
             [] k = "GO_ENV" -> {"produciton", "production"}
             [] k = "MAIL_FROM_ADDRESS" -> {"not_an_address", "address"}
             [] k \in {"APP_BASE_URL", "FRONTEND_URL"} -> {"relative", "absolute"}
             [] k = "GOOGLE_REDIRECT_URL" -> {"relative", "absolute"}
             [] k \in {"SMTP_HOST", "GOOGLE_CLIENT_ID", "GOOGLE_CLIENT_SECRET"} -> {Unset, "given"}
             [] k = "TRUSTED_PROXIES" -> {<<"cidr">>, <<"cidr", "other">>}
             [] k = "CORS_ALLOWED_ORIGINS" ->
                  {<<>>, <<"app">>, <<Wildcard>>, <<Wildcard, "app">>, <<"with_path">>}
             [] k \in DOMAIN Allowed -> Allowed[k] \union {"other"}
             [] k \in DOMAIN Booleans -> {Malformed, TRUE, FALSE}
             [] k \in DOMAIN Numbers ->
                  number \union IF k \in {"RATE_LIMIT_RPS", "AUTH_RATE_LIMIT_RPM"} THEN {NaN} ELSE {}
             [] k \in DOMAIN Durations -> duration \union IF k = "REQUEST_TIMEOUT" THEN {5} ELSE {}
             [] OTHER -> {Unset}]

\* The keys the environments vary. The others are read the way one of these is.
Varied ==
    {"DATABASE_URL", "DATABASE_MAX_OPEN_CONNS", "DATABASE_MAX_IDLE_CONNS", "JWT_SECRET",
     "TOKEN_SECRET", "GO_ENV", "REQUEST_TIMEOUT", "SERVER_WRITE_TIMEOUT", "TRUSTED_PROXIES",
     "CORS_ALLOWED_ORIGINS", "CORS_ALLOW_CREDENTIALS", "RATE_LIMIT_ENABLED", "RATE_LIMIT_RPS",
     "RATE_LIMIT_BURST", "MAIL_DRIVER", "SMTP_HOST", "SMTP_PORT", "GOOGLE_CLIENT_ID",
     "GOOGLE_CLIENT_SECRET", "GOOGLE_REDIRECT_URL"}

Settings == UNION {{k} \X AllValues[k] : k \in Varied}

\* The limiter and the origins are not varied together: the gate keeps both.
Apart(k, l) ==
    {"RATE_LIMIT_ENABLED"} \subseteq {k, l}
      => {k, l} \intersect {"CORS_ALLOWED_ORIGINS", "CORS_ALLOW_CREDENTIALS"} = {}

Environments ==
    {[Clone EXCEPT ![p[1][1]] = p[1][2], ![p[2][1]] = p[2][2]] :
        p \in {q \in Settings \X Settings : Apart(q[1][1], q[2][1])}}

\* One request for anything, the others for what competes with it. The routes
\* that only read are alike to every definition, and so are those that change.
AllRoutes ==
    [r \in Request |->
        IF r = r1 THEN (Route \ Slug) \union {"users:list", "roles:manage"} ELSE {"auth"}]

Symmetry == Permutations({r2, r3})
=============================================================================
