------------------------------- MODULE Config -------------------------------
(***************************************************************************)
(* What the service reads from its environment, what it puts in force, and *)
(* what it refuses to start with. A value is what the rules tell apart:    *)
(* a URL is "absolute", "relative" or "unparsable", a secret is strong,    *)
(* short or still the placeholder; durations are in seconds.               *)
(***************************************************************************)
EXTENDS Integers, Sequences

CONSTANTS
    Unset,      \* no value, or a blank one
    Malformed,  \* a value that does not parse as its key's type
    NaN         \* the float that compares with nothing

-----------------------------------------------------------------------------
(* The keys, by the reader's method that reads them.                       *)

Allowed ==
    [LOG_LEVEL |-> {"trace", "debug", "info", "warn", "error", "fatal", "panic"},
     LOG_FORMAT |-> {"json", "console"},
     DATABASE_LOG_LEVEL |-> {"silent", "error", "warn", "info"},
     MAIL_DRIVER |-> {"log", "smtp"},
     SMTP_TLS |-> {"none", "starttls", "tls"}]

Durations ==
    [SERVER_READ_TIMEOUT |-> 15, SERVER_WRITE_TIMEOUT |-> 30, SERVER_IDLE_TIMEOUT |-> 60,
     SERVER_HEADER_TIMEOUT |-> 10, REQUEST_TIMEOUT |-> 25, SHUTDOWN_TIMEOUT |-> 15,
     DATABASE_CONN_MAX_LIFETIME |-> 3600, DATABASE_CONN_MAX_IDLE_TIME |-> 600,
     JWT_TTL |-> 86400, VERIFICATION_TOKEN_TTL |-> 86400, PASSWORD_RESET_TOKEN_TTL |-> 3600,
     CORS_MAX_AGE |-> 43200, SMTP_TIMEOUT |-> 10]

Numbers ==
    [SERVICE_PORT |-> 8080, MAX_REQUEST_BODY_BYTES |-> 1048576,
     DATABASE_MAX_OPEN_CONNS |-> 25, DATABASE_MAX_IDLE_CONNS |-> 5, BCRYPT_COST |-> 12,
     RATE_LIMIT_BURST |-> 40, AUTH_RATE_LIMIT_BURST |-> 5, SMTP_PORT |-> 587,
     RATE_LIMIT_RPS |-> 20, AUTH_RATE_LIMIT_RPM |-> 10, SENTRY_TRACES_SAMPLE_RATE |-> 0]

Booleans == [CORS_ALLOW_CREDENTIALS |-> TRUE, RATE_LIMIT_ENABLED |-> TRUE]

Lists ==
    [TRUSTED_PROXIES |-> <<>>, CORS_ALLOWED_ORIGINS |-> <<>>,
     CORS_ALLOWED_METHODS |-> <<"GET", "POST", "PUT", "PATCH", "DELETE", "OPTIONS">>,
     CORS_ALLOWED_HEADERS |-> <<"Authorization", "Content-Type", "X-Request-ID">>,
     CORS_EXPOSED_HEADERS |-> <<"X-Request-ID">>]

Required == {"DATABASE_URL", "JWT_SECRET"}

Texts ==
    [GO_ENV |-> "development", APP_NAME |-> "go-gin-template", APP_BASE_URL |-> "absolute",
     SERVICE_HOST |-> "127.0.0.1", MAIL_FROM_ADDRESS |-> "address", FRONTEND_URL |-> "absolute",
     LOG_LEVEL |-> "info", LOG_FORMAT |-> "json", DATABASE_LOG_LEVEL |-> "warn",
     MAIL_DRIVER |-> "log", SMTP_TLS |-> "starttls"]

\* Keys whose default is another key's value, and those whose default is empty.
Follows == [JWT_ISSUER |-> "APP_NAME", MAIL_FROM_NAME |-> "APP_NAME",
            SENTRY_ENVIRONMENT |-> "GO_ENV"]

Optional == {"TOKEN_SECRET", "SMTP_HOST", "SMTP_USERNAME", "SMTP_PASSWORD", "ADMIN_USERNAME",
             "ADMIN_EMAIL", "ADMIN_PASSWORD", "GOOGLE_CLIENT_ID", "GOOGLE_CLIENT_SECRET",
             "GOOGLE_REDIRECT_URL", "SENTRY_DSN"}

Key == DOMAIN Durations \union DOMAIN Numbers \union DOMAIN Booleans \union DOMAIN Lists
         \union DOMAIN Texts \union DOMAIN Follows \union Required \union Optional

-----------------------------------------------------------------------------
(* The reader.                                                             *)

Positive(v) == v # NaN /\ v > 0

\* The keys the reader reports a problem with, and gives their default.
Misread(env, k) ==
    \/ env[k] = Malformed
    \/ k \in Required /\ env[k] = Unset
    \/ k \in DOMAIN Allowed /\ env[k] \notin Allowed[k] \union {Unset}
    \/ k \in DOMAIN Durations /\ env[k] # Unset /\ ~Positive(env[k])

DefaultOf(k) ==
    CASE k \in DOMAIN Durations -> Durations[k]
      [] k \in DOMAIN Numbers -> Numbers[k]
      [] k \in DOMAIN Booleans -> Booleans[k]
      [] k \in DOMAIN Lists -> Lists[k]
      [] k \in DOMAIN Texts -> Texts[k]
      [] OTHER -> Unset

\* Load, up to validate: what each key is taken to be.
InForce(env) ==
    LET read == [k \in Key |-> IF env[k] = Unset \/ Misread(env, k) THEN DefaultOf(k) ELSE env[k]]
    IN  [k \in Key |-> IF k \in DOMAIN Follows /\ env[k] = Unset THEN read[Follows[k]] ELSE read[k]]

-----------------------------------------------------------------------------
(* The rules. Each yields the keys it reports, given the values in force.  *)

Reported(k, wrong) == IF wrong THEN {k} ELSE {}

ValidateAbsoluteURL(c, k) == Reported(k, c[k] \notin {Unset, "absolute"})

ValidateApp(c) ==
    Reported("GO_ENV", c["GO_ENV"] \notin {"development", "test", "staging", "production"})
      \union ValidateAbsoluteURL(c, "APP_BASE_URL")
      \union ValidateAbsoluteURL(c, "FRONTEND_URL")

IsPort(n) == n \in 1..65535

ValidateServer(c) ==
    Reported("SERVICE_PORT", ~IsPort(c["SERVICE_PORT"]))
      \union Reported("REQUEST_TIMEOUT", c["REQUEST_TIMEOUT"] >= c["SERVER_WRITE_TIMEOUT"])
      \union Reported("MAX_REQUEST_BODY_BYTES", c["MAX_REQUEST_BODY_BYTES"] <= 0)
      \union Reported("TRUSTED_PROXIES",
                      \E i \in DOMAIN c["TRUSTED_PROXIES"] : c["TRUSTED_PROXIES"][i] # "cidr")

\* Nothing else of the database is looked at without a URL that parses.
ValidateDatabase(c) ==
    CASE c["DATABASE_URL"] = Unset -> {}
      [] c["DATABASE_URL"] = "unparsable" -> {"DATABASE_URL"}
      [] OTHER ->
           Reported("DATABASE_URL", c["DATABASE_URL"] \in {"other_scheme", "no_host"})
             \union Reported("DATABASE_MAX_OPEN_CONNS", c["DATABASE_MAX_OPEN_CONNS"] < 1)
             \union Reported("DATABASE_MAX_IDLE_CONNS",
                       \/ c["DATABASE_MAX_IDLE_CONNS"] < 0
                       \/ c["DATABASE_MAX_IDLE_CONNS"] > c["DATABASE_MAX_OPEN_CONNS"])

ValidateSecret(c, k) == Reported(k, c[k] \in {"placeholder", "short"})

\* The default of JWT_ISSUER is never empty, so that rule cannot fire.
ValidateAuth(c) ==
    ValidateSecret(c, "JWT_SECRET") \union ValidateSecret(c, "TOKEN_SECRET")
      \union Reported("BCRYPT_COST", c["BCRYPT_COST"] \notin 10..31)
      \union Reported("JWT_ISSUER", c["JWT_ISSUER"] = Unset)

Wildcard == "*"

HasWildcard(c) ==
    \E i \in DOMAIN c["CORS_ALLOWED_ORIGINS"] : c["CORS_ALLOWED_ORIGINS"][i] = Wildcard

\* Mutant: the wildcard is refused beside other origins only.
LaxCORS(c) ==
    Reported("CORS_ALLOWED_ORIGINS",
             HasWildcard(c) /\ Len(c["CORS_ALLOWED_ORIGINS"]) > 1)

\* An origin with anything after its host never matches what a browser sends.
ValidateCORS(c) ==
    Reported("CORS_ALLOWED_ORIGINS",
        \/ \E i \in DOMAIN c["CORS_ALLOWED_ORIGINS"] : c["CORS_ALLOWED_ORIGINS"][i] = "with_path"
        \/ HasWildcard(c) /\ c["CORS_ALLOW_CREDENTIALS"]
        \/ HasWildcard(c) /\ Len(c["CORS_ALLOWED_ORIGINS"]) > 1)

\* rate <= 0 is how the code asks, and it is false of NaN.
NotPositive(rate) == rate # NaN /\ rate <= 0

ValidateRateLimit(c) ==
    IF ~c["RATE_LIMIT_ENABLED"] THEN {}
    ELSE Reported("RATE_LIMIT_RPS", NotPositive(c["RATE_LIMIT_RPS"]))
           \union Reported("RATE_LIMIT_BURST", c["RATE_LIMIT_BURST"] < 1)
           \union Reported("AUTH_RATE_LIMIT_RPM", NotPositive(c["AUTH_RATE_LIMIT_RPM"]))
           \union Reported("AUTH_RATE_LIMIT_BURST", c["AUTH_RATE_LIMIT_BURST"] < 1)

\* The SMTP settings matter, and are looked at, only when mail is delivered.
ValidateMail(c) ==
    Reported("MAIL_FROM_ADDRESS", c["MAIL_FROM_ADDRESS"] = "not_an_address")
      \union IF c["MAIL_DRIVER"] # "smtp" THEN {}
             ELSE Reported("SMTP_HOST", c["SMTP_HOST"] = Unset)
                    \union Reported("SMTP_PORT", ~IsPort(c["SMTP_PORT"]))

ValidateIntegrations(c) ==
    LET hasID == c["GOOGLE_CLIENT_ID"] # Unset
        hasSecret == c["GOOGLE_CLIENT_SECRET"] # Unset
        rate == c["SENTRY_TRACES_SAMPLE_RATE"]
    IN  Reported("GOOGLE_CLIENT_ID", hasID # hasSecret)
          \union Reported("GOOGLE_REDIRECT_URL",
                          hasID /\ hasSecret /\ c["GOOGLE_REDIRECT_URL"] = Unset)
          \union ValidateAbsoluteURL(c, "GOOGLE_REDIRECT_URL")
          \union Reported("SENTRY_TRACES_SAMPLE_RATE", rate # NaN /\ (rate < 0 \/ rate > 1))

Validate(c) ==
    ValidateApp(c) \union ValidateServer(c) \union ValidateDatabase(c) \union ValidateAuth(c)
      \union ValidateCORS(c) \union ValidateRateLimit(c) \union ValidateMail(c)
      \union ValidateIntegrations(c)

\* Mutant: nothing is validated until everything could be read.
InTwoPasses(env) ==
    LET misread == {k \in Key : Misread(env, k)}
    IN  IF misread # {} THEN misread ELSE Validate(InForce(env))

\* Load: every problem of one start, of reading and of validating alike.
Problems(env) == {k \in Key : Misread(env, k)} \union Validate(InForce(env))
=============================================================================
