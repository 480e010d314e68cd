------------------------------- MODULE Config -------------------------------
(***************************************************************************)
(* config.go: what Load makes of the environment and what Validate accepts.*)
(* Of a variable only that much is kept: whether it is there, whether it   *)
(* is all spaces, and whether its parser (Atoi, ParseDuration, ParseBool)  *)
(* takes it. Durations are in milliseconds. The variables that Validate    *)
(* does not look at (host, port, log level, password) are left out.        *)
(***************************************************************************)
EXTENDS Integers

\* To os.Getenv a variable that is not set is the empty text.
Variable == [text : {"", "spaces", "text"}, parses : BOOLEAN, number : Int]

Names == {"POSTGRES_DSN", "REDIS_ADDR", "BOLT_PATH", "AUTH_SECRET",
          "RATE_LIMIT_PER_MINUTE", "BALANCE_CACHE_TTL", "AUTH_SESSION_TTL"}

Environment == [Names -> Variable]

EnvOr(v, fallback) == IF v.text = "" THEN fallback ELSE v.text

\* A value that does not parse is replaced by the default, without a word.
EnvNumberOr(v, fallback) == IF v.text # "" /\ v.parses THEN v.number ELSE fallback

Second == 1000
DefaultLimit == 60
DefaultCacheTTL == 30 * Second
DefaultSessionTTL == 24 * 3600 * Second

Load(env) ==
    [PostgresDSN |-> EnvOr(env["POSTGRES_DSN"], "text"),
     RedisAddr |-> EnvOr(env["REDIS_ADDR"], "text"),
     BoltPath |-> EnvOr(env["BOLT_PATH"], "text"),
     AuthSecret |-> EnvOr(env["AUTH_SECRET"], "text"),
     RateLimitPerMinute |-> EnvNumberOr(env["RATE_LIMIT_PER_MINUTE"], DefaultLimit),
     BalanceCacheTTL |-> EnvNumberOr(env["BALANCE_CACHE_TTL"], DefaultCacheTTL),
     AuthSessionTTL |-> EnvNumberOr(env["AUTH_SESSION_TTL"], DefaultSessionTTL)]

Validate(c) == /\ "spaces" \notin {c.PostgresDSN, c.RedisAddr, c.BoltPath, c.AuthSecret}
               /\ c.RateLimitPerMinute > 0
               /\ c.BalanceCacheTTL > 0
               /\ c.AuthSessionTTL > 0
=============================================================================
