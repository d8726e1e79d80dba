------------------------------ MODULE Startup ------------------------------
(***************************************************************************)
(* From the environment to a serving process: Config::from_map, the steps  *)
(* of main, what AppState and build_provider take from the configuration,  *)
(* and the lifetimes that issue_tokens gives to the tokens it hands out.   *)
(*                                                                         *)
(* A setting is what from_map tells apart of its text.  A number keeps its *)
(* value, and the integer types keep their widths, scaled down: TLC counts *)
(* in 32 bits.  An attempt to start may fail or be killed at every await   *)
(* and is repeated, with the same settings or others; only the schema      *)
(* stays.                                                                  *)
(***************************************************************************)
EXTENDS Integers

CONSTANTS
  MaxU32, MaxI64, MaxU64,  \* the largest values of the types
  MaxSpan, MaxTime,        \* of a chrono Duration and DateTime, in seconds
  Numbers,                 \* numbers that settings may hold
  Clock,                   \* times at which tokens are issued
  Defaults,                \* of the numbers that are not set
  Leeway,                  \* of jwt.rs, 5 s
  Migrations               \* how many there are

ASSUME StartupAssumption ==
  /\ {MaxU32, MaxI64, MaxU64, MaxSpan, MaxTime, Leeway, Migrations} \subseteq Nat
  /\ MaxU32 < MaxI64 /\ MaxU64 = 2 * MaxI64 + 1 /\ MaxTime < MaxSpan /\ MaxSpan < MaxI64
  /\ {"DATABASE_MAX_CONNECTIONS", "ACCESS_TOKEN_TTL_SECS", "REFRESH_TOKEN_TTL_SECS"} \subseteq DOMAIN Defaults
  /\ \A n \in DOMAIN Defaults : Defaults[n] \in 0..MaxU32
  /\ Clock \subseteq 0..MaxTime

VARIABLES
  env,     \* the settings of this attempt
  pc,      \* of main
  config,  \* what from_map returned
  scheme,  \* what the listener speaks
  schema,  \* migrations that the database has seen
  login    \* the last answer of issue_tokens

vars == <<env, pc, config, scheme, schema, login>>

\* Numbers that are not set, and texts that are no number (a
\* minus sign included; a leading plus is taken, and the number is the one after it).
Unset == -2
Junk == -1

Text == {"unset", "blank", "set"}
Secrets == {"unset", "blank", "short", "placeholder", "strong"}

\* The settings of an attempt: any texts, or any numbers beside the base.
TextSettings ==
  [ENVIRONMENT: {"unset", "production", "dev", "junk"}, DATABASE_URL: Text, JWT_SECRET: Secrets,
   PROVIDER: {"unset", "ollama", "openai", "anthropic", "junk"},
   OPENAI_API_KEY: Text, ANTHROPIC_API_KEY: Text, TLS_CERT_PATH: Text, TLS_KEY_PATH: Text,
   number: {[n \in DOMAIN Defaults |-> Unset]}]

\* The least that starts.
Base ==
  [ENVIRONMENT |-> "unset", DATABASE_URL |-> "set", JWT_SECRET |-> "strong", PROVIDER |-> "unset",
   OPENAI_API_KEY |-> "unset", ANTHROPIC_API_KEY |-> "unset",
   TLS_CERT_PATH |-> "unset", TLS_KEY_PATH |-> "unset",
   number |-> [n \in DOMAIN Defaults |-> Unset]]

Settings ==
  TextSettings \cup
    {[Base EXCEPT !.number = f] : f \in [DOMAIN Defaults -> Numbers \cup {Unset, Junk}]}

None == [started |-> FALSE]

-----------------------------------------------------------------------------
(* Config::from_map                                                        *)

\* Faulty: only a missing variable is unset.
get_untrimmed(text) == text # "unset"

\* get: a blank text counts as unset.
get(text) == text \notin {"unset", "blank"}

Width == [n \in DOMAIN Defaults |-> IF n \in {"ACCESS_TOKEN_TTL_SECS", "REFRESH_TOKEN_TTL_SECS"}
                                    THEN MaxU64 ELSE MaxU32]

parses(n, number) == number = Unset \/ number \in 0..Width[n]

parsed(n, number) == IF number = Unset THEN Defaults[n] ELSE number

production(e) == e.ENVIRONMENT = "production"

kind(e) == IF e.PROVIDER = "unset" THEN "ollama" ELSE e.PROVIDER

\* The early returns.
accepted(e) ==
  /\ e.ENVIRONMENT # "junk"
  /\ get(e.DATABASE_URL)
  /\ get(e.JWT_SECRET) /\ e.JWT_SECRET # "short"
  /\ ~(production(e) /\ e.JWT_SECRET = "placeholder")
  /\ e.PROVIDER # "junk"
  /\ kind(e) = "openai" => get(e.OPENAI_API_KEY)
  /\ kind(e) = "anthropic" => get(e.ANTHROPIC_API_KEY)
  /\ get(e.TLS_CERT_PATH) = get(e.TLS_KEY_PATH)
  /\ \A n \in DOMAIN Defaults : parses(n, e.number[n])

from_map(e) ==
  [started |-> TRUE, production |-> production(e), jwt_secret |-> e.JWT_SECRET, provider |-> kind(e),
   tls |-> get(e.TLS_CERT_PATH) /\ get(e.TLS_KEY_PATH),
   number |-> [n \in DOMAIN Defaults |-> parsed(n, e.number[n])]]

-----------------------------------------------------------------------------
(* main                                                                    *)

Init ==
  /\ env = Base /\ pc = "down" /\ config = None /\ scheme = "none" /\ schema = 0 /\ login = None

\* The process is started; it ends at once if from_map refuses its settings.
Launch ==
  /\ pc = "down"
  /\ env' \in {e \in Settings : accepted(e)}
  /\ pc' = "connect"
  /\ config' = from_map(env')
  /\ UNCHANGED <<scheme, schema, login>>

\* A step of main returns an error, or the process is killed.
Exit ==
  /\ pc # "down"
  /\ env' = Base /\ pc' = "down" /\ config' = None /\ scheme' = "none" /\ login' = None
  /\ UNCHANGED schema

\* A pool of no connections waits for one until its acquire_timeout.
Connect ==
  /\ pc = "connect" /\ config.number["DATABASE_MAX_CONNECTIONS"] > 0
  /\ pc' = "migrate"
  /\ UNCHANGED <<env, config, scheme, schema, login>>

\* Each migration is a transaction of its own.
Migrate ==
  /\ pc = "migrate"
  /\ \/ schema < Migrations /\ schema' = schema + 1 /\ UNCHANGED pc
     \/ schema = Migrations /\ pc' = "serve" /\ UNCHANGED schema
  /\ UNCHANGED <<env, config, scheme, login>>

\* build_provider and AppState::new; the certificate loads, the address is bound.
Serve ==
  /\ pc = "serve"
  /\ pc' = "serving"
  /\ scheme' = IF config.tls THEN "tls" ELSE "plain"
  /\ UNCHANGED <<env, config, schema, login>>

-----------------------------------------------------------------------------
(* Token lifetimes.                                                        *)

\* `as i64`, and an addition that wraps in a release build.
as_i64(n) == IF n <= MaxI64 THEN n ELSE n - (MaxU64 + 1)
wrapping_add(a, b) == ((a + b + MaxI64 + 1) % (MaxU64 + 1)) - (MaxI64 + 1)

\* Faulty: a cast that keeps 32 bits.
issue_as_u32(ttl, now) == now + (ttl % (MaxU32 + 1))

issue(ttl, now) == wrapping_add(now, as_i64(ttl))

\* The claims hold for a while after exp; a negative exp is no valid claim.
verify(exp, time) == exp >= 0 /\ time <= exp + Leeway

\* The answer at the time now.  from_std or the addition to now fails: no answer
\* that grants anything.
Login(now) ==
  LET ttl == config.number["ACCESS_TOKEN_TTL_SECS"]
      refresh_ttl == config.number["REFRESH_TOKEN_TTL_SECS"]
  IN [started |-> TRUE, now |-> now, exp |-> issue(ttl, now), expires_in |-> ttl,
      granted |-> refresh_ttl <= MaxSpan /\ now + refresh_ttl <= MaxTime,
      expires_at |-> now + refresh_ttl]

IssueTokens ==
  /\ pc = "serving"
  /\ \E now \in Clock : login' = Login(now)
  /\ UNCHANGED <<env, pc, config, scheme, schema>>

Next == Launch \/ Exit \/ Connect \/ Migrate \/ Serve \/ IssueTokens

Spec == Init /\ [][Next]_vars

-----------------------------------------------------------------------------
(* Properties.                                                             *)

\* However often and with whatever settings the start is tried, a process that
\* serves has a complete schema, never speaks plaintext where a certificate or a
\* key was configured, has a credential for the provider it calls (build_provider
\* would take an empty one), no placeholder secret in production, and limits
\* that are the numbers written.
ServingIsConfigured ==
  pc = "serving" =>
    /\ schema = Migrations
    /\ scheme = "plain" => env.TLS_CERT_PATH # "set" /\ env.TLS_KEY_PATH # "set"
    /\ config.provider = "openai" => env.OPENAI_API_KEY = "set"
    /\ config.provider = "anthropic" => env.ANTHROPIC_API_KEY = "set"
    /\ env.ENVIRONMENT = "production" => env.JWT_SECRET = "strong"
    /\ \A n \in DOMAIN Defaults :
         config.number[n] = IF env.number[n] = Unset THEN Defaults[n] ELSE env.number[n]

\* The promise of a login: its access token is good until expires_in and the
\* leeway have passed, and never longer, whatever the configured lifetime does
\* to the cast and the sum in JwtService::issue.  It may be good for less only
\* when that sum leaves i64.  The refresh token's expiry is exact, or nothing
\* is granted.
TokensLiveAsPromised ==
  login.started =>
    /\ \A time \in login.now..(MaxU64 + MaxU64) :
         LET promised == time <= login.now + login.expires_in + Leeway
         IN /\ verify(login.exp, time) => promised
            /\ promised /\ login.now + login.expires_in <= MaxI64 => verify(login.exp, time)
    /\ login.granted => login.expires_at = login.now + config.number["REFRESH_TOKEN_TTL_SECS"]
                        /\ login.expires_at <= MaxTime

-----------------------------------------------------------------------------
(* The inductive invariant.                                                *)

\* Inductive: until it ends, an attempt has settings that from_map accepted and
\* the configuration made of them; the schema only grows; the listener is bound
\* and tokens are issued by a process that serves.
StartupInv ==
  /\ pc \in {"down", "connect", "migrate", "serve", "serving"} /\ schema \in 0..Migrations
  /\ pc # "down" => env \in Settings /\ accepted(env) /\ config = from_map(env)
  /\ pc \in {"serve", "serving"} => schema = Migrations
  /\ pc = "serving" => scheme = IF config.tls THEN "tls" ELSE "plain"
  /\ login = None \/ (pc = "serving" /\ \E now \in Clock : login = Login(now))
=============================================================================
