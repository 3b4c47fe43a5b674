------------------------------ MODULE Settings ------------------------------
(***************************************************************************)
(* How the HTTP process gets its configuration: shared/env/reader.rs, the  *)
(* settings root/config.rs, root/http.rs and root/auth.rs read with it,    *)
(* the checks across settings, and the constructors that look at the       *)
(* values again after the process has begun to open things.                *)
(* A raw value is a text and, where the text is an exact integer, its      *)
(* number.  Texts are told apart only by what the parsers and constructors *)
(* do with them.                                                           *)
(***************************************************************************)
EXTENDS Integers, Sequences

CONSTANTS Envs,        \* the captured environments considered
          NaN,         \* the number of a text that is no exact integer
          MaxTime,     \* MAX_TIME_MS, 253402300799999 in the code
          Safe,        \* SAFE_INTEGER, 2^53 - 1 in the code
          Malformed,   \* texts every parser refuses
          Loopback,    \* texts that name a loopback host
          Short        \* texts below 32 bytes

\* The bounds of the reads below lie within Safe, and an environment has an
\* integer or NaN where one is read.
ASSUME SettingsAssumption ==
  /\ MaxTime \in Int /\ Safe \in Int /\ 86400000 <= MaxTime /\ MaxTime <= Safe
  /\ NaN \in Int /\ NaN < -Safe /\ Malformed \cap Loopback = {}
  /\ \A e \in Envs : \A k \in DOMAIN e : e[k].n \in Int

\* The empty text.
Blank == ""
T(s) == [text |-> s, n |-> NaN]
N(i) == [text |-> "number", n |-> i]
Yes == T("true")
No  == T("false")

Row(k, kind, def, lo, hi, allowed) ==
  [key |-> k, kind |-> kind, def |-> def, lo |-> lo, hi |-> hi, allowed |-> allowed]
Str(k, d)         == Row(k, "string", T(d), 0, 0, {})
Req(k)            == Row(k, "required", T(Blank), 0, 0, {})
Sec(k)            == Row(k, "secret", T(Blank), 0, 0, {})
Num(k, d, lo, hi) == Row(k, "int", N(d), lo, hi, {})
Flag(k, d)        == Row(k, "boolean", d, 0, 0, {"true", "false"})
Enum(k, d, cs)    == Row(k, "enumeration", T(d), 0, 0, cs)

(* The reads between two branches or checks of the source.  They have no   *)
(* effect but on the reader, so they are one step.                         *)
BaseReads == {
  Str("SERVICE_NAME", "n2f-foundations"), Str("SERVICE_NAMESPACE", "n2f"), Str("SERVICE_VERSION", "dev"),
  Enum("APP_ENV", "development", {"development", "test", "production"}),
  Enum("LOG_FORMAT", "console", {"console", "json", "none"}),
  Enum("LOG_LEVEL", "info", {"debug", "info", "warn", "error"}),
  Enum("LOG_COLOR", "auto", {"auto", "always", "never"}),
  Num("LOG_CAPACITY", 256, 1, 65536), Num("LOG_MAX_BYTES", 65536, 256, 1048576),
  Num("LOG_FLUSH_MS", 1000, 1, 10000), Flag("DEMO_VERBOSE", No), Str("NO_COLOR", Blank),
  Sec("DEMO_TOKEN")}

HostReads == {Str("HTTP_HOST", "127.0.0.1")}
ListenReads == {
  Num("HTTP_PORT", 7200, 0, 65535), Num("HTTP_TIMEOUT_MS", 1000, 1, 30000),
  Num("SHUTDOWN_MS", 3000, 1, 30000), Flag("HTTP_TEST_ROUTES", No), Str("OUTBOUND_ORIGIN", Blank),
  Str("WS_ORIGIN", "http://localhost:3000"), Str("HTTP_TRUSTED_PROXIES", Blank)}
TelemetryReads == {
  Enum("TELEMETRY_MODE", "none", {"none", "otlp"}),
  Str("TELEMETRY_ENDPOINT", "http://127.0.0.1:7242"),
  Enum("TELEMETRY_SAMPLING", "all", {"all", "none"}), Num("TELEMETRY_QUEUE", 256, 1, 65536),
  Num("TELEMETRY_BATCH", 64, 1, 65536), Num("TELEMETRY_TIMEOUT_MS", 500, 1, 10000),
  Num("TELEMETRY_INTERVAL_MS", 500, 100, 60000), Flag("DATABASE_ENABLED", No)}
DatabaseReads == {
  Sec("DATABASE_URL"), Num("DATABASE_MAX_CONNECTIONS", 8, 1, 64),
  Num("DATABASE_TIMEOUT_MS", 1000, 1, 30000)}
EventsReads == {
  Enum("EVENTS_TRANSPORT", "postgres", {"postgres", "jetstream"}),
  Num("EVENTS_INTERVAL_MS", 100, 10, 60000)}
BrokerReads == {
  Sec("NATS_URL"), Str("NATS_STREAM", "N2F_EVENTS"), Str("NATS_CONSUMER", "mailbox"),
  Num("NATS_TIMEOUT_MS", 1000, 1, 5000)}

EnabledReads == {Flag("AUTH_ENABLED", No)}
CookieReads == {Flag("AUTH_COOKIE_SECURE", Yes), Flag("AUTH_DEV_INSECURE_COOKIES", No)}
SecureReads == {
  Str("AUTH_SESSION_COOKIE", "__Host-n2f_session"), Str("AUTH_CSRF_COOKIE", "__Host-n2f_csrf")}
InsecureReads == {
  Str("AUTH_SESSION_COOKIE", "n2f_session"), Str("AUTH_CSRF_COOKIE", "n2f_csrf")}
AuthReads == {
  Req("AUTH_ALLOWED_ORIGINS"), Sec("AUTH_CSRF_KEY"),
  Num("AUTH_CSRF_TTL_MS", 3600000, 1, 3600000),
  Num("AUTH_SESSION_ABSOLUTE_MS", 43200000, 1, MaxTime),
  Num("AUTH_SESSION_IDLE_MS", 1800000, 1, MaxTime),
  Num("AUTH_VERIFICATION_TTL_MS", 86400000, 1, MaxTime),
  Num("AUTH_RESET_TTL_MS", 900000, 1, MaxTime),
  Num("AUTH_HASH_MAX_CONCURRENT", 2, 1, 64), Num("AUTH_HASH_MAX_QUEUED", 16, 0, 4096),
  Num("AUTH_HASH_QUEUE_WAIT_MS", 2000, 1, 60000), Req("AUTH_BLOCKLIST_PATH"),
  Enum("AUTH_LIMITER", "local", {"local", "redis"}), Str("AUTH_SMTP_HOST", Blank)}
MailReads == {
  Num("AUTH_SMTP_PORT", 587, 1, 65535),
  Enum("AUTH_SMTP_SECURITY", "starttls", {"none", "starttls", "tls"}),
  Str("AUTH_SMTP_USERNAME", Blank)}
PasswordReads == {Sec("AUTH_SMTP_PASSWORD")}
MessageReads == {
  Req("AUTH_MAIL_FROM"), Str("AUTH_MAIL_FROM_NAME", "n2f"), Req("AUTH_LINK_ORIGIN"),
  Str("AUTH_VERIFY_PATH", "/verify-email"), Str("AUTH_RESET_PATH", "/reset-password"),
  Num("AUTH_SMTP_TIMEOUT_MS", 5000, 1, 30000)}
RedisReads == {
  Sec("AUTH_LIMITER_REDIS_URL"), Num("AUTH_LIMITER_TIMEOUT_MS", 500, 1, 10000),
  Num("AUTH_LIMITER_MAX_KEYS", 100000, 1, 1000000)}
AuditReads(default) == {Flag("AUDIT_ENABLED", default)}
ConsumerReads == {Str("AUDIT_CONSUMER", "audit")}

Reads(branch, rows) == [when |-> branch, reads |-> rows, check |-> "none"]
Check(branch, why)  == [when |-> branch, reads |-> {}, check |-> why]
(* What load_http_config does, in its order. *)
Loading == <<
  Reads("always", BaseReads), Check("always", "base"),
  Reads("always", HostReads), Check("always", "host"),
  Reads("always", ListenReads), Check("always", "proxies"),
  Reads("always", TelemetryReads), Reads("database", DatabaseReads),
  Reads("always", EventsReads), Reads("broker", BrokerReads),
  Reads("always", EnabledReads), Reads("auth", CookieReads),
  Reads("secure", SecureReads), Reads("insecure", InsecureReads),
  Reads("auth", AuthReads), Reads("mail", MailReads), Check("mail", "password"),
  Reads("user", PasswordReads), Reads("mail", MessageReads),
  Reads("redis", RedisReads), Check("auth", "cookies"),
  Reads("auth", AuditReads(Yes)), Reads("no_auth", AuditReads(No)),
  Reads("always", ConsumerReads), Check("always", "problems"),
  Check("always", "fields"), Check("always", "telemetry") >>

VARIABLES env,       \* the environment captured at start
          at,        \* where the load is: what of Loading comes next
          seen,      \* Reader.seen
          problems,  \* Reader.problems: a set of <<key, reason>>
          resolved,  \* Reader.resolved, of both readers
          got,       \* key -> the value the read returned
          stage,     \* "load", a constructor of run_http and compose, "serving" or "exit"
          touched,   \* what startup changed or opened outside the process
          shown,     \* the manifest in the http.start record
          code       \* the exit code
vars == <<env, at, seen, problems, resolved, got, stage, touched, shown, code>>

Is(k, text) == k \in DOMAIN got /\ got[k].text = text
Auth == Is("AUTH_ENABLED", "true")
Mail == Auth /\ "AUTH_SMTP_HOST" \in DOMAIN got /\ got["AUTH_SMTP_HOST"].text # Blank
Wanted(branch) ==
  CASE branch = "always"   -> TRUE
    [] branch = "auth"     -> Auth
    [] branch = "no_auth"  -> ~Auth
    [] branch = "secure"   -> Auth /\ Is("AUTH_COOKIE_SECURE", "true")
    [] branch = "insecure" -> Auth /\ ~Is("AUTH_COOKIE_SECURE", "true")
    [] branch = "redis"    -> Is("AUTH_LIMITER", "redis")
    [] branch = "mail"     -> Mail
    [] branch = "user"     -> Mail /\ ~Is("AUTH_SMTP_USERNAME", Blank)
    [] branch = "database" -> Is("DATABASE_ENABLED", "true")
    [] branch = "broker"   -> Is("EVENTS_TRANSPORT", "jetstream")

Present(k) == k \in DOMAIN env
Raw(row) == IF Present(row.key) THEN env[row.key] ELSE row.def
Undefinable(row) ==
  \/ row.kind = "int" /\ (row.lo > row.hi \/ row.lo < -Safe \/ row.hi > Safe
                          \/ row.def.n \notin row.lo .. row.hi)
  \/ row.kind = "enumeration" /\ (row.def.text \notin row.allowed \/ Blank \in row.allowed)
Repeated(row, rows) == row.key \in seen \/ \E r \in rows \ {row} : r.key = row.key
(* Why a read is a problem.  The definition is looked at before the value. *)
Reason(row, rows) ==
  IF Undefinable(row) THEN "invalid_definition"
  ELSE IF Repeated(row, rows) THEN "duplicate_key"
  ELSE CASE row.kind \in {"required", "secret"} ->
              IF Raw(row).text = Blank THEN "required" ELSE "none"
         [] row.kind = "int"     ->
              IF Raw(row).n = NaN THEN "invalid_integer"
              ELSE IF Raw(row).n < row.lo \/ Raw(row).n > row.hi THEN "out_of_range" ELSE "none"
         [] row.kind = "boolean" ->
              IF Raw(row).text \notin row.allowed THEN "invalid_boolean" ELSE "none"
         [] row.kind = "enumeration" ->
              IF Raw(row).text \notin row.allowed THEN "invalid_choice" ELSE "none"
         [] OTHER                -> "none"
(* What a read that is a problem returns. *)
Placeholder(row) == CASE row.kind = "int" -> N(0) [] row.kind = "boolean" -> No
                      [] OTHER -> T(Blank)
Var(row) ==
  [key |-> row.key, value |-> IF row.kind = "secret" THEN T("[REDACTED]") ELSE Raw(row),
   secret |-> row.kind = "secret",
   source |-> IF Present(row.key) THEN "environment" ELSE "default"]

Good(rows) == {row \in rows : Reason(row, rows) = "none"}
Wrong(rows) == {<<row.key, Reason(row, rows)>> : row \in rows \ Good(rows)}
Returned(rows) ==
  [k \in {row.key : row \in rows} |->
     LET row == CHOOSE r \in rows : r.key = k
     IN  IF row \in Good(rows) THEN Raw(row) ELSE Placeholder(row)]
Extended(rows) ==
  [k \in DOMAIN got \cup DOMAIN Returned(rows) |->
     IF k \in DOMAIN got THEN got[k] ELSE Returned(rows)[k]]
ReadForgetful(rows) ==   \* mutant: earlier problems are forgotten for new ones
  /\ seen' = seen \cup {row.key : row \in rows}
  /\ got' = Extended(rows)
  /\ resolved' = resolved \cup {Var(row) : row \in Good(rows)}
  /\ problems' = IF Wrong(rows) = {} THEN problems ELSE Wrong(rows)
(* string, required, secret, int, boolean and enumeration. *)
Read(rows) ==
  /\ seen' = seen \cup {row.key : row \in rows}
  /\ got' = Extended(rows)
  /\ resolved' = resolved \cup {Var(row) : row \in Good(rows)}
  /\ problems' = problems \cup Wrong(rows)

Text(k) == got[k].text
Bad(k) == Text(k) \in Malformed
(* telemetry Config::validate *)
TelemetryAccepts == /\ ~Bad("TELEMETRY_ENDPOINT")
                    /\ got["TELEMETRY_BATCH"].n <= got["TELEMETRY_QUEUE"].n
(* What ends the load at once. *)
Refuses(why) ==
  CASE why = "base"     -> problems # {} \/ Text("SERVICE_NAME") \in Malformed \cup {Blank}
    [] why = "host"     -> Text("HTTP_HOST") \in Malformed \cup {Blank}
    [] why = "proxies"  -> Bad("HTTP_TRUSTED_PROXIES")
    [] why = "password" -> /\ Is("AUTH_SMTP_USERNAME", Blank)
                           /\ Present("AUTH_SMTP_PASSWORD")
                           /\ env["AUTH_SMTP_PASSWORD"].text # Blank
    [] why = "cookies"  -> ~ \/ Is("AUTH_COOKIE_SECURE", "true")
                             \/ /\ Is("AUTH_DEV_INSECURE_COOKIES", "true")
                                /\ Text("HTTP_HOST") \in Loopback
    [] why = "problems" -> problems # {}
    [] why = "fields"   -> \/ Auth /\ ~Is("DATABASE_ENABLED", "true")
                           \/ Is("AUDIT_ENABLED", "true") /\ ~Auth
    [] OTHER            -> ~TelemetryAccepts

Init == /\ env \in Envs /\ at = 1 /\ seen = {} /\ problems = {} /\ resolved = {}
        /\ got = <<>> /\ stage = "load" /\ touched = {} /\ shown = {} /\ code = 0

Exit(n) == stage' = "exit" /\ code' = n
Proceed == at' = at + 1 /\ stage' = IF at = Len(Loading) THEN "telemetry" ELSE stage
(* The second reader starts with nothing seen.  Every refusal exits 2.     *)
Load ==
  /\ stage = "load"
  /\ LET here == Loading[at] IN
       \/ ~Wanted(here.when) /\ Proceed /\ UNCHANGED <<seen, problems, resolved, got, code>>
       \/ /\ Wanted(here.when) /\ here.check = "none" /\ Read(here.reads) /\ Proceed
          /\ UNCHANGED code
       \/ /\ Wanted(here.when) /\ here.check # "none" /\ ~Refuses(here.check) /\ Proceed
          /\ seen' = (IF here.check = "base" THEN {} ELSE seen)
          /\ UNCHANGED <<problems, resolved, got, code>>
       \/ /\ Wanted(here.when) /\ here.check # "none" /\ Refuses(here.check) /\ Exit(2)
          /\ UNCHANGED <<at, seen, problems, resolved, got>>
  /\ UNCHANGED <<env, touched, shown>>

(* app::Config::new *)
LifetimesAccepted == got["AUTH_SESSION_IDLE_MS"].n <= got["AUTH_SESSION_ABSOLUTE_MS"].n
HostPrefixed == {"__Host-n2f_session", "__Host-n2f_csrf"}
(* Transport::new *)
TransportAccepts ==
  LET names == {Text("AUTH_SESSION_COOKIE"), Text("AUTH_CSRF_COOKIE")} IN
  /\ names \cap (Malformed \cup {Blank}) = {}
  /\ Text("AUTH_SESSION_COOKIE") # Text("AUTH_CSRF_COOKIE")
  /\ Is("AUTH_COOKIE_SECURE", "true") \/ names \cap HostPrefixed = {}
  /\ ~Bad("AUTH_ALLOWED_ORIGINS")
(* Mailer::new *)
MailerAccepts ==
  Mail => /\ {Text(k) : k \in {"AUTH_SMTP_HOST", "AUTH_MAIL_FROM", "AUTH_MAIL_FROM_NAME",
                               "AUTH_LINK_ORIGIN", "AUTH_VERIFY_PATH", "AUTH_RESET_PATH"}}
               \cap (Malformed \cup {Blank}) = {}
          /\ Text("AUTH_SMTP_USERNAME") \notin Malformed
          /\ Is("AUTH_SMTP_SECURITY", "none") => Text("AUTH_SMTP_HOST") \in Loopback
(* httpclient Client::new, Digest::new, the redis endpoint, Hasher::with_work *)
OutboundAccepts  == ~Bad("OUTBOUND_ORIGIN")
KeyAccepted      == Text("AUTH_CSRF_KEY") \notin Short
EndpointAccepted == ~Bad("AUTH_LIMITER_REDIS_URL")
HasherAccepts    == /\ got["AUTH_HASH_MAX_CONCURRENT"].n > 0
                    /\ got["AUTH_HASH_QUEUE_WAIT_MS"].n > 0
(* What run_http and compose construct, in their order, and what each looks at. *)
After == [telemetry |-> "database", database |-> "outbound", outbound |-> "migrate",
          migrate |-> "keyed", keyed |-> "blocklist", blocklist |-> "mailer",
          mailer |-> "limiter", limiter |-> "hasher", hasher |-> "transport",
          transport |-> "manifest"]
Skipped(s) == CASE s = "telemetry" -> FALSE
                [] s = "database"  -> ~Is("DATABASE_ENABLED", "true")
                [] s = "outbound"  -> Is("OUTBOUND_ORIGIN", Blank)
                [] OTHER           -> ~Auth
Accepts(s) ==
  CASE s = "telemetry" -> TelemetryAccepts
    [] s = "outbound"  -> OutboundAccepts
    [] s = "keyed"     -> KeyAccepted
    [] s = "mailer"    -> MailerAccepts
    [] s = "limiter"   -> Is("AUTH_LIMITER", "redis") => EndpointAccepted
    [] s = "hasher"    -> HasherAccepts
    [] s = "transport" -> LifetimesAccepted /\ TransportAccepts
    [] OTHER           -> TRUE
(* What fails for reasons outside the settings; a password list that is    *)
(* missing or empty is one.                                                *)
Outside == {"telemetry", "database", "migrate", "blocklist"}
Touches(s) == touched \cup ({s} \cap {"database", "migrate"})
Construct(s) ==
  /\ stage = s
  /\ \/ Skipped(s) /\ stage' = After[s] /\ UNCHANGED <<touched, code>>
     \/ ~Skipped(s) /\ Accepts(s) /\ stage' = After[s] /\ touched' = Touches(s)
        /\ UNCHANGED code
     \/ ~Skipped(s) /\ (~Accepts(s) \/ s \in Outside) /\ Exit(1) /\ UNCHANGED touched
  /\ UNCHANGED <<env, at, seen, problems, resolved, got, shown>>

NameOnly == {"AUTH_LIMITER_REDIS_URL", "AUTH_SMTP_HOST", "AUTH_SMTP_USERNAME",
             "AUTH_MAIL_FROM", "AUTH_LINK_ORIGIN"}
\* Those that begin with AUTH_.
AuthKeys == {row.key : row \in UNION {EnabledReads, CookieReads, SecureReads, InsecureReads,
                 AuthReads, MailReads, PasswordReads, MessageReads, RedisReads}}
Masked == T("[REDACTED]")
Displayed(v) == IF v.key \in NameOnly /\ v.value.text # Blank
                THEN [v EXCEPT !.value = Masked] ELSE v
(* The manifest of the AUTH_ settings, logged before the listener is bound. *)
Manifest ==
  /\ stage = "manifest" /\ stage' = "serving"
  /\ shown' = IF Auth THEN {Displayed(v) : v \in {w \in resolved : w.key \in AuthKeys}} ELSE {}
  /\ UNCHANGED <<env, at, seen, problems, resolved, got, touched, code>>

Done == stage \in {"serving", "exit"} /\ UNCHANGED vars
Next == Load \/ (\E s \in DOMAIN After : Construct(s)) \/ Manifest \/ Done
Spec == Init /\ [][Next]_vars
-----------------------------------------------------------------------------
Stages == DOMAIN After \cup {"load", "manifest", "serving", "exit"}
(* The types of the variables; no key is read twice and no definition of a *)
(* read contradicts itself, in any branch the environment selects.         *)
TypeOK ==
  /\ at \in 1 .. Len(Loading) + 1 /\ stage \in Stages /\ code \in 0 .. 2
  /\ touched \subseteq {"database", "migrate"}
  /\ \A v \in resolved : v.source \in {"environment", "default"}
  /\ \A p \in problems : p[2] # "invalid_definition" /\ p[2] # "duplicate_key"

(* A process that serves runs with a configuration that is safe as a       *)
(* whole: the cookies it sets are secure unless the operator opted out on  *)
(* a loopback host, they do not collide, the digest key is long enough,    *)
(* idle does not outlast absolute, mail in the clear stays on the machine  *)
(* and its credentials are a pair.                                         *)
ServedIsSafe ==
  stage = "serving" /\ Auth =>
    /\ \/ Is("AUTH_COOKIE_SECURE", "true")
       \/ Is("AUTH_DEV_INSECURE_COOKIES", "true") /\ Text("HTTP_HOST") \in Loopback
    /\ Text("AUTH_SESSION_COOKIE") # Text("AUTH_CSRF_COOKIE")
    /\ Text("AUTH_CSRF_KEY") \notin Short \cup {Blank}
    /\ got["AUTH_SESSION_IDLE_MS"].n <= got["AUTH_SESSION_ABSOLUTE_MS"].n
    /\ Is("DATABASE_ENABLED", "true")
    /\ Mail => /\ Is("AUTH_SMTP_SECURITY", "none") => Text("AUTH_SMTP_HOST") \in Loopback
               /\ (Present("AUTH_SMTP_PASSWORD") /\ env["AUTH_SMTP_PASSWORD"].text # Blank)
                  <=> ~Is("AUTH_SMTP_USERNAME", Blank)

\* What the parser of a row asks of a value.
Legal(row, v) ==
  /\ row.kind \in {"required", "secret"} => v.text # Blank
  /\ row.kind = "int" => v.n \in row.lo .. row.hi
  /\ row.kind \in {"boolean", "enumeration"} => v.text \in row.allowed

(* Once the load is over no value is a placeholder: each is what the       *)
(* environment said, or the default, and one its reader accepts.  The      *)
(* process never opens anything with a 0 that stood for an error.          *)
NoPlaceholderLeaves ==
  stage \notin {"load", "exit"} =>
    \A i \in DOMAIN Loading : Wanted(Loading[i].when) =>
      \A row \in Loading[i].reads :
        /\ row.key \in DOMAIN got /\ got[row.key] = Raw(row)
        /\ Legal(row, got[row.key])

(* A refusal by the reader names every setting that was missing or wrong   *)
(* when it was read, so the operator repairs them all at once.             *)
EveryProblemIsNamed ==
  stage = "exit" /\ code = 2 /\ Loading[at].check \in {"base", "problems"} =>
    \A i \in 1 .. at - 1 : Wanted(Loading[i].when) =>
      \A row \in Loading[i].reads :
        ~Legal(row, Raw(row)) => \E p \in problems : p[1] = row.key

Private == {"AUTH_CSRF_KEY", "AUTH_SMTP_PASSWORD"} \cup NameOnly
(* The start record lists settings, and shows no text that was set for a   *)
(* secret or for a setting that names infrastructure or people.            *)
ManifestHidesPrivate ==
  \A v \in shown : \A k \in Private \cap DOMAIN env :
    env[k].text \notin {Blank, Masked.text} /\ v.key \in Private => v.value.text # env[k].text

(* Settings are judged as a whole: what serves is safe, nothing that stood *)
(* for an error is used, a refusal names every wrong setting it read, and  *)
(* the start record shows no secret.                                       *)
SettingsAreSafe == /\ TypeOK /\ ServedIsSafe /\ NoPlaceholderLeaves
                   /\ EveryProblemIsNamed /\ ManifestHidesPrivate
=============================================================================
