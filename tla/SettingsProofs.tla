--------------------------- MODULE SettingsProofs ---------------------------
(***************************************************************************)
(* Whatever environment the process is started with: what serves is safe   *)
(* as a whole.  The invariant says of the load what its place in Loading   *)
(* means: which keys were read, and which checks were passed.              *)
(***************************************************************************)
EXTENDS Settings, TLAPS

Places == 1..27

Reading(i) == Wanted(Loading[i].when)

(* What was read comes from a place that the load has passed.              *)
GotFromPassed ==
  \A k \in DOMAIN got : \E i \in 1..(at - 1) :
    Reading(i) /\ \E row \in Loading[i].reads : row.key = k
SeenFromPassed ==
  \A k \in seen : \E i \in 1..(at - 1) :
    Reading(i) /\ \E row \in Loading[i].reads : row.key = k

(* A setting that was read is as it was set and legal, or a problem.       *)
IsNamed(k) == \E p \in problems : p[1] = k
IsRead(row) ==
  /\ row.key \in DOMAIN got
  /\ (got[row.key] = Raw(row) /\ Legal(row, Raw(row))) \/ IsNamed(row.key)
PassedAreRead ==
  \A i \in 1..(at - 1) : Reading(i) => \A row \in Loading[i].reads : IsRead(row)

Reasons == {"required", "invalid_integer", "out_of_range", "invalid_boolean", "invalid_choice"}
ProblemsAreOfValues == \A p \in problems : p[2] \in Reasons

(* The checks that were passed and still hold.                             *)
ChecksPassed ==
  /\ at > 17 /\ Mail => ~Refuses("password")
  /\ at > 21 /\ Auth => ~Refuses("cookies")
  /\ at > 25 => problems = {}
  /\ at > 26 => ~Refuses("fields")

(* What was constructed has accepted its settings.                         *)
ConstructedAccept ==
  /\ stage \in {"blocklist", "mailer", "limiter", "hasher", "transport", "manifest", "serving"}
       /\ Auth => KeyAccepted
  /\ stage \in {"limiter", "hasher", "transport", "manifest", "serving"}
       /\ Auth => MailerAccepts
  /\ stage \in {"manifest", "serving"} /\ Auth => LifetimesAccepted /\ TransportAccepts

InPlace ==
  /\ env \in Envs /\ at \in 1..28 /\ stage \in Stages /\ code \in 0..2
  /\ touched \subseteq {"database", "migrate"}
  /\ stage = "load" => at \in Places
  /\ stage = "exit" /\ code = 2 => at \in Places
  /\ stage \notin {"load", "exit"} => at = 28

ShownAreRead ==
  /\ \A v \in resolved : \E i \in Places : \E row \in Loading[i].reads : v = Var(row)
  /\ shown \subseteq {Displayed(v) : v \in resolved}

SettingsInv ==
  /\ InPlace /\ GotFromPassed /\ SeenFromPassed /\ PassedAreRead /\ ProblemsAreOfValues
  /\ ChecksPassed /\ ConstructedAccept /\ ShownAreRead
-----------------------------------------------------------------------------
(* The table.  A row is sound if its definition does not contradict itself. *)
SoundRow(row) ==
  /\ ~Undefinable(row)
  /\ row.kind \in {"string", "required", "secret", "int", "boolean", "enumeration"}
  /\ row.def.n \in Int /\ row.lo \in Int /\ row.hi \in Int

LEMMA KeyOf ==
  /\ \A k, d : Str(k, d).key = k
  /\ \A k : Req(k).key = k /\ Sec(k).key = k
  /\ \A k, d, lo, hi : Num(k, d, lo, hi).key = k
  /\ \A k, d : Flag(k, d).key = k
  /\ \A k, d, cs : Enum(k, d, cs).key = k
  BY DEF Str, Num, Flag, Enum, Sec, Req, Row

LEMMA SoundRows ==
  /\ \A k, d : SoundRow(Str(k, d))
  /\ \A k : SoundRow(Req(k)) /\ SoundRow(Sec(k))
  /\ \A k : SoundRow(Flag(k, Yes)) /\ SoundRow(Flag(k, No))
  /\ \A k : \A d, lo, hi \in Int :
       lo <= d /\ d <= hi /\ -Safe <= lo /\ hi <= Safe => SoundRow(Num(k, d, lo, hi))
  /\ \A k, d, cs : d \in cs /\ Blank \notin cs => SoundRow(Enum(k, d, cs))
<1> USE SettingsAssumption DEF SoundRow, Undefinable, Row, T, N
<1>1. \A k, d : SoundRow(Str(k, d))
  BY SMT DEF Str
<1>2. \A k : SoundRow(Req(k)) /\ SoundRow(Sec(k))
  BY SMT DEF Req, Sec
<1>3. \A k : SoundRow(Flag(k, Yes)) /\ SoundRow(Flag(k, No))
  BY SMT DEF Flag, Yes, No
<1>4. \A k : \A d, lo, hi \in Int :
       lo <= d /\ d <= hi /\ -Safe <= lo /\ hi <= Safe => SoundRow(Num(k, d, lo, hi))
  BY SMT DEF Num
<1>5. \A k, d, cs : d \in cs /\ Blank \notin cs => SoundRow(Enum(k, d, cs))
  BY SMT DEF Enum
<1> QED
  BY <1>1, <1>2, <1>3, <1>4, <1>5

(* The place of Loading that reads a key, the first of two.                *)
Home(k) ==
  IF k \in {"SERVICE_NAME", "SERVICE_NAMESPACE", "SERVICE_VERSION", "APP_ENV", "LOG_FORMAT",
            "LOG_LEVEL", "LOG_COLOR", "LOG_CAPACITY", "LOG_MAX_BYTES", "LOG_FLUSH_MS",
            "DEMO_VERBOSE", "NO_COLOR", "DEMO_TOKEN"} THEN 1
  ELSE IF k = "HTTP_HOST" THEN 3
  ELSE IF k \in {"HTTP_PORT", "HTTP_TIMEOUT_MS", "SHUTDOWN_MS", "HTTP_TEST_ROUTES",
                 "OUTBOUND_ORIGIN", "WS_ORIGIN", "HTTP_TRUSTED_PROXIES"} THEN 5
  ELSE IF k \in {"TELEMETRY_MODE", "TELEMETRY_ENDPOINT", "TELEMETRY_SAMPLING", "TELEMETRY_QUEUE",
                 "TELEMETRY_BATCH", "TELEMETRY_TIMEOUT_MS", "TELEMETRY_INTERVAL_MS",
                 "DATABASE_ENABLED"} THEN 7
  ELSE IF k \in {"DATABASE_URL", "DATABASE_MAX_CONNECTIONS", "DATABASE_TIMEOUT_MS"} THEN 8
  ELSE IF k \in {"EVENTS_TRANSPORT", "EVENTS_INTERVAL_MS"} THEN 9
  ELSE IF k \in {"NATS_URL", "NATS_STREAM", "NATS_CONSUMER", "NATS_TIMEOUT_MS"} THEN 10
  ELSE IF k = "AUTH_ENABLED" THEN 11
  ELSE IF k \in {"AUTH_COOKIE_SECURE", "AUTH_DEV_INSECURE_COOKIES"} THEN 12
  ELSE IF k \in {"AUTH_SESSION_COOKIE", "AUTH_CSRF_COOKIE"} THEN 13
  ELSE IF k \in {"AUTH_ALLOWED_ORIGINS", "AUTH_CSRF_KEY", "AUTH_CSRF_TTL_MS",
                 "AUTH_SESSION_ABSOLUTE_MS", "AUTH_SESSION_IDLE_MS", "AUTH_VERIFICATION_TTL_MS",
                 "AUTH_RESET_TTL_MS", "AUTH_HASH_MAX_CONCURRENT", "AUTH_HASH_MAX_QUEUED",
                 "AUTH_HASH_QUEUE_WAIT_MS", "AUTH_BLOCKLIST_PATH", "AUTH_LIMITER",
                 "AUTH_SMTP_HOST"} THEN 15
  ELSE IF k \in {"AUTH_SMTP_PORT", "AUTH_SMTP_SECURITY", "AUTH_SMTP_USERNAME"} THEN 16
  ELSE IF k = "AUTH_SMTP_PASSWORD" THEN 18
  ELSE IF k \in {"AUTH_MAIL_FROM", "AUTH_MAIL_FROM_NAME", "AUTH_LINK_ORIGIN", "AUTH_VERIFY_PATH",
                 "AUTH_RESET_PATH", "AUTH_SMTP_TIMEOUT_MS"} THEN 19
  ELSE IF k \in {"AUTH_LIMITER_REDIS_URL", "AUTH_LIMITER_TIMEOUT_MS", "AUTH_LIMITER_MAX_KEYS"} THEN 20
  ELSE IF k = "AUDIT_ENABLED" THEN 22
  ELSE 24

Secrets == {"AUTH_CSRF_KEY", "AUTH_SMTP_PASSWORD"}

(* What a group of reads must be: sound rows of different keys, all of     *)
(* which are read in this place.                                           *)
SoundGroup(rows, place) ==
  \A row \in rows :
    /\ SoundRow(row)
    /\ Home(row.key) = place
    /\ \A r \in rows : r.key = row.key => r = row
    /\ row.key \in Secrets => row.kind = "secret"

(* No enumeration allows the empty text.                                   *)
LEMMA NoBlankChoice ==
  /\ Blank \notin {"development", "test", "production"}
  /\ Blank \notin {"console", "json", "none"}
  /\ Blank \notin {"debug", "info", "warn", "error"}
  /\ Blank \notin {"auto", "always", "never"}
  /\ Blank \notin {"none", "otlp"}
  /\ Blank \notin {"all", "none"}
  /\ Blank \notin {"postgres", "jetstream"}
  /\ Blank \notin {"local", "redis"}
  /\ Blank \notin {"none", "starttls", "tls"}
  BY Zenon DEF Blank

LEMMA BaseReadsAreSound == SoundGroup(BaseReads, 1)
<1>1. \A row \in BaseReads : SoundRow(row)
  BY SMT, SoundRows, NoBlankChoice, SettingsAssumption DEF BaseReads
<1>2. \A row \in BaseReads : Home(row.key) = 1
  BY SMT, KeyOf DEF BaseReads, Home
<1>3. \A row, r \in BaseReads : r.key = row.key => r = row
  BY SMT, KeyOf DEF BaseReads
<1>4. \A row \in BaseReads : row.key \in Secrets => row.kind = "secret"
  BY SMT, KeyOf DEF BaseReads, Secrets, Sec, Row
<1> QED
  BY <1>1, <1>2, <1>3, <1>4 DEF SoundGroup

LEMMA HostReadsAreSound == SoundGroup(HostReads, 3)
<1>1. \A row \in HostReads : SoundRow(row)
  BY SMT, SoundRows, NoBlankChoice, SettingsAssumption DEF HostReads
<1>2. \A row \in HostReads : Home(row.key) = 3
  BY SMT, KeyOf DEF HostReads, Home
<1>3. \A row, r \in HostReads : r.key = row.key => r = row
  BY SMT, KeyOf DEF HostReads
<1>4. \A row \in HostReads : row.key \in Secrets => row.kind = "secret"
  BY SMT, KeyOf DEF HostReads, Secrets, Sec, Row
<1> QED
  BY <1>1, <1>2, <1>3, <1>4 DEF SoundGroup

LEMMA ListenReadsAreSound == SoundGroup(ListenReads, 5)
<1>1. \A row \in ListenReads : SoundRow(row)
  BY SMT, SoundRows, NoBlankChoice, SettingsAssumption DEF ListenReads
<1>2. \A row \in ListenReads : Home(row.key) = 5
  BY SMT, KeyOf DEF ListenReads, Home
<1>3. \A row, r \in ListenReads : r.key = row.key => r = row
  BY SMT, KeyOf DEF ListenReads
<1>4. \A row \in ListenReads : row.key \in Secrets => row.kind = "secret"
  BY SMT, KeyOf DEF ListenReads, Secrets, Sec, Row
<1> QED
  BY <1>1, <1>2, <1>3, <1>4 DEF SoundGroup

LEMMA TelemetryReadsAreSound == SoundGroup(TelemetryReads, 7)
<1>1. \A row \in TelemetryReads : SoundRow(row)
  BY SMT, SoundRows, NoBlankChoice, SettingsAssumption DEF TelemetryReads
<1>2. \A row \in TelemetryReads : Home(row.key) = 7
  BY SMT, KeyOf DEF TelemetryReads, Home
<1>3. \A row, r \in TelemetryReads : r.key = row.key => r = row
  BY SMT, KeyOf DEF TelemetryReads
<1>4. \A row \in TelemetryReads : row.key \in Secrets => row.kind = "secret"
  BY SMT, KeyOf DEF TelemetryReads, Secrets, Sec, Row
<1> QED
  BY <1>1, <1>2, <1>3, <1>4 DEF SoundGroup

LEMMA DatabaseReadsAreSound == SoundGroup(DatabaseReads, 8)
<1>1. \A row \in DatabaseReads : SoundRow(row)
  BY SMT, SoundRows, NoBlankChoice, SettingsAssumption DEF DatabaseReads
<1>2. \A row \in DatabaseReads : Home(row.key) = 8
  BY SMT, KeyOf DEF DatabaseReads, Home
<1>3. \A row, r \in DatabaseReads : r.key = row.key => r = row
  BY SMT, KeyOf DEF DatabaseReads
<1>4. \A row \in DatabaseReads : row.key \in Secrets => row.kind = "secret"
  BY SMT, KeyOf DEF DatabaseReads, Secrets, Sec, Row
<1> QED
  BY <1>1, <1>2, <1>3, <1>4 DEF SoundGroup

LEMMA EventsReadsAreSound == SoundGroup(EventsReads, 9)
<1>1. \A row \in EventsReads : SoundRow(row)
  BY SMT, SoundRows, NoBlankChoice, SettingsAssumption DEF EventsReads
<1>2. \A row \in EventsReads : Home(row.key) = 9
  BY SMT, KeyOf DEF EventsReads, Home
<1>3. \A row, r \in EventsReads : r.key = row.key => r = row
  BY SMT, KeyOf DEF EventsReads
<1>4. \A row \in EventsReads : row.key \in Secrets => row.kind = "secret"
  BY SMT, KeyOf DEF EventsReads, Secrets, Sec, Row
<1> QED
  BY <1>1, <1>2, <1>3, <1>4 DEF SoundGroup

LEMMA BrokerReadsAreSound == SoundGroup(BrokerReads, 10)
<1>1. \A row \in BrokerReads : SoundRow(row)
  BY SMT, SoundRows, NoBlankChoice, SettingsAssumption DEF BrokerReads
<1>2. \A row \in BrokerReads : Home(row.key) = 10
  BY SMT, KeyOf DEF BrokerReads, Home
<1>3. \A row, r \in BrokerReads : r.key = row.key => r = row
  BY SMT, KeyOf DEF BrokerReads
<1>4. \A row \in BrokerReads : row.key \in Secrets => row.kind = "secret"
  BY SMT, KeyOf DEF BrokerReads, Secrets, Sec, Row
<1> QED
  BY <1>1, <1>2, <1>3, <1>4 DEF SoundGroup

LEMMA EnabledReadsAreSound == SoundGroup(EnabledReads, 11)
<1>1. \A row \in EnabledReads : SoundRow(row)
  BY SMT, SoundRows, NoBlankChoice, SettingsAssumption DEF EnabledReads
<1>2. \A row \in EnabledReads : Home(row.key) = 11
  BY SMT, KeyOf DEF EnabledReads, Home
<1>3. \A row, r \in EnabledReads : r.key = row.key => r = row
  BY SMT, KeyOf DEF EnabledReads
<1>4. \A row \in EnabledReads : row.key \in Secrets => row.kind = "secret"
  BY SMT, KeyOf DEF EnabledReads, Secrets, Sec, Row
<1> QED
  BY <1>1, <1>2, <1>3, <1>4 DEF SoundGroup

LEMMA CookieReadsAreSound == SoundGroup(CookieReads, 12)
<1>1. \A row \in CookieReads : SoundRow(row)
  BY SMT, SoundRows, NoBlankChoice, SettingsAssumption DEF CookieReads
<1>2. \A row \in CookieReads : Home(row.key) = 12
  BY SMT, KeyOf DEF CookieReads, Home
<1>3. \A row, r \in CookieReads : r.key = row.key => r = row
  BY SMT, KeyOf DEF CookieReads
<1>4. \A row \in CookieReads : row.key \in Secrets => row.kind = "secret"
  BY SMT, KeyOf DEF CookieReads, Secrets, Sec, Row
<1> QED
  BY <1>1, <1>2, <1>3, <1>4 DEF SoundGroup

LEMMA SecureReadsAreSound == SoundGroup(SecureReads, 13)
<1>1. \A row \in SecureReads : SoundRow(row)
  BY SMT, SoundRows, NoBlankChoice, SettingsAssumption DEF SecureReads
<1>2. \A row \in SecureReads : Home(row.key) = 13
  BY SMT, KeyOf DEF SecureReads, Home
<1>3. \A row, r \in SecureReads : r.key = row.key => r = row
  BY SMT, KeyOf DEF SecureReads
<1>4. \A row \in SecureReads : row.key \in Secrets => row.kind = "secret"
  BY SMT, KeyOf DEF SecureReads, Secrets, Sec, Row
<1> QED
  BY <1>1, <1>2, <1>3, <1>4 DEF SoundGroup

LEMMA InsecureReadsAreSound == SoundGroup(InsecureReads, 13)
<1>1. \A row \in InsecureReads : SoundRow(row)
  BY SMT, SoundRows, NoBlankChoice, SettingsAssumption DEF InsecureReads
<1>2. \A row \in InsecureReads : Home(row.key) = 13
  BY SMT, KeyOf DEF InsecureReads, Home
<1>3. \A row, r \in InsecureReads : r.key = row.key => r = row
  BY SMT, KeyOf DEF InsecureReads
<1>4. \A row \in InsecureReads : row.key \in Secrets => row.kind = "secret"
  BY SMT, KeyOf DEF InsecureReads, Secrets, Sec, Row
<1> QED
  BY <1>1, <1>2, <1>3, <1>4 DEF SoundGroup

LEMMA AuthReadsAreSound == SoundGroup(AuthReads, 15)
<1>1. \A row \in AuthReads : SoundRow(row)
  BY SMT, SoundRows, NoBlankChoice, SettingsAssumption DEF AuthReads
<1>2. \A row \in AuthReads : Home(row.key) = 15
  BY SMT, KeyOf DEF AuthReads, Home
<1>3. \A row, r \in AuthReads : r.key = row.key => r = row
  BY SMT, KeyOf DEF AuthReads
<1>4. \A row \in AuthReads : row.key \in Secrets => row.kind = "secret"
  BY SMT, KeyOf DEF AuthReads, Secrets, Sec, Row
<1> QED
  BY <1>1, <1>2, <1>3, <1>4 DEF SoundGroup

LEMMA MailReadsAreSound == SoundGroup(MailReads, 16)
<1>1. \A row \in MailReads : SoundRow(row)
  BY SMT, SoundRows, NoBlankChoice, SettingsAssumption DEF MailReads
<1>2. \A row \in MailReads : Home(row.key) = 16
  BY SMT, KeyOf DEF MailReads, Home
<1>3. \A row, r \in MailReads : r.key = row.key => r = row
  BY SMT, KeyOf DEF MailReads
<1>4. \A row \in MailReads : row.key \in Secrets => row.kind = "secret"
  BY SMT, KeyOf DEF MailReads, Secrets, Sec, Row
<1> QED
  BY <1>1, <1>2, <1>3, <1>4 DEF SoundGroup

LEMMA PasswordReadsAreSound == SoundGroup(PasswordReads, 18)
<1>1. \A row \in PasswordReads : SoundRow(row)
  BY SMT, SoundRows, NoBlankChoice, SettingsAssumption DEF PasswordReads
<1>2. \A row \in PasswordReads : Home(row.key) = 18
  BY SMT, KeyOf DEF PasswordReads, Home
<1>3. \A row, r \in PasswordReads : r.key = row.key => r = row
  BY SMT, KeyOf DEF PasswordReads
<1>4. \A row \in PasswordReads : row.key \in Secrets => row.kind = "secret"
  BY SMT, KeyOf DEF PasswordReads, Secrets, Sec, Row
<1> QED
  BY <1>1, <1>2, <1>3, <1>4 DEF SoundGroup

LEMMA MessageReadsAreSound == SoundGroup(MessageReads, 19)
<1>1. \A row \in MessageReads : SoundRow(row)
  BY SMT, SoundRows, NoBlankChoice, SettingsAssumption DEF MessageReads
<1>2. \A row \in MessageReads : Home(row.key) = 19
  BY SMT, KeyOf DEF MessageReads, Home
<1>3. \A row, r \in MessageReads : r.key = row.key => r = row
  BY SMT, KeyOf DEF MessageReads
<1>4. \A row \in MessageReads : row.key \in Secrets => row.kind = "secret"
  BY SMT, KeyOf DEF MessageReads, Secrets, Sec, Row
<1> QED
  BY <1>1, <1>2, <1>3, <1>4 DEF SoundGroup

LEMMA RedisReadsAreSound == SoundGroup(RedisReads, 20)
<1>1. \A row \in RedisReads : SoundRow(row)
  BY SMT, SoundRows, NoBlankChoice, SettingsAssumption DEF RedisReads
<1>2. \A row \in RedisReads : Home(row.key) = 20
  BY SMT, KeyOf DEF RedisReads, Home
<1>3. \A row, r \in RedisReads : r.key = row.key => r = row
  BY SMT, KeyOf DEF RedisReads
<1>4. \A row \in RedisReads : row.key \in Secrets => row.kind = "secret"
  BY SMT, KeyOf DEF RedisReads, Secrets, Sec, Row
<1> QED
  BY <1>1, <1>2, <1>3, <1>4 DEF SoundGroup

LEMMA AuditReadsAreSound == SoundGroup(AuditReads(Yes), 22) /\ SoundGroup(AuditReads(No), 22)
<1>1. \A row \in AuditReads(Yes) \cup AuditReads(No) : SoundRow(row)
  BY SMT, SoundRows DEF AuditReads
<1>2. \A row \in AuditReads(Yes) \cup AuditReads(No) : Home(row.key) = 22
  BY SMT, KeyOf DEF AuditReads, Home
<1>3. /\ \A row, r \in AuditReads(Yes) : r.key = row.key => r = row
      /\ \A row, r \in AuditReads(No) : r.key = row.key => r = row
  BY SMT, KeyOf DEF AuditReads
<1>4. \A row \in AuditReads(Yes) \cup AuditReads(No) : row.key \in Secrets => row.kind = "secret"
  BY SMT, KeyOf DEF AuditReads, Secrets
<1> QED
  BY <1>1, <1>2, <1>3, <1>4 DEF SoundGroup

LEMMA ConsumerReadsAreSound == SoundGroup(ConsumerReads, 24)
<1>1. \A row \in ConsumerReads : SoundRow(row)
  BY SMT, SoundRows DEF ConsumerReads
<1>2. \A row \in ConsumerReads : Home(row.key) = 24
  BY SMT, KeyOf DEF ConsumerReads, Home
<1>3. \A row, r \in ConsumerReads : r.key = row.key => r = row
  BY SMT, KeyOf DEF ConsumerReads
<1>4. \A row \in ConsumerReads : row.key \in Secrets => row.kind = "secret"
  BY SMT, KeyOf DEF ConsumerReads, Secrets
<1> QED
  BY <1>1, <1>2, <1>3, <1>4 DEF SoundGroup

(* The places that read, and what is wanted there.                         *)
LEMMA ReadPlaces ==
  /\ DOMAIN Loading = Places
  /\ Loading[1] = Reads("always", BaseReads)        /\ Loading[3] = Reads("always", HostReads)
  /\ Loading[5] = Reads("always", ListenReads)      /\ Loading[7] = Reads("always", TelemetryReads)
  /\ Loading[8] = Reads("database", DatabaseReads)  /\ Loading[9] = Reads("always", EventsReads)
  /\ Loading[10] = Reads("broker", BrokerReads)     /\ Loading[11] = Reads("always", EnabledReads)
  /\ Loading[12] = Reads("auth", CookieReads)       /\ Loading[13] = Reads("secure", SecureReads)
  /\ Loading[14] = Reads("insecure", InsecureReads) /\ Loading[15] = Reads("auth", AuthReads)
  /\ Loading[16] = Reads("mail", MailReads)         /\ Loading[18] = Reads("user", PasswordReads)
  /\ Loading[19] = Reads("mail", MessageReads)      /\ Loading[20] = Reads("redis", RedisReads)
  /\ Loading[22] = Reads("auth", AuditReads(Yes))   /\ Loading[23] = Reads("no_auth", AuditReads(No))
  /\ Loading[24] = Reads("always", ConsumerReads)
  BY SMT DEF Loading, Places

LEMMA CheckPlaces ==
  /\ Loading[2] = Check("always", "base")      /\ Loading[4] = Check("always", "host")
  /\ Loading[6] = Check("always", "proxies")   /\ Loading[17] = Check("mail", "password")
  /\ Loading[21] = Check("auth", "cookies")    /\ Loading[25] = Check("always", "problems")
  /\ Loading[26] = Check("always", "fields")   /\ Loading[27] = Check("always", "telemetry")
  BY SMT DEF Loading

CheckAt == {2, 4, 6, 17, 21, 25, 26, 27}

LEMMA Fields ==
  /\ \A b, rows : /\ Reads(b, rows).when = b /\ Reads(b, rows).reads = rows
                  /\ Reads(b, rows).check = "none"
  /\ \A b, why : /\ Check(b, why).when = b /\ Check(b, why).reads = {}
                 /\ Check(b, why).check = why
  BY SMT DEF Reads, Check

(* Where a place says that its keys are at home: only the names of cookies *)
(* and the audit setting are read in two places.                           *)
HomeAt(i) == IF i = 14 THEN 13 ELSE IF i = 23 THEN 22 ELSE i

LEMMA PlacesAreSound == \A i \in Places : SoundGroup(Loading[i].reads, HomeAt(i))
<1>1. ASSUME NEW i \in Places, i \in CheckAt
      PROVE  SoundGroup(Loading[i].reads, HomeAt(i))
  <2>1. Loading[i].reads = {}
    BY SMT, <1>1, CheckPlaces, Fields DEF CheckAt
  <2> QED
    BY <2>1 DEF SoundGroup
<1>2. /\ SoundGroup(Loading[1].reads, HomeAt(1)) /\ SoundGroup(Loading[3].reads, HomeAt(3))
      /\ SoundGroup(Loading[5].reads, HomeAt(5)) /\ SoundGroup(Loading[7].reads, HomeAt(7))
      /\ SoundGroup(Loading[8].reads, HomeAt(8)) /\ SoundGroup(Loading[9].reads, HomeAt(9))
      /\ SoundGroup(Loading[10].reads, HomeAt(10)) /\ SoundGroup(Loading[11].reads, HomeAt(11))
      /\ SoundGroup(Loading[12].reads, HomeAt(12)) /\ SoundGroup(Loading[13].reads, HomeAt(13))
  BY SMT, ReadPlaces, Fields, BaseReadsAreSound, HostReadsAreSound, ListenReadsAreSound,
     TelemetryReadsAreSound, DatabaseReadsAreSound, EventsReadsAreSound, BrokerReadsAreSound,
     EnabledReadsAreSound, CookieReadsAreSound, SecureReadsAreSound DEF HomeAt
<1>3. /\ SoundGroup(Loading[14].reads, HomeAt(14)) /\ SoundGroup(Loading[15].reads, HomeAt(15))
      /\ SoundGroup(Loading[16].reads, HomeAt(16)) /\ SoundGroup(Loading[18].reads, HomeAt(18))
      /\ SoundGroup(Loading[19].reads, HomeAt(19)) /\ SoundGroup(Loading[20].reads, HomeAt(20))
      /\ SoundGroup(Loading[22].reads, HomeAt(22)) /\ SoundGroup(Loading[23].reads, HomeAt(23))
      /\ SoundGroup(Loading[24].reads, HomeAt(24))
  BY SMT, ReadPlaces, Fields, InsecureReadsAreSound, AuthReadsAreSound, MailReadsAreSound,
     PasswordReadsAreSound, MessageReadsAreSound, RedisReadsAreSound, AuditReadsAreSound,
     ConsumerReadsAreSound DEF HomeAt
<1> QED
  BY SMT, <1>1, <1>2, <1>3 DEF Places, CheckAt

(* What a branch looks at.                                                 *)
Controls(branch) ==
  CASE branch = "always"               -> {}
    [] branch \in {"auth", "no_auth"}  -> {"AUTH_ENABLED"}
    [] branch \in {"secure", "insecure"} -> {"AUTH_ENABLED", "AUTH_COOKIE_SECURE"}
    [] branch = "redis"                -> {"AUTH_LIMITER"}
    [] branch = "mail"                 -> {"AUTH_ENABLED", "AUTH_SMTP_HOST"}
    [] branch = "user"                 -> {"AUTH_ENABLED", "AUTH_SMTP_HOST", "AUTH_SMTP_USERNAME"}
    [] branch = "database"             -> {"DATABASE_ENABLED"}
    [] OTHER                           -> {"EVENTS_TRANSPORT"}

Branches == {"always", "auth", "no_auth", "secure", "insecure", "redis", "mail", "user",
             "database", "broker"}

(* A key at home in a place before i is read in no later one.              *)
Before(k, i) == Home(k) < i /\ Home(k) \in Places \ {13, 22}

LEMMA Homes ==
  /\ Home("HTTP_HOST") = 3 /\ Home("DATABASE_ENABLED") = 7 /\ Home("EVENTS_TRANSPORT") = 9
  /\ Home("AUTH_ENABLED") = 11 /\ Home("AUTH_COOKIE_SECURE") = 12
  /\ Home("AUTH_DEV_INSECURE_COOKIES") = 12 /\ Home("AUTH_LIMITER") = 15
  /\ Home("AUTH_SMTP_HOST") = 15 /\ Home("AUTH_SMTP_USERNAME") = 16
  BY SMT DEF Home

LEMMA ControlsAreEarlier ==
  \A i \in Places : /\ Loading[i].when \in Branches
                    /\ \A k \in Controls(Loading[i].when) : Before(k, i)
<1>1. /\ \A i \in {1, 2, 3, 4, 5, 6, 7, 9, 11, 24, 25, 26, 27} : Loading[i].when = "always"
      /\ \A i \in {12, 15, 21, 22} : Loading[i].when = "auth"
      /\ Loading[23].when = "no_auth" /\ Loading[13].when = "secure"
      /\ Loading[14].when = "insecure" /\ Loading[20].when = "redis"
      /\ \A i \in {16, 17, 19} : Loading[i].when = "mail"
      /\ Loading[18].when = "user" /\ Loading[8].when = "database" /\ Loading[10].when = "broker"
  BY SMT, ReadPlaces, CheckPlaces, Fields
<1>2. \A i \in Places : \/ i \in {1, 2, 3, 4, 5, 6, 7, 9, 11, 24, 25, 26, 27}
                        \/ i \in {12, 15, 21, 22} \/ i \in {16, 17, 19}
                        \/ i \in {8, 10, 13, 14, 18, 20, 23}
  BY SMT DEF Places
<1>3. \A i \in Places : Loading[i].when \in Branches
  BY SMT, <1>1, <1>2 DEF Branches
<1>4. /\ Controls("always") = {} /\ Controls("auth") = {"AUTH_ENABLED"}
      /\ Controls("no_auth") = {"AUTH_ENABLED"}
      /\ Controls("secure") = {"AUTH_ENABLED", "AUTH_COOKIE_SECURE"}
      /\ Controls("insecure") = {"AUTH_ENABLED", "AUTH_COOKIE_SECURE"}
      /\ Controls("redis") = {"AUTH_LIMITER"}
      /\ Controls("mail") = {"AUTH_ENABLED", "AUTH_SMTP_HOST"}
      /\ Controls("user") = {"AUTH_ENABLED", "AUTH_SMTP_HOST", "AUTH_SMTP_USERNAME"}
      /\ Controls("database") = {"DATABASE_ENABLED"} /\ Controls("broker") = {"EVENTS_TRANSPORT"}
  BY SMT DEF Controls
<1>5. \A i \in Places : \A k \in Controls(Loading[i].when) : Before(k, i)
  BY SMT, <1>1, <1>2, <1>4, Homes DEF Before, Places
<1> QED
  BY <1>3, <1>5

-----------------------------------------------------------------------------
(* A read.  What a key was read as stays; a key is read in no other place. *)
Kept(k) ==
  /\ k \in DOMAIN got' <=> k \in DOMAIN got
  /\ k \in DOMAIN got => got'[k] = got[k]

LEMMA WantedKept ==
  ASSUME NEW branch \in Branches, \A k \in Controls(branch) : Kept(k)
  PROVE  Wanted(branch)' <=> Wanted(branch)
<1> USE DEF Kept, Controls, Wanted, Is, Auth, Mail
<1>1. CASE branch \in {"always", "auth", "no_auth"}
  BY SMT, <1>1
<1>2. CASE branch \in {"secure", "insecure"}
  BY SMT, <1>2
<1>3. CASE branch \in {"redis", "database", "broker"}
  BY SMT, <1>3
<1>4. CASE branch \in {"mail", "user"}
  BY SMT, <1>4
<1> QED
  BY <1>1, <1>2, <1>3, <1>4 DEF Branches

LEMMA KeyAtHome ==
  ASSUME NEW i \in Places, NEW row \in Loading[i].reads
  PROVE  Home(row.key) = HomeAt(i)
  BY PlacesAreSound DEF SoundGroup

LEMMA ReadKeepsEarlier ==
  ASSUME at \in Places, Read(Loading[at].reads), NEW k, Before(k, at)
  PROVE  Kept(k)
<1> DEFINE rows == Loading[at].reads
<1>1. got' = Extended(rows)
  BY DEF Read
<1>2. DOMAIN Returned(rows) = {row.key : row \in rows}
  BY DEF Returned
<1>3. \A row \in rows : Home(row.key) = HomeAt(at)
  BY KeyAtHome
<1>4. Home(k) # HomeAt(at)
  BY SMT DEF Before, HomeAt, Places
<1>5. k \notin DOMAIN Returned(rows)
  BY <1>2, <1>3, <1>4
<1> HIDE DEF rows
<1> QED
  BY SMT, <1>1, <1>5 DEF Kept, Extended

LEMMA LoadKeepsEarlier ==
  ASSUME at \in Places, Load, NEW k, Before(k, at)
  PROVE  Kept(k)
<1>1. CASE Read(Loading[at].reads)
  BY <1>1, ReadKeepsEarlier
<1>2. CASE UNCHANGED got
  BY <1>2 DEF Kept
<1> QED
  BY <1>1, <1>2 DEF Load

LEMMA LoadKeepsReading ==
  ASSUME at \in Places, Load, NEW i \in 1..at
  PROVE  Reading(i)' <=> Reading(i)
<1>1. i \in Places
  BY SMT DEF Places
<1>2. \A k \in Controls(Loading[i].when) : Before(k, at)
  BY SMT, <1>1, ControlsAreEarlier DEF Before, Places
<1>3. \A k \in Controls(Loading[i].when) : Kept(k)
  BY <1>2, LoadKeepsEarlier
<1>4. Loading[i].when \in Branches
  BY <1>1, ControlsAreEarlier
<1>5. Wanted(Loading[i].when)' <=> Wanted(Loading[i].when)
  BY <1>3, <1>4, WantedKept
<1> QED
  BY <1>5 DEF Reading

LEMMA WantedIs ==
  /\ Wanted("always") /\ (Wanted("auth") <=> Auth) /\ (Wanted("no_auth") <=> ~Auth)
  /\ Wanted("secure") <=> Auth /\ Is("AUTH_COOKIE_SECURE", "true")
  /\ Wanted("insecure") <=> Auth /\ ~Is("AUTH_COOKIE_SECURE", "true")
  /\ Wanted("mail") <=> Mail
  /\ Wanted("user") <=> Mail /\ ~Is("AUTH_SMTP_USERNAME", Blank)
  BY SMT DEF Wanted

LEMMA SharedHome ==
  \A i, j \in Places : i < j /\ HomeAt(i) = HomeAt(j) => (i = 13 /\ j = 14) \/ (i = 22 /\ j = 23)
  BY SMT DEF HomeAt, Places

(* No key is read twice: the two places that share keys exclude each other. *)
LEMMA KeyIsNew ==
  ASSUME at \in Places, Reading(at), NEW row \in Loading[at].reads,
         NEW i \in 1..(at - 1), Reading(i), NEW r \in Loading[i].reads
  PROVE  r.key # row.key
<1>1. i \in Places
  BY SMT DEF Places
<1>2. Home(r.key) = HomeAt(i) /\ Home(row.key) = HomeAt(at)
  BY <1>1, KeyAtHome
<1>3. CASE HomeAt(i) # HomeAt(at)
  BY <1>2, <1>3
<1>4. CASE HomeAt(i) = HomeAt(at)
  <2>1. (i = 13 /\ at = 14) \/ (i = 22 /\ at = 23)
    <3>1. i < at
      BY SMT DEF Places
    <3> QED
      BY <3>1, <1>1, <1>4, SharedHome
  <2>2. CASE i = 13 /\ at = 14
    BY <2>2, ReadPlaces, Fields, WantedIs DEF Reading
  <2>3. CASE i = 22 /\ at = 23
    BY <2>3, ReadPlaces, Fields, WantedIs DEF Reading
  <2> QED
    BY <2>1, <2>2, <2>3
<1> QED
  BY <1>3, <1>4

LEMMA NotRepeated ==
  ASSUME at \in Places, Reading(at), NEW row \in Loading[at].reads,
         SeenFromPassed, GotFromPassed
  PROVE  ~Repeated(row, Loading[at].reads) /\ row.key \notin DOMAIN got
<1>1. row.key \notin seen
  BY KeyIsNew DEF SeenFromPassed
<1>2. row.key \notin DOMAIN got
  BY KeyIsNew DEF GotFromPassed
<1>3. \A r \in Loading[at].reads : r.key = row.key => r = row
  BY PlacesAreSound DEF SoundGroup
<1> QED
  BY <1>1, <1>2, <1>3 DEF Repeated

(* The reader's judgement is about the value, and accepts the legal ones.  *)
LEMMA ReasonIs ==
  ASSUME NEW row, NEW rows, SoundRow(row), ~Repeated(row, rows), env \in Envs
  PROVE  /\ Reason(row, rows) \in Reasons \cup {"none"}
         /\ Reason(row, rows) = "none" => Legal(row, Raw(row))
<1>1. Raw(row).n \in Int
  BY SMT, SettingsAssumption DEF Raw, Present, SoundRow
<1> DEFINE raw == Raw(row)
<1> HIDE DEF raw
<1>2. raw.n \in Int /\ raw = Raw(row)
  BY <1>1 DEF raw
<1> QED
  BY SMT, <1>2 DEF Reason, Reasons, Legal, SoundRow

LEMMA ReturnedIs ==
  ASSUME NEW rows, NEW place, SoundGroup(rows, place), NEW row \in rows
  PROVE  /\ row.key \in DOMAIN Returned(rows)
         /\ row \in Good(rows) => Returned(rows)[row.key] = Raw(row)
<1>1. \A r \in rows : r.key = row.key => r = row
  BY DEF SoundGroup
<1>2. (CHOOSE r \in rows : r.key = row.key) = row
  BY <1>1
<1> QED
  BY <1>2 DEF Returned
-----------------------------------------------------------------------------
(* The load, step by step.  First what a group of reads does.              *)
LEMMA ReadStep ==
  ASSUME SettingsInv, stage = "load", Reading(at), Read(Loading[at].reads), Proceed, Load
  PROVE  /\ PassedAreRead' /\ GotFromPassed' /\ SeenFromPassed'
         /\ ProblemsAreOfValues' /\ ShownAreRead'
<1> DEFINE rows == Loading[at].reads
<1>0. at \in Places /\ at' = at + 1 /\ env' = env /\ shown' = shown /\ env \in Envs
  BY DEF SettingsInv, InPlace, Proceed, Load
<1>a. SeenFromPassed /\ GotFromPassed /\ PassedAreRead /\ ProblemsAreOfValues /\ ShownAreRead
  BY DEF SettingsInv
<1>b. SoundGroup(rows, HomeAt(at))
  BY <1>0, PlacesAreSound
<1>c. \A row \in rows : ~Repeated(row, rows) /\ row.key \notin DOMAIN got
  BY <1>0, <1>a, NotRepeated
<1>d. \A row \in rows : /\ Reason(row, rows) \in Reasons \cup {"none"}
                        /\ Reason(row, rows) = "none" => Legal(row, Raw(row))
  BY <1>0, <1>b, <1>c, ReasonIs DEF SoundGroup
<1>e. \A row \in rows : /\ row.key \in DOMAIN Returned(rows)
                        /\ row \in Good(rows) => Returned(rows)[row.key] = Raw(row)
  BY <1>b, ReturnedIs
<1>f. /\ got' = Extended(rows) /\ seen' = seen \cup {row.key : row \in rows}
      /\ resolved' = resolved \cup {Var(row) : row \in Good(rows)}
      /\ problems' = problems \cup Wrong(rows)
  BY DEF Read
<1>g. DOMAIN Returned(rows) = {row.key : row \in rows}
  BY DEF Returned
<1>h. \A i \in 1..at : Reading(i)' <=> Reading(i)
  BY <1>0, LoadKeepsReading
<1>i. \A v : Raw(v)' = Raw(v) /\ Var(v)' = Var(v)
  BY <1>0 DEF Raw, Var, Present
<1> HIDE DEF rows
<1>1. PassedAreRead'
  <2> SUFFICES ASSUME NEW i \in 1..at, Reading(i), NEW row \in Loading[i].reads
               PROVE  IsRead(row)'
    BY SMT, <1>0, <1>h DEF PassedAreRead, Places
  <2>1. CASE i = at
    <3>1. row \in rows
      BY <2>1 DEF rows
    <3>2. row.key \in DOMAIN got' /\ got'[row.key] = Returned(rows)[row.key]
      BY <3>1, <1>c, <1>e, <1>f DEF Extended
    <3>3. CASE row \in Good(rows)
      <4>1. Legal(row, Raw(row)) /\ got'[row.key] = Raw(row)
        BY <3>1, <3>2, <3>3, <1>d, <1>e DEF Good
      <4> QED
        BY <4>1, <3>2, <1>i DEF IsRead
    <3>4. CASE row \notin Good(rows)
      <4>1. <<row.key, Reason(row, rows)>> \in problems'
        BY <3>1, <3>4, <1>f DEF Wrong
      <4>2. IsNamed(row.key)'
        BY <4>1 DEF IsNamed
      <4> QED
        BY <4>2, <3>2 DEF IsRead
    <3> QED
      BY <3>3, <3>4
  <2>2. CASE i # at
    <3>1. i \in 1..(at - 1)
      BY SMT, <2>2, <1>0 DEF Places
    <3>2. IsRead(row)
      BY <3>1, <1>a DEF PassedAreRead
    <3>3. row.key \in DOMAIN got' /\ got'[row.key] = got[row.key]
      BY <3>2, <1>f DEF IsRead, Extended
    <3>4. IsNamed(row.key) => IsNamed(row.key)'
      BY <1>f DEF IsNamed
    <3> QED
      BY <3>2, <3>3, <3>4, <1>i DEF IsRead
  <2> QED
    BY <2>1, <2>2
<1>2. \A k \in {row.key : row \in rows} :
        \E i \in 1..(at' - 1) : Reading(i)' /\ \E row \in Loading[i].reads : row.key = k
  <2> SUFFICES ASSUME NEW row \in rows
               PROVE  \E i \in 1..(at' - 1) :
                        Reading(i)' /\ \E r \in Loading[i].reads : r.key = row.key
    OBVIOUS
  <2>1. at \in 1..(at' - 1) /\ at \in 1..at
    BY SMT, <1>0 DEF Places
  <2>2. Reading(at) /\ row \in Loading[at].reads
    BY DEF rows
  <2>3. Wanted(Loading[at].when) /\ (\A i \in 1..at : Wanted(Loading[i].when)' <=> Wanted(Loading[i].when))
    BY <2>2, <1>h DEF Reading
  <2> DEFINE here == at
  <2>4. PICK i \in 1..(at' - 1) : i = here /\ Wanted(Loading[i].when)'
    BY <2>1, <2>3
  <2> QED
    BY <2>2, <2>4 DEF Reading
<1>3. \A k : (\E i \in 1..(at - 1) : Reading(i) /\ \E row \in Loading[i].reads : row.key = k)
        => \E i \in 1..(at' - 1) : Reading(i)' /\ \E row \in Loading[i].reads : row.key = k
  <2>1. \A i \in 1..(at - 1) : i \in 1..(at' - 1) /\ i \in 1..at
    BY SMT, <1>0 DEF Places
  <2> QED
    BY <2>1, <1>h
<1>4. GotFromPassed'
  <2>1. DOMAIN got' = DOMAIN got \cup {row.key : row \in rows}
    BY <1>f, <1>g DEF Extended
  <2> QED
    BY <2>1, <1>2, <1>3, <1>a DEF GotFromPassed
<1>5. SeenFromPassed'
  BY <1>f, <1>2, <1>3, <1>a DEF SeenFromPassed
<1>6. ProblemsAreOfValues'
  <2>1. \A p \in Wrong(rows) : p[2] \in Reasons
    BY <1>d DEF Wrong, Good
  <2> QED
    BY <2>1, <1>a, <1>f DEF ProblemsAreOfValues
<1>7. ShownAreRead'
  <2>1. \A v \in resolved' : \E i \in Places : \E row \in Loading[i].reads : v = Var(row)'
    <3>1. \A v \in resolved : \E i \in Places : \E row \in Loading[i].reads : v = Var(row)
      BY <1>a DEF ShownAreRead
    <3>2. \A row \in Good(rows) : row \in Loading[at].reads
      BY DEF Good, rows
    <3> QED
      BY <3>1, <3>2, <1>0, <1>f, <1>i
  <2>2. shown' \subseteq {Displayed(v) : v \in resolved'}
    BY <1>0, <1>a, <1>f DEF ShownAreRead
  <2> QED
    BY <2>1, <2>2 DEF ShownAreRead
<1> QED
  BY <1>1, <1>4, <1>5, <1>6, <1>7

(* A step that reads nothing, because its branch is not taken or because   *)
(* it is a check that is passed.  Only the first check empties seen.       *)
LEMMA PassStep ==
  ASSUME SettingsInv, stage = "load", Load, Proceed, UNCHANGED <<problems, resolved, got>>,
         seen' \subseteq seen, Reading(at) => Loading[at].reads = {}
  PROVE  /\ PassedAreRead' /\ GotFromPassed' /\ SeenFromPassed'
         /\ ProblemsAreOfValues' /\ ShownAreRead'
<1>0. at \in Places /\ at' = at + 1 /\ env' = env /\ shown' = shown
  BY DEF SettingsInv, InPlace, Proceed, Load
<1>a. SeenFromPassed /\ GotFromPassed /\ PassedAreRead /\ ProblemsAreOfValues /\ ShownAreRead
  BY DEF SettingsInv
<1>b. \A i \in 1..at : Reading(i)' <=> Reading(i)
  BY <1>0, LoadKeepsReading
<1>c. \A v : Raw(v)' = Raw(v) /\ Var(v)' = Var(v)
  BY <1>0 DEF Raw, Var, Present
<1>d. \A k : IsNamed(k)' <=> IsNamed(k)
  BY DEF IsNamed
<1>1. PassedAreRead'
  <2> SUFFICES ASSUME NEW i \in 1..at, Reading(i), NEW row \in Loading[i].reads
               PROVE  IsRead(row)'
    BY SMT, <1>0, <1>b DEF PassedAreRead, Places
  <2>1. i \in 1..(at - 1)
    BY SMT, <1>0 DEF Places
  <2>2. IsRead(row)
    BY <2>1, <1>a DEF PassedAreRead
  <2> QED
    BY <2>2, <1>c, <1>d DEF IsRead
<1>2. \A k : (\E i \in 1..(at - 1) : Reading(i) /\ \E row \in Loading[i].reads : row.key = k)
        => \E i \in 1..(at' - 1) : Reading(i)' /\ \E row \in Loading[i].reads : row.key = k
  <2>1. \A i \in 1..(at - 1) : i \in 1..(at' - 1) /\ i \in 1..at
    BY SMT, <1>0 DEF Places
  <2> QED
    BY <2>1, <1>b
<1>3. GotFromPassed' /\ SeenFromPassed'
  BY <1>2, <1>a DEF GotFromPassed, SeenFromPassed
<1>4. ProblemsAreOfValues'
  BY <1>a DEF ProblemsAreOfValues
<1>5. ShownAreRead'
  BY <1>0, <1>a, <1>c DEF ShownAreRead
<1> QED
  BY <1>1, <1>3, <1>4, <1>5

(* The checks that were passed go on holding: what they look at was read.  *)
LEMMA SeenByChecks ==
  ASSUME SettingsInv, stage = "load", Load
  PROVE  /\ at > 17 => (Mail' <=> Mail) /\ (Refuses("password")' <=> Refuses("password"))
         /\ at > 21 => (Auth' <=> Auth) /\ (Refuses("cookies")' <=> Refuses("cookies"))
<1>1. at \in Places /\ env' = env
  BY DEF SettingsInv, InPlace, Load
<1>2. ASSUME at > 17
      PROVE  (Mail' <=> Mail) /\ (Refuses("password")' <=> Refuses("password"))
  <2>1. Before("AUTH_ENABLED", at) /\ Before("AUTH_SMTP_HOST", at) /\ Before("AUTH_SMTP_USERNAME", at)
    BY SMT, <1>1, <1>2, Homes DEF Before, Places
  <2>2. Kept("AUTH_ENABLED") /\ Kept("AUTH_SMTP_HOST") /\ Kept("AUTH_SMTP_USERNAME")
    BY <1>1, <2>1, LoadKeepsEarlier
  <2>3. Mail' <=> Mail
    BY <2>2 DEF Mail, Auth, Is, Kept
  <2>4. Refuses("password") <=> /\ Is("AUTH_SMTP_USERNAME", Blank)
                                /\ Present("AUTH_SMTP_PASSWORD")
                                /\ env["AUTH_SMTP_PASSWORD"].text # Blank
    BY SMT DEF Refuses
  <2>5. Refuses("password")' <=> /\ Is("AUTH_SMTP_USERNAME", Blank)'
                                 /\ Present("AUTH_SMTP_PASSWORD")'
                                 /\ env'["AUTH_SMTP_PASSWORD"].text # Blank
    BY SMT DEF Refuses
  <2>6. Is("AUTH_SMTP_USERNAME", Blank)' <=> Is("AUTH_SMTP_USERNAME", Blank)
    BY <2>2 DEF Is, Kept
  <2> QED
    BY <2>3, <2>4, <2>5, <2>6, <1>1 DEF Present
<1>3. ASSUME at > 21
      PROVE  (Auth' <=> Auth) /\ (Refuses("cookies")' <=> Refuses("cookies"))
  <2>1. /\ Before("AUTH_ENABLED", at) /\ Before("AUTH_COOKIE_SECURE", at)
        /\ Before("AUTH_DEV_INSECURE_COOKIES", at) /\ Before("HTTP_HOST", at)
    BY SMT, <1>1, <1>3, Homes DEF Before, Places
  <2>2. /\ Kept("AUTH_ENABLED") /\ Kept("AUTH_COOKIE_SECURE")
        /\ Kept("AUTH_DEV_INSECURE_COOKIES") /\ Kept("HTTP_HOST")
    BY <1>1, <2>1, LoadKeepsEarlier
  <2>3. "HTTP_HOST" \in DOMAIN got
    <3>1. 3 \in 1..(at - 1) /\ Reading(3) /\ Loading[3].reads = HostReads
      BY SMT, <1>1, <1>3, ReadPlaces, Fields, WantedIs DEF Reading, Places
    <3>2. PassedAreRead
      BY DEF SettingsInv
    <3>3. \A row \in HostReads : row.key \in DOMAIN got
      BY <3>1, <3>2 DEF PassedAreRead, IsRead
    <3>4. \E row \in HostReads : row.key = "HTTP_HOST"
      BY KeyOf DEF HostReads
    <3> QED
      BY <3>3, <3>4
  <2>4. Refuses("cookies") <=> ~ \/ Is("AUTH_COOKIE_SECURE", "true")
                                 \/ /\ Is("AUTH_DEV_INSECURE_COOKIES", "true")
                                    /\ Text("HTTP_HOST") \in Loopback
    BY SMT DEF Refuses
  <2>5. Refuses("cookies")' <=> ~ \/ Is("AUTH_COOKIE_SECURE", "true")'
                                  \/ /\ Is("AUTH_DEV_INSECURE_COOKIES", "true")'
                                     /\ Text("HTTP_HOST")' \in Loopback
    BY SMT DEF Refuses
  <2>6. /\ Is("AUTH_COOKIE_SECURE", "true")' <=> Is("AUTH_COOKIE_SECURE", "true")
        /\ Is("AUTH_DEV_INSECURE_COOKIES", "true")' <=> Is("AUTH_DEV_INSECURE_COOKIES", "true")
        /\ Text("HTTP_HOST")' = Text("HTTP_HOST")
    BY <2>2, <2>3 DEF Is, Text, Kept
  <2>7. Auth' <=> Auth
    BY <2>2 DEF Auth, Is, Kept
  <2> QED
    BY <2>4, <2>5, <2>6, <2>7
<1> QED
  BY <1>2, <1>3

LEMMA ChecksStep ==
  ASSUME SettingsInv, stage = "load", Load
  PROVE  ChecksPassed'
<1>1. at \in Places /\ env' = env /\ ChecksPassed
  BY DEF SettingsInv, InPlace, Load
<1>2. at' = at \/ (at' = at + 1 /\ (Reading(at) => ~Refuses(Loading[at].check) \/ Read(Loading[at].reads)))
  BY DEF Load, Proceed, Reading
<1>3. at \in CheckAt => UNCHANGED <<problems, got>>
  <2>1. at \in CheckAt => Loading[at].check # "none"
    BY SMT, CheckPlaces, Fields DEF CheckAt
  <2> QED
    BY <2>1 DEF Load
<1>4. at \in CheckAt /\ at' = at + 1 /\ Reading(at) => ~Refuses(Loading[at].check)
  <2>1. at \in CheckAt => Loading[at].check # "none"
    BY SMT, CheckPlaces, Fields DEF CheckAt
  <2>2. at' = at + 1 => at' # at
    BY SMT, <1>1 DEF Places
  <2> QED
    BY <2>1, <2>2 DEF Load, Reading
<1>5. at' > 17 /\ Mail' => ~Refuses("password")'
  <2>1. CASE at > 17
    BY <2>1, <1>1, SeenByChecks DEF ChecksPassed
  <2>2. CASE at = 17 /\ at' > 17
    <3>1. at \in CheckAt /\ at' = at + 1
      BY SMT, <2>2, <1>2 DEF CheckAt
    <3>2. Mail' <=> Mail
      BY <3>1, <1>3 DEF Mail, Auth, Is
    <3>3. Mail => ~Refuses("password")
      BY <3>1, <1>4, <2>2, CheckPlaces, Fields, WantedIs DEF Reading
    <3>4. Refuses("password")' <=> Refuses("password")
      BY SMT, <3>1, <1>1, <1>3 DEF Refuses, Is, Present
    <3> QED
      BY <3>2, <3>3, <3>4
  <2> QED
    BY SMT, <2>1, <2>2, <1>1, <1>2 DEF Places
<1>6. at' > 21 /\ Auth' => ~Refuses("cookies")'
  <2>1. CASE at > 21
    BY <2>1, <1>1, SeenByChecks DEF ChecksPassed
  <2>2. CASE at = 21 /\ at' > 21
    <3>1. at \in CheckAt /\ at' = at + 1
      BY SMT, <2>2, <1>2 DEF CheckAt
    <3>2. Auth' <=> Auth
      BY <3>1, <1>3 DEF Auth, Is
    <3>3. Auth => ~Refuses("cookies")
      BY <3>1, <1>4, <2>2, CheckPlaces, Fields, WantedIs DEF Reading
    <3>4. Refuses("cookies")' <=> Refuses("cookies")
      BY SMT, <3>1, <1>1, <1>3 DEF Refuses, Is, Text
    <3> QED
      BY <3>2, <3>3, <3>4
  <2> QED
    BY SMT, <2>1, <2>2, <1>1, <1>2 DEF Places
<1>7. at' > 25 => problems' = {}
  <2>1. CASE at' > 25 /\ at' = at
    <3>1. at \in CheckAt /\ problems = {}
      BY SMT, <2>1, <1>1 DEF CheckAt, ChecksPassed, Places
    <3> QED
      BY <3>1, <1>3
  <2>2. CASE at' > 25 /\ at' = at + 1
    <3>1. at \in CheckAt
      BY SMT, <2>2, <1>1 DEF CheckAt, Places
    <3>2. CASE at = 25
      <4>1. ~Refuses("problems")
        BY <2>2, <3>1, <3>2, <1>4, CheckPlaces, Fields, WantedIs DEF Reading
      <4>2. problems = {}
        BY SMT, <4>1 DEF Refuses
      <4> QED
        BY <3>1, <4>2, <1>3
    <3>3. CASE at # 25
      <4>1. problems = {}
        BY SMT, <3>3, <2>2, <1>1 DEF ChecksPassed, Places
      <4> QED
        BY <3>1, <4>1, <1>3
    <3> QED
      BY <3>2, <3>3
  <2> QED
    BY <2>1, <2>2, <1>2
<1>8. at' > 26 => ~Refuses("fields")'
  <2>1. at' > 26 => at \in CheckAt
    BY SMT, <1>1, <1>2 DEF CheckAt, Places
  <2>2. at' > 26 => ~Refuses("fields")
    <3>1. CASE at > 26
      BY <3>1, <1>1 DEF ChecksPassed
    <3>2. CASE at = 26 /\ at' > 26
      <4>1. at' = at + 1
        BY SMT, <3>2, <1>2
      <4> QED
        BY <2>1, <3>2, <4>1, <1>4, CheckPlaces, Fields, WantedIs DEF Reading
    <3> QED
      BY SMT, <3>1, <3>2, <1>1, <1>2 DEF Places
  <2>3. at' > 26 => (Refuses("fields")' <=> Refuses("fields"))
    BY SMT, <2>1, <1>3 DEF Refuses, Auth, Is
  <2> QED
    BY <2>2, <2>3
<1> QED
  BY <1>5, <1>6, <1>7, <1>8 DEF ChecksPassed

LEMMA ReadOrCheck ==
  \A i \in Places : /\ i \in CheckAt => Loading[i].check # "none" /\ Loading[i].reads = {}
                    /\ i \notin CheckAt => Loading[i].check = "none"
<1>1. \A i \in Places : i \in CheckAt \/ i \in {1, 3, 5, 7, 8, 9, 10, 11, 12, 13}
                          \/ i \in {14, 15, 16, 18, 19, 20, 22, 23, 24}
  BY SMT DEF Places, CheckAt
<1>2. \A i \in CheckAt : Loading[i].check # "none" /\ Loading[i].reads = {}
  BY SMT, CheckPlaces, Fields DEF CheckAt
<1>3. \A i \in {1, 3, 5, 7, 8, 9, 10, 11, 12, 13} : Loading[i].check = "none"
  BY SMT, ReadPlaces, Fields
<1>4. \A i \in {14, 15, 16, 18, 19, 20, 22, 23, 24} : Loading[i].check = "none"
  BY SMT, ReadPlaces, Fields
<1> QED
  BY <1>1, <1>2, <1>3, <1>4

LEMMA LoadStep ==
  ASSUME SettingsInv, Load
  PROVE  SettingsInv'
<1>0. stage = "load" /\ at \in Places /\ UNCHANGED <<env, touched, shown>> /\ ChecksPassed'
  BY ChecksStep DEF SettingsInv, InPlace, Load
<1>1. Len(Loading) = 27
  BY SMT DEF Loading
<1>2. CASE Proceed
  <2>1. InPlace'
    BY SMT, <1>0, <1>1, <1>2 DEF SettingsInv, InPlace, Load, Proceed, Exit, Places, Stages, After
  <2>2. ConstructedAccept'
    BY SMT, <1>0, <1>2 DEF Proceed, ConstructedAccept
  <2>3. /\ PassedAreRead' /\ GotFromPassed' /\ SeenFromPassed'
        /\ ProblemsAreOfValues' /\ ShownAreRead'
    <3>1. CASE Reading(at) /\ Read(Loading[at].reads)
      BY <1>0, <1>2, <3>1, ReadStep
    <3>2. CASE ~Reading(at) /\ UNCHANGED <<seen, problems, resolved, got>>
      BY <1>0, <1>2, <3>2, PassStep
    <3>3. CASE /\ Loading[at].check # "none" /\ seen' \subseteq seen
               /\ UNCHANGED <<problems, resolved, got>>
      BY <1>0, <1>2, <3>3, PassStep, ReadOrCheck
    <3>4. CASE Exit(2)
      BY <1>0, <1>2, <1>1, <3>4 DEF Exit, Proceed
    <3> QED
      BY <3>1, <3>2, <3>3, <3>4 DEF Load, Reading
  <2> QED
    BY <1>0, <2>1, <2>2, <2>3 DEF SettingsInv
<1>3. CASE Exit(2) /\ UNCHANGED <<at, seen, problems, resolved, got>>
  <2>1. \A i \in Places : Reading(i)' <=> Reading(i)
    BY <1>3 DEF Reading, Wanted, Mail, Auth, Is
  <2>2. \A v : Raw(v)' = Raw(v) /\ Var(v)' = Var(v)
    BY <1>0 DEF Raw, Var, Present
  <2>3. \A k : IsNamed(k)' <=> IsNamed(k)
    BY <1>3 DEF IsNamed
  <2>4. \A i \in 1..(at - 1) : i \in Places
    BY SMT, <1>0 DEF Places
  <2>5. PassedAreRead'
    BY <1>3, <2>1, <2>2, <2>3, <2>4 DEF SettingsInv, PassedAreRead, IsRead
  <2>6. GotFromPassed' /\ SeenFromPassed'
    BY <1>3, <2>1, <2>4 DEF SettingsInv, GotFromPassed, SeenFromPassed
  <2>7. ProblemsAreOfValues' /\ ShownAreRead'
    BY <1>0, <1>3, <2>2 DEF SettingsInv, ProblemsAreOfValues, ShownAreRead
  <2>8. InPlace' /\ ConstructedAccept'
    BY SMT, <1>0, <1>3 DEF SettingsInv, InPlace, Exit, Stages, ConstructedAccept, Places
  <2> QED
    BY <1>0, <2>5, <2>6, <2>7, <2>8 DEF SettingsInv
<1> QED
  BY <1>2, <1>3 DEF Load

(* Everything after the load looks only at what was read.                  *)
LEMMA LaterStep ==
  ASSUME SettingsInv, UNCHANGED <<env, at, seen, problems, resolved, got>>,
         InPlace', ConstructedAccept',
         shown' \subseteq {Displayed(v) : v \in resolved}
  PROVE  SettingsInv'
<1>1. \A i \in Places : Reading(i)' <=> Reading(i)
  BY DEF Reading, Wanted, Mail, Auth, Is
<1>2. \A v : Raw(v)' = Raw(v) /\ Var(v)' = Var(v)
  BY DEF Raw, Var, Present
<1>3. \A k : IsNamed(k)' <=> IsNamed(k)
  BY DEF IsNamed
<1>4. \A i \in 1..(at - 1) : i \in Places
  BY SMT DEF SettingsInv, InPlace, Places
<1>5. PassedAreRead'
  BY <1>1, <1>2, <1>3, <1>4 DEF SettingsInv, PassedAreRead, IsRead
<1>6. GotFromPassed' /\ SeenFromPassed'
  BY <1>1, <1>4 DEF SettingsInv, GotFromPassed, SeenFromPassed
<1>7. ProblemsAreOfValues' /\ ShownAreRead'
  BY <1>2 DEF SettingsInv, ProblemsAreOfValues, ShownAreRead
<1>8. (Mail' <=> Mail) /\ (Auth' <=> Auth)
  BY DEF Mail, Auth, Is
<1>9. /\ Refuses("password")' <=> Refuses("password")
      /\ Refuses("cookies")' <=> Refuses("cookies")
      /\ Refuses("fields")' <=> Refuses("fields")
  BY SMT DEF Refuses, Is, Text, Present, Auth
<1>10. ChecksPassed'
  BY <1>8, <1>9 DEF SettingsInv, ChecksPassed
<1> QED
  BY <1>5, <1>6, <1>7, <1>10 DEF SettingsInv

LEMMA AcceptsKept ==
  ASSUME UNCHANGED got
  PROVE  /\ (Auth' <=> Auth) /\ (KeyAccepted' <=> KeyAccepted) /\ (MailerAccepts' <=> MailerAccepts)
         /\ (LifetimesAccepted' <=> LifetimesAccepted) /\ (TransportAccepts' <=> TransportAccepts)
<1>1. Auth' <=> Auth
  BY DEF Auth, Is
<1>2. MailerAccepts' <=> MailerAccepts
  BY DEF MailerAccepts, Mail, Auth, Is, Text
<1>3. TransportAccepts' <=> TransportAccepts
  BY DEF TransportAccepts, Is, Text, Bad
<1>4. (KeyAccepted' <=> KeyAccepted) /\ (LifetimesAccepted' <=> LifetimesAccepted)
  BY DEF KeyAccepted, LifetimesAccepted, Text
<1> QED
  BY <1>1, <1>2, <1>3, <1>4

LEMMA ConstructStep ==
  ASSUME SettingsInv, NEW s \in DOMAIN After, Construct(s)
  PROVE  SettingsInv'
<1>1. /\ stage = s /\ UNCHANGED <<env, at, seen, problems, resolved, got, shown>>
      /\ s \in {"telemetry", "database", "outbound", "migrate", "keyed", "blocklist", "mailer",
                "limiter", "hasher", "transport"}
  BY DEF Construct, After
<1>2. \/ stage' = "exit" /\ code' = 1 /\ touched' = touched
      \/ /\ stage' = After[s] /\ code' = code /\ (Skipped(s) \/ Accepts(s))
         /\ touched' = touched \/ touched' = Touches(s)
  BY DEF Construct, Exit
<1>3. InPlace'
  <2>1. stage' \in Stages \ {"load", "serving"} /\ touched' \subseteq touched \cup {"database", "migrate"}
    BY SMT, <1>1, <1>2 DEF Touches, Stages, After
  <2>2. InPlace /\ stage \notin {"load", "exit"}
    BY SMT, <1>1 DEF SettingsInv
  <2>3. code' \in 0..2 /\ (stage' = "exit" => code' # 2)
    BY SMT, <1>1, <1>2, <2>2 DEF InPlace, After
  <2> QED
    BY SMT, <1>1, <2>1, <2>2, <2>3 DEF InPlace
<1>4. Auth => /\ s = "keyed" /\ stage' # "exit" => KeyAccepted
              /\ s = "mailer" /\ stage' # "exit" => MailerAccepts
              /\ s = "transport" /\ stage' # "exit" => LifetimesAccepted /\ TransportAccepts
  BY SMT, <1>1, <1>2 DEF Skipped, Accepts
<1>5. ConstructedAccept'
  <2>1. ConstructedAccept
    BY DEF SettingsInv
  <2>2. /\ stage' \in {"blocklist", "mailer", "limiter", "hasher", "transport", "manifest", "serving"}
             => s = "keyed" \/ stage \in {"blocklist", "mailer", "limiter", "hasher", "transport",
                                          "manifest", "serving"}
        /\ stage' \in {"limiter", "hasher", "transport", "manifest", "serving"}
             => s = "mailer" \/ stage \in {"limiter", "hasher", "transport", "manifest", "serving"}
        /\ stage' \in {"manifest", "serving"} => s = "transport"
    BY SMT, <1>1, <1>2 DEF After
  <2>3. stage' \in {"blocklist", "mailer", "limiter", "hasher", "transport", "manifest", "serving"}
          => stage' # "exit"
    BY SMT
  <2>4. UNCHANGED got
    BY <1>1
  <2>5. /\ Auth' /\ stage' \in {"blocklist", "mailer", "limiter", "hasher", "transport", "manifest",
                               "serving"} => KeyAccepted'
        /\ Auth' /\ stage' \in {"limiter", "hasher", "transport", "manifest", "serving"}
             => MailerAccepts'
        /\ Auth' /\ stage' \in {"manifest", "serving"} => LifetimesAccepted' /\ TransportAccepts'
    BY <1>4, <2>1, <2>2, <2>3, <2>4, AcceptsKept DEF ConstructedAccept
  <2> QED
    BY <2>5 DEF ConstructedAccept
<1>6. shown' \subseteq {Displayed(v) : v \in resolved}
  BY <1>1 DEF SettingsInv, ShownAreRead
<1> QED
  BY <1>1, <1>3, <1>5, <1>6, LaterStep

LEMMA ManifestStep ==
  ASSUME SettingsInv, Manifest
  PROVE  SettingsInv'
<1>1. /\ stage = "manifest" /\ stage' = "serving"
      /\ UNCHANGED <<env, at, seen, problems, resolved, got, touched, code>>
  BY DEF Manifest
<1>2. InPlace'
  BY SMT, <1>1 DEF SettingsInv, InPlace, Stages
<1>3. ConstructedAccept'
  <2>1. Auth => KeyAccepted /\ MailerAccepts /\ LifetimesAccepted /\ TransportAccepts
    BY <1>1 DEF SettingsInv, ConstructedAccept
  <2> QED
    BY <1>1, <2>1, AcceptsKept DEF ConstructedAccept
<1>4. shown' \subseteq {Displayed(v) : v \in resolved}
  BY DEF Manifest
<1> QED
  BY <1>1, <1>2, <1>3, <1>4, LaterStep

LEMMA SettingsInvStarts == Init => SettingsInv
<1> SUFFICES ASSUME Init PROVE SettingsInv
  OBVIOUS
<1>1. 1..(at - 1) = {} /\ DOMAIN got = {}
  BY SMT DEF Init
<1>2. InPlace
  BY SMT DEF Init, InPlace, Places, Stages
<1>3. GotFromPassed /\ SeenFromPassed /\ PassedAreRead
  BY <1>1 DEF Init, GotFromPassed, SeenFromPassed, PassedAreRead
<1>4. ProblemsAreOfValues /\ ShownAreRead
  BY DEF Init, ProblemsAreOfValues, ShownAreRead
<1>5. ChecksPassed /\ ConstructedAccept
  BY SMT DEF Init, ChecksPassed, ConstructedAccept
<1> QED
  BY <1>2, <1>3, <1>4, <1>5 DEF SettingsInv

LEMMA SettingsInvHolds == Spec => []SettingsInv
<1>1. SettingsInv /\ [Next]_vars => SettingsInv'
  <2> SUFFICES ASSUME SettingsInv, [Next]_vars PROVE SettingsInv'
    OBVIOUS
  <2>1. CASE UNCHANGED vars
    <3>1. UNCHANGED <<env, at, seen, problems, resolved, got, stage, touched, shown, code>>
      BY <2>1 DEF vars
    <3>2. InPlace'
      BY <3>1 DEF SettingsInv, InPlace
    <3>3. ConstructedAccept'
      BY <3>1, AcceptsKept DEF SettingsInv, ConstructedAccept
    <3>4. shown' \subseteq {Displayed(v) : v \in resolved}
      BY <3>1 DEF SettingsInv, ShownAreRead
    <3> QED
      BY <3>1, <3>2, <3>3, <3>4, LaterStep
  <2>2. CASE Load
    BY <2>2, LoadStep
  <2>3. CASE \E s \in DOMAIN After : Construct(s)
    BY <2>3, ConstructStep
  <2>4. CASE Manifest
    BY <2>4, ManifestStep
  <2> QED
    BY <2>1, <2>2, <2>3, <2>4 DEF Next, Done
<1> QED
  BY <1>1, SettingsInvStarts, PTL DEF Spec
-----------------------------------------------------------------------------
(* Once the load is over every setting is read, as it was set and legal.   *)
LEMMA NoPlaceholder == SettingsInv => NoPlaceholderLeaves
<1> SUFFICES ASSUME SettingsInv, stage \notin {"load", "exit"},
                    NEW i \in DOMAIN Loading, Wanted(Loading[i].when), NEW row \in Loading[i].reads
             PROVE  /\ row.key \in DOMAIN got /\ got[row.key] = Raw(row)
                    /\ Legal(row, got[row.key])
  BY DEF NoPlaceholderLeaves
<1>1. at = 28 /\ problems = {}
  BY SMT DEF SettingsInv, InPlace, ChecksPassed
<1>2. i \in 1..(at - 1) /\ Reading(i)
  BY SMT, <1>1, ReadPlaces DEF Reading, Places
<1>3. IsRead(row)
  BY <1>2 DEF SettingsInv, PassedAreRead
<1> QED
  BY <1>1, <1>3 DEF IsRead, IsNamed

LEMMA ProblemsNamed == SettingsInv => EveryProblemIsNamed
<1> SUFFICES ASSUME SettingsInv, NEW i \in 1..(at - 1), Wanted(Loading[i].when),
                    NEW row \in Loading[i].reads, ~Legal(row, Raw(row))
             PROVE  \E p \in problems : p[1] = row.key
  BY DEF EveryProblemIsNamed
<1>1. IsRead(row)
  BY DEF SettingsInv, PassedAreRead, Reading
<1> QED
  BY <1>1 DEF IsRead, IsNamed

(* A shown entry is of a row; it shows the text that was set only where    *)
(* the row is neither secret nor one of NameOnly.                          *)
LEMMA PrivateHidden == SettingsInv => ManifestHidesPrivate
<1> SUFFICES ASSUME SettingsInv, NEW v \in shown, NEW k \in Private \cap DOMAIN env,
                    env[k].text \notin {Blank, Masked.text}, v.key \in Private
             PROVE  v.value.text # env[k].text
  BY DEF ManifestHidesPrivate
<1>1. PICK w \in resolved : v = Displayed(w)
  BY DEF SettingsInv, ShownAreRead
<1>2. PICK i \in Places : \E row \in Loading[i].reads : w = Var(row)
  BY DEF SettingsInv, ShownAreRead
<1>3. PICK row \in Loading[i].reads : w = Var(row)
  BY <1>2
<1>4. row.key \in Secrets => row.kind = "secret"
  BY PlacesAreSound DEF SoundGroup
<1>5. w.key = row.key /\ (row.kind = "secret" => w.value = Masked)
  BY <1>3 DEF Var, Masked
<1>6. v.key = w.key /\ (v.value = Masked \/ (v = w /\ ~(w.key \in NameOnly /\ w.value.text # Blank)))
  BY <1>1, <1>3 DEF Displayed, Var
<1>7. w.key \in Secrets \/ w.key \in NameOnly
  BY <1>6 DEF Private, Secrets
<1>8. CASE v.value = Masked
  BY <1>8
<1>9. CASE v = w /\ ~(w.key \in NameOnly /\ w.value.text # Blank)
  <2>1. CASE w.key \in Secrets
    BY <1>4, <1>5, <1>9, <2>1
  <2>2. CASE w.key \in NameOnly
    BY <1>9, <2>2
  <2> QED
    BY <1>7, <2>1, <2>2
<1> QED
  BY <1>6, <1>8, <1>9

LEMMA ServedSafe == SettingsInv => ServedIsSafe
<1> SUFFICES ASSUME SettingsInv, stage = "serving", Auth
             PROVE  ServedIsSafe
  BY DEF ServedIsSafe
<1>1. at = 28
  BY SMT DEF SettingsInv, InPlace
<1>2. ~Refuses("cookies") /\ ~Refuses("fields") /\ (Mail => ~Refuses("password"))
  BY SMT, <1>1 DEF SettingsInv, ChecksPassed
<1>3. KeyAccepted /\ MailerAccepts /\ LifetimesAccepted /\ TransportAccepts
  BY DEF SettingsInv, ConstructedAccept
<1>4. NoPlaceholderLeaves
  BY NoPlaceholder
<1>5. \/ Is("AUTH_COOKIE_SECURE", "true")
      \/ Is("AUTH_DEV_INSECURE_COOKIES", "true") /\ Text("HTTP_HOST") \in Loopback
  BY SMT, <1>2 DEF Refuses
<1>6. Text("AUTH_SESSION_COOKIE") # Text("AUTH_CSRF_COOKIE")
  BY <1>3 DEF TransportAccepts
<1>7. Text("AUTH_CSRF_KEY") \notin Short \cup {Blank}
  <2>1. 15 \in DOMAIN Loading /\ Wanted(Loading[15].when) /\ Loading[15].reads = AuthReads
    BY SMT, ReadPlaces, Fields, WantedIs DEF Places
  <2>2. Sec("AUTH_CSRF_KEY") \in AuthReads
    BY DEF AuthReads
  <2>3. Legal(Sec("AUTH_CSRF_KEY"), got["AUTH_CSRF_KEY"])
    BY <1>4, <2>1, <2>2, KeyOf DEF NoPlaceholderLeaves
  <2>4. Sec("AUTH_CSRF_KEY").kind = "secret"
    BY DEF Sec, Row
  <2>5. Text("AUTH_CSRF_KEY") # Blank
    BY <2>3, <2>4 DEF Legal, Text
  <2> QED
    BY <2>5, <1>3 DEF KeyAccepted
<1>8. got["AUTH_SESSION_IDLE_MS"].n <= got["AUTH_SESSION_ABSOLUTE_MS"].n
  BY <1>3 DEF LifetimesAccepted
<1>9. Is("DATABASE_ENABLED", "true")
  BY SMT, <1>2 DEF Refuses
<1>10. ASSUME Mail
       PROVE  /\ Is("AUTH_SMTP_SECURITY", "none") => Text("AUTH_SMTP_HOST") \in Loopback
              /\ (Present("AUTH_SMTP_PASSWORD") /\ env["AUTH_SMTP_PASSWORD"].text # Blank)
                   <=> ~Is("AUTH_SMTP_USERNAME", Blank)
  <2>1. Is("AUTH_SMTP_SECURITY", "none") => Text("AUTH_SMTP_HOST") \in Loopback
    BY <1>3, <1>10 DEF MailerAccepts
  <2>2. ~(/\ Is("AUTH_SMTP_USERNAME", Blank) /\ Present("AUTH_SMTP_PASSWORD")
          /\ env["AUTH_SMTP_PASSWORD"].text # Blank)
    BY SMT, <1>2, <1>10 DEF Refuses
  <2>3. ASSUME ~Is("AUTH_SMTP_USERNAME", Blank)
        PROVE  Present("AUTH_SMTP_PASSWORD") /\ env["AUTH_SMTP_PASSWORD"].text # Blank
    <3>1. /\ 18 \in DOMAIN Loading /\ Loading[18].when = "user"
          /\ Loading[18].reads = PasswordReads
      BY SMT, ReadPlaces, Fields DEF Places
    <3>2. Wanted(Loading[18].when)
      BY <1>10, <2>3, <3>1, WantedIs
    <3>3. Sec("AUTH_SMTP_PASSWORD") \in PasswordReads
      BY DEF PasswordReads
    <3>4. /\ got["AUTH_SMTP_PASSWORD"] = Raw(Sec("AUTH_SMTP_PASSWORD"))
          /\ Legal(Sec("AUTH_SMTP_PASSWORD"), got["AUTH_SMTP_PASSWORD"])
      BY <1>4, <3>1, <3>2, <3>3, KeyOf DEF NoPlaceholderLeaves
    <3>5. Raw(Sec("AUTH_SMTP_PASSWORD")).text # Blank
      BY <3>4 DEF Legal, Sec, Row
    <3> QED
      BY <3>5 DEF Raw, Sec, Row, T
  <2> QED
    BY <2>1, <2>2, <2>3
<1> QED
  BY <1>5, <1>6, <1>7, <1>8, <1>9, <1>10 DEF ServedIsSafe

LEMMA TypesHold == SettingsInv => TypeOK
<1> SUFFICES ASSUME SettingsInv PROVE TypeOK
  OBVIOUS
<1>1. Len(Loading) = 27
  BY SMT DEF Loading
<1>2. \A v \in resolved : v.source \in {"environment", "default"}
  BY DEF SettingsInv, ShownAreRead, Var
<1>3. \A p \in problems : p[2] # "invalid_definition" /\ p[2] # "duplicate_key"
  BY SMT DEF SettingsInv, ProblemsAreOfValues, Reasons
<1> QED
  BY SMT, <1>1, <1>2, <1>3 DEF SettingsInv, InPlace, TypeOK

(* root/http.rs load_http_config, run_http and compose: whatever the       *)
(* environment, the process serves only with settings that are safe as a   *)
(* whole, uses no value that stood for an error, names every wrong setting *)
(* when it refuses, and shows no secret.                                   *)
THEOREM SettingsStaySafe == Spec => []SettingsAreSafe
<1>1. SettingsInv => SettingsAreSafe
  BY TypesHold, ServedSafe, NoPlaceholder, ProblemsNamed, PrivateHidden DEF SettingsAreSafe
<1> QED
  BY <1>1, SettingsInvHolds, PTL
=============================================================================
