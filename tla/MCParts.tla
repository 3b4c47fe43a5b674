------------------------------ MODULE MCParts -------------------------------
(* More parts that share no state, checked for safety: as in MCServer a    *)
(* behaviour is one of `part`, and the others stay in an initial state.    *)
(* Two parts may be one component with different bounds.                   *)
EXTENDS Settings, Services, TLC

CONSTANT Parts

VARIABLE part

settings == vars
\* Environments that differ from a complete one in at most two settings.
MCNaN == -1000000000
MCMaxTime == 100000000
MCSafe == 900000000
MCMalformed == {"malformed", "malformed too"}
MCLoopback == {"127.0.0.1", "localhost"}
MCShort == {"short key"}

Complete ==
  ("DEMO_TOKEN" :> T("token")) @@ ("AUTH_ENABLED" :> Yes) @@ ("DATABASE_ENABLED" :> Yes)
  @@ ("DATABASE_URL" :> T("url")) @@ ("AUTH_ALLOWED_ORIGINS" :> T("origin"))
  @@ ("AUTH_CSRF_KEY" :> T("a long key")) @@ ("AUTH_BLOCKLIST_PATH" :> T("file"))
  @@ ("AUTH_SMTP_HOST" :> T("smtp.example")) @@ ("AUTH_MAIL_FROM" :> T("sender"))
  @@ ("AUTH_LINK_ORIGIN" :> T("link"))
Deviations == {
  <<"DEMO_TOKEN", T(Blank)>>, <<"SERVICE_NAME", T("malformed")>>, <<"LOG_CAPACITY", N(0)>>,
  <<"HTTP_HOST", T("0.0.0.0")>>, <<"HTTP_HOST", T("malformed")>>, <<"HTTP_PORT", T("port")>>,
  <<"HTTP_TRUSTED_PROXIES", T("malformed")>>,
  <<"TELEMETRY_BATCH", N(300)>>, <<"DATABASE_ENABLED", No>>, <<"EVENTS_TRANSPORT", T("jetstream")>>,
  <<"OUTBOUND_ORIGIN", T("malformed")>>, <<"OUTBOUND_ORIGIN", T("outside")>>,
  <<"AUTH_ENABLED", No>>, <<"AUTH_ENABLED", T("yes")>>, <<"AUDIT_ENABLED", Yes>>,
  <<"AUTH_COOKIE_SECURE", No>>, <<"AUTH_DEV_INSECURE_COOKIES", Yes>>,
  <<"AUTH_SESSION_COOKIE", T("__Host-n2f_csrf")>>, <<"AUTH_SESSION_COOKIE", T("malformed")>>,
  <<"AUTH_ALLOWED_ORIGINS", T("malformed")>>, <<"AUTH_CSRF_KEY", T("short key")>>,
  <<"AUTH_SESSION_IDLE_MS", N(43200001)>>, <<"AUTH_SESSION_ABSOLUTE_MS", N(0)>>,
  <<"AUTH_HASH_MAX_CONCURRENT", N(0)>>, <<"AUTH_HASH_MAX_QUEUED", N(0)>>,
  <<"AUTH_LIMITER", T("redis")>>, <<"AUTH_LIMITER", T("memory")>>,
  <<"AUTH_LIMITER_REDIS_URL", T("redis url")>>, <<"AUTH_LIMITER_REDIS_URL", T("malformed")>>,
  <<"AUTH_SMTP_HOST", T(Blank)>>, <<"AUTH_SMTP_HOST", T("localhost")>>,
  <<"AUTH_SMTP_SECURITY", T("none")>>, <<"AUTH_SMTP_USERNAME", T("user")>>,
  <<"AUTH_SMTP_PASSWORD", T("password")>>, <<"AUTH_MAIL_FROM", T("malformed")>>,
  <<"AUTH_MAIL_FROM", T(Blank)>>}
With(e, d) == [k \in DOMAIN e \cup {d[1]} |-> IF k = d[1] THEN d[2] ELSE e[k]]
SomeEnvs == {With(With(Complete, d), f) : d \in Deviations, f \in Deviations}
          \cup {Complete, With(With(With(Complete, <<"AUTH_COOKIE_SECURE", No>>),
                                  <<"AUTH_DEV_INSECURE_COOKIES", Yes>>),
                              <<"HTTP_HOST", T("0.0.0.0")>>)}

\* Addresses of three bits in one family and of four in the other, and a proxy
\* list of every kind.
MCWidth == [v4 |-> 3, v6 |-> 4]
Addr(f, n) == [family |-> f, raw |-> [i \in 1..MCWidth[f] |-> (n \div 2 ^ (MCWidth[f] - i)) % 2]]
SomeNodes == {Addr("v4", n) : n \in 0..7} \cup {Addr("v6", 4), Addr("v6", 5)}
SomeLists == {{}, {[network |-> Addr("v4", 5), bits |-> 2]}, {[network |-> Addr("v4", 3), bits |-> 3]},
            {[network |-> Addr("v4", 6), bits |-> 0]},
            {[network |-> Addr("v6", 5), bits |-> 2], [network |-> Addr("v4", 2), bits |-> 3]}}
SomeHeaders == {<<>>, <<Addr("v4", 4)>>, <<Addr("v4", 0)>>, <<Addr("v6", 5), Addr("v4", 1)>>,
                <<[family |-> "unreadable", raw |-> <<>>]>>}

\* One build with the audit, without it, an older build, one whose third
\* migration was edited, the example, and a list out of order.
Build == INSTANCE Migrations WITH
           Processes <- {}, Plans <- {}, MaxStarts <- 0, at <- turn, seen <- past
ManyPlans ==
  {Build!Server(TRUE), Build!Server(FALSE), <<SubSeq(Build!AuditList, 1, 3)>>,
   <<<<Build!M(1), Build!M(2), Build!Edited(3)>>>>, <<Build!ExampleList>>,
   <<<<Build!M(2), Build!M(1)>>>>}

\* Two subjects, one source that they share, and a subject whose digest is
\* its source's.
Bucket(k, n) == [key |-> k, attempts |-> n]
OneDigest == {<<Bucket("net", 1), Bucket("net", 2)>>}
TwoSubjects == {<<Bucket("a", 1), Bucket("net", 2)>>, <<Bucket("b", 1), Bucket("net", 2)>>}
               \cup OneDigest
SomeKeys == {"a", "b", "net"}
Callers == {1, 2}
NoSkew == [r \in Callers |-> 0]
FirstAhead == [r \in Callers |-> IF r = 1 THEN 1 ELSE 0]
(* A lineage that starts here, for one initiator.                          *)
Narrow(w) == /\ w.who = "ann" /\ w.cause.kind # "event" /\ w.correlation \notin Foreign
             /\ w.replay.kind \in {"none", "scope"} /\ w.replay.id \notin Foreign
             /\ w.source = "external" => w.cause.kind # "work"
Two == INSTANCE Lineage WITH MaxScopes <- 2
One == INSTANCE Lineage WITH Initiators <- {"ann"}
Own == INSTANCE Lineage WITH Initiators <- {"ann"}, Foreign <- {}
(* All routes in one tab, two tabs, and the answers of the limiter.        *)
MCOwner == "s1" :> "alice" @@ "s2" :> "bob"
BrowserParts == {"routes", "tabs", "retry after"}
Unlimited == \A t \in {"t1", "t2"} : req'[t].answer.kind # "rate_limited"
Unissued == [s \in {"s1", "s2"} |-> "unissued"]
OneSession == status["s2"] = "unissued" /\ UNCHANGED faults /\ status'["s2"] = "unissued"
Calm == /\ time' > time => req["t1"].stage \in {"idle", "answered"}
        /\ \A s \in Sessions : status'[s] = "outdated" => status[s] = "outdated"
Plainly == \A t \in {"t1", "t2"} : /\ Len(req'[t].session) <= 1
                                   /\ req'[t].origin # "other"

-----------------------------------------------------------------------------
(* A part that rests has one initial state.                                *)
Resting ==
  /\ part # "settings" => env = Complete
  /\ part # "sources"  => /\ list = {} /\ client = Addr("v4", 0) /\ header = <<>>
  /\ part # "ids"      => now = 0
  /\ part \notin BrowserParts =>
       /\ status = Unissued
       /\ jar = [session |-> Adm!None, csrf |-> Adm!NoToken, expires |-> 0]
  /\ part # "outbound" => wanted = [k \in {"k1", "k2"} |-> 0]
  /\ adapter = IF part = "redis" THEN "redis" ELSE "local"

MCInit ==
        /\ part \in Parts /\ Resting
        /\ Init /\ ServicesInit /\ status["s2"] = "unissued" /\ (part = "tabs" => status = Unissued)

(* The part that runs changes nothing of the others.                       *)
Others ==
  /\ UNCHANGED part
  /\ part # "settings" => UNCHANGED settings
  /\ part # "sources"  => UNCHANGED sources
  /\ part \notin {"migrations", "toggle"} => UNCHANGED migrations
  /\ part \notin {"scopes", "more scopes", "ids"} => UNCHANGED lineage
  /\ part \notin {"local", "redis"} => UNCHANGED limiter
  /\ part \notin BrowserParts => UNCHANGED browser
  /\ part # "outbound" => UNCHANGED outbound
  /\ part # "sockets"  => UNCHANGED sockets

MCNext ==
  /\ Others
  /\ \/ part = "settings" /\ Next
     \/ part = "sources"  /\ Src!Next
     \* Three starts between two processes.
     \/ part = "migrations" /\ Mig!Next /\ starts'["p2"] <= 1
     \* One build, whose setting of the audit changes.
     \/ part = "toggle"   /\ Mig!Next /\ \A p \in {"p1", "p2"} :
                                plan'[p] \in {<<>>, Mig!Server(TRUE), Mig!Server(FALSE)}
     \* At one time, with the ids in order; in runs of three scopes no second
     \* initiator, no events, and hints and replays are of scopes here.
     \/ part = "scopes"   /\ Two!Next /\ now' = 0 /\ (last = Lin!Fresh0 => last'.counter <= 0)
     \/ part = "more scopes" /\ One!Next /\ now' = 0 /\ (last = Lin!Fresh0 => last'.counter <= 0)
          /\ \A s \in scopes' : Narrow(s.work)
     \* Every time, and nothing from elsewhere.
     \/ part = "ids"      /\ Own!Next /\ works' = {}
     \* In the store of the process a subject may have the digest of its
     \* source; its callers are alike, and so are a and b.
     \/ part = "local"    /\ Lim!Next /\ clock' < EndTime
          /\ (asked[1] = asked[2] => asked'[2] = asked[2])
          /\ (window["a"] = window["b"] /\ permits["a"] = permits["b"] /\ asked[1] = asked[2]
                => asked'[1].buckets \notin {<<Bucket("b", 1), Bucket("net", 2)>>})
     \/ part = "redis"    /\ Lim!Next /\ \A r \in Callers : asked'[r].buckets \notin OneDigest
     \* Faults, foreign pages, doubled cookies and other devices early on, then
     \* time passes, while no request is under way (two tabs are for that).
     \/ /\ part = "routes"
        /\ \/ Adm!Browse("t1", IF time = 0 THEN Used ELSE {"csrf", "logout"})
           \/ Adm!Elsewhere
        /\ Unlimited /\ (time' > 0 => Plainly /\ UNCHANGED faults /\ Calm)
     \* One tab logs in, once, the other out; when both are on their way time
     \* passes, and no context is fetched after that.
     \/ /\ part = "tabs"
        /\ \/ Adm!Browse("t1", IF time > 0 THEN {"session"}
                              ELSE IF status["s1"] = "unissued" THEN {"csrf", "login"} ELSE {"csrf"})
           \/ Adm!Browse("t2", IF time > 0 THEN {"logout"} ELSE {"csrf", "logout"})
           \/ Adm!Tick /\ \A t \in Tabs : req[t].stage = "sent" /\ req[t].session # <<>>
        /\ OneSession /\ Plainly /\ Unlimited /\ time' <= 1
     \/ /\ part = "retry after"
        /\ Adm!Browse("t1", {"csrf", "login"}) \/ Adm!Elsewhere
        /\ Plainly /\ UNCHANGED faults /\ time' <= 1
     \/ part = "outbound" /\ Out!Next
     \/ part = "sockets"  /\ Sck!Next

allVars == <<part, settings, services>>
MCSpec == MCInit /\ [][MCNext]_allVars
-----------------------------------------------------------------------------
(* What Settings and Services promise is stated there.                     *)
=============================================================================
