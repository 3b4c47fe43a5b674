------------------------------ MODULE Services ------------------------------
(***************************************************************************)
(* What the server's requests rely on: where a request comes from          *)
(* (root/proxy.rs), the ledger of migrations (shared/postgres), the        *)
(* lineage of an execution (shared/provenance), the outbound client        *)
(* (shared/httpclient), the sockets (shared/socket/axum), the admission of *)
(* a browser's requests (identity/transport/http) and the limiters of its  *)
(* attempts (identity/infra).  They share no state: a step is a step of    *)
(* one of them.                                                            *)
(***************************************************************************)
EXTENDS Integers, Sequences, FiniteSets

CONSTANTS Width, Lists, Nodes, Forged, MaxHops,                \* Sources
          Processes, Plans, MaxStarts,                         \* Migrations
          MaxMs, CounterMax, StartMax, MaxU32,                 \* Lineage
          MaxScopes, MaxWorks, Foreign, Initiators,
          Calls, CallSlots, MaxResponse, Lengths,              \* Outbound
          Conns, ConnSlots,                                    \* Sockets
          Tabs, Sessions, Owner, Used, Copies, Origins, Ttl,   \* Admissions
          Second, RetryTimes, Nonces, LastTime, Faults,
          Keys, Attempts, Window, MaxCount, MaxKeys,           \* Limiters
          Requests, Skew, MaxSkew, MaxDelay, MaxLog, EndTime

VARIABLES list, client, holder, header, hops, derived, source
sources == <<list, client, holder, header, hops, derived, source>>
Src == INSTANCE Sources

VARIABLES history, lock, plan, turn, left, ran, pc, starts, past
migrations == <<history, lock, plan, turn, left, ran, pc, starts, past>>
Mig == INSTANCE Migrations WITH at <- turn, seen <- past

VARIABLES now, last, scopes, works
lineage == <<now, last, scopes, works>>
Lin == INSTANCE Lineage

VARIABLES attempt, wanted, received, aborted, result, slots, clientClosed, signalled
outbound == <<attempt, wanted, received, aborted, result, slots, clientClosed, signalled>>
Out == INSTANCE Outbound WITH
         Slots <- CallSlots, at <- attempt, got <- received, told <- aborted,
         held <- slots, closed <- clientClosed

VARIABLES socket, taken, told, pong, valid, silent, sent, closed, closing
sockets == <<socket, taken, told, pong, valid, silent, sent, closed, closing>>
Sck == INSTANCE Sockets WITH Slots <- ConnSlots, stage <- socket, permits <- taken

VARIABLES status, lastSeen, jar, token, req, time, faults
browser == <<status, lastSeen, jar, token, req, time, faults>>
Adm == INSTANCE Admissions WITH MaxTime <- LastTime, held <- token, now <- time, seen <- lastSeen

VARIABLES adapter, window, asked, answer, clock, permits
limiter == <<adapter, window, asked, answer, clock, permits>>
Lim == INSTANCE Limiters WITH MaxTime <- EndTime

ASSUME ServicesAssumption ==
  /\ Src!SourcesAssumption /\ Mig!MigrationsAssumption /\ Lin!LineageAssumption
  /\ Out!OutboundAssumption /\ Sck!SocketsAssumption /\ Adm!AdmissionsAssumption
  /\ Lim!LimiterAssumption
-----------------------------------------------------------------------------
ServicesInit == /\ Src!Init /\ Mig!Init /\ Lin!Init /\ Out!Init /\ Sck!Init
                /\ Adm!Init /\ Lim!Init

SourcesStep    == UNCHANGED <<migrations, lineage, outbound, sockets, browser, limiter>> /\ Src!Next
MigrationsStep == UNCHANGED <<sources, lineage, outbound, sockets, browser, limiter>> /\ Mig!Next
LineageStep    == UNCHANGED <<sources, migrations, outbound, sockets, browser, limiter>> /\ Lin!Next
OutboundStep   == UNCHANGED <<sources, migrations, lineage, sockets, browser, limiter>> /\ Out!Next
SocketsStep    == UNCHANGED <<sources, migrations, lineage, outbound, browser, limiter>> /\ Sck!Next
BrowserStep    == UNCHANGED <<sources, migrations, lineage, outbound, sockets, limiter>> /\ Adm!Next
LimiterStep    == UNCHANGED <<sources, migrations, lineage, outbound, sockets, browser>> /\ Lim!Next
ServicesNext == \/ SourcesStep \/ MigrationsStep \/ LineageStep
                \/ OutboundStep \/ SocketsStep \/ BrowserStep \/ LimiterStep

services == <<sources, migrations, lineage, outbound, sockets, browser, limiter>>
ServicesSpec == ServicesInit /\ [][ServicesNext]_services
-----------------------------------------------------------------------------
(* A client that is no proxy cannot choose its source (trusted_source,     *)
(* contains).                                                              *)
SourceIsHonest == Src!SourceIsHonest
(* Every handler gets the source that the policy derives (run_http).       *)
SourceIsDerived == Src!SourceIsDerived
(* One ledger: each migration once, in order, all of them before a process *)
(* serves, and only another build in the way (Database::migrate).          *)
LedgerIsSound == Mig!LedgerIsSound
(* No setting of one build makes its own database differ (AUTH_SCHEMA.md). *)
OneCompleteLedger == Mig!OneCompleteLedger
(* A lineage that calls itself local has its root here, depths count the   *)
(* hops from it, whatever cause a caller names, and a retry repeats its    *)
(* work (Factory); and no two scopes share an id, for ids only increase,   *)
(* however the clock is set (V7::new_id).                                  *)
LineageIsKept ==
  /\ [](/\ Lin!TypeOK /\ Lin!LocalLineage /\ Lin!DepthCountsHops /\ Lin!RetryKeepsWork)
  /\ Lin!IdsIncrease
(* Close cancels every call under way, and a response is the whole body    *)
(* within its bound (Client::execute, Client::close).                      *)
ClientIsClosed == Out!ClientIsClosed
(* After the drain nobody is served, no loop misses the close, and no      *)
(* message that came after its session ended is handled (upgrade, close).  *)
SocketsAreSafe == Sck!SocketsAreSafe
(* A POST that is handled carries a token of the session it acts with, and *)
(* a token is refused only when it or its session is over, the browser     *)
(* changed its session, or a request with a later reading of the clock     *)
(* overtook this one; a cleared session is over, or was overtaken so; and  *)
(* the times a browser is told (cookie lifetime, Retry-After) are those    *)
(* the server meant (admit, check_csrf, known, cookie).                    *)
BrowserIsGuarded ==
  /\ [](/\ Adm!TypeOK /\ Adm!PostIsGuarded
        /\ Adm!CookieLastsAsLongAsToken /\ Adm!RetryAfterIsEnough)
  /\ Adm!RefusalIsExplained /\ Adm!ClearedSessionIsOver
(* No subject or source has more permits than twice its limit within a     *)
(* window; "full" means full of live windows; and who waits as long as a   *)
(* refusal says finds the windows over that refused it (admit_now, SCRIPT).*)
LimiterIsHonest ==
  /\ [](Lim!TypeOK /\ Lim!PermitsAreBounded)
  /\ [][Lim!FullMeansLiveNow /\ Lim!RefusalIsHonestNow]_limiter
=============================================================================
