------------------------------ MODULE Process -------------------------------
(***************************************************************************)
(* The HTTP process (root/http.rs): what it opens at startup and in which  *)
(* order, the readiness gate and its probes (shared/health), the accept    *)
(* loop with its connection slots, and the shutdown that spends one        *)
(* remaining budget over sockets, connections, the audit worker, the       *)
(* database, telemetry and the log.  Two things of a connection may outlast*)
(* it: its socket session and the blocking work its handler has started.   *)
(* Time is counted in units of shutdown budget, from the moment the process*)
(* stops admitting.                                                        *)
(***************************************************************************)
EXTENDS Naturals, FiniteSets

CONSTANTS Conns,        \* clients that may connect
          Slots,        \* connection slots (64)
          Probes,       \* requests to /readyz
          Budget,       \* SHUTDOWN_MS
          BrokerTime,   \* NATS_TIMEOUT_MS
          WorkTime,     \* the longest that blocking work which has started lasts
          Transports    \* the event transports considered

ProcessAssumption ==
  /\ Slots \in Nat /\ Budget \in Nat /\ BrokerTime \in Nat
  /\ WorkTime \in Nat /\ Transports \subseteq {"postgres", "jetstream"}

Starting == 0
Serving  == 1
Draining == 2

VARIABLES config,     \* what load_http_config accepted
          stage,      \* the step of run_http that comes next
          opened,     \* resources opened so far
          released,   \* resources whose close was called
          gate,       \* Gate.state
          probe,      \* probe -> "idle", "checking" (holds Gate.busy), or its answer
          listening,  \* the listener exists
          conn,       \* connection tasks running
          loops,      \* connections that became a socket session, a task of its own
          blocking,   \* connections whose handler started a hash or a limiter call
                      \* on the runtime's blocking threads that has not returned
          audit,      \* the audit worker's task
          left,       \* `remaining`
          elapsed,    \* time since the drain began
          overrun,    \* what the drop of the runtime took of it
          code        \* the exit code
tasks == <<loops, blocking>>
time == <<left, elapsed, overrun>>
vars == <<config, stage, opened, released, gate, probe, listening, conn, tasks, audit,
          time, code>>

(* load_http_config refuses authentication without the database and audit  *)
(* without authentication.                                                 *)
Configs == {c \in [database : BOOLEAN, outbound : BOOLEAN, auth : BOOLEAN,
                   audit : BOOLEAN, transport : Transports] :
              (c.auth => c.database) /\ (c.audit => c.auth)}
Needed(s) == CASE s \in {"log", "telemetry"} -> TRUE
               [] s = "database" -> config.database
               [] s = "outbound" -> config.outbound
               [] s = "auth"     -> config.auth
               [] OTHER          -> config.audit
After == [log |-> "telemetry", telemetry |-> "database", database |-> "outbound",
          outbound |-> "auth", auth |-> "audit", audit |-> "bind"]
(* What the error path of a startup step closes before it returns 1. *)
ReleasedOnFailure(s) ==
  CASE s = "log"       -> {}
    [] s = "telemetry" -> {"log"}
    [] s = "database"  -> {"log", "telemetry"}
    [] OTHER           -> {"log", "telemetry", "database"} \cap opened

Init == /\ config \in Configs /\ stage = "log" /\ opened = {} /\ released = {}
        /\ gate = Starting /\ probe = [p \in Probes |-> "idle"] /\ listening = FALSE
        /\ conn = {} /\ loops = {} /\ blocking = {} /\ audit = "off"
        /\ left = Budget /\ elapsed = 0 /\ overrun = 0 /\ code = 0

Open(s) ==
  /\ stage = s /\ Needed(s)
  /\ opened' = opened \cup {s} /\ stage' = After[s]
  /\ UNCHANGED <<config, released, gate, probe, listening, conn, tasks, audit, time, code>>
Skip(s) ==
  /\ stage = s /\ ~Needed(s) /\ stage' = After[s]
  /\ UNCHANGED <<config, opened, released, gate, probe, listening, conn, tasks, audit, time, code>>
FailToOpen(s) ==
  /\ stage = s /\ Needed(s)
  /\ released' = ReleasedOnFailure(s) /\ stage' = "exit" /\ code' = 1
  /\ UNCHANGED <<config, opened, gate, probe, listening, conn, tasks, audit, time>>
Startup == \E s \in DOMAIN After : Open(s) \/ Skip(s) \/ FailToOpen(s)

(* The audit worker starts before the listener is bound.  A failed bind    *)
(* skips serving, and everything is closed as after a drain.               *)
Bind ==
  /\ stage = "bind"
  /\ audit' = IF config.audit THEN "running" ELSE "off"
  /\ \/ /\ stage' = "serving" /\ listening' = TRUE
        /\ gate' = IF gate = Starting THEN Serving ELSE gate
        /\ UNCHANGED code
     \/ stage' = "audit_close" /\ code' = 1 /\ UNCHANGED <<listening, gate>>
  /\ UNCHANGED <<config, opened, released, probe, conn, tasks, time>>

(* A connection beyond the slots is dropped. *)
Accept(c) ==
  /\ stage = "serving" /\ c \notin conn \cup loops
  /\ Cardinality(conn) < Slots
  /\ conn' = conn \cup {c}
  /\ UNCHANGED <<config, stage, opened, released, gate, probe, listening, tasks, audit, time, code>>
Disconnect(c) ==
  /\ c \in conn /\ conn' = conn \ {c}
  /\ UNCHANGED <<config, stage, opened, released, gate, probe, listening, tasks, audit, time, code>>

(* Of a connection that is upgraded the session goes on, with its socket   *)
(* slot instead of its connection slot.  One that gets its slot after the  *)
(* sockets were told to close ends itself: that is a Disconnect.           *)
Upgrade(c) ==
  /\ stage = "serving" /\ c \in conn /\ conn' = conn \ {c} /\ loops' = loops \cup {c}
  /\ UNCHANGED <<config, stage, opened, released, gate, probe, listening, blocking, audit,
                 time, code>>
LoopEnds(c) ==
  /\ c \in loops /\ loops' = loops \ {c}
  /\ UNCHANGED <<config, stage, opened, released, gate, probe, listening, conn, blocking,
                 audit, time, code>>
(* spawn_blocking: a handler waits for the work it starts, but the work    *)
(* does not end with the handler.                                          *)
WorkBegins(c) ==
  /\ config.auth /\ c \in conn \ blocking /\ blocking' = blocking \cup {c}
  /\ UNCHANGED <<config, stage, opened, released, gate, probe, listening, conn, loops, audit,
                 time, code>>
WorkEnds(c) ==
  /\ c \in blocking /\ blocking' = blocking \ {c}
  /\ IF stage = "runtime_drop"
     THEN \E w \in overrun..WorkTime : overrun' = w /\ elapsed' = elapsed + (w - overrun)
     ELSE UNCHANGED <<overrun, elapsed>>
  /\ UNCHANGED <<config, stage, opened, released, gate, probe, listening, conn, loops, audit,
                 left, code>>

(* Gate::ready: the state, the lock, the checks in their budget, the state *)
(* again.  A probe is a request, so it needs a connection.                 *)
Busy == \E p \in Probes : probe[p] = "checking"
ProbeStart(p) ==
  /\ probe[p] # "checking" /\ conn # {}
  /\ probe' = [probe EXCEPT ![p] = IF gate = Serving /\ ~Busy THEN "checking" ELSE "not_ready"]
  /\ UNCHANGED <<config, stage, opened, released, gate, listening, conn, tasks, audit, time, code>>
AnswersUnrevised(ok) == IF ok THEN "ready" ELSE "not_ready"   \* mutant: no second look
Answers(ok) == IF ok /\ gate = Serving THEN "ready" ELSE "not_ready"
ProbeEnd(p) ==
  /\ probe[p] = "checking"
  /\ \E ok \in BOOLEAN : probe' = [probe EXCEPT ![p] = Answers(ok)]
  /\ UNCHANGED <<config, stage, opened, released, gate, listening, conn, tasks, audit, time, code>>

(* A signal, or an accept that fails, ends the loop. *)
Drain ==
  /\ stage = "serving" /\ stage' = "sockets"
  /\ gate' = Draining /\ listening' = FALSE
  /\ UNCHANGED <<config, opened, released, probe, conn, tasks, audit, time, code>>

Spend(d) == /\ left' = (IF d > left THEN 0 ELSE left - d) /\ elapsed' = elapsed + d
            /\ UNCHANGED overrun
(* Every session has ended, or the budget runs out and those that are left *)
(* stay: nothing aborts them.                                              *)
CloseSockets ==
  /\ stage = "sockets" /\ stage' = "join"
  /\ \/ loops = {} /\ \E d \in 0..left : Spend(d)
     \/ loops # {} /\ Spend(left)
  /\ UNCHANGED <<config, opened, released, gate, probe, listening, conn, tasks, audit, code>>
(* The connections end under a graceful shutdown, or are aborted and joined. *)
JoinOrLeave ==   \* mutant: the budget ends the wait, and nothing is aborted
  /\ stage = "join" /\ stage' = "audit_close"
  /\ \/ conn = {} /\ \E d \in 0..left : Spend(d)
     \/ conn # {} /\ Spend(left)
  /\ UNCHANGED <<config, opened, released, gate, probe, listening, conn, tasks, audit, code>>
JoinWaits ==   \* mutant: the graceful shutdown has no end of its own
  /\ stage = "join" /\ stage' = "audit_close" /\ conn = {}
  /\ \E d \in 0..left : Spend(d)
  /\ UNCHANGED <<config, opened, released, gate, probe, listening, conn, tasks, audit, code>>
Join ==
  /\ stage = "join" /\ stage' = "audit_close"
  /\ \/ conn = {} /\ UNCHANGED conn /\ \E d \in 0..left : Spend(d)
     \/ conn # {} /\ conn' = {} /\ Spend(left)
  /\ probe' = [p \in Probes |-> IF probe[p] = "checking" THEN "idle" ELSE probe[p]]
  /\ UNCHANGED <<config, opened, released, gate, listening, tasks, audit, code>>
(* Runtime::close: the task ends in the budget or is left to the runtime;  *)
(* then the broker is closed under a timeout of its own.                   *)
CloseAudit ==
  /\ stage = "audit_close" /\ stage' = "database_close"
  /\ IF ~config.audit THEN UNCHANGED <<audit, released, time>>
     ELSE /\ released' = released \cup {"audit"}
          /\ \E d \in 0..left :
             \E b \in 0..(IF config.transport = "jetstream" THEN BrokerTime ELSE 0) :
               /\ audit' \in {"stopped"} \cup (IF d = left THEN {"detached"} ELSE {})
               /\ Spend(d + b)
  /\ UNCHANGED <<config, opened, gate, probe, listening, conn, tasks, code>>
(* The outbound client refuses from here; the pool closes in the budget. *)
CloseDatabase ==
  /\ stage = "database_close" /\ stage' = "runtime_drop"
  /\ released' = released \cup (opened \cap {"outbound", "database"})
  /\ \E d \in 0..(IF config.database THEN left ELSE 0) : Spend(d)
  /\ UNCHANGED <<config, opened, gate, probe, listening, conn, tasks, audit, code>>
(* The drop of the runtime ends its tasks where they are, but it waits for *)
(* the blocking work that runs, and `remaining` is not charged for it.     *)
DropRuntime ==
  /\ stage = "runtime_drop" /\ blocking = {} /\ stage' = "telemetry_close"
  /\ audit' = (IF audit = "detached" THEN "stopped" ELSE audit) /\ loops' = {}
  /\ UNCHANGED <<config, opened, released, gate, probe, listening, conn, blocking, time,
                 code>>
CloseTelemetry ==
  /\ stage = "telemetry_close" /\ stage' = "log_close"
  /\ released' = released \cup {"telemetry"} /\ \E d \in 0..left : Spend(d)
  /\ UNCHANGED <<config, opened, gate, probe, listening, conn, tasks, audit, code>>
CloseLog ==
  /\ stage = "log_close" /\ stage' = "exit"
  /\ released' = released \cup {"log"} /\ \E d \in 0..left : Spend(d)
  /\ UNCHANGED <<config, opened, gate, probe, listening, conn, tasks, audit, code>>
Shutdown == \/ CloseSockets \/ Join \/ CloseAudit \/ CloseDatabase
            \/ DropRuntime \/ CloseTelemetry \/ CloseLog

Next == \/ Startup \/ Bind \/ Drain \/ Shutdown
        \/ \E c \in Conns : \/ Accept(c) \/ Disconnect(c) \/ Upgrade(c) \/ LoopEnds(c)
                           \/ WorkBegins(c) \/ WorkEnds(c)
        \/ \E p \in Probes : ProbeStart(p) \/ ProbeEnd(p)
Spec == Init /\ [][Next]_vars
(* The main thread runs; its waits are bounded by the budget, all but the  *)
(* one for blocking work, which returns: a hash ends by itself, a limiter  *)
(* call at the timeouts of its connection.                                 *)
FairSpec == /\ Spec /\ WF_vars(Startup) /\ WF_vars(Bind) /\ WF_vars(Shutdown)
            /\ WF_vars(\E c \in Conns : WorkEnds(c))
-----------------------------------------------------------------------------
(* The type invariant of the process. *)
Resources == {"log", "telemetry", "database", "outbound", "auth", "audit"}
TypeOK ==
  /\ config \in Configs
  /\ stage \in {"bind", "serving", "sockets", "join", "audit_close", "database_close",
                "runtime_drop", "telemetry_close", "log_close", "exit"} \cup DOMAIN After
  /\ opened \subseteq Resources /\ released \subseteq Resources
  /\ gate \in {Starting, Serving, Draining}
  /\ probe \in [Probes -> {"idle", "checking", "ready", "not_ready"}]
  /\ listening \in BOOLEAN /\ conn \subseteq Conns /\ Cardinality(conn) <= Slots
  /\ loops \subseteq Conns /\ blocking \subseteq Conns
  /\ audit \in {"off", "running", "stopped", "detached"}
  /\ left \in 0..Budget /\ elapsed \in Nat /\ overrun \in 0..WorkTime /\ code \in {0, 1}

(* H02, H04: a probe answers "ready" only while the process is serving     *)
(* behind an open listener, even when its checks outlasted the drain.      *)
ReadyIsCurrent ==
  [][\A p \in Probes : probe[p] = "checking" /\ probe'[p] = "ready"
                         => gate = Serving /\ listening]_vars

(* H03: one evaluation at a time; an overlapping probe is refused.         *)
OneEvaluation == Cardinality({p \in Probes : probe[p] = "checking"}) <= 1

(* D02: the pool is closed after the connections that use it have ended,   *)
(* and after the audit worker was told to stop.  A socket session may still*)
(* look up its principal then, but only if the sessions took the whole     *)
(* budget to end.                                                          *)
DatabaseOutlivesHandlers ==
  "database" \in released => /\ conn = {} /\ audit # "running"
                             /\ loops # {} => left = 0

(* T11: telemetry and the log are closed when nothing runs that could emit *)
(* to them: no handler, no socket session, no blocking work of a handler   *)
(* that is gone, no worker left to the runtime.                            *)
NothingOutlivesRuntime ==
  "telemetry" \in released
     => conn = {} /\ loops = {} /\ blocking = {} /\ audit \in {"off", "stopped"}

(* However the process ends (a refused step of startup, a failed bind, a   *)
(* drain), the log, telemetry and the pool were closed if they were opened.*)
ExitReleases ==
  stage = "exit" => (opened \cap {"log", "telemetry", "database"}) \subseteq released

(* A shutdown that has begun does not stay in any of its steps: the process*)
(* exits, whatever its connections and its worker do.                      *)
Exits == []<>(stage \notin {"sockets", "join", "audit_close", "database_close",
                           "runtime_drop", "telemetry_close", "log_close"})

(* What a shutdown takes: the single budget; with jetstream the broker's   *)
(* own timeout on top of it; and, when the runtime is dropped, what the    *)
(* blocking work of abandoned requests still needs, which nothing bounds   *)
(* but the work itself, and which needs authentication.                    *)
ShutdownWithinBudget ==
  /\ elapsed <= Budget + overrun
                 + (IF config.transport = "jetstream" THEN BrokerTime ELSE 0)
  /\ overrun <= WorkTime /\ (overrun > 0 => config.auth)

(* The shutdown in its order, whenever it starts and whatever startup had  *)
(* opened by then: the pool outlives the handlers, telemetry outlives all  *)
(* that runs, every exit has released what was opened, and all steps       *)
(* together take no more than they may.                                    *)
ShutdownInOrder == /\ TypeOK /\ OneEvaluation
                   /\ DatabaseOutlivesHandlers /\ NothingOutlivesRuntime
                   /\ ExitReleases /\ ShutdownWithinBudget
=============================================================================
