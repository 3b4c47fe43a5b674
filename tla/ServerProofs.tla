---------------------------- MODULE ServerProofs ----------------------------
(***************************************************************************)
(* Proofs about the server, for any connections, slots, probes, budgets,   *)
(* emitting threads, queues and callers of the hasher.  A step of the      *)
(* server leaves a component alone or is one step of it, so each component *)
(* has its own inductive invariant.                                        *)
(***************************************************************************)
EXTENDS Server, FiniteSetTheorems, SequenceTheorems, TLAPS

(* Counting is the same in the modules of the components.                  *)
LEMMA SameCounts == \A S : Prc!Cardinality(S) = Cardinality(S)
  BY DEF Prc!Cardinality, Cardinality

(* A set with at most one element.                                         *)
LEMMA AtMostOne ==
  ASSUME NEW S, \A x, y \in S : x = y
  PROVE  IsFiniteSet(S) /\ Cardinality(S) <= 1
<1>1. CASE S = {}
  BY <1>1, FS_EmptySet
<1>2. CASE S # {}
  <2>1. PICK x : S = {x}
    BY <1>2
  <2>2. IsFiniteSet({x}) /\ Cardinality({x}) = 1
    BY FS_Singleton
  <2>. QED  BY <2>1, <2>2
<1>. QED  BY <1>1, <1>2

(* When a function changes at one point, the number of points whose value  *)
(* lies in P changes by what enters and what leaves.                       *)
Where(D, f, P) == {x \in D : f[x] \in P}
One(b) == IF b THEN 1 ELSE 0

LEMMA CountChanges ==
  ASSUME NEW D, NEW f, NEW g, NEW c \in D, NEW v, NEW P, f = [x \in D |-> f[x]],
         g = [f EXCEPT ![c] = v], IsFiniteSet(Where(D, f, P))
  PROVE  /\ IsFiniteSet(Where(D, g, P))
         /\ Cardinality(Where(D, g, P)) \in Nat /\ Cardinality(Where(D, f, P)) \in Nat
         /\ Cardinality(Where(D, g, P)) + One(f[c] \in P) = Cardinality(Where(D, f, P)) + One(v \in P)
<1>1. CASE v \in P
  <2>1. Where(D, g, P) = Where(D, f, P) \cup {c} /\ (c \in Where(D, f, P) <=> f[c] \in P)
    BY <1>1 DEF Where
  <2>. QED  BY <1>1, <2>1, FS_AddElement, FS_CardinalityType DEF One
<1>2. CASE v \notin P
  <2>1. Where(D, g, P) = Where(D, f, P) \ {c} /\ (c \in Where(D, f, P) <=> f[c] \in P)
    BY <1>2 DEF Where
  <2>2. IsFiniteSet(Where(D, g, P)) /\ Cardinality(Where(D, g, P)) =
          IF f[c] \in P THEN Cardinality(Where(D, f, P)) - 1 ELSE Cardinality(Where(D, f, P))
    BY <2>1, FS_RemoveElement
  <2>. QED  BY <1>2, <2>2, FS_CardinalityType DEF One
<1>. QED  BY <1>1, <1>2

(* How the number of points with a value in P follows one point whose      *)
(* value goes from u to v.                                                 *)
Follows(after, before, u, v, P) ==
  /\ u \in P /\ v \in P => after = before
  /\ u \notin P /\ v \notin P => after = before
  /\ u \notin P /\ v \in P => after = before + 1
  /\ u \in P /\ v \notin P => after = before - 1

LEMMA CountFollows ==
  ASSUME NEW D, NEW f, NEW c \in D, NEW v, NEW P, f = [x \in D |-> f[x]],
         IsFiniteSet(Where(D, f, P))
  PROVE  LET g == [f EXCEPT ![c] = v]
             n == Cardinality(Where(D, f, P))
             m == Cardinality(Where(D, g, P))
         IN  IsFiniteSet(Where(D, g, P)) /\ n \in Nat /\ m \in Nat /\ Follows(m, n, f[c], v, P)
<1>. DEFINE g == [f EXCEPT ![c] = v]
            n == Cardinality(Where(D, f, P))
            m == Cardinality(Where(D, g, P))
<1>1. IsFiniteSet(Where(D, g, P)) /\ n \in Nat /\ m \in Nat
  BY CountChanges
<1>2. n \in Nat /\ m \in Nat
  BY <1>1
<1>3. m + One(f[c] \in P) = n + One(v \in P)
  BY CountChanges
<1>. HIDE DEF n, m, g
<1>4. Follows(m, n, f[c], v, P)
  <2>1. CASE f[c] \in P /\ v \in P
    <3>1. One(f[c] \in P) = 1 /\ One(v \in P) = 1
      BY <2>1 DEF One
    <3>. QED  BY <1>2, <1>3, <2>1, <3>1 DEF Follows
  <2>2. CASE f[c] \notin P /\ v \notin P
    <3>1. One(f[c] \in P) = 0 /\ One(v \in P) = 0
      BY <2>2 DEF One
    <3>. QED  BY <1>2, <1>3, <2>2, <3>1 DEF Follows
  <2>3. CASE f[c] \notin P /\ v \in P
    <3>1. One(f[c] \in P) = 0 /\ One(v \in P) = 1
      BY <2>3 DEF One
    <3>. QED  BY <1>2, <1>3, <2>3, <3>1 DEF Follows
  <2>4. CASE f[c] \in P /\ v \notin P
    <3>1. One(f[c] \in P) = 1 /\ One(v \in P) = 0
      BY <2>4 DEF One
    <3>. QED  BY <1>2, <1>3, <2>4, <3>1 DEF Follows
  <2>. QED  BY <2>1, <2>2, <2>3, <2>4
<1>. QED  BY <1>1, <1>4 DEF n, m, g
-----------------------------------------------------------------------------
(* The process.  Until the audit worker is closed every unit spent was     *)
(* taken from the budget; a step that is over has released what it names,  *)
(* and the connections are gone from the join on.  A socket session that is*)
(* left after the sockets' step has cost the whole budget, and the drop of *)
(* the runtime leaves nothing running.                                     *)
Admitting == {"serving", "sockets", "join"}
Before    == {"log", "telemetry", "database", "outbound", "auth", "audit", "bind"}
Budgeted  == Before \cup Admitting \cup {"audit_close"}
Closing   == {"telemetry_close", "log_close"}
OpenedBy(s) == CASE s = "log" -> {} [] s = "telemetry" -> {"log"}
                 [] s = "database" -> {"log", "telemetry"} [] OTHER -> Prc!Resources
Extra == IF config.transport = "jetstream" THEN BrokerTime ELSE 0

ProcessTyped == Prc!TypeOK /\ IsFiniteSet(conn)
GateAgrees ==
  /\ gate = Prc!Serving <=> listening
  /\ step \in Before => gate = Prc!Starting
  /\ gate = Prc!Starting => step \notin Admitting
  /\ listening <=> step = "serving"
  /\ \A p, q \in Probes : probe[p] = "checking" /\ probe[q] = "checking" => p = q
HandlersInside ==
  /\ step \notin Admitting => conn = {}
  /\ audit = "running" => config.audit /\ step \in Admitting \cup {"audit_close"}
  /\ "database" \in released => step \in {"exit", "runtime_drop"} \cup Closing
  /\ "telemetry" \in released => step \in {"exit", "log_close"}
  /\ step \in Before => loops = {} /\ blocking = {}
  /\ step \in {"join", "audit_close", "database_close", "runtime_drop"} /\ loops # {} => left = 0
  /\ step \in Closing \cup {"exit"} => loops = {} /\ blocking = {} /\ audit # "detached"
  /\ blocking # {} \/ overrun > 0 => config.auth
ReleasedInOrder ==
  /\ step \in Before => audit = "off" /\ released = {}
  /\ opened \subseteq OpenedBy(step)
  /\ step \in {"runtime_drop"} \cup Closing /\ "database" \in opened => "database" \in released
  /\ step = "log_close" => "telemetry" \in released
  /\ Prc!ExitReleases
SpentInBudget ==
  /\ step \in Budgeted => elapsed + left = Budget
  /\ elapsed + left <= Budget + Extra + overrun
ProcessInv == /\ ProcessTyped /\ GateAgrees /\ HandlersInside /\ ReleasedInOrder
              /\ SpentInBudget

(* What follows each step of startup.                                      *)
LEMMA Order ==
  /\ DOMAIN Prc!After = {"log", "telemetry", "database", "outbound", "auth", "audit"}
  /\ Prc!After["log"] = "telemetry" /\ Prc!After["telemetry"] = "database"
  /\ Prc!After["database"] = "outbound" /\ Prc!After["outbound"] = "auth"
  /\ Prc!After["auth"] = "audit" /\ Prc!After["audit"] = "bind"
BY DEF Prc!After

LEMMA ProcessInit ==
  ASSUME Prc!Init
  PROVE  ProcessInv
<1>. USE DEF Prc!Starting, Prc!Serving, Prc!Draining, Prc!Resources,
             Admitting, Before, Budgeted, Closing, Extra
<1>1. config \in Prc!Configs /\ Budget \in Nat /\ BrokerTime \in Nat /\ Slots \in Nat /\ WorkTime \in Nat
  BY ServerAssumption DEF Prc!Init, Prc!ProcessAssumption
<1>2. IsFiniteSet(conn) /\ Prc!Cardinality(conn) <= Slots
  BY <1>1, SameCounts, FS_EmptySet DEF Prc!Init
<1>3. Prc!TypeOK
  <2>1. probe \in [Probes -> {"idle", "checking", "ready", "not_ready"}]
    BY DEF Prc!Init
  <2>2. step \in DOMAIN Prc!After /\ left \in 0..Budget /\ elapsed \in Nat /\ overrun \in 0..WorkTime
    BY <1>1, Order DEF Prc!Init
  <2>3. /\ opened \subseteq Prc!Resources /\ released \subseteq Prc!Resources
        /\ conn \subseteq Conns /\ listening \in BOOLEAN /\ code \in {0, 1}
        /\ gate \in {Prc!Starting, Prc!Serving, Prc!Draining}
        /\ audit \in {"off", "running", "stopped", "detached"}
        /\ loops \subseteq Conns /\ blocking \subseteq Conns
    BY DEF Prc!Init
  <2>. QED  BY <1>1, <1>2, <2>1, <2>2, <2>3 DEF Prc!TypeOK
<1>4. GateAgrees /\ HandlersInside /\ ReleasedInOrder /\ SpentInBudget
  BY <1>1 DEF Prc!Init, GateAgrees, HandlersInside, ReleasedInOrder, SpentInBudget, OpenedBy, Prc!ExitReleases
<1>. QED
  BY <1>2, <1>3, <1>4 DEF ProcessInv, ProcessTyped

LEMMA ProcessNext ==
  ASSUME ProcessInv, Prc!Next
  PROVE  ProcessInv'
<1>. USE DEF Prc!Starting, Prc!Serving, Prc!Draining, Prc!Resources,
             Admitting, Before, Budgeted, Closing, Prc!tasks, Prc!time
<1>1. /\ Budget \in Nat /\ BrokerTime \in Nat /\ Slots \in Nat /\ WorkTime \in Nat
  BY ServerAssumption DEF Prc!ProcessAssumption
<1>2. ProcessTyped /\ GateAgrees /\ HandlersInside /\ ReleasedInOrder /\ SpentInBudget
  BY DEF ProcessInv
<1>3. ASSUME NEW s \in DOMAIN Prc!After, Prc!Open(s)
      PROVE  ProcessInv'
  <2>1. ProcessTyped' /\ GateAgrees' /\ HandlersInside'
    BY <1>1, <1>2, <1>3, Order DEF Prc!Open,
       ProcessTyped, Prc!TypeOK, GateAgrees, HandlersInside,
       ReleasedInOrder, SpentInBudget, OpenedBy, Extra, Prc!ExitReleases
  <2>2. ReleasedInOrder' /\ SpentInBudget'
    BY <1>1, <1>2, <1>3, Order DEF Prc!Open,
       ProcessTyped, Prc!TypeOK, GateAgrees, HandlersInside,
       ReleasedInOrder, SpentInBudget, OpenedBy, Extra, Prc!ExitReleases
  <2>. QED  BY <2>1, <2>2 DEF ProcessInv
<1>4. ASSUME NEW s \in DOMAIN Prc!After, Prc!Skip(s)
      PROVE  ProcessInv'
  <2>1. ProcessTyped' /\ GateAgrees' /\ HandlersInside'
    BY <1>1, <1>2, <1>4, Order DEF Prc!Skip,
       ProcessTyped, Prc!TypeOK, GateAgrees, HandlersInside,
       ReleasedInOrder, SpentInBudget, OpenedBy, Extra, Prc!ExitReleases
  <2>2. ReleasedInOrder' /\ SpentInBudget'
    BY <1>1, <1>2, <1>4, Order DEF Prc!Skip,
       ProcessTyped, Prc!TypeOK, GateAgrees, HandlersInside,
       ReleasedInOrder, SpentInBudget, OpenedBy, Extra, Prc!ExitReleases
  <2>. QED  BY <2>1, <2>2 DEF ProcessInv
<1>5. ASSUME NEW s \in DOMAIN Prc!After, Prc!FailToOpen(s)
      PROVE  ProcessInv'
  <2>1. ProcessTyped' /\ GateAgrees' /\ HandlersInside'
    BY <1>1, <1>2, <1>5, Order DEF Prc!FailToOpen, Prc!ReleasedOnFailure,
       ProcessTyped, Prc!TypeOK, GateAgrees, HandlersInside,
       ReleasedInOrder, SpentInBudget, OpenedBy, Extra, Prc!ExitReleases
  <2>2. ReleasedInOrder' /\ SpentInBudget'
    BY <1>1, <1>2, <1>5, Order DEF Prc!FailToOpen, Prc!ReleasedOnFailure,
       ProcessTyped, Prc!TypeOK, GateAgrees, HandlersInside,
       ReleasedInOrder, SpentInBudget, OpenedBy, Extra, Prc!ExitReleases
  <2>. QED  BY <2>1, <2>2 DEF ProcessInv
<1>6. CASE Prc!Bind
  <2>1. ProcessTyped'
    BY <1>1, <1>2, <1>6, Order DEF Prc!Bind, Prc!Configs, ProcessTyped, Prc!TypeOK
  <2>2. GateAgrees'
    BY <1>2, <1>6 DEF Prc!Bind, Prc!Configs, GateAgrees
  <2>3. HandlersInside' /\ ReleasedInOrder' /\ SpentInBudget'
    BY <1>1, <1>2, <1>6 DEF Prc!Bind, Prc!Configs, ProcessTyped, Prc!TypeOK, GateAgrees, HandlersInside,
       ReleasedInOrder, SpentInBudget, OpenedBy, Extra, Prc!ExitReleases
  <2>. QED  BY <2>1, <2>2, <2>3 DEF ProcessInv
<1>7. ASSUME NEW c \in Conns, Prc!Accept(c)
      PROVE  ProcessInv'
  <2>1. Cardinality(conn) \in Nat /\ IsFiniteSet(conn)
    BY <1>2, FS_CardinalityType DEF ProcessTyped
  <2>2. IsFiniteSet(conn') /\ Prc!Cardinality(conn') <= Slots
    <3>1. c \notin conn /\ conn' = conn \cup {c} /\ Cardinality(conn) < Slots
      BY SameCounts, <1>7 DEF Prc!Accept
    <3>2. IsFiniteSet(conn') /\ Cardinality(conn') = Cardinality(conn) + 1
      BY <2>1, <3>1, FS_AddElement
    <3>. QED  BY SameCounts, <1>1, <2>1, <3>1, <3>2
  <2>3. Prc!TypeOK'
    BY <1>1, <1>2, <1>7, <2>2, Order DEF Prc!Accept, ProcessTyped, Prc!TypeOK
  <2>4. GateAgrees' /\ HandlersInside' /\ ReleasedInOrder' /\ SpentInBudget'
    BY <1>1, <1>2, <1>7 DEF Prc!Accept, ProcessTyped, Prc!TypeOK, GateAgrees, HandlersInside,
       ReleasedInOrder, SpentInBudget, OpenedBy, Extra, Prc!ExitReleases
  <2>. QED  BY <2>2, <2>3, <2>4 DEF ProcessInv, ProcessTyped
<1>8. ASSUME NEW c \in Conns, Prc!Disconnect(c)
      PROVE  ProcessInv'
  <2>1. Cardinality(conn) \in Nat /\ IsFiniteSet(conn) /\ Cardinality(conn) <= Slots
    BY SameCounts, <1>2, FS_CardinalityType DEF ProcessTyped, Prc!TypeOK
  <2>2. IsFiniteSet(conn \ {c}) /\ Cardinality(conn \ {c}) = Cardinality(conn) - 1
    BY <1>8, <2>1, FS_RemoveElement DEF Prc!Disconnect
  <2>3. IsFiniteSet(conn') /\ Prc!Cardinality(conn') <= Slots
    BY SameCounts, <1>1, <1>8, <2>1, <2>2 DEF Prc!Disconnect
  <2>4. Prc!TypeOK'
    BY <1>1, <1>2, <1>8, <2>3, Order DEF Prc!Disconnect, ProcessTyped, Prc!TypeOK
  <2>5. GateAgrees' /\ HandlersInside' /\ ReleasedInOrder' /\ SpentInBudget'
    BY <1>1, <1>2, <1>8 DEF Prc!Disconnect, ProcessTyped, Prc!TypeOK, GateAgrees, HandlersInside,
       ReleasedInOrder, SpentInBudget, OpenedBy, Extra, Prc!ExitReleases
  <2>. QED  BY <2>3, <2>4, <2>5 DEF ProcessInv, ProcessTyped
<1>9. ASSUME NEW p \in Probes, Prc!ProbeStart(p)
      PROVE  ProcessInv'
  <2>1. ProcessTyped' /\ GateAgrees' /\ HandlersInside'
    BY <1>1, <1>2, <1>9, Order DEF Prc!ProbeStart, Prc!Busy,
       ProcessTyped, Prc!TypeOK, GateAgrees, HandlersInside,
       ReleasedInOrder, SpentInBudget, OpenedBy, Extra, Prc!ExitReleases
  <2>2. ReleasedInOrder' /\ SpentInBudget'
    BY <1>1, <1>2, <1>9, Order DEF Prc!ProbeStart, Prc!Busy,
       ProcessTyped, Prc!TypeOK, GateAgrees, HandlersInside,
       ReleasedInOrder, SpentInBudget, OpenedBy, Extra, Prc!ExitReleases
  <2>. QED  BY <2>1, <2>2 DEF ProcessInv
<1>10. ASSUME NEW p \in Probes, Prc!ProbeEnd(p)
      PROVE  ProcessInv'
  <2>1. ProcessTyped' /\ GateAgrees' /\ HandlersInside'
    BY <1>1, <1>2, <1>10, Order DEF Prc!ProbeEnd, Prc!Answers,
       ProcessTyped, Prc!TypeOK, GateAgrees, HandlersInside,
       ReleasedInOrder, SpentInBudget, OpenedBy, Extra, Prc!ExitReleases
  <2>2. ReleasedInOrder' /\ SpentInBudget'
    BY <1>1, <1>2, <1>10, Order DEF Prc!ProbeEnd, Prc!Answers,
       ProcessTyped, Prc!TypeOK, GateAgrees, HandlersInside,
       ReleasedInOrder, SpentInBudget, OpenedBy, Extra, Prc!ExitReleases
  <2>. QED  BY <2>1, <2>2 DEF ProcessInv
<1>11. CASE Prc!Drain
  <2>1. ProcessTyped'
    BY <1>1, <1>2, <1>11, Order DEF Prc!Drain, ProcessTyped, Prc!TypeOK
  <2>2. GateAgrees'
    BY <1>2, <1>11 DEF Prc!Drain, GateAgrees
  <2>3. HandlersInside' /\ ReleasedInOrder' /\ SpentInBudget'
    BY <1>1, <1>2, <1>11 DEF Prc!Drain, ProcessTyped, Prc!TypeOK, GateAgrees, HandlersInside,
       ReleasedInOrder, SpentInBudget, OpenedBy, Extra, Prc!ExitReleases
  <2>. QED  BY <2>1, <2>2, <2>3 DEF ProcessInv
<1>12. CASE Prc!CloseSockets
  <2>1. ProcessTyped' /\ GateAgrees' /\ HandlersInside'
    BY <1>1, <1>2, <1>12, Order DEF Prc!CloseSockets, Prc!Spend,
       ProcessTyped, Prc!TypeOK, GateAgrees, HandlersInside,
       ReleasedInOrder, SpentInBudget, OpenedBy, Extra, Prc!ExitReleases
  <2>2. ReleasedInOrder' /\ SpentInBudget'
    BY <1>1, <1>2, <1>12, Order DEF Prc!CloseSockets, Prc!Spend,
       ProcessTyped, Prc!TypeOK, GateAgrees, HandlersInside,
       ReleasedInOrder, SpentInBudget, OpenedBy, Extra, Prc!ExitReleases
  <2>. QED  BY <2>1, <2>2 DEF ProcessInv
<1>13. CASE Prc!Join
  <2>1. conn' = {} /\ IsFiniteSet(conn') /\ Prc!Cardinality(conn') <= Slots
    BY SameCounts, <1>1, <1>13, FS_EmptySet DEF Prc!Join
  <2>2. Prc!TypeOK'
    BY <1>1, <1>2, <1>13, <2>1, Order DEF Prc!Join, Prc!Spend, ProcessTyped, Prc!TypeOK
  <2>3. GateAgrees' /\ HandlersInside' /\ ReleasedInOrder' /\ SpentInBudget'
    BY <1>1, <1>2, <1>13 DEF Prc!Join, Prc!Spend, ProcessTyped, Prc!TypeOK, GateAgrees, HandlersInside,
       ReleasedInOrder, SpentInBudget, OpenedBy, Extra, Prc!ExitReleases
  <2>. QED  BY <2>1, <2>2, <2>3 DEF ProcessInv, ProcessTyped
<1>14. CASE Prc!CloseAudit
  <2>1. CASE ~config.audit
    <3>1. ProcessTyped'
      BY <1>1, <1>2, <1>14, <2>1, Order DEF Prc!CloseAudit, ProcessTyped, Prc!TypeOK
    <3>2. GateAgrees' /\ HandlersInside' /\ ReleasedInOrder' /\ SpentInBudget'
      BY <1>1, <1>2, <1>14, <2>1 DEF Prc!CloseAudit, GateAgrees, HandlersInside,
         ReleasedInOrder, SpentInBudget, OpenedBy, Extra, Prc!ExitReleases
    <3>. QED  BY <3>1, <3>2 DEF ProcessInv
  <2>2. CASE config.audit
    <3>1. PICK d \in 0..left, b \in 0..Extra :
            /\ audit' \in {"stopped"} \cup (IF d = left THEN {"detached"} ELSE {})
            /\ left' = (IF d + b > left THEN 0 ELSE left - (d + b))
            /\ elapsed' = elapsed + (d + b) /\ overrun' = overrun
      BY <1>14, <2>2 DEF Prc!CloseAudit, Prc!Spend, Extra
    <3>2. /\ step = "audit_close" /\ step' = "database_close"
          /\ released' = released \cup {"audit"}
          /\ UNCHANGED <<config, opened, gate, probe, listening, conn, loops, blocking, code>>
      BY <1>14, <2>2 DEF Prc!CloseAudit
    <3>3. left \in 0..Budget /\ elapsed \in Nat
      BY <1>2 DEF ProcessTyped, Prc!TypeOK
    <3>4. left' \in 0..Budget /\ elapsed' \in Nat /\ SpentInBudget' /\ (left = 0 => left' = 0)
      <4>1. /\ d \in 0..left /\ b \in 0..Extra /\ Extra' = Extra /\ Extra \in Nat
            /\ elapsed + left = Budget /\ overrun \in Nat
        BY <1>1, <1>2, <3>1, <3>2 DEF SpentInBudget, Extra, ProcessTyped, Prc!TypeOK
      <4>2. PICK e \in Nat : Extra = e /\ Extra' = e
        BY <4>1
      <4>3. /\ left' \in 0..Budget /\ elapsed' \in Nat /\ (left = 0 => left' = 0)
            /\ elapsed' + left' <= Budget + e
        BY <1>1, <3>1, <3>3, <4>1, <4>2
      <4>4. elapsed' + left' <= Budget + e + overrun'
        BY <1>1, <3>1, <4>1, <4>2, <4>3
      <4>. QED  BY <3>2, <4>2, <4>3, <4>4 DEF SpentInBudget
    <3>5. ProcessTyped'
      BY <1>2, <3>1, <3>2, <3>4 DEF ProcessTyped, Prc!TypeOK
    <3>6. GateAgrees' /\ HandlersInside' /\ ReleasedInOrder'
      BY <1>2, <3>1, <3>2, <3>4 DEF GateAgrees, HandlersInside, ReleasedInOrder, OpenedBy,
         Prc!ExitReleases
    <3>. QED  BY <3>4, <3>5, <3>6 DEF ProcessInv
  <2>. QED  BY <2>1, <2>2
<1>15. CASE Prc!CloseDatabase
  <2>1. ProcessTyped' /\ GateAgrees' /\ HandlersInside'
    BY <1>1, <1>2, <1>15, Order DEF Prc!CloseDatabase, Prc!Spend,
       ProcessTyped, Prc!TypeOK, GateAgrees, HandlersInside,
       ReleasedInOrder, SpentInBudget, OpenedBy, Extra, Prc!ExitReleases
  <2>2. ReleasedInOrder' /\ SpentInBudget'
    BY <1>1, <1>2, <1>15, Order DEF Prc!CloseDatabase, Prc!Spend,
       ProcessTyped, Prc!TypeOK, GateAgrees, HandlersInside,
       ReleasedInOrder, SpentInBudget, OpenedBy, Extra, Prc!ExitReleases
  <2>. QED  BY <2>1, <2>2 DEF ProcessInv
<1>16. CASE Prc!DropRuntime
  <2>1. ProcessTyped' /\ GateAgrees' /\ HandlersInside'
    BY <1>1, <1>2, <1>16, Order DEF Prc!DropRuntime,
       ProcessTyped, Prc!TypeOK, GateAgrees, HandlersInside,
       ReleasedInOrder, SpentInBudget, OpenedBy, Extra, Prc!ExitReleases
  <2>2. ReleasedInOrder' /\ SpentInBudget'
    BY <1>1, <1>2, <1>16, Order DEF Prc!DropRuntime,
       ProcessTyped, Prc!TypeOK, GateAgrees, HandlersInside,
       ReleasedInOrder, SpentInBudget, OpenedBy, Extra, Prc!ExitReleases
  <2>. QED  BY <2>1, <2>2 DEF ProcessInv
<1>17. CASE Prc!CloseTelemetry
  <2>1. ProcessTyped' /\ GateAgrees' /\ HandlersInside'
    BY <1>1, <1>2, <1>17, Order DEF Prc!CloseTelemetry, Prc!Spend,
       ProcessTyped, Prc!TypeOK, GateAgrees, HandlersInside,
       ReleasedInOrder, SpentInBudget, OpenedBy, Extra, Prc!ExitReleases
  <2>2. ReleasedInOrder' /\ SpentInBudget'
    BY <1>1, <1>2, <1>17, Order DEF Prc!CloseTelemetry, Prc!Spend,
       ProcessTyped, Prc!TypeOK, GateAgrees, HandlersInside,
       ReleasedInOrder, SpentInBudget, OpenedBy, Extra, Prc!ExitReleases
  <2>. QED  BY <2>1, <2>2 DEF ProcessInv
<1>18. CASE Prc!CloseLog
  <2>1. ProcessTyped' /\ GateAgrees' /\ HandlersInside'
    BY <1>1, <1>2, <1>18, Order DEF Prc!CloseLog, Prc!Spend,
       ProcessTyped, Prc!TypeOK, GateAgrees, HandlersInside,
       ReleasedInOrder, SpentInBudget, OpenedBy, Extra, Prc!ExitReleases
  <2>2. ReleasedInOrder' /\ SpentInBudget'
    BY <1>1, <1>2, <1>18, Order DEF Prc!CloseLog, Prc!Spend,
       ProcessTyped, Prc!TypeOK, GateAgrees, HandlersInside,
       ReleasedInOrder, SpentInBudget, OpenedBy, Extra, Prc!ExitReleases
  <2>. QED  BY <2>1, <2>2 DEF ProcessInv
<1>19. ASSUME NEW c \in Conns, Prc!Upgrade(c)
      PROVE  ProcessInv'
  <2>1. Cardinality(conn) \in Nat /\ IsFiniteSet(conn) /\ Cardinality(conn) <= Slots
    BY SameCounts, <1>2, FS_CardinalityType DEF ProcessTyped, Prc!TypeOK
  <2>2. IsFiniteSet(conn \ {c}) /\ Cardinality(conn \ {c}) = Cardinality(conn) - 1
    BY <1>19, <2>1, FS_RemoveElement DEF Prc!Upgrade
  <2>3. IsFiniteSet(conn') /\ Prc!Cardinality(conn') <= Slots
    BY SameCounts, <1>1, <1>19, <2>1, <2>2 DEF Prc!Upgrade
  <2>4. Prc!TypeOK'
    BY <1>1, <1>2, <1>19, <2>3, Order DEF Prc!Upgrade, ProcessTyped, Prc!TypeOK
  <2>5. GateAgrees' /\ HandlersInside' /\ ReleasedInOrder' /\ SpentInBudget'
    BY <1>1, <1>2, <1>19 DEF Prc!Upgrade, ProcessTyped, Prc!TypeOK, GateAgrees, HandlersInside,
       ReleasedInOrder, SpentInBudget, OpenedBy, Extra, Prc!ExitReleases
  <2>. QED  BY <2>3, <2>4, <2>5 DEF ProcessInv, ProcessTyped
<1>20. ASSUME NEW c \in Conns, Prc!LoopEnds(c)
      PROVE  ProcessInv'
  <2>1. ProcessTyped' /\ GateAgrees' /\ HandlersInside'
    BY <1>1, <1>2, <1>20, Order DEF Prc!LoopEnds, ProcessTyped, Prc!TypeOK, GateAgrees,
       HandlersInside
  <2>2. ReleasedInOrder' /\ SpentInBudget'
    BY <1>1, <1>2, <1>20 DEF Prc!LoopEnds, ReleasedInOrder, SpentInBudget, OpenedBy, Extra,
       Prc!ExitReleases
  <2>. QED  BY <2>1, <2>2 DEF ProcessInv
<1>21. ASSUME NEW c \in Conns, Prc!WorkBegins(c)
      PROVE  ProcessInv'
  <2>1. ProcessTyped' /\ GateAgrees' /\ HandlersInside'
    BY <1>1, <1>2, <1>21, Order DEF Prc!WorkBegins, ProcessTyped, Prc!TypeOK, GateAgrees,
       HandlersInside
  <2>2. ReleasedInOrder' /\ SpentInBudget'
    BY <1>1, <1>2, <1>21 DEF Prc!WorkBegins, ReleasedInOrder, SpentInBudget, OpenedBy, Extra,
       Prc!ExitReleases
  <2>. QED  BY <2>1, <2>2 DEF ProcessInv
<1>22. ASSUME NEW c \in Conns, Prc!WorkEnds(c)
      PROVE  ProcessInv'
  <2>1. /\ c \in blocking /\ blocking' = blocking \ {c}
        /\ UNCHANGED <<config, step, opened, released, gate, probe, listening, conn, loops,
                       audit, left, code>>
    BY <1>22 DEF Prc!WorkEnds
  <2>2. left \in 0..Budget /\ elapsed \in Nat /\ overrun \in 0..WorkTime
    BY <1>2 DEF ProcessTyped, Prc!TypeOK
  <2>3. /\ overrun' \in 0..WorkTime /\ elapsed' = elapsed + (overrun' - overrun)
        /\ overrun' >= overrun /\ (step # "runtime_drop" => overrun' = overrun)
    BY <1>1, <1>22, <2>2 DEF Prc!WorkEnds
  <2>4. elapsed' \in Nat /\ SpentInBudget'
    <3>1. Extra' = Extra /\ Extra \in Nat
      BY <1>1, <2>1 DEF Extra
    <3>2. PICK e \in Nat : Extra = e /\ Extra' = e
      BY <3>1
    <3>3. /\ step \in Budgeted => elapsed + left = Budget
          /\ elapsed + left <= Budget + e + overrun
      BY <1>2, <3>2 DEF SpentInBudget
    <3>4. PICK w \in Nat : overrun' = overrun + w /\ elapsed' = elapsed + w
                           /\ (step # "runtime_drop" => w = 0)
      <4>1. \A x, y, e1, e2 : /\ x \in Nat /\ y \in Nat /\ x >= y /\ e1 \in Nat
                            /\ e2 = e1 + (x - y)
                            => x - y \in Nat /\ x = y + (x - y)
        OBVIOUS
      <4>2. overrun' \in Nat /\ overrun \in Nat /\ overrun' >= overrun
        BY <1>1, <2>2, <2>3
      <4>3. overrun' - overrun \in Nat /\ overrun' = overrun + (overrun' - overrun)
        BY <2>2, <2>3, <4>1, <4>2
      <4>. QED  BY <2>3, <4>2, <4>3
    <3>5. elapsed' \in Nat /\ elapsed' + left <= Budget + e + overrun'
      BY <1>1, <2>2, <3>2, <3>3, <3>4
    <3>6. step \in Budgeted => elapsed' = elapsed
      BY <2>2, <3>4
    <3>. QED  BY <2>1, <3>2, <3>3, <3>5, <3>6 DEF SpentInBudget
  <2>5. ProcessTyped'
    BY <1>1, <1>2, <2>1, <2>3, <2>4 DEF ProcessTyped, Prc!TypeOK
  <2>6. GateAgrees' /\ HandlersInside' /\ ReleasedInOrder'
    BY <1>1, <1>2, <2>1, <2>2, <2>3 DEF GateAgrees, HandlersInside, ReleasedInOrder, OpenedBy,
       Prc!ExitReleases
  <2>. QED  BY <2>4, <2>5, <2>6 DEF ProcessInv
<1>. QED
  BY <1>3, <1>4, <1>5, <1>6, <1>7, <1>8, <1>9, <1>10, <1>11, <1>12, <1>13, <1>14, <1>15, <1>16, <1>17, <1>18, <1>19, <1>20,
     <1>21, <1>22
  DEF Prc!Next, Prc!Startup, Prc!Shutdown

LEMMA ProcessStepKeeps ==
  ASSUME ProcessInv, [Next]_server
  PROVE  ProcessInv'
<1>1. CASE Prc!Next
  BY <1>1, ProcessNext
<1>2. CASE UNCHANGED process
  BY <1>2 DEF process, ProcessInv, ProcessTyped, Prc!TypeOK, GateAgrees, HandlersInside,
     ReleasedInOrder, SpentInBudget, Extra, Prc!ExitReleases
<1>. QED
  BY <1>1, <1>2 DEF Next, ProcessStep, ExchangeStep, LogStep, HashingStep, MailStep, server

LEMMA ProcessInvariant == Spec => []ProcessInv
<1>1. Init => ProcessInv
  BY ProcessInit DEF Init
<1>2. ProcessInv /\ [Next]_server => ProcessInv'
  BY ProcessStepKeeps
<1>. QED
  BY <1>1, <1>2, PTL DEF Spec

(* At every exit, and at every step of a shutdown, what was opened is      *)
(* released in its order, and what it takes is the budget, the timeout of  *)
(* the broker and the blocking work that the drop of the runtime waits for:*)
(* for any budget, timeouts, connections and probes (run_http).            *)
THEOREM ServerShutsDownInOrder == Spec => []ShutdownInOrder
<1>1. ASSUME ProcessInv
      PROVE  ShutdownInOrder
  <2>. USE <1>1 DEF ProcessInv
  <2>1. Prc!OneEvaluation
    <3>. DEFINE S == {p \in Probes : probe[p] = "checking"}
    <3>1. \A p, q \in S : p = q
      BY DEF GateAgrees
    <3>2. Cardinality(S) <= 1
      BY <3>1, AtMostOne
    <3>. QED  BY <3>2, SameCounts DEF Prc!OneEvaluation
  <2>2. Prc!DatabaseOutlivesHandlers /\ Prc!NothingOutlivesRuntime
    BY DEF HandlersInside, Closing, Admitting, ProcessTyped, Prc!TypeOK,
       Prc!DatabaseOutlivesHandlers, Prc!NothingOutlivesRuntime
  <2>3. Prc!ShutdownWithinBudget
    <3>1. /\ left \in Nat /\ elapsed \in Nat /\ Budget \in Nat /\ BrokerTime \in Nat
          /\ WorkTime \in Nat /\ overrun \in 0..WorkTime
      BY ServerAssumption DEF Prc!ProcessAssumption, ProcessTyped, Prc!TypeOK
    <3>2. overrun > 0 => config.auth
      BY DEF HandlersInside
    <3>. QED  BY <3>1, <3>2 DEF SpentInBudget, Extra, Prc!ShutdownWithinBudget
  <2>. QED
    BY <2>1, <2>2, <2>3 DEF ProcessTyped, ReleasedInOrder, ShutdownInOrder, Prc!ShutdownInOrder
<1>. QED
  BY <1>1, ProcessInvariant, PTL

(* No probe is answered "ready" after the drain has begun or before the    *)
(* listener is bound, however long its checks take (Gate::ready).          *)
THEOREM ServerIsReadyWhenItSaysSo == Spec => ReadyIsCurrent
<1>. DEFINE Current == \A p \in Probes : probe[p] = "checking" /\ probe'[p] = "ready"
                                           => gate = Prc!Serving /\ listening
<1>1. ASSUME ProcessInv, [Next]_server
      PROVE  [Current]_process
  <2>1. CASE Prc!Next
    <3>. SUFFICES ASSUME NEW p \in Probes, probe[p] = "checking", probe'[p] = "ready"
                  PROVE  gate = Prc!Serving /\ listening
      OBVIOUS
    <3>1. PICK q \in Probes : Prc!ProbeStart(q) \/ Prc!ProbeEnd(q)
      <4>1. probe' # probe
        OBVIOUS
      <4>2. ~Prc!Join
        BY DEF Prc!Join
      <4>. QED
        BY <2>1, <4>1, <4>2 DEF Prc!Next, Prc!Startup, Prc!Open, Prc!Skip, Prc!FailToOpen,
           Prc!Bind, Prc!Drain, Prc!Shutdown, Prc!CloseSockets, Prc!CloseAudit,
           Prc!CloseDatabase, Prc!DropRuntime, Prc!CloseTelemetry, Prc!CloseLog,
           Prc!Accept, Prc!Disconnect, Prc!Upgrade, Prc!LoopEnds, Prc!WorkBegins, Prc!WorkEnds
    <3>2. probe \in [Probes -> {"idle", "checking", "ready", "not_ready"}] /\ GateAgrees
      BY <1>1 DEF ProcessInv, ProcessTyped, Prc!TypeOK
    <3>3. gate = Prc!Serving
      BY <3>1, <3>2 DEF Prc!ProbeStart, Prc!ProbeEnd, Prc!Answers
    <3>. QED  BY <3>2, <3>3 DEF GateAgrees
  <2>2. CASE UNCHANGED process
    BY <2>2
  <2>. QED
    BY <1>1, <2>1, <2>2 DEF Next, ProcessStep, ExchangeStep, LogStep, HashingStep, MailStep,
       server
<1>2. Spec => [][Current]_process
  BY <1>1, ProcessInvariant, PTL DEF Spec
<1>. QED
  BY <1>2 DEF ReadyIsCurrent, Prc!ReadyIsCurrent, Prc!vars, Prc!tasks, Prc!time, process
-----------------------------------------------------------------------------
(* The hasher.  A caller that waits is in the queue once, or has a permit  *)
(* assigned; and each of the counts changes with the callers it counts.    *)
InLine(c) == c \in granted \/ \E i \in 1..Len(waiters) : waiters[i] = c
Line ==
  /\ waiters \in Seq(Callers) /\ granted \subseteq Callers /\ free \in Nat
  /\ \A i, j \in 1..Len(waiters) : waiters[i] = waiters[j] => i = j
  /\ \A i \in 1..Len(waiters) : waiters[i] \notin granted
  /\ waiters # <<>> => free = 0
Callings ==
  /\ pc \in [Callers -> Hsh!Places] /\ work \in [Callers -> {"none", "running", "done"}]
  /\ \A c \in Callers : /\ pc[c] = "wait" <=> InLine(c)
                        /\ pc[c] \notin {"work", "over"} => work[c] # "running"
                        /\ pc[c] = "work" => work[c] = "running"
Count(f, P) == Cardinality(Where(Callers, f, P))
Runners  == Count(work, {"running"})
Insiders == Count(pc, {"check", "leave", "wait"})
Waiting  == Count(pc, {"wait"})
Seekers  == Count(pc, {"check", "wait"})
Counts ==
  /\ free + Cardinality(granted) + Runners = MaxConcurrent
  /\ queued = Insiders
  /\ Len(waiters) + Cardinality(granted) = Waiting
  /\ Seekers <= MaxQueued
HashingInv == Line /\ Callings /\ Counts

LEMMA SomeCallers ==
  /\ IsFiniteSet(Callers) /\ "nobody" \notin Callers
  /\ MaxConcurrent \in Nat \ {0} /\ MaxQueued \in Nat
  /\ \A S : Hsh!Cardinality(S) = Cardinality(S)
BY ServerAssumption DEF Hsh!HashingAssumption, Hsh!IsFiniteSet, IsFiniteSet,
   Hsh!Cardinality, Cardinality

(* One departure from a queue in which nobody stands twice.                *)
LEMMA Removed ==
  ASSUME NEW S, NEW s \in Seq(S), NEW c,
         \A i, j \in 1..Len(s) : s[i] = s[j] => i = j,
         NEW i \in 1..Len(s), s[i] = c
  PROVE  LET r == Hsh!RemoveFirst(s, c)
         IN  /\ r \in Seq(S) /\ Len(r) = Len(s) - 1
             /\ \A k \in 1..Len(r) : r[k] = IF k < i THEN s[k] ELSE s[k+1]
<1>. DEFINE I == {k \in 1..Len(s) : s[k] = c}
<1>1. I = {i}
  OBVIOUS
<1>2. Hsh!SelectInSeq(s, LAMBDA v : v = c) = i
  BY <1>1 DEF Hsh!SelectInSeq, Hsh!Min
<1>3. Hsh!RemoveFirst(s, c) = SubSeq(s, 1, i-1) \o SubSeq(s, i+1, Len(s))
  BY <1>2 DEF Hsh!RemoveFirst, Hsh!RemoveAt
<1>4. /\ SubSeq(s, 1, i-1) \in Seq(S) /\ Len(SubSeq(s, 1, i-1)) = i-1
      /\ \A k \in 1..(i-1) : SubSeq(s, 1, i-1)[k] = s[k]
  OBVIOUS
<1>5. /\ SubSeq(s, i+1, Len(s)) \in Seq(S) /\ Len(SubSeq(s, i+1, Len(s))) = Len(s) - i
      /\ \A k \in 1..(Len(s) - i) : SubSeq(s, i+1, Len(s))[k] = s[i + k]
  OBVIOUS
<1>6. ASSUME NEW A \in Seq(S), NEW B \in Seq(S)
      PROVE  /\ A \o B \in Seq(S) /\ Len(A \o B) = Len(A) + Len(B)
             /\ \A k \in 1..Len(A \o B) :
                  (A \o B)[k] = IF k <= Len(A) THEN A[k] ELSE B[k - Len(A)]
  OBVIOUS
<1>. DEFINE A == SubSeq(s, 1, i-1)
            B == SubSeq(s, i+1, Len(s))
            r == A \o B
<1>7. /\ r \in Seq(S) /\ Len(r) = Len(s) - 1
      /\ \A k \in 1..Len(r) : r[k] = IF k <= i-1 THEN A[k] ELSE B[k - (i-1)]
  <2>1. A \in Seq(S) /\ Len(A) = i-1 /\ B \in Seq(S) /\ Len(B) = Len(s) - i
    BY <1>4, <1>5
  <2>. HIDE DEF A, B
  <2>2. /\ r \in Seq(S) /\ Len(r) = Len(A) + Len(B)
        /\ \A k \in 1..Len(r) : r[k] = IF k <= Len(A) THEN A[k] ELSE B[k - Len(A)]
    BY <1>6, <2>1
  <2>3. Len(s) \in Nat
    OBVIOUS
  <2>. QED  BY <2>1, <2>2, <2>3
<1>8. ASSUME NEW k \in 1..Len(r)
      PROVE  r[k] = IF k < i THEN s[k] ELSE s[k+1]
  <2>. HIDE DEF A, B, r
  <2>1. CASE k < i
    BY <1>4, <1>7, <2>1 DEF A
  <2>2. CASE k >= i
    <3>1. k - (i-1) \in 1..(Len(s) - i) /\ i + (k - (i-1)) = k + 1
      BY <1>7, <2>2
    <3>. QED  BY <1>5, <1>7, <2>2, <3>1 DEF B
  <2>. QED  BY <1>7, <2>1, <2>2
<1>. QED
  BY <1>3, <1>7, <1>8

(* A permit that comes back goes to the first in the queue, if any.        *)
LEMMA GivesBack ==
  ASSUME Line, NEW gone, gone \in granted \/ gone \notin Callers, Hsh!GiveBack(gone)
  PROVE  /\ Line'
         /\ \A x \in Callers : InLine(x)' <=> InLine(x) /\ x # gone
         /\ free' + Cardinality(granted') + One(gone \in granted) = free + Cardinality(granted) + 1
         /\ Len(waiters') + Cardinality(granted') + One(gone \in granted)
              = Len(waiters) + Cardinality(granted)
<1>1. /\ IsFiniteSet(granted) /\ Cardinality(granted) \in Nat
      /\ IsFiniteSet(granted \ {gone}) /\ Cardinality(granted \ {gone}) \in Nat
      /\ Cardinality(granted \ {gone}) + One(gone \in granted) = Cardinality(granted)
      /\ One(gone \in granted) \in {0, 1}
  BY SomeCallers, FS_Subset, FS_CardinalityType, FS_RemoveElement DEF Line, One
<1>2. CASE waiters = <<>>
  <2>1. Len(waiters) = 0 /\ free' = free + 1 /\ granted' = granted \ {gone} /\ waiters' = waiters
    BY <1>2 DEF Hsh!GiveBack
  <2>2. Line' /\ \A x \in Callers : InLine(x)' <=> InLine(x) /\ x # gone
    BY <1>2, <2>1 DEF Line, InLine
  <2>. QED  BY <1>1, <2>1, <2>2 DEF Line
<1>3. CASE waiters # <<>>
  <2>1. /\ waiters \in Seq(Callers) /\ Len(waiters) \in Nat \ {0} /\ waiters[1] \in Callers
        /\ Head(waiters) = waiters[1] /\ Tail(waiters) \in Seq(Callers)
        /\ Len(Tail(waiters)) = Len(waiters) - 1
        /\ \A i \in 1..(Len(waiters) - 1) : Tail(waiters)[i] = waiters[i+1]
    BY <1>3 DEF Line
  <2>2. /\ free' = free /\ waiters' = Tail(waiters)
        /\ granted' = (granted \ {gone}) \cup {waiters[1]}
    BY <1>3, <2>1 DEF Hsh!GiveBack
  <2>3. waiters[1] \notin granted
    BY <2>1 DEF Line
  <2>4. Cardinality(granted') = Cardinality(granted \ {gone}) + 1
    BY <1>1, <2>2, <2>3, FS_AddElement
  <2>5. Line'
    BY <1>3, <2>1, <2>2, <2>3 DEF Line
  <2>6. \A x \in Callers : InLine(x)' <=> InLine(x) /\ x # gone
    BY <2>1, <2>2, <2>3 DEF Line, InLine
  <2>. QED
    BY <1>1, <2>1, <2>2, <2>4, <2>5, <2>6 DEF Line
<1>. QED  BY <1>2, <1>3

(* Whoever stops waiting leaves the queue, or gives the permit back.       *)
LEMMA Departs ==
  ASSUME Line, NEW c \in Callers, InLine(c), Hsh!Leaves(c)
  PROVE  /\ Line'
         /\ \A x \in Callers : InLine(x)' <=> InLine(x) /\ x # c
         /\ free' + Cardinality(granted') = free + Cardinality(granted)
         /\ Len(waiters') + Cardinality(granted') + 1 = Len(waiters) + Cardinality(granted)
<1>1. Cardinality(granted) \in Nat /\ (Cardinality(granted') \in Nat \/ c \notin granted)
  BY SomeCallers, FS_Subset, FS_CardinalityType, GivesBack DEF Line, Hsh!Leaves
<1>2. CASE c \in granted
  <2>1. Cardinality(granted) \in Nat /\ Cardinality(granted') \in Nat
    BY <1>1, <1>2
  <2>2. Hsh!GiveBack(c)
    BY <1>2 DEF Hsh!Leaves
  <2>. QED  BY <1>2, <2>1, <2>2, GivesBack DEF One, Line
<1>3. CASE c \notin granted
  <2>1. PICK i \in 1..Len(waiters) : waiters[i] = c
    BY <1>3 DEF InLine
  <2>2. /\ waiters' \in Seq(Callers) /\ Len(waiters') = Len(waiters) - 1
        /\ \A k \in 1..Len(waiters') : waiters'[k] = IF k < i THEN waiters[k] ELSE waiters[k+1]
        /\ free' = free /\ granted' = granted
    BY <1>3, <2>1, Removed DEF Line, Hsh!Leaves
  <2>3. Len(waiters) \in Nat /\ Cardinality(granted) \in Nat
    BY SomeCallers, FS_Subset, FS_CardinalityType DEF Line
  <2>4. Line'
    BY <2>1, <2>2, <2>3, SMTT(60) DEF Line
  <2>5. ASSUME NEW x \in Callers
        PROVE  InLine(x)' <=> InLine(x) /\ x # c
    <3>1. CASE x \in granted
      BY <1>3, <2>2, <3>1 DEF InLine
    <3>2. ASSUME NEW k \in 1..Len(waiters), waiters[k] = x, x # c
          PROVE  InLine(x)'
      <4>1. CASE k < i
        BY <2>1, <2>2, <2>3, <3>2, <4>1 DEF InLine
      <4>2. CASE k > i
        <5>1. k-1 \in 1..Len(waiters') /\ waiters'[k-1] = x
          BY <2>1, <2>2, <2>3, <3>2, <4>2
        <5>. QED  BY <5>1 DEF InLine
      <4>. QED  BY <2>1, <3>2, <4>1, <4>2
    <3>3. ASSUME NEW k \in 1..Len(waiters'), waiters'[k] = x
          PROVE  x # c /\ InLine(x)
      BY <2>1, <2>2, <2>3, <3>3 DEF InLine, Line
    <3>. QED  BY <2>2, <3>1, <3>2, <3>3 DEF InLine
  <2>. QED  BY <2>2, <2>3, <2>4, <2>5
<1>. QED  BY <1>2, <1>3

(* How the counts follow one caller.                                       *)
PlaceGoes(u, v) ==
  /\ Follows(Insiders', Insiders, u, v, {"check", "leave", "wait"})
  /\ Follows(Waiting', Waiting, u, v, {"wait"})
  /\ Follows(Seekers', Seekers, u, v, {"check", "wait"})
WorkGoes(u, v) == Follows(Runners', Runners, u, v, {"running"})

LEMMA CountsAreNumbers ==
  /\ Runners \in Nat /\ Insiders \in Nat /\ Waiting \in Nat /\ Seekers \in Nat
  /\ Runners' \in Nat /\ Insiders' \in Nat /\ Waiting' \in Nat /\ Seekers' \in Nat
  /\ Seekers <= Insiders
<1>1. \A f, P : IsFiniteSet(Where(Callers, f, P))
  BY SomeCallers, FS_Subset DEF Where
<1>2. Where(Callers, pc, {"check", "wait"}) \subseteq Where(Callers, pc, {"check", "leave", "wait"})
  BY DEF Where
<1>. QED
  BY <1>1, <1>2, FS_Subset, FS_CardinalityType DEF Count, Runners, Insiders, Waiting, Seekers

LEMMA CountsStay ==
  /\ pc' = pc => Insiders' = Insiders /\ Waiting' = Waiting /\ Seekers' = Seekers
  /\ work' = work => Runners' = Runners
BY DEF Runners, Insiders, Waiting, Seekers

LEMMA OneFollows ==
  ASSUME NEW f, NEW c \in Callers, NEW v, NEW P, f = [x \in Callers |-> f[x]]
  PROVE  Follows(Count([f EXCEPT ![c] = v], P), Count(f, P), f[c], v, P)
<1>1. IsFiniteSet(Where(Callers, f, P))
  BY SomeCallers, FS_Subset DEF Where
<1>. QED  BY <1>1, CountFollows DEF Count

LEMMA PlacesMove ==
  ASSUME Callings, NEW c \in Callers, NEW v, Hsh!Go(c, v)
  PROVE  PlaceGoes(pc[c], v)
<1>1. pc = [x \in Callers |-> pc[x]] /\ pc' = [pc EXCEPT ![c] = v]
  BY DEF Callings, Hsh!Go
<1>2. \A P : Follows(Count(pc', P), Count(pc, P), pc[c], v, P)
  BY <1>1, OneFollows
<1>. QED  BY <1>2 DEF PlaceGoes, Insiders, Waiting, Seekers

LEMMA WorkMoves ==
  ASSUME Callings, NEW c \in Callers, NEW v, work' = [work EXCEPT ![c] = v]
  PROVE  WorkGoes(work[c], v)
<1>1. work = [x \in Callers |-> work[x]]
  BY DEF Callings
<1>. QED  BY <1>1, OneFollows DEF WorkGoes, Runners

LEMMA HashingInit ==
  ASSUME Hsh!Init
  PROVE  HashingInv
<1>1. \A P : "idle" \notin P => Where(Callers, pc, P) = {}
  BY DEF Hsh!Init, Where
<1>2. Where(Callers, work, {"running"}) = {}
  BY DEF Hsh!Init, Where
<1>3. Runners = 0 /\ Insiders = 0 /\ Waiting = 0 /\ Seekers = 0 /\ Cardinality({}) = 0
  BY <1>1, <1>2, FS_EmptySet DEF Runners, Insiders, Waiting, Seekers, Count
<1>4. Line /\ Callings
  BY SomeCallers DEF Hsh!Init, Line, Callings, InLine, Hsh!Places
<1>5. Counts
  BY <1>3, SomeCallers DEF Hsh!Init, Counts
<1>. QED  BY <1>4, <1>5 DEF HashingInv

LEMMA HashingNext ==
  ASSUME HashingInv, Hsh!Next
  PROVE  HashingInv'
<1>. DEFINE N == Cardinality(granted)
<1>1. Line /\ Callings /\ Counts
  BY DEF HashingInv
<1>2. /\ N \in Nat /\ Len(waiters) \in Nat /\ free \in Nat /\ IsFiniteSet(granted)
      /\ MaxQueued \in Nat /\ MaxConcurrent \in Nat
  BY <1>1, SomeCallers, FS_Subset, FS_CardinalityType DEF Line
<1>3. Runners \in Nat /\ Insiders \in Nat /\ Waiting \in Nat /\ Seekers \in Nat /\ Seekers <= Insiders
  BY CountsAreNumbers
<1>4. ASSUME NEW c \in Callers, Hsh!Refuse(c)
      PROVE  HashingInv'
  <2>1. pc[c] = "idle" /\ Hsh!Go(c, "over") /\ UNCHANGED <<free, waiters, granted, queued, work>>
    BY <1>4 DEF Hsh!Refuse, Hsh!Answer
  <2>2. Line' /\ \A x \in Callers : InLine(x)' <=> InLine(x)
    BY <1>1, <2>1 DEF Line, InLine
  <2>3. Callings'
    BY <1>1, <2>1, <2>2 DEF Callings, Hsh!Go, Hsh!Places
  <2>4. PlaceGoes("idle", "over")
    BY <1>1, <2>1, PlacesMove
  <2>5. Runners' = Runners
    BY <2>1, CountsStay
  <2>6. /\ Runners' \in Nat /\ Insiders' \in Nat /\ Waiting' \in Nat /\ Seekers' \in Nat
        /\ free' \in Nat /\ Len(waiters') \in Nat /\ Cardinality(granted') \in Nat
    BY <2>2, CountsAreNumbers, SomeCallers, FS_Subset, FS_CardinalityType DEF Line
  <2>7. Counts'
    BY <1>1, <1>2, <1>3, <2>1, <2>2, <2>4, <2>5, <2>6 DEF Counts, PlaceGoes, WorkGoes, Follows
  <2>. QED  BY <2>2, <2>3, <2>7 DEF HashingInv
<1>5. ASSUME NEW c \in Callers, Hsh!TryAcquire(c), free > 0
      PROVE  HashingInv'
  <2>1. /\ pc[c] = "idle" /\ Hsh!Go(c, "work") /\ work' = [work EXCEPT ![c] = "running"]
        /\ free > 0 /\ free' = free - 1 /\ UNCHANGED <<waiters, granted, queued>>
    BY <1>5 DEF Hsh!TryAcquire, Hsh!Begin
  <2>2. Line' /\ \A x \in Callers : InLine(x)' <=> InLine(x)
    BY <1>1, <2>1 DEF Line, InLine
  <2>3. Callings'
    BY <1>1, <2>1, <2>2 DEF Callings, Hsh!Go, Hsh!Places
  <2>4. PlaceGoes("idle", "work")
    BY <1>1, <2>1, PlacesMove
  <2>5. Runners' = Runners + 1
    BY <1>1, <2>1, WorkMoves, CountsAreNumbers DEF Callings, WorkGoes, Follows
  <2>6. /\ Runners' \in Nat /\ Insiders' \in Nat /\ Waiting' \in Nat /\ Seekers' \in Nat
        /\ free' \in Nat /\ Len(waiters') \in Nat /\ Cardinality(granted') \in Nat
    BY <2>2, CountsAreNumbers, SomeCallers, FS_Subset, FS_CardinalityType DEF Line
  <2>7. Counts'
    BY <1>1, <1>2, <1>3, <2>1, <2>2, <2>4, <2>5, <2>6 DEF Counts, PlaceGoes, WorkGoes, Follows
  <2>. QED  BY <2>2, <2>3, <2>7 DEF HashingInv
<1>6. ASSUME NEW c \in Callers, Hsh!TryAcquire(c), free = 0
      PROVE  HashingInv'
  <2>1. /\ pc[c] = "idle" /\ Hsh!Go(c, "count")
        /\ UNCHANGED <<free, waiters, granted, queued, work>>
    BY <1>6 DEF Hsh!TryAcquire
  <2>2. Line' /\ \A x \in Callers : InLine(x)' <=> InLine(x)
    BY <1>1, <2>1 DEF Line, InLine
  <2>3. Callings'
    BY <1>1, <2>1, <2>2 DEF Callings, Hsh!Go, Hsh!Places
  <2>4. PlaceGoes("idle", "count")
    BY <1>1, <2>1, PlacesMove
  <2>5. Runners' = Runners
    BY <2>1, CountsStay
  <2>6. /\ Runners' \in Nat /\ Insiders' \in Nat /\ Waiting' \in Nat /\ Seekers' \in Nat
        /\ free' \in Nat /\ Len(waiters') \in Nat /\ Cardinality(granted') \in Nat
    BY <2>2, CountsAreNumbers, SomeCallers, FS_Subset, FS_CardinalityType DEF Line
  <2>7. Counts'
    BY <1>1, <1>2, <1>3, <2>1, <2>2, <2>4, <2>5, <2>6 DEF Counts, PlaceGoes, WorkGoes, Follows
  <2>. QED  BY <2>2, <2>3, <2>7 DEF HashingInv
<1>7. ASSUME NEW c \in Callers, Hsh!Count(c), pc[c] = "count", queued >= MaxQueued
      PROVE  HashingInv'
  <2>1. /\ pc[c] = "count" /\ Hsh!Go(c, "leave") /\ queued' = queued + 1
        /\ UNCHANGED <<free, waiters, granted, work>>
    BY <1>7 DEF Hsh!Count
  <2>2. Line' /\ \A x \in Callers : InLine(x)' <=> InLine(x)
    BY <1>1, <2>1 DEF Line, InLine
  <2>3. Callings'
    BY <1>1, <2>1, <2>2 DEF Callings, Hsh!Go, Hsh!Places
  <2>4. PlaceGoes("count", "leave")
    BY <1>1, <2>1, PlacesMove
  <2>5. Runners' = Runners
    BY <2>1, CountsStay
  <2>6. /\ Runners' \in Nat /\ Insiders' \in Nat /\ Waiting' \in Nat /\ Seekers' \in Nat
        /\ free' \in Nat /\ Len(waiters') \in Nat /\ Cardinality(granted') \in Nat
    BY <2>2, CountsAreNumbers, SomeCallers, FS_Subset, FS_CardinalityType DEF Line
  <2>7. Counts'
    BY <1>1, <1>2, <1>3, <2>1, <2>2, <2>4, <2>5, <2>6 DEF Counts, PlaceGoes, WorkGoes, Follows
  <2>. QED  BY <2>2, <2>3, <2>7 DEF HashingInv
<1>8. ASSUME NEW c \in Callers, Hsh!Count(c), pc[c] = "count", ~(queued >= MaxQueued)
      PROVE  HashingInv'
  <2>1. /\ pc[c] = "count" /\ Hsh!Go(c, "check") /\ queued' = queued + 1 /\ ~(queued >= MaxQueued)
        /\ UNCHANGED <<free, waiters, granted, work>>
    BY <1>8 DEF Hsh!Count
  <2>2. Line' /\ \A x \in Callers : InLine(x)' <=> InLine(x)
    BY <1>1, <2>1 DEF Line, InLine
  <2>3. Callings'
    BY <1>1, <2>1, <2>2 DEF Callings, Hsh!Go, Hsh!Places
  <2>4. PlaceGoes("count", "check")
    BY <1>1, <2>1, PlacesMove
  <2>5. Runners' = Runners
    BY <2>1, CountsStay
  <2>6. /\ Runners' \in Nat /\ Insiders' \in Nat /\ Waiting' \in Nat /\ Seekers' \in Nat
        /\ free' \in Nat /\ Len(waiters') \in Nat /\ Cardinality(granted') \in Nat
    BY <2>2, CountsAreNumbers, SomeCallers, FS_Subset, FS_CardinalityType DEF Line
  <2>7. Counts'
    BY <1>1, <1>2, <1>3, <2>1, <2>2, <2>4, <2>5, <2>6 DEF Counts, PlaceGoes, WorkGoes, Follows
  <2>. QED  BY <2>2, <2>3, <2>7 DEF HashingInv
<1>9. ASSUME NEW c \in Callers, Hsh!Count(c), pc[c] = "check", free > 0
      PROVE  HashingInv'
  <2>1. /\ pc[c] = "check" /\ Hsh!Go(c, "work") /\ work' = [work EXCEPT ![c] = "running"]
        /\ free > 0 /\ free' = free - 1 /\ queued' = queued - 1 /\ UNCHANGED <<waiters, granted>>
    BY <1>9 DEF Hsh!Count, Hsh!Begin
  <2>2. Line' /\ \A x \in Callers : InLine(x)' <=> InLine(x)
    BY <1>1, <2>1 DEF Line, InLine
  <2>3. Callings'
    BY <1>1, <2>1, <2>2 DEF Callings, Hsh!Go, Hsh!Places
  <2>4. PlaceGoes("check", "work")
    BY <1>1, <2>1, PlacesMove
  <2>5. Runners' = Runners + 1
    BY <1>1, <2>1, WorkMoves, CountsAreNumbers DEF Callings, WorkGoes, Follows
  <2>6. /\ Runners' \in Nat /\ Insiders' \in Nat /\ Waiting' \in Nat /\ Seekers' \in Nat
        /\ free' \in Nat /\ Len(waiters') \in Nat /\ Cardinality(granted') \in Nat
    BY <2>2, CountsAreNumbers, SomeCallers, FS_Subset, FS_CardinalityType DEF Line
  <2>7. Counts'
    BY <1>1, <1>2, <1>3, <2>1, <2>2, <2>4, <2>5, <2>6 DEF Counts, PlaceGoes, WorkGoes, Follows
  <2>. QED  BY <2>2, <2>3, <2>7 DEF HashingInv
<1>10. ASSUME NEW c \in Callers, Hsh!Count(c), pc[c] = "check", ~(free > 0)
      PROVE  HashingInv'
  <2>1. /\ pc[c] = "check" /\ Hsh!Go(c, "wait") /\ waiters' = Append(waiters, c) /\ ~(free > 0)
        /\ UNCHANGED <<free, granted, queued, work>>
    BY <1>10 DEF Hsh!Count
  <2>2. /\ Line' /\ \A x \in Callers : InLine(x)' <=> InLine(x) \/ x = c
        /\ Len(waiters') = Len(waiters) + 1
    <3>1. ~InLine(c)
      BY <1>1, <2>1 DEF Callings
    <3>2. /\ waiters' \in Seq(Callers) /\ Len(waiters') = Len(waiters) + 1
          /\ \A k \in 1..Len(waiters') : waiters'[k] = IF k <= Len(waiters) THEN waiters[k] ELSE c
      BY <1>1, <2>1 DEF Line
    <3>3. Line'
      BY <1>1, <1>2, <2>1, <3>1, <3>2 DEF Line, InLine
    <3>. QED  BY <1>2, <2>1, <3>2, <3>3 DEF InLine
  <2>3. Callings'
    BY <1>1, <2>1, <2>2 DEF Callings, Hsh!Go, Hsh!Places
  <2>4. PlaceGoes("check", "wait")
    BY <1>1, <2>1, PlacesMove
  <2>5. Runners' = Runners
    BY <2>1, CountsStay
  <2>6. /\ Runners' \in Nat /\ Insiders' \in Nat /\ Waiting' \in Nat /\ Seekers' \in Nat
        /\ free' \in Nat /\ Len(waiters') \in Nat /\ Cardinality(granted') \in Nat
    BY <2>2, CountsAreNumbers, SomeCallers, FS_Subset, FS_CardinalityType DEF Line
  <2>7. Counts'
    <3>1. Insiders' = Insiders /\ Waiting' = Waiting + 1 /\ Seekers' = Seekers
      BY <2>4 DEF PlaceGoes, Follows
    <3>2. free' + Cardinality(granted') + Runners' = MaxConcurrent
      BY <1>1, <2>1, <2>5 DEF Counts
    <3>3. queued' = Insiders' /\ Seekers' <= MaxQueued
      BY <1>1, <2>1, <3>1 DEF Counts
    <3>4. Len(waiters') + Cardinality(granted') = Waiting'
      BY <1>1, <1>2, <1>3, <2>1, <2>2, <3>1 DEF Counts
    <3>. QED  BY <3>2, <3>3, <3>4 DEF Counts
  <2>. QED  BY <2>2, <2>3, <2>7 DEF HashingInv
<1>11. ASSUME NEW c \in Callers, Hsh!Saturated(c)
      PROVE  HashingInv'
  <2>1. /\ pc[c] = "leave" /\ Hsh!Go(c, "over") /\ queued' = queued - 1
        /\ UNCHANGED <<free, waiters, granted, work>>
    BY <1>11 DEF Hsh!Saturated, Hsh!Answer
  <2>2. Line' /\ \A x \in Callers : InLine(x)' <=> InLine(x)
    BY <1>1, <2>1 DEF Line, InLine
  <2>3. Callings'
    BY <1>1, <2>1, <2>2 DEF Callings, Hsh!Go, Hsh!Places
  <2>4. PlaceGoes("leave", "over")
    BY <1>1, <2>1, PlacesMove
  <2>5. Runners' = Runners
    BY <2>1, CountsStay
  <2>6. /\ Runners' \in Nat /\ Insiders' \in Nat /\ Waiting' \in Nat /\ Seekers' \in Nat
        /\ free' \in Nat /\ Len(waiters') \in Nat /\ Cardinality(granted') \in Nat
    BY <2>2, CountsAreNumbers, SomeCallers, FS_Subset, FS_CardinalityType DEF Line
  <2>7. Counts'
    BY <1>1, <1>2, <1>3, <2>1, <2>2, <2>4, <2>5, <2>6 DEF Counts, PlaceGoes, WorkGoes, Follows
  <2>. QED  BY <2>2, <2>3, <2>7 DEF HashingInv
<1>12. ASSUME NEW c \in Callers, Hsh!Admitted(c)
      PROVE  HashingInv'
  <2>1. /\ pc[c] = "wait" /\ Hsh!Go(c, "work") /\ work' = [work EXCEPT ![c] = "running"]
        /\ c \in granted /\ granted' = granted \ {c} /\ queued' = queued - 1
        /\ UNCHANGED <<free, waiters>>
    BY <1>12 DEF Hsh!Admitted, Hsh!Begin
  <2>2. /\ Line' /\ \A x \in Callers : InLine(x)' <=> InLine(x) /\ x # c
        /\ Cardinality(granted') = N - 1
    <3>1. Cardinality(granted') = N - 1
      BY <1>2, <2>1, FS_RemoveElement
    <3>. QED  BY <1>1, <2>1, <3>1 DEF Line, InLine
  <2>3. Callings'
    BY <1>1, <2>1, <2>2 DEF Callings, Hsh!Go, Hsh!Places
  <2>4. PlaceGoes("wait", "work")
    BY <1>1, <2>1, PlacesMove
  <2>5. Runners' = Runners + 1
    BY <1>1, <2>1, WorkMoves, CountsAreNumbers DEF Callings, WorkGoes, Follows
  <2>6. /\ Runners' \in Nat /\ Insiders' \in Nat /\ Waiting' \in Nat /\ Seekers' \in Nat
        /\ free' \in Nat /\ Len(waiters') \in Nat /\ Cardinality(granted') \in Nat
    BY <2>2, CountsAreNumbers, SomeCallers, FS_Subset, FS_CardinalityType DEF Line
  <2>7. Counts'
    BY <1>1, <1>2, <1>3, <2>1, <2>2, <2>4, <2>5, <2>6 DEF Counts, PlaceGoes, WorkGoes, Follows
  <2>. QED  BY <2>2, <2>3, <2>7 DEF HashingInv
<1>13. ASSUME NEW c \in Callers, Hsh!TimedOut(c)
      PROVE  HashingInv'
  <2>1. /\ pc[c] = "wait" /\ Hsh!Go(c, "over") /\ Hsh!Leaves(c)
        /\ queued' = queued - 1 /\ UNCHANGED work
    BY <1>13 DEF Hsh!TimedOut, Hsh!Answer
  <2>2. /\ Line' /\ \A x \in Callers : InLine(x)' <=> InLine(x) /\ x # c
        /\ free' + Cardinality(granted') = free + N
        /\ Len(waiters') + Cardinality(granted') + 1 = Len(waiters) + N
    BY <1>1, <2>1, Departs DEF Callings
  <2>3. Callings'
    BY <1>1, <2>1, <2>2 DEF Callings, Hsh!Go, Hsh!Places
  <2>4. PlaceGoes("wait", "over")
    BY <1>1, <2>1, PlacesMove
  <2>5. Runners' = Runners
    BY <2>1, CountsStay
  <2>6. /\ Runners' \in Nat /\ Insiders' \in Nat /\ Waiting' \in Nat /\ Seekers' \in Nat
        /\ free' \in Nat /\ Len(waiters') \in Nat /\ Cardinality(granted') \in Nat
    BY <2>2, CountsAreNumbers, SomeCallers, FS_Subset, FS_CardinalityType DEF Line
  <2>7. Counts'
    <3>1. Insiders' = Insiders - 1 /\ Waiting' = Waiting - 1 /\ Seekers' = Seekers - 1
      BY <2>4 DEF PlaceGoes, Follows
    <3>2. queued' = queued - 1
      BY <2>1
    <3>3. free' + Cardinality(granted') + Runners' = MaxConcurrent
      BY <1>1, <1>2, <1>3, <2>2, <2>5, <2>6 DEF Counts
    <3>4. Len(waiters') + Cardinality(granted') = Waiting'
      <4>1. Len(waiters') + Cardinality(granted') + 1 = Waiting
        BY <1>1, <2>2 DEF Counts
      <4>. QED  BY <1>3, <2>6, <3>1, <4>1
    <3>5. queued' = Insiders'
      BY <1>1, <3>1, <3>2 DEF Counts
    <3>6. Seekers' <= MaxQueued
      BY <1>1, <1>2, <1>3, <3>1 DEF Counts
    <3>. QED  BY <3>3, <3>4, <3>5, <3>6 DEF Counts
  <2>. QED  BY <2>2, <2>3, <2>7 DEF HashingInv
<1>14. ASSUME NEW c \in Callers, Hsh!Abandon(c), pc[c] = "wait"
      PROVE  HashingInv'
  <2>1. /\ pc[c] = "wait" /\ Hsh!Go(c, "over") /\ Hsh!Leaves(c)
        /\ queued' = queued - 1 /\ UNCHANGED work
    BY <1>14 DEF Hsh!Abandon, Hsh!Answer
  <2>2. /\ Line' /\ \A x \in Callers : InLine(x)' <=> InLine(x) /\ x # c
        /\ free' + Cardinality(granted') = free + N
        /\ Len(waiters') + Cardinality(granted') + 1 = Len(waiters) + N
    BY <1>1, <2>1, Departs DEF Callings
  <2>3. Callings'
    BY <1>1, <2>1, <2>2 DEF Callings, Hsh!Go, Hsh!Places
  <2>4. PlaceGoes("wait", "over")
    BY <1>1, <2>1, PlacesMove
  <2>5. Runners' = Runners
    BY <2>1, CountsStay
  <2>6. /\ Runners' \in Nat /\ Insiders' \in Nat /\ Waiting' \in Nat /\ Seekers' \in Nat
        /\ free' \in Nat /\ Len(waiters') \in Nat /\ Cardinality(granted') \in Nat
    BY <2>2, CountsAreNumbers, SomeCallers, FS_Subset, FS_CardinalityType DEF Line
  <2>7. Counts'
    <3>1. Insiders' = Insiders - 1 /\ Waiting' = Waiting - 1 /\ Seekers' = Seekers - 1
      BY <2>4 DEF PlaceGoes, Follows
    <3>2. queued' = queued - 1
      BY <2>1
    <3>3. free' + Cardinality(granted') + Runners' = MaxConcurrent
      BY <1>1, <1>2, <1>3, <2>2, <2>5, <2>6 DEF Counts
    <3>4. Len(waiters') + Cardinality(granted') = Waiting'
      <4>1. Len(waiters') + Cardinality(granted') + 1 = Waiting
        BY <1>1, <2>2 DEF Counts
      <4>. QED  BY <1>3, <2>6, <3>1, <4>1
    <3>5. queued' = Insiders'
      BY <1>1, <3>1, <3>2 DEF Counts
    <3>6. Seekers' <= MaxQueued
      BY <1>1, <1>2, <1>3, <3>1 DEF Counts
    <3>. QED  BY <3>3, <3>4, <3>5, <3>6 DEF Counts
  <2>. QED  BY <2>2, <2>3, <2>7 DEF HashingInv
<1>15. ASSUME NEW c \in Callers, Hsh!Abandon(c), pc[c] # "wait"
      PROVE  HashingInv'
  <2>1. /\ pc[c] = "work" /\ Hsh!Go(c, "over") /\ UNCHANGED <<free, waiters, granted, queued, work>>
    BY <1>15 DEF Hsh!Abandon, Hsh!Answer
  <2>2. Line' /\ \A x \in Callers : InLine(x)' <=> InLine(x)
    BY <1>1, <2>1 DEF Line, InLine
  <2>3. Callings'
    BY <1>1, <2>1, <2>2 DEF Callings, Hsh!Go, Hsh!Places
  <2>4. PlaceGoes("work", "over")
    BY <1>1, <2>1, PlacesMove
  <2>5. Runners' = Runners
    BY <2>1, CountsStay
  <2>6. /\ Runners' \in Nat /\ Insiders' \in Nat /\ Waiting' \in Nat /\ Seekers' \in Nat
        /\ free' \in Nat /\ Len(waiters') \in Nat /\ Cardinality(granted') \in Nat
    BY <2>2, CountsAreNumbers, SomeCallers, FS_Subset, FS_CardinalityType DEF Line
  <2>7. Counts'
    BY <1>1, <1>2, <1>3, <2>1, <2>2, <2>4, <2>5, <2>6 DEF Counts, PlaceGoes, WorkGoes, Follows
  <2>. QED  BY <2>2, <2>3, <2>7 DEF HashingInv
<1>16. ASSUME NEW c \in Callers, Hsh!Finish(c), pc[c] = "work"
      PROVE  HashingInv'
  <2>1. /\ work[c] = "running" /\ work' = [work EXCEPT ![c] = "done"] /\ pc[c] = "work"
        /\ Hsh!GiveBack("nobody") /\ Hsh!Go(c, "over") /\ UNCHANGED queued
    BY <1>16 DEF Hsh!Finish, Hsh!Answer
  <2>2. /\ Line' /\ \A x \in Callers : InLine(x)' <=> InLine(x)
        /\ free' + Cardinality(granted') = free + N + 1
        /\ Len(waiters') + Cardinality(granted') = Len(waiters) + N
    <3>1. "nobody" \notin granted
      BY <1>1, SomeCallers DEF Line
    <3>2. /\ Line' /\ \A x \in Callers : InLine(x)' <=> InLine(x) /\ x # "nobody"
          /\ free' + Cardinality(granted') + One("nobody" \in granted) = free + N + 1
          /\ Len(waiters') + Cardinality(granted') + One("nobody" \in granted) = Len(waiters) + N
      BY <1>1, <2>1, SomeCallers, GivesBack
    <3>3. Cardinality(granted') \in Nat /\ free' \in Nat /\ Len(waiters') \in Nat
      BY <3>2, SomeCallers, FS_Subset, FS_CardinalityType DEF Line
    <3>. QED  BY <1>2, <3>1, <3>2, <3>3, SomeCallers DEF One
  <2>3. Callings'
    BY <1>1, <2>1, <2>2 DEF Callings, Hsh!Go, Hsh!Places
  <2>4. PlaceGoes("work", "over")
    BY <1>1, <2>1, PlacesMove
  <2>5. Runners' = Runners - 1
    <3>1. WorkGoes("running", "done")
      BY <1>1, <2>1, WorkMoves
    <3>. QED  BY <2>1, <3>1 DEF WorkGoes, Follows
  <2>6. /\ Runners' \in Nat /\ Insiders' \in Nat /\ Waiting' \in Nat /\ Seekers' \in Nat
        /\ free' \in Nat /\ Len(waiters') \in Nat /\ Cardinality(granted') \in Nat
    BY <2>2, CountsAreNumbers, SomeCallers, FS_Subset, FS_CardinalityType DEF Line
  <2>7. Counts'
    BY <1>1, <1>2, <1>3, <2>1, <2>2, <2>4, <2>5, <2>6 DEF Counts, PlaceGoes, WorkGoes, Follows
  <2>. QED  BY <2>2, <2>3, <2>7 DEF HashingInv
<1>17. ASSUME NEW c \in Callers, Hsh!Finish(c), pc[c] # "work"
      PROVE  HashingInv'
  <2>1. /\ work[c] = "running" /\ work' = [work EXCEPT ![c] = "done"] /\ pc[c] # "work"
        /\ Hsh!GiveBack("nobody") /\ UNCHANGED <<pc, queued>>
    BY <1>17 DEF Hsh!Finish
  <2>2. /\ Line' /\ \A x \in Callers : InLine(x)' <=> InLine(x)
        /\ free' + Cardinality(granted') = free + N + 1
        /\ Len(waiters') + Cardinality(granted') = Len(waiters) + N
    <3>1. "nobody" \notin granted
      BY <1>1, SomeCallers DEF Line
    <3>2. /\ Line' /\ \A x \in Callers : InLine(x)' <=> InLine(x) /\ x # "nobody"
          /\ free' + Cardinality(granted') + One("nobody" \in granted) = free + N + 1
          /\ Len(waiters') + Cardinality(granted') + One("nobody" \in granted) = Len(waiters) + N
      BY <1>1, <2>1, SomeCallers, GivesBack
    <3>3. Cardinality(granted') \in Nat /\ free' \in Nat /\ Len(waiters') \in Nat
      BY <3>2, SomeCallers, FS_Subset, FS_CardinalityType DEF Line
    <3>. QED  BY <1>2, <3>1, <3>2, <3>3, SomeCallers DEF One
  <2>3. Callings'
    BY <1>1, <2>1, <2>2 DEF Callings, Hsh!Go, Hsh!Places
  <2>4. Insiders' = Insiders /\ Waiting' = Waiting /\ Seekers' = Seekers
    BY <2>1, CountsStay
  <2>5. Runners' = Runners - 1
    <3>1. WorkGoes("running", "done")
      BY <1>1, <2>1, WorkMoves
    <3>. QED  BY <2>1, <3>1 DEF WorkGoes, Follows
  <2>6. /\ Runners' \in Nat /\ Insiders' \in Nat /\ Waiting' \in Nat /\ Seekers' \in Nat
        /\ free' \in Nat /\ Len(waiters') \in Nat /\ Cardinality(granted') \in Nat
    BY <2>2, CountsAreNumbers, SomeCallers, FS_Subset, FS_CardinalityType DEF Line
  <2>7. Counts'
    BY <1>1, <1>2, <1>3, <2>1, <2>2, <2>4, <2>5, <2>6 DEF Counts, PlaceGoes, WorkGoes, Follows
  <2>. QED  BY <2>2, <2>3, <2>7 DEF HashingInv
<1>18. ASSUME NEW c \in Callers, Hsh!Again(c)
      PROVE  HashingInv'
  <2>1. /\ pc[c] = "over" /\ work[c] # "running" /\ Hsh!Go(c, "idle")
        /\ work' = [work EXCEPT ![c] = "none"] /\ UNCHANGED <<free, waiters, granted, queued>>
    BY <1>18 DEF Hsh!Again
  <2>2. Line' /\ \A x \in Callers : InLine(x)' <=> InLine(x)
    BY <1>1, <2>1 DEF Line, InLine
  <2>3. Callings'
    BY <1>1, <2>1, <2>2 DEF Callings, Hsh!Go, Hsh!Places
  <2>4. PlaceGoes("over", "idle")
    BY <1>1, <2>1, PlacesMove
  <2>5. Runners' = Runners
    <3>1. WorkGoes(work[c], "none")
      BY <1>1, <2>1, WorkMoves
    <3>. QED  BY <2>1, <3>1 DEF WorkGoes, Follows
  <2>6. /\ Runners' \in Nat /\ Insiders' \in Nat /\ Waiting' \in Nat /\ Seekers' \in Nat
        /\ free' \in Nat /\ Len(waiters') \in Nat /\ Cardinality(granted') \in Nat
    BY <2>2, CountsAreNumbers, SomeCallers, FS_Subset, FS_CardinalityType DEF Line
  <2>7. Counts'
    BY <1>1, <1>2, <1>3, <2>1, <2>2, <2>4, <2>5, <2>6 DEF Counts, PlaceGoes, WorkGoes, Follows
  <2>. QED  BY <2>2, <2>3, <2>7 DEF HashingInv
<1>19. PICK c \in Callers : \/ Hsh!Refuse(c) \/ Hsh!Admission(c) \/ Hsh!TimedOut(c)
                            \/ Hsh!Abandon(c) \/ Hsh!Finish(c) \/ Hsh!Again(c)
  BY DEF Hsh!Next
<1>20. ASSUME Hsh!TryAcquire(c)
       PROVE  HashingInv'
  BY <1>2, <1>5, <1>6, <1>20
<1>21. ASSUME Hsh!Count(c)
       PROVE  HashingInv'
  <2>1. pc[c] = "count" \/ pc[c] = "check"
    BY <1>21 DEF Hsh!Count
  <2>. QED  BY <1>7, <1>8, <1>9, <1>10, <1>21, <2>1
<1>22. ASSUME Hsh!Admission(c)
       PROVE  HashingInv'
  BY <1>11, <1>12, <1>20, <1>21, <1>22 DEF Hsh!Admission
<1>23. ASSUME Hsh!Abandon(c) \/ Hsh!Finish(c)
       PROVE  HashingInv'
  BY <1>14, <1>15, <1>16, <1>17, <1>23
<1>. QED  BY <1>4, <1>13, <1>18, <1>19, <1>22, <1>23

LEMMA HashingStepKeeps ==
  ASSUME HashingInv, [Next]_server
  PROVE  HashingInv'
<1>1. CASE Hsh!Next
  BY <1>1, HashingNext
<1>2. CASE UNCHANGED hashing
  <2>1. UNCHANGED <<pc, free, waiters, granted, queued, work>>
    BY <1>2 DEF hashing
  <2>2. Line' /\ Callings'
    BY <2>1 DEF HashingInv, Line, Callings, InLine
  <2>3. Counts'
    BY <2>1, CountsStay DEF HashingInv, Counts
  <2>. QED  BY <2>2, <2>3 DEF HashingInv
<1>. QED
  BY <1>1, <1>2 DEF Next, ProcessStep, ExchangeStep, LogStep, HashingStep, MailStep, server

LEMMA HashingInvariant == Spec => []HashingInv
<1>1. Init => HashingInv
  BY HashingInit DEF Init
<1>2. HashingInv /\ [Next]_server => HashingInv'
  BY HashingStepKeeps
<1>. QED
  BY <1>1, <1>2, PTL DEF Spec

(* Whatever callers time out, are dropped or see the work panic, no slot   *)
(* and no place in the queue is lost, given twice or left unused while     *)
(* somebody waits: for any callers, slots and queue (Hasher).              *)
THEOREM HasherLeaksNothing == Spec => []NothingIsLeaked
<1>1. ASSUME HashingInv
      PROVE  NothingIsLeaked
  <2>. USE <1>1 DEF HashingInv
  <2>1. /\ Runners \in Nat /\ Insiders \in Nat /\ Waiting \in Nat /\ Seekers \in Nat
        /\ MaxConcurrent \in Nat /\ MaxQueued \in Nat /\ free \in Nat
    BY CountsAreNumbers, SomeCallers DEF Line
  <2>2. /\ Cardinality(granted) \in Nat /\ Cardinality(Callers) \in Nat
        /\ Insiders <= Cardinality(Callers) /\ Waiting <= Seekers
    <3>1. /\ IsFiniteSet(Where(Callers, pc, {"check", "wait"}))
          /\ Where(Callers, pc, {"wait"}) \subseteq Where(Callers, pc, {"check", "wait"})
          /\ Where(Callers, pc, {"check", "leave", "wait"}) \subseteq Callers
      BY SomeCallers, FS_Subset DEF Where
    <3>. QED
      BY <3>1, SomeCallers, FS_Subset, FS_CardinalityType
         DEF Line, Insiders, Waiting, Seekers, Count
  <2>3. /\ Hsh!Running = Where(Callers, work, {"running"})
        /\ Hsh!Inside = Where(Callers, pc, {"check", "leave", "wait"})
    BY DEF Hsh!Running, Hsh!Inside, Where
  <2>4. Runners = Hsh!Cardinality(Hsh!Running) /\ Insiders = Hsh!Cardinality(Hsh!Inside)
    BY <2>3, SomeCallers DEF Runners, Insiders, Count
  <2>5. Hsh!TypeOK
    <3>1. pc \in [Callers -> Hsh!Places]
      BY DEF Callings
    <3>2. /\ free \in 0..MaxConcurrent /\ queued \in 0..Cardinality(Callers)
          /\ Len(waiters) + Cardinality(granted) <= MaxQueued
      BY <2>1, <2>2 DEF Counts
    <3>. QED  BY <3>1, <3>2, SomeCallers DEF Hsh!TypeOK
  <2>6. Hsh!PermitsAreConserved
    <3>1. Hsh!Cardinality(granted) = Cardinality(granted)
      BY SomeCallers
    <3>. QED  BY <2>1, <2>2, <2>4, <3>1 DEF Counts, Hsh!PermitsAreConserved
  <2>7. Hsh!CounterIsExact /\ Hsh!NobodyWaitsForFree
    BY <2>4 DEF Counts, Line, Hsh!CounterIsExact, Hsh!NobodyWaitsForFree
  <2>. QED
    BY <2>5, <2>6, <2>7 DEF NothingIsLeaked, Hsh!NothingIsLeaked
<1>. QED
  BY <1>1, HashingInvariant, PTL
-----------------------------------------------------------------------------
(* The logger.  The mutex is held by the thread that is between its check  *)
(* and its count; nothing is sent once close has the mutex; the worker     *)
(* leaves only an empty channel behind.                                    *)
Busy    == Cardinality(Where(Emitters, emitter, {"checked", "locked"}))
Sending == Cardinality(Where(Emitters, emitter, {"sent"}))
Consumed == (IF worker = "writing" THEN 1 ELSE 0) + written + sunk
FewEmit ==
  /\ IsFiniteSet(Where(Emitters, emitter, {"checked", "locked"}))
  /\ IsFiniteSet(Where(Emitters, emitter, {"sent"}))
CrewMoves(u, v) ==
  /\ Follows(Busy', Busy, u, v, {"checked", "locked"})
  /\ Follows(Sending', Sending, u, v, {"sent"})
LogTyped ==
  /\ open \in BOOLEAN /\ lock \in Emitters \cup {"free"} /\ done \in BOOLEAN
  /\ emitter \in [Emitters -> {"idle", "checked", "locked", "sent"}]
  /\ queue \in 0..Capacity /\ worker \in {"reading", "writing", "flushing", "ended"}
  /\ accepted \in Nat /\ written \in Nat /\ dropped \in Nat /\ failed \in Nat
  /\ emits \in 0..MaxEmits /\ sunk \in Nat /\ sinkFaults \in 0..SinkFaults
  /\ stopping \in {"no", "waiting", "ok", "sink", "timeout"}
  /\ FewEmit
LogStops ==
  /\ \A e \in Emitters : emitter[e] \in {"locked", "sent"} <=> lock = e
  /\ stopping # "no" => ~open /\ \A e \in Emitters : emitter[e] # "sent"
  /\ worker \in {"flushing", "ended"} => ~open /\ queue = 0
  /\ done <=> worker = "ended"
  /\ sunk <= failed
  /\ stopping = "ok" => done /\ sunk = 0
LogCounts ==
  /\ emits + (SinkFaults - sinkFaults) = dropped + failed + Busy + queue + Consumed
  /\ accepted + Sending = queue + Consumed
LogInv == LogTyped /\ LogStops /\ LogCounts
LEMMA EmitterMoves ==
  ASSUME LogTyped, NEW e \in Emitters, NEW v, emitter' = [emitter EXCEPT ![e] = v]
  PROVE  FewEmit' /\ CrewMoves(emitter[e], v)
<1>1. emitter = [x \in Emitters |-> emitter[x]]
  BY DEF LogTyped
<1>2. \A P : IsFiniteSet(Where(Emitters, emitter, P)) =>
               /\ IsFiniteSet(Where(Emitters, emitter', P))
               /\ Follows(Cardinality(Where(Emitters, emitter', P)),
                          Cardinality(Where(Emitters, emitter, P)), emitter[e], v, P)
  BY <1>1, CountFollows
<1>. QED  BY <1>2 DEF LogTyped, FewEmit, CrewMoves, Busy, Sending

LEMMA EmitterStays ==
  ASSUME LogTyped, UNCHANGED emitter
  PROVE  FewEmit' /\ Busy' = Busy /\ Sending' = Sending
BY DEF LogTyped, FewEmit, Busy, Sending

LEMMA LogInit ==
  ASSUME Log!Init
  PROVE  LogInv
<1>1. /\ Where(Emitters, emitter, {"checked", "locked"}) = {}
      /\ Where(Emitters, emitter, {"sent"}) = {}
  BY DEF Log!Init, Where
<1>2. Busy = 0 /\ Sending = 0
  BY <1>1, FS_EmptySet DEF Busy, Sending
<1>3. LogTyped /\ LogStops
  <2>1. FewEmit
    BY <1>1, FS_EmptySet DEF FewEmit
  <2>2. /\ Capacity \in Nat /\ MaxEmits \in Nat /\ SinkFaults \in Nat /\ "free" \notin Emitters
    BY ServerAssumption DEF Log!LogAssumption
  <2>3. LogTyped
    <3>1. open \in BOOLEAN /\ done \in BOOLEAN
      BY DEF Log!Init
    <3>2. emitter \in [Emitters -> {"idle", "checked", "locked", "sent"}]
      BY DEF Log!Init
    <3>3. /\ queue \in 0..Capacity /\ emits \in 0..MaxEmits /\ sinkFaults \in 0..SinkFaults
      BY <2>2 DEF Log!Init
    <3>. QED  BY <2>1, <3>1, <3>2, <3>3 DEF Log!Init, LogTyped
  <2>. QED  BY <2>2, <2>3 DEF Log!Init, LogStops
<1>4. LogCounts
  BY <1>2, ServerAssumption DEF Log!LogAssumption, Log!Init, LogCounts, Consumed
<1>. QED  BY <1>3, <1>4 DEF LogInv

LEMMA LogNext ==
  ASSUME LogInv, Log!Next
  PROVE  LogInv'
<1>. USE DEF LogInv
<1>1. /\ Capacity \in Nat /\ MaxEmits \in Nat /\ SinkFaults \in Nat /\ "free" \notin Emitters
  BY ServerAssumption DEF Log!LogAssumption
<1>2. LogTyped /\ LogStops /\ LogCounts
  OBVIOUS
<1>3. Busy \in Nat /\ Sending \in Nat
  BY FS_CardinalityType DEF LogTyped, FewEmit, Busy, Sending
<1>4. ASSUME NEW e \in Emitters, Log!Emit(e), open
      PROVE  LogInv'
  <2>1. /\ emitter[e] = "idle" /\ emitter' = [emitter EXCEPT ![e] = "checked"]
        /\ emits < MaxEmits /\ emits' = emits + 1
        /\ UNCHANGED <<open, lock, queue, worker, done, sunk, sinkFaults, stopping, accepted, written, dropped, failed>>
    BY <1>1, <1>2, <1>4 DEF Log!Emit, Log!Counts, Log!Counted, Log!At, LogTyped
  <2>2. Busy' = Busy + 1 /\ Sending' = Sending
    <3>1. CrewMoves("idle", "checked")
      BY <1>2, <2>1, EmitterMoves
    <3>. QED  BY <3>1 DEF CrewMoves, Follows
  <2>3. LogTyped'
    <3>1. FewEmit'
      BY <1>2, <2>1, EmitterMoves
    <3>. QED  BY <1>1, <1>2, <2>1, <3>1 DEF LogTyped
  <2>4. LogStops'
    BY <1>1, <1>2, <2>1 DEF LogTyped, LogStops
  <2>5. LogCounts'
    BY <1>1, <1>2, <1>3, <2>1, <2>2 DEF LogTyped, LogCounts, Consumed
  <2>. QED  BY <2>3, <2>4, <2>5
<1>5. ASSUME NEW e \in Emitters, Log!Emit(e), ~open
      PROVE  LogInv'
  <2>1. /\ emits < MaxEmits /\ emits' = emits + 1 /\ dropped' = dropped + 1
        /\ UNCHANGED <<open, lock, queue, worker, done, sunk, sinkFaults, stopping, accepted, written, failed, emitter>>
    BY <1>1, <1>2, <1>5 DEF Log!Emit, Log!Counts, Log!Counted, LogTyped
  <2>2. Busy' = Busy /\ Sending' = Sending
    BY <1>2, <2>1, EmitterStays
  <2>3. LogTyped'
    BY <1>1, <1>2, <2>1, EmitterStays DEF LogTyped
  <2>4. LogStops'
    BY <1>1, <1>2, <2>1 DEF LogTyped, LogStops
  <2>5. LogCounts'
    BY <1>1, <1>2, <1>3, <2>1, <2>2 DEF LogTyped, LogCounts, Consumed
  <2>. QED  BY <2>3, <2>4, <2>5
<1>6. ASSUME NEW e \in Emitters, Log!Unencodable(e)
      PROVE  LogInv'
  <2>1. /\ emitter[e] = "checked" /\ emitter' = [emitter EXCEPT ![e] = "idle"]
        /\ failed' = failed + 1
        /\ UNCHANGED <<open, lock, queue, worker, done, emits, sunk, sinkFaults, stopping, accepted, written, dropped>>
    BY <1>1, <1>2, <1>6 DEF Log!Unencodable, Log!Counts, Log!Counted, Log!At, LogTyped
  <2>2. Busy' = Busy - 1 /\ Sending' = Sending
    <3>1. CrewMoves("checked", "idle")
      BY <1>2, <2>1, EmitterMoves
    <3>. QED  BY <3>1 DEF CrewMoves, Follows
  <2>3. LogTyped'
    <3>1. FewEmit'
      BY <1>2, <2>1, EmitterMoves
    <3>. QED  BY <1>1, <1>2, <2>1, <3>1 DEF LogTyped
  <2>4. LogStops'
    BY <1>1, <1>2, <2>1 DEF LogTyped, LogStops
  <2>5. LogCounts'
    BY <1>1, <1>2, <1>3, <2>1, <2>2 DEF LogTyped, LogCounts, Consumed
  <2>. QED  BY <2>3, <2>4, <2>5
<1>7. ASSUME NEW e \in Emitters, Log!Lock(e)
      PROVE  LogInv'
  <2>1. /\ emitter[e] = "checked" /\ emitter' = [emitter EXCEPT ![e] = "locked"]
        /\ lock = "free" /\ lock' = e
        /\ UNCHANGED <<open, queue, worker, done, emits, sunk, sinkFaults, stopping, accepted, written, dropped, failed>>
    BY <1>1, <1>2, <1>7 DEF Log!Lock, Log!Counts, Log!Counted, Log!At, LogTyped
  <2>2. Busy' = Busy /\ Sending' = Sending
    <3>1. CrewMoves("checked", "locked")
      BY <1>2, <2>1, EmitterMoves
    <3>. QED  BY <3>1 DEF CrewMoves, Follows
  <2>3. LogTyped'
    <3>1. FewEmit'
      BY <1>2, <2>1, EmitterMoves
    <3>. QED  BY <1>1, <1>2, <2>1, <3>1 DEF LogTyped
  <2>4. LogStops'
    BY <1>1, <1>2, <2>1 DEF LogTyped, LogStops
  <2>5. LogCounts'
    BY <1>1, <1>2, <1>3, <2>1, <2>2 DEF LogTyped, LogCounts, Consumed
  <2>. QED  BY <2>3, <2>4, <2>5
<1>8. ASSUME NEW e \in Emitters, Log!DropRecord(e)
      PROVE  LogInv'
  <2>1. /\ emitter[e] = "locked" /\ emitter' = [emitter EXCEPT ![e] = "idle"]
        /\ lock' = "free" /\ dropped' = dropped + 1
        /\ UNCHANGED <<open, queue, worker, done, emits, sunk, sinkFaults, stopping, accepted, written, failed>>
    BY <1>1, <1>2, <1>8 DEF Log!DropRecord, Log!Counts, Log!Counted, Log!At, LogTyped
  <2>2. Busy' = Busy - 1 /\ Sending' = Sending
    <3>1. CrewMoves("locked", "idle")
      BY <1>2, <2>1, EmitterMoves
    <3>. QED  BY <3>1 DEF CrewMoves, Follows
  <2>3. LogTyped'
    <3>1. FewEmit'
      BY <1>2, <2>1, EmitterMoves
    <3>. QED  BY <1>1, <1>2, <2>1, <3>1 DEF LogTyped
  <2>4. LogStops'
    BY <1>1, <1>2, <2>1 DEF LogTyped, LogStops
  <2>5. LogCounts'
    BY <1>1, <1>2, <1>3, <2>1, <2>2 DEF LogTyped, LogCounts, Consumed
  <2>. QED  BY <2>3, <2>4, <2>5
<1>9. ASSUME NEW e \in Emitters, Log!Send(e)
      PROVE  LogInv'
  <2>1. /\ emitter[e] = "locked" /\ emitter' = [emitter EXCEPT ![e] = "sent"]
        /\ open /\ queue < Capacity /\ queue' = queue + 1
        /\ UNCHANGED <<open, lock, worker, done, emits, sunk, sinkFaults, stopping, accepted, written, dropped, failed>>
    BY <1>1, <1>2, <1>9 DEF Log!Send, Log!Counts, Log!Counted, Log!At, LogTyped
  <2>2. Busy' = Busy - 1 /\ Sending' = Sending + 1
    <3>1. CrewMoves("locked", "sent")
      BY <1>2, <2>1, EmitterMoves
    <3>. QED  BY <3>1 DEF CrewMoves, Follows
  <2>3. LogTyped'
    <3>1. FewEmit'
      BY <1>2, <2>1, EmitterMoves
    <3>. QED  BY <1>1, <1>2, <2>1, <3>1 DEF LogTyped
  <2>4. LogStops'
    BY <1>1, <1>2, <2>1 DEF LogTyped, LogStops
  <2>5. LogCounts'
    BY <1>1, <1>2, <1>3, <2>1, <2>2 DEF LogTyped, LogCounts, Consumed
  <2>. QED  BY <2>3, <2>4, <2>5
<1>10. ASSUME NEW e \in Emitters, Log!CountAccepted(e)
      PROVE  LogInv'
  <2>1. /\ emitter[e] = "sent" /\ emitter' = [emitter EXCEPT ![e] = "idle"]
        /\ lock' = (IF lock = e THEN "free" ELSE lock) /\ accepted' = accepted + 1
        /\ UNCHANGED <<open, queue, worker, done, emits, sunk, sinkFaults, stopping, written, dropped, failed>>
    BY <1>1, <1>2, <1>10 DEF Log!CountAccepted, Log!Counts, Log!Counted, Log!At, LogTyped
  <2>2. Busy' = Busy /\ Sending' = Sending - 1
    <3>1. CrewMoves("sent", "idle")
      BY <1>2, <2>1, EmitterMoves
    <3>. QED  BY <3>1 DEF CrewMoves, Follows
  <2>3. LogTyped'
    <3>1. FewEmit'
      BY <1>2, <2>1, EmitterMoves
    <3>. QED  BY <1>1, <1>2, <2>1, <3>1 DEF LogTyped
  <2>4. LogStops'
    BY <1>1, <1>2, <2>1 DEF LogTyped, LogStops
  <2>5. LogCounts'
    BY <1>1, <1>2, <1>3, <2>1, <2>2 DEF LogTyped, LogCounts, Consumed
  <2>. QED  BY <2>3, <2>4, <2>5
<1>11. ASSUME Log!Take
      PROVE  LogInv'
  <2>1. /\ worker = "reading" /\ worker' = "writing" /\ queue > 0 /\ queue' = queue - 1
        /\ UNCHANGED <<open, lock, done, emits, sunk, sinkFaults, stopping, accepted, written, dropped, failed, emitter>>
    BY <1>1, <1>2, <1>11 DEF Log!Take, Log!Counts, Log!Counted, LogTyped
  <2>2. Busy' = Busy /\ Sending' = Sending
    BY <1>2, <2>1, EmitterStays
  <2>3. LogTyped'
    BY <1>1, <1>2, <2>1, EmitterStays DEF LogTyped
  <2>4. LogStops'
    BY <1>1, <1>2, <2>1 DEF LogTyped, LogStops
  <2>5. LogCounts'
    BY <1>1, <1>2, <1>3, <2>1, <2>2 DEF LogTyped, LogCounts, Consumed
  <2>. QED  BY <2>3, <2>4, <2>5
<1>12. ASSUME Log!Written
      PROVE  LogInv'
  <2>1. /\ worker = "writing" /\ worker' = "reading" /\ written' = written + 1
        /\ UNCHANGED <<open, lock, queue, done, emits, sunk, sinkFaults, stopping, accepted, dropped, failed, emitter>>
    BY <1>1, <1>2, <1>12 DEF Log!Written, Log!Counts, Log!Counted, LogTyped
  <2>2. Busy' = Busy /\ Sending' = Sending
    BY <1>2, <2>1, EmitterStays
  <2>3. LogTyped'
    BY <1>1, <1>2, <2>1, EmitterStays DEF LogTyped
  <2>4. LogStops'
    BY <1>1, <1>2, <2>1 DEF LogTyped, LogStops
  <2>5. LogCounts'
    BY <1>1, <1>2, <1>3, <2>1, <2>2 DEF LogTyped, LogCounts, Consumed
  <2>. QED  BY <2>3, <2>4, <2>5
<1>13. ASSUME Log!Refused
      PROVE  LogInv'
  <2>1. /\ worker = "writing" /\ worker' = "reading" /\ failed' = failed + 1
        /\ sinkFaults > 0 /\ sinkFaults' = sinkFaults - 1 /\ sunk' = sunk + 1
        /\ UNCHANGED <<open, lock, queue, done, emits, stopping, accepted, written, dropped, emitter>>
    BY <1>1, <1>2, <1>13 DEF Log!Refused, Log!Counts, Log!Counted, LogTyped
  <2>2. Busy' = Busy /\ Sending' = Sending
    BY <1>2, <2>1, EmitterStays
  <2>3. LogTyped'
    BY <1>1, <1>2, <2>1, EmitterStays DEF LogTyped
  <2>4. LogStops'
    BY <1>1, <1>2, <2>1 DEF LogTyped, LogStops
  <2>5. LogCounts'
    BY <1>1, <1>2, <1>3, <2>1, <2>2 DEF LogTyped, LogCounts, Consumed
  <2>. QED  BY <2>3, <2>4, <2>5
<1>14. ASSUME Log!Leave
      PROVE  LogInv'
  <2>1. /\ worker = "reading" /\ worker' = "flushing" /\ ~open /\ queue = 0
        /\ UNCHANGED <<open, lock, queue, done, emits, sunk, sinkFaults, stopping, accepted, written, dropped, failed, emitter>>
    BY <1>1, <1>2, <1>14 DEF Log!Leave, Log!Counts, Log!Counted, LogTyped
  <2>2. Busy' = Busy /\ Sending' = Sending
    BY <1>2, <2>1, EmitterStays
  <2>3. LogTyped'
    BY <1>1, <1>2, <2>1, EmitterStays DEF LogTyped
  <2>4. LogStops'
    BY <1>1, <1>2, <2>1 DEF LogTyped, LogStops
  <2>5. LogCounts'
    BY <1>1, <1>2, <1>3, <2>1, <2>2 DEF LogTyped, LogCounts, Consumed
  <2>. QED  BY <2>3, <2>4, <2>5
<1>15. ASSUME Log!Flush, UNCHANGED sinkFaults
      PROVE  LogInv'
  <2>1. /\ worker = "flushing" /\ worker' = "ended" /\ done' = TRUE
        /\ UNCHANGED <<open, lock, queue, emits, sunk, sinkFaults, stopping, accepted, written, dropped, failed, emitter>>
    BY <1>1, <1>2, <1>15 DEF Log!Flush, Log!Counts, Log!Counted, LogTyped
  <2>2. Busy' = Busy /\ Sending' = Sending
    BY <1>2, <2>1, EmitterStays
  <2>3. LogTyped'
    BY <1>1, <1>2, <2>1, EmitterStays DEF LogTyped
  <2>4. LogStops'
    BY <1>1, <1>2, <2>1 DEF LogTyped, LogStops
  <2>5. LogCounts'
    BY <1>1, <1>2, <1>3, <2>1, <2>2 DEF LogTyped, LogCounts, Consumed
  <2>. QED  BY <2>3, <2>4, <2>5
<1>16. ASSUME Log!Flush, ~UNCHANGED sinkFaults
      PROVE  LogInv'
  <2>1. /\ worker = "flushing" /\ worker' = "ended" /\ done' = TRUE
        /\ sinkFaults > 0 /\ sinkFaults' = sinkFaults - 1 /\ failed' = failed + 1
        /\ UNCHANGED <<open, lock, queue, emits, sunk, stopping, accepted, written, dropped, emitter>>
    BY <1>1, <1>2, <1>16 DEF Log!Flush, Log!Counts, Log!Counted, LogTyped
  <2>2. Busy' = Busy /\ Sending' = Sending
    BY <1>2, <2>1, EmitterStays
  <2>3. LogTyped'
    BY <1>1, <1>2, <2>1, EmitterStays DEF LogTyped
  <2>4. LogStops'
    BY <1>1, <1>2, <2>1 DEF LogTyped, LogStops
  <2>5. LogCounts'
    BY <1>1, <1>2, <1>3, <2>1, <2>2 DEF LogTyped, LogCounts, Consumed
  <2>. QED  BY <2>3, <2>4, <2>5
<1>17. ASSUME Log!Close
      PROVE  LogInv'
  <2>1. /\ lock = "free" /\ open' = FALSE /\ stopping \in {"no", "timeout"} /\ stopping' = "waiting"
        /\ UNCHANGED <<lock, queue, worker, done, emits, sunk, sinkFaults, accepted, written, dropped, failed, emitter>>
    BY <1>1, <1>2, <1>17 DEF Log!Close, Log!Counts, Log!Counted, LogTyped
  <2>2. Busy' = Busy /\ Sending' = Sending
    BY <1>2, <2>1, EmitterStays
  <2>3. LogTyped'
    BY <1>1, <1>2, <2>1, EmitterStays DEF LogTyped
  <2>4. LogStops'
    BY <1>1, <1>2, <2>1 DEF LogTyped, LogStops
  <2>5. LogCounts'
    BY <1>1, <1>2, <1>3, <2>1, <2>2 DEF LogTyped, LogCounts, Consumed
  <2>. QED  BY <2>3, <2>4, <2>5
<1>18. ASSUME Log!Flushed
      PROVE  LogInv'
  <2>1. /\ stopping = "waiting" /\ done /\ stopping' = (IF failed > 0 THEN "sink" ELSE "ok")
        /\ UNCHANGED <<open, lock, queue, worker, done, emits, sunk, sinkFaults, accepted, written, dropped, failed, emitter>>
    BY <1>1, <1>2, <1>18 DEF Log!Flushed, Log!Counts, Log!Counted, LogTyped
  <2>2. Busy' = Busy /\ Sending' = Sending
    BY <1>2, <2>1, EmitterStays
  <2>3. LogTyped'
    BY <1>1, <1>2, <2>1, EmitterStays DEF LogTyped
  <2>4. LogStops'
    BY <1>1, <1>2, <2>1 DEF LogTyped, LogStops
  <2>5. LogCounts'
    BY <1>1, <1>2, <1>3, <2>1, <2>2 DEF LogTyped, LogCounts, Consumed
  <2>. QED  BY <2>3, <2>4, <2>5
<1>19. ASSUME Log!FlushTimeout
      PROVE  LogInv'
  <2>1. /\ stopping = "waiting" /\ ~done /\ stopping' = "timeout"
        /\ UNCHANGED <<open, lock, queue, worker, done, emits, sunk, sinkFaults, accepted, written, dropped, failed, emitter>>
    BY <1>1, <1>2, <1>19 DEF Log!FlushTimeout, Log!Counts, Log!Counted, LogTyped
  <2>2. Busy' = Busy /\ Sending' = Sending
    BY <1>2, <2>1, EmitterStays
  <2>3. LogTyped'
    BY <1>1, <1>2, <2>1, EmitterStays DEF LogTyped
  <2>4. LogStops'
    BY <1>1, <1>2, <2>1 DEF LogTyped, LogStops
  <2>5. LogCounts'
    BY <1>1, <1>2, <1>3, <2>1, <2>2 DEF LogTyped, LogCounts, Consumed
  <2>. QED  BY <2>3, <2>4, <2>5
<1>. QED
  BY <1>4, <1>5, <1>6, <1>7, <1>8, <1>9, <1>10, <1>11, <1>12, <1>13, <1>14, <1>15, <1>16, <1>17, <1>18, <1>19 DEF Log!Next, Log!EmitStep, Log!WorkerStep

LEMMA LogStepKeeps ==
  ASSUME LogInv, [Next]_server
  PROVE  LogInv'
<1>1. CASE Log!Next
  BY <1>1, LogNext
<1>2. CASE UNCHANGED log
  <2>1. FewEmit' /\ Busy' = Busy /\ Sending' = Sending
    BY <1>2, EmitterStays DEF log, LogInv
  <2>. QED  BY <1>2, <2>1 DEF log, LogInv, LogTyped, LogStops, LogCounts, Consumed
<1>. QED
  BY <1>1, <1>2 DEF Next, ProcessStep, ExchangeStep, LogStep, HashingStep, MailStep, server

LEMMA LogInvariant == Spec => []LogInv
<1>1. Init => LogInv
  BY LogInit DEF Init
<1>2. LogInv /\ [Next]_server => LogInv'
  BY LogStepKeeps
<1>. QED
  BY <1>1, <1>2, PTL DEF Spec

(* The counters of the logger explain every record at any interleaving of  *)
(* its threads, a close that succeeds has lost none, and a closed logger   *)
(* accepts none: for any threads, queue, records and faults (Delivery).    *)
THEOREM LoggerIsExact == Spec => LogIsExact
<1>. DEFINE Exact == Log!TypeOK /\ Log!Accounted /\ Log!CloseMeansWritten
            Quiet == stopping # "no" => accepted' = accepted
<1>1. ASSUME LogInv
      PROVE  Exact
  <2>. USE <1>1 DEF LogInv
  <2>1. Busy \in Nat /\ Sending \in Nat /\ MaxEmits \in Nat /\ SinkFaults \in Nat
    BY ServerAssumption, FS_CardinalityType DEF Log!LogAssumption, LogTyped, FewEmit, Busy, Sending
  <2>2. Consumed = (IF worker = "writing" THEN 1 ELSE 0) + written + sunk /\ Consumed \in Nat
    BY DEF LogTyped, Consumed
  <2>3. /\ Log!InFlight({"checked", "locked"}) = Busy /\ Log!InFlight({"sent"}) = Sending
    <3>1. \A S : Log!Cardinality(S) = Cardinality(S)
      BY DEF Log!Cardinality, Cardinality
    <3>. QED  BY <3>1 DEF Log!InFlight, Busy, Sending, Where
  <2>4. Log!Accounted
    BY <2>1, <2>2, <2>3 DEF LogTyped, LogCounts, Log!Accounted, Log!Pending
  <2>5. /\ accepted <= MaxEmits + SinkFaults /\ written <= MaxEmits + SinkFaults
        /\ dropped <= MaxEmits + SinkFaults /\ failed <= MaxEmits + SinkFaults
        /\ sunk <= MaxEmits + SinkFaults
    BY <2>1, <2>2 DEF LogTyped, LogCounts
  <2>6. Log!TypeOK
    BY <2>1, <2>5 DEF LogTyped, Log!TypeOK
  <2>7. ASSUME stopping = "ok"
        PROVE  queue = 0 /\ accepted = written
    <3>1. worker = "ended" /\ queue = 0 /\ sunk = 0 /\ \A e \in Emitters : emitter[e] # "sent"
      BY <2>7 DEF LogStops
    <3>2. Where(Emitters, emitter, {"sent"}) = {}
      BY <3>1 DEF Where
    <3>3. Sending = 0
      BY <3>2, FS_EmptySet DEF Sending
    <3>. QED  BY <2>1, <2>2, <3>1, <3>3 DEF LogTyped, LogCounts
  <2>. QED
    BY <2>4, <2>6, <2>7 DEF Log!CloseMeansWritten
<1>2. ASSUME LogInv, [Next]_server
      PROVE  [Quiet]_log
  <2>1. CASE Log!Next
    <3>. SUFFICES ASSUME stopping # "no"
                  PROVE  accepted' = accepted
      OBVIOUS
    <3>1. accepted \in Nat /\ \A e \in Emitters : emitter[e] # "sent"
      BY <1>2 DEF LogInv, LogTyped, LogStops
    <3>. QED
      BY <2>1, <3>1 DEF Log!Next, Log!Emit, Log!EmitStep, Log!Unencodable, Log!Lock, Log!DropRecord,
         Log!Send, Log!CountAccepted, Log!WorkerStep, Log!Take, Log!Written, Log!Refused, Log!Leave,
         Log!Flush, Log!Close, Log!Flushed, Log!FlushTimeout, Log!At, Log!Counts, Log!Counted
  <2>2. CASE UNCHANGED log
    BY <2>2
  <2>. QED
    BY <1>2, <2>1, <2>2 DEF Next, ProcessStep, ExchangeStep, LogStep, HashingStep, MailStep, server
<1>3. Spec => []Exact
  BY <1>1, LogInvariant, PTL
<1>4. Spec => [][Quiet]_log
  BY <1>2, LogInvariant, PTL DEF Spec
<1>. QED
  BY <1>3, <1>4 DEF LogIsExact, Log!NothingAfterClose, Log!vars, log
=============================================================================
