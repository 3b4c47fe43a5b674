------------------------------ MODULE Lineage -------------------------------
(***************************************************************************)
(* Where executions come from: the UUIDv7 generator (shared/id/v7.rs) and  *)
(* the scopes that the provenance factory opens with its ids               *)
(* (shared/provenance).  An id is its embedded time and counter; random    *)
(* bits decide only where the counter starts in a new millisecond.  A      *)
(* refused call that consumes neither clock nor id changes nothing.        *)
(***************************************************************************)
EXTENDS Integers, FiniteSets

CONSTANTS MaxMs,       \* the last time of the wall clock
          CounterMax,  \* 4095
          StartMax,    \* 2047: a fresh counter keeps its upper half free
          MaxU32,      \* the largest depth and attempt
          MaxScopes,   \* a bound on the scopes of one run
          MaxWorks,    \* a bound on the works prepared
          Foreign,     \* ids minted elsewhere
          Initiators   \* attributions a caller establishes

LineageAssumption ==
  /\ MaxMs \in Nat /\ MaxU32 \in Nat \ {0} /\ MaxScopes \in Nat /\ MaxWorks \in Nat
  /\ CounterMax \in Nat /\ StartMax \in 0 .. CounterMax
  /\ \A f \in Foreign : f \in Nat /\ f >= (MaxMs + 1) * (CounterMax + 1)

None   == [kind |-> "none", id |-> 0]
NoId   == -1
Fresh0 == [ms |-> -1, counter |-> 0]

VARIABLES now,     \* the wall clock; it may be set back
          last,    \* V7.state; Fresh0 before the first id
          scopes,  \* the scopes opened: ScopeSnapshot records
          works    \* the works prepared: WorkSnapshot records
vars == <<now, last, scopes, works>>

Id(ms, counter) == ms * (CounterMax + 1) + counter
Newer == last = Fresh0 \/ now > last.ms
NextStatesByClock ==   \* mutant: a clock that was set back is believed
  IF Newer \/ now < last.ms THEN {[ms |-> now, counter |-> c] : c \in 0 .. StartMax}
  ELSE IF last.counter = CounterMax THEN {}
  ELSE {[last EXCEPT !.counter = @ + 1]}
(* V7::new_id.  In the same millisecond, or when the clock is behind, the  *)
(* counter of the last one goes on, until it is exhausted.                 *)
NextStates ==
  IF Newer THEN {[ms |-> now, counter |-> c] : c \in 0 .. StartMax}
  ELSE IF last.counter = CounterMax THEN {}
  ELSE {[last EXCEPT !.counter = @ + 1]}

Ids == {s.scope_id : s \in scopes} \cup Foreign
Supplied == Foreign \cup {NoId}      \* the work ids a caller brings along
(* What a caller or a hint refers to: scopes and works, ours (a work here  *)
(* has the id of its first scope, or a supplied one) or known elsewhere,   *)
(* and events.                                                             *)
Refs == [kind : {"scope", "work"}, id : Ids] \cup [kind : {"event"}, id : Foreign]

(* validate_work, with the work's id known *)
ValidWork(w) ==
  /\ (w.replay # None) <=> (w.origin = "replay")
  /\ w.cause # [kind |-> "work", id |-> w.work_id]
  /\ w.replay # [kind |-> "work", id |-> w.work_id]
  /\ w.depth # NoId =>
       /\ ~(w.source = "local" /\ w.depth = 0 /\ w.cause # None)
       /\ ~(w.depth > 0 /\ w.cause = None)
(* restore_scope *)
ValidScope(s) ==
  /\ ValidWork(s.work) /\ s.attempt # 0
  /\ s.previous # NoId => s.previous # s.scope_id /\ s.attempt # 1
  /\ s.work.cause # [kind |-> "scope", id |-> s.scope_id]

(* A work or correlation without a name gets the id of its first scope.    *)
Named(w, id) == [w EXCEPT !.work_id = IF @ = NoId THEN id ELSE @,
                          !.correlation = IF @ = NoId THEN id ELSE @]
(* Factory::emit: one id is spent, even when the scope is then refused. *)
Emit(work, attempt, previous, forbidden) ==
  /\ Cardinality(scopes) < MaxScopes
  /\ \E st \in NextStates :
       LET id == Id(st.ms, st.counter)
           s  == [work |-> Named(work, id), scope_id |-> id, attempt |-> attempt,
                  previous |-> previous] IN
       /\ last' = st
       /\ scopes' = IF id \in forbidden \/ ~ValidScope(s) THEN scopes ELSE scopes \cup {s}
  /\ UNCHANGED <<now, works>>

Root(workId, origin, who, replay) ==
  [work_id |-> workId, correlation |-> NoId, source |-> "local", cause |-> None,
   origin |-> origin, who |-> who, depth |-> 0, replay |-> replay]
(* open *)
Open(workId, origin, who) == Emit(Root(workId, origin, who, None), 1, NoId, {})
(* replay: a new lineage that names the one it repeats. *)
Replay(source, workId, who) ==
  /\ ~(source.kind = "work" /\ workId = source.id)
  /\ Emit(Root(workId, "replay", who, source), 1, NoId,
          IF source.kind = "scope" THEN {source.id} ELSE {})

Deepens(p) == p.work.depth # NoId => p.work.depth < MaxU32
(* child_work: the parent's lineage, one deeper, caused by the parent or   *)
(* by whatever the caller names, which need not be of this lineage.        *)
ChildWork(p, workId, cause) ==
  [p.work EXCEPT !.work_id = IF workId = NoId THEN @ ELSE workId,
                 !.depth = IF @ = NoId THEN @ ELSE @ + 1,
                 !.cause = IF cause = None THEN [kind |-> "scope", id |-> p.scope_id] ELSE cause]
Derives(p, workId, cause) ==
  /\ workId # p.work.work_id /\ Deepens(p)
  /\ workId # NoId => ValidWork(ChildWork(p, workId, cause))
Child(p, workId, cause) ==
  /\ Derives(p, workId, cause)
  /\ Emit([ChildWork(p, workId, cause) EXCEPT !.work_id = workId], 1, NoId,
          {p.scope_id} \cup (IF workId = NoId THEN {p.work.work_id} ELSE {}))
(* prepare claims no execution: neither clock nor id is used. *)
Prepare(p, workId, cause) ==
  /\ Cardinality(works) < MaxWorks /\ Derives(p, workId, cause)
  /\ works' = works \cup {ChildWork(p, workId, cause)}
  /\ UNCHANGED <<now, last, scopes>>
Execute(w, attempt) == attempt # 0 /\ Emit(w, attempt, NoId, {})
Retry(s) ==
  /\ s.attempt < MaxU32
  /\ Emit(s.work, s.attempt + 1, s.scope_id, {s.scope_id})

(* inspect_incoming: what is adopted from public hints.  A cause counts    *)
(* only with a correlation that is valid.                                  *)
Incoming(correlation, cause) ==
  LET valid == correlation \in Ids IN
  [continued |-> valid, correlation |-> correlation, cause |-> IF valid THEN cause ELSE None]
Hints == {Incoming(correlation, cause) :
            correlation \in Ids \cup {NoId}, cause \in {r \in Refs : r.kind # "event"} \cup {None}}
EnterAsOurs(hint, workId, who) ==   \* mutant: an adopted correlation passes for a local one
  /\ hint.continued /\ ~(hint.cause.kind = "work" /\ hint.cause.id = workId)
  /\ Emit([Root(workId, "none", who, None) EXCEPT
             !.correlation = hint.correlation, !.cause = hint.cause, !.depth = NoId], 1, NoId, {})
(* enter: without a correlation it is open. *)
Enter(hint, workId, who) ==
  \/ ~hint.continued /\ Open(workId, "request", who)
  \/ /\ hint.continued /\ ~(hint.cause.kind = "work" /\ hint.cause.id = workId)
     /\ Emit([Root(workId, "none", who, None) EXCEPT
                !.correlation = hint.correlation, !.source = "external",
                !.cause = hint.cause, !.depth = NoId], 1, NoId, {})

Init == now \in 0 .. MaxMs /\ last = Fresh0 /\ scopes = {} /\ works = {}
Tick == now' \in 0 .. MaxMs /\ UNCHANGED <<last, scopes, works>>
Next ==
  \/ Tick
  \/ \E workId \in Supplied, who \in Initiators :
       \/ Open(workId, "request", who)
       \/ \E source \in {r \in Refs : r.kind # "event"} : Replay(source, workId, who)
  \/ \E hint \in Hints, workId \in Supplied, who \in Initiators : Enter(hint, workId, who)
  \/ \E p \in scopes, workId \in Supplied, cause \in Refs \cup {None} :
       Child(p, workId, cause) \/ (workId # NoId /\ Prepare(p, workId, cause))
  \/ \E w \in works, attempt \in 1 .. MaxU32 : Execute(w, attempt)
  \/ \E s \in scopes : Retry(s)
Spec == Init /\ [][Next]_vars
-----------------------------------------------------------------------------
(* Types: attempts and depths stay in the range of their integers.         *)
TypeOK ==
  /\ now \in 0 .. MaxMs /\ last \in {Fresh0} \cup [ms : 0 .. MaxMs, counter : 0 .. CounterMax]
  /\ \A s \in scopes : s.attempt \in 1 .. MaxU32
  /\ \A w \in works \cup {s.work : s \in scopes} : w.depth \in (0 .. MaxU32) \cup {NoId}

(* The generator's ids only increase: a clock that is set back, or a full  *)
(* counter, stops it rather than repeating one; so no two executions share *)
(* an id.                                                                  *)
IdsIncrease ==
  [][last # Fresh0 /\ last' # last
       => Id(last'.ms, last'.counter) > Id(last.ms, last.counter)]_vars

(* A lineage that calls itself local is one: it has a root here, its       *)
(* members act for the initiator of the root and with its replay, and none *)
(* was let in by a public hint that names its correlation.                 *)
LocalLineage ==
  \A s \in scopes : s.work.source = "local" =>
    \E r \in scopes :
      /\ r.scope_id = s.work.correlation /\ r.work.depth = 0
      /\ <<s.work.who, s.work.origin, s.work.replay>> = <<r.work.who, r.work.origin, r.work.replay>>

(* A known depth counts the hops from the root, whatever causes the        *)
(* callers named, attempts and prepared works on the way included: an      *)
(* older scope of the lineage stands at each of them.  It is unknown       *)
(* exactly where the ancestry is, and stays so in the children (P10).      *)
DepthCountsHops ==
  \A s \in scopes :
    /\ (s.work.depth = NoId) <=> (s.work.source = "external")
    /\ \A d \in 0 .. s.work.depth - 1 :
         \E p \in scopes : /\ p.scope_id < s.scope_id /\ p.work.depth = d
                           /\ p.work.correlation = s.work.correlation

(* An attempt that names its predecessor repeats the same work, cause and  *)
(* depth included, as the next ordinal.                                    *)
RetryKeepsWork ==
  \A s \in scopes : s.previous # NoId =>
    \E p \in scopes : p.scope_id = s.previous /\ p.work = s.work /\ s.attempt = p.attempt + 1

(* Long sequences of entering, deriving, retrying and replaying keep what  *)
(* a scope says of itself true of the scopes it came from.                 *)
LineageIsKept == TypeOK /\ LocalLineage /\ DepthCountsHops /\ RetryKeepsWork
=============================================================================
