----------------------------- MODULE LogDelivery ----------------------------
(***************************************************************************)
(* Log delivery (shared/logger): threads emit records into a bounded       *)
(* queue, a worker writes them to the sink, and close stops acceptance and *)
(* waits for the worker within its budget.  The counters are atomics; the  *)
(* queue is filled under the mutex of the sender.                          *)
(***************************************************************************)
EXTENDS Naturals, FiniteSets

CONSTANTS Emitters, Capacity,
          MaxEmits,    \* bound on the records emitted
          SinkFaults   \* bound on writes or flushes that fail
LogAssumption ==
  /\ Capacity \in Nat \ {0} /\ MaxEmits \in Nat /\ SinkFaults \in Nat
  /\ "free" \notin Emitters

VARIABLES open,      \* the sender is there
          lock,      \* who holds the sender's mutex, or "free"
          emitter,   \* where a thread is in emit
          queue,     \* records in the channel
          worker,    \* "reading", "writing", "flushing", "ended"
          done,      \* Delivery.done
          accepted, written, dropped, failed,
          emits,     \* how often emit was called
          sunk,      \* records the sink refused
          faults,    \* sink faults left
          closing    \* close: "no", "waiting", "ok", "sink" or "timeout"
vars == <<open, lock, emitter, queue, worker, done, accepted, written, dropped, failed,
          emits, sunk, faults, closing>>

Init == /\ open = TRUE /\ lock = "free" /\ emitter = [e \in Emitters |-> "idle"]
        /\ queue = 0 /\ worker = "reading" /\ done = FALSE
        /\ accepted = 0 /\ written = 0 /\ dropped = 0 /\ failed = 0
        /\ emits = 0 /\ sunk = 0 /\ faults = SinkFaults /\ closing = "no"

At(e, from, to) == emitter[e] = from /\ emitter' = [emitter EXCEPT ![e] = to]
Counts(a, w, d, f) == /\ accepted' = accepted + a /\ written' = written + w
                      /\ dropped' = dropped + d /\ failed' = failed + f
Counted == UNCHANGED <<accepted, written, dropped, failed>>

(* emit: a closed logger drops the record. *)
Emit(e) ==
  /\ emits < MaxEmits /\ lock = "free" /\ emits' = emits + 1
  /\ IF open
     THEN At(e, "idle", "checked") /\ Counted
     ELSE emitter[e] = "idle" /\ UNCHANGED emitter /\ Counts(0, 0, 1, 0)
  /\ UNCHANGED <<open, lock, queue, worker, done, sunk, faults, closing>>
(* The clock is before the epoch or out of range, or the fields cannot be encoded. *)
Unencodable(e) ==
  /\ At(e, "checked", "idle") /\ Counts(0, 0, 0, 1)
  /\ UNCHANGED <<open, lock, queue, worker, done, emits, sunk, faults, closing>>
(* write: lock; a record that is too large, too late or does not fit is    *)
(* dropped; one that was sent is counted before the lock is given back.    *)
Lock(e) ==
  /\ lock = "free" /\ lock' = e /\ At(e, "checked", "locked") /\ Counted
  /\ UNCHANGED <<open, queue, worker, done, emits, sunk, faults, closing>>
DropRecord(e) ==
  /\ At(e, "locked", "idle") /\ lock' = "free" /\ Counts(0, 0, 1, 0)
  /\ UNCHANGED <<open, queue, worker, done, emits, sunk, faults, closing>>
Send(e) ==
  /\ At(e, "locked", "sent") /\ open /\ queue < Capacity /\ queue' = queue + 1 /\ Counted
  /\ UNCHANGED <<open, lock, worker, done, emits, sunk, faults, closing>>
CountAccepted(e) ==
  /\ At(e, "sent", "idle") /\ lock' = (IF lock = e THEN "free" ELSE lock)
  /\ Counts(1, 0, 0, 0)
  /\ UNCHANGED <<open, queue, worker, done, emits, sunk, faults, closing>>

(* The worker thread: take a record, write it, count it; when the sender   *)
(* is gone and the channel is empty, flush and wake whoever closes.        *)
Take ==
  /\ worker = "reading" /\ queue > 0 /\ queue' = queue - 1 /\ worker' = "writing" /\ Counted
  /\ UNCHANGED <<open, lock, emitter, done, emits, sunk, faults, closing>>
Written ==
  /\ worker = "writing" /\ worker' = "reading" /\ Counts(0, 1, 0, 0)
  /\ UNCHANGED <<open, lock, emitter, queue, done, emits, sunk, faults, closing>>
Refused ==
  /\ worker = "writing" /\ worker' = "reading" /\ Counts(0, 0, 0, 1)
  /\ faults > 0 /\ faults' = faults - 1 /\ sunk' = sunk + 1
  /\ UNCHANGED <<open, lock, emitter, queue, done, emits, closing>>
LeaveAtStop ==        \* mutant: the worker leaves what is queued
  /\ worker = "reading" /\ ~open /\ worker' = "flushing" /\ Counted
  /\ UNCHANGED <<open, lock, emitter, queue, done, emits, sunk, faults, closing>>
Leave ==
  /\ worker = "reading" /\ ~open /\ queue = 0 /\ worker' = "flushing" /\ Counted
  /\ UNCHANGED <<open, lock, emitter, queue, done, emits, sunk, faults, closing>>
Flush ==
  /\ worker = "flushing" /\ worker' = "ended" /\ done' = TRUE
  /\ \/ Counted /\ UNCHANGED faults
     \/ faults > 0 /\ faults' = faults - 1 /\ Counts(0, 0, 0, 1)
  /\ UNCHANGED <<open, lock, emitter, queue, emits, sunk, closing>>

(* close: stop under the mutex, then wait for done or the deadline.  It    *)
(* may be called again.                                                    *)
Close ==
  /\ closing \in {"no", "timeout"} /\ lock = "free" /\ open' = FALSE /\ closing' = "waiting"
  /\ Counted /\ UNCHANGED <<lock, emitter, queue, worker, done, emits, sunk, faults>>
Flushed ==
  /\ closing = "waiting" /\ done /\ closing' = (IF failed > 0 THEN "sink" ELSE "ok") /\ Counted
  /\ UNCHANGED <<open, lock, emitter, queue, worker, done, emits, sunk, faults>>
FlushTimeout ==
  /\ closing = "waiting" /\ ~done /\ closing' = "timeout" /\ Counted
  /\ UNCHANGED <<open, lock, emitter, queue, worker, done, emits, sunk, faults>>

EmitStep(e) == Unencodable(e) \/ Lock(e) \/ DropRecord(e) \/ Send(e) \/ CountAccepted(e)
WorkerStep == Take \/ Written \/ Refused \/ Leave \/ Flush
Next == \/ \E e \in Emitters : Emit(e) \/ EmitStep(e)
        \/ WorkerStep \/ Close \/ Flushed \/ FlushTimeout
Spec == Init /\ [][Next]_vars
(* The threads are scheduled, and every write of the sink returns. *)
FairSpec == Spec /\ WF_vars(WorkerStep) /\ \A e \in Emitters : WF_vars(EmitStep(e))
-----------------------------------------------------------------------------
(* The type invariant. *)
TypeOK ==
  /\ open \in BOOLEAN /\ lock \in Emitters \cup {"free"} /\ done \in BOOLEAN
  /\ emitter \in [Emitters -> {"idle", "checked", "locked", "sent"}]
  /\ queue \in 0..Capacity /\ worker \in {"reading", "writing", "flushing", "ended"}
  /\ \A n \in {accepted, written, dropped, failed, emits, sunk} : n \in 0..(MaxEmits + SinkFaults)
  /\ faults \in 0..SinkFaults /\ closing \in {"no", "waiting", "ok", "sink", "timeout"}

(* The four counters explain every record, whatever the threads interleave:*)
(* once the in-flight ones are added, each call of emit is dropped, failed,*)
(* still queued, written or refused by the sink, and `accepted` is exactly *)
(* what entered the queue.                                                 *)
InFlight(s) == Cardinality({e \in Emitters : emitter[e] \in s})
Pending == queue + (IF worker = "writing" THEN 1 ELSE 0)
Accounted ==
  /\ emits + (SinkFaults - faults) =
       dropped + failed + InFlight({"checked", "locked"}) + Pending + written + sunk
  /\ accepted + InFlight({"sent"}) = Pending + written + sunk

(* A close that reports success has lost nothing: what was accepted is     *)
(* written, and the counters already say so.                               *)
CloseMeansWritten == closing = "ok" => queue = 0 /\ accepted = written

(* After close has stopped the sender no record is accepted, even by a     *)
(* thread that found the logger open before.                               *)
NothingAfterClose == [][closing # "no" => accepted' = accepted]_vars

(* Once close has been called the worker ends, so that a close which timed *)
(* out succeeds when it is called again.                                   *)
WorkerEnds == []<>(closing = "no" \/ done)

(* No record is lost without being counted, at any interleaving of the     *)
(* emitting threads, the worker and a close.                               *)
LogIsExact == TypeOK /\ Accounted /\ CloseMeansWritten
=============================================================================
