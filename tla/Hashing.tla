------------------------------ MODULE Hashing -------------------------------
(***************************************************************************)
(* Admission to the password hasher (identity/password_hash): a caller     *)
(* tries for a slot, then queues behind a counter and a deadline, and the  *)
(* work it is admitted for runs on a thread of its own, which keeps the    *)
(* slot whatever becomes of the caller.  The semaphore is tokio's: a slot  *)
(* that is given back goes to the first waiter, else to the free ones.     *)
(***************************************************************************)
EXTENDS Naturals, SequencesExt

CONSTANTS Callers,       \* tasks that hash or verify
          MaxConcurrent, \* Limits.max_concurrent
          MaxQueued      \* Limits.max_queued

HashingAssumption ==
  /\ MaxConcurrent \in Nat \ {0} /\ MaxQueued \in Nat
  /\ IsFiniteSet(Callers) /\ "nobody" \notin Callers

VARIABLES pc,       \* caller -> where it is in admit and run
          free,     \* permits nobody holds
          waiters,  \* the semaphore's queue
          granted,  \* waiters whose permit was assigned and who have not run since
          queued,   \* Hasher.queued
          work,     \* caller -> "none", "running" or "done": the blocking task
          answer    \* caller -> what it returned
vars == <<pc, free, waiters, granted, queued, work, answer>>

Places == {"idle", "count", "check", "leave", "wait", "work", "over"}
Init == /\ pc = [c \in Callers |-> "idle"] /\ free = MaxConcurrent /\ waiters = <<>>
        /\ granted = {} /\ queued = 0 /\ work = [c \in Callers |-> "none"]
        /\ answer = [c \in Callers |-> "none"]

Go(c, place) == pc' = [pc EXCEPT ![c] = place]
Answer(c, a) == Go(c, "over") /\ answer' = [answer EXCEPT ![c] = a]
Begin(c) == Go(c, "work") /\ work' = [work EXCEPT ![c] = "running"]

(* salt and parse come before any slot is asked for. *)
Refuse(c) ==
  /\ pc[c] = "idle" /\ \E a \in {"entropy_unavailable", "credential_corrupt"} : Answer(c, a)
  /\ UNCHANGED <<free, waiters, granted, queued, work>>
TryAcquire(c) ==
  /\ pc[c] = "idle"
  /\ \/ free > 0 /\ free' = free - 1 /\ Begin(c)
     \/ free = 0 /\ Go(c, "count") /\ UNCHANGED <<free, work>>
  /\ UNCHANGED <<waiters, granted, queued, answer>>
(* fetch_add and the position it returns; then the wait begins. *)
Count(c) ==
  \/ /\ pc[c] = "count" /\ queued' = queued + 1
     /\ Go(c, IF queued >= MaxQueued THEN "leave" ELSE "check")
     /\ UNCHANGED <<free, waiters, granted, work, answer>>
  \/ /\ pc[c] = "check"
     /\ IF free > 0
        THEN free' = free - 1 /\ queued' = queued - 1 /\ Begin(c) /\ UNCHANGED waiters
        ELSE waiters' = Append(waiters, c) /\ Go(c, "wait") /\ UNCHANGED <<free, queued, work>>
     /\ UNCHANGED <<granted, answer>>
Saturated(c) ==
  /\ pc[c] = "leave" /\ queued' = queued - 1 /\ Answer(c, "hash_saturated")
  /\ UNCHANGED <<free, waiters, granted, work>>

(* A permit that comes back, from finished work or from a waiter that left *)
(* with one assigned (`gone`, which is no longer in the queue then).       *)
GiveBack(gone) ==
  IF waiters = <<>>
  THEN free' = free + 1 /\ granted' = granted \ {gone} /\ UNCHANGED waiters
  ELSE /\ waiters' = Tail(waiters) /\ granted' = (granted \ {gone}) \cup {Head(waiters)}
       /\ UNCHANGED free
Admitted(c) ==
  /\ pc[c] = "wait" /\ c \in granted
  /\ granted' = granted \ {c} /\ queued' = queued - 1 /\ Begin(c)
  /\ UNCHANGED <<free, waiters, answer>>
(* The acquire future is dropped: it leaves the queue, or gives back what  *)
(* it was assigned.                                                        *)
Leaves(c) ==
  IF c \in granted THEN GiveBack(c)
  ELSE waiters' = RemoveFirst(waiters, c) /\ UNCHANGED <<free, granted>>
(* queue_wait passes before the permit is polled. *)
TimedOut(c) ==
  /\ pc[c] = "wait" /\ c \notin granted
  /\ Leaves(c) /\ queued' = queued - 1 /\ Answer(c, "hash_queue_timeout")
  /\ UNCHANGED work
(* The caller's future is dropped.  Work that has begun goes on. *)
AbandonQueued(c) ==   \* mutant: only an ordinary return counts the waiter out
  /\ pc[c] \in {"wait", "work"} /\ Answer(c, "abandoned")
  /\ IF pc[c] = "wait" THEN Leaves(c) ELSE UNCHANGED <<free, waiters, granted>>
  /\ UNCHANGED <<queued, work>>
Abandon(c) ==
  /\ pc[c] \in {"wait", "work"} /\ Answer(c, "abandoned")
  /\ IF pc[c] = "wait" THEN Leaves(c) /\ queued' = queued - 1
     ELSE UNCHANGED <<free, waiters, granted, queued>>
  /\ UNCHANGED work

(* The blocking task ends, by a tag or by a panic, and drops its permit.   *)
Finish(c) ==
  /\ work[c] = "running" /\ work' = [work EXCEPT ![c] = "done"]
  /\ GiveBack("nobody")
  /\ \E a \in {"tag", "hash_failed"} :
       IF pc[c] = "work" THEN Answer(c, a) ELSE UNCHANGED <<pc, answer>>
  /\ UNCHANGED queued
(* The next request of the same client; the thread of an abandoned one may *)
(* still run, so it waits for that first.                                  *)
Again(c) ==
  /\ pc[c] = "over" /\ work[c] # "running" /\ Go(c, "idle")
  /\ work' = [work EXCEPT ![c] = "none"] /\ answer' = [answer EXCEPT ![c] = "none"]
  /\ UNCHANGED <<free, waiters, granted, queued>>

Admission(c) == TryAcquire(c) \/ Count(c) \/ Saturated(c) \/ Admitted(c)
Next == \E c \in Callers : \/ Refuse(c) \/ Admission(c) \/ TimedOut(c) \/ Abandon(c)
                           \/ Finish(c) \/ Again(c)
(* Tasks are scheduled and hashing takes a bounded time. *)
Fairness == \A c \in Callers : WF_vars(Admission(c)) /\ WF_vars(Finish(c))
Spec == Init /\ [][Next]_vars /\ Fairness
-----------------------------------------------------------------------------
Running == {c \in Callers : work[c] = "running"}
Inside  == {c \in Callers : pc[c] \in {"check", "leave", "wait"}}
(* Types, and no more waiters than the queue has room for. *)
TypeOK ==
  /\ pc \in [Callers -> Places] /\ free \in 0 .. MaxConcurrent /\ queued \in 0 .. Cardinality(Callers)
  /\ Len(waiters) + Cardinality(granted) <= MaxQueued

(* Every permit is free, assigned to one waiter or held by one running     *)
(* hash: timeouts, panics and dropped callers neither lose nor invent one, *)
(* so at most MaxConcurrent hashes take memory at once.                    *)
PermitsAreConserved ==
  /\ free + Cardinality(granted) + Cardinality(Running) = MaxConcurrent
  /\ Cardinality(Running) <= MaxConcurrent
(* The counter of the queue is the number of callers in it. *)
CounterIsExact == queued = Cardinality(Inside)
(* No permit is free while a caller waits for one. *)
NobodyWaitsForFree == waiters # <<>> => free = 0

(* A caller is never left in the queue: it is admitted, refused or gone.   *)
CallersLeaveTheQueue == \A c \in Callers : []<>(c \notin Inside)

(* Callers that time out, are dropped or panic at any point leave no trace:*)
(* neither a slot nor a place in the queue is lost or given twice.         *)
NothingIsLeaked == TypeOK /\ PermitsAreConserved /\ CounterIsExact /\ NobodyWaitsForFree
=============================================================================
