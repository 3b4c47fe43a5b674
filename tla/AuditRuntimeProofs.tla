------------------------- MODULE AuditRuntimeProofs -------------------------
(***************************************************************************)
(* Safety of event delivery for any number of events, workers, consumers,  *)
(* attempts, deliveries and messages, with and without a broker.           *)
(***************************************************************************)
EXTENDS AuditRuntime, TLAPS

-----------------------------------------------------------------------------
(* What the outbox guarantees whoever calls it: OutboxSpec lets any caller *)
(* present any lease token ever handed out, at any time.                   *)

(* What the two statements of claim do to one row.                         *)
Swept(r) ==
    /\ Sweep(r) \in Row
    /\ Sweep(r).body = r.body
    /\ Sweep(r) # r => /\ r.state = "pending"
                      /\ ~(r.lease # NoLease /\ r.live)
                      /\ Sweep(r).state = "dead"
                      /\ Sweep(r).lease = NoLease
                      /\ Sweep(r).live = FALSE

HasLease(r, token) ==
    /\ Leased(r, token) \in Row
    /\ Leased(r, token).body = r.body
    /\ Leased(r, token).state = "pending"
    /\ Leased(r, token).lease = token
    /\ r.state = "pending"
    /\ ~(r.lease # NoLease /\ r.live)

(* The sweep of claim keeps the envelope of a row and touches no unexpired *)
(* lease.                                                                  *)
LEMMA SweptRow ==
    ASSUME NEW r \in Row
    PROVE  Swept(r)
<1> USE DEF Swept
<1>1. CASE Sweep(r) = r
  BY <1>1
<1>2. CASE Sweep(r) # r
  <2>1. /\ r.state = "pending"
        /\ Unleased(r)
        /\ Sweep(r) = [r EXCEPT !.state = "dead", !.lease = NoLease,
                               !.live = FALSE]
    BY <1>2 DEF Sweep
  <2>2. [r EXCEPT !.state = "dead", !.lease = 0, !.live = FALSE] \in Row
    BY DEF Row
  <2>3. /\ Sweep(r).body = r.body
        /\ Sweep(r).state = "dead"
        /\ Sweep(r).lease = NoLease
        /\ Sweep(r).live = FALSE
    BY <2>1 DEF Row
  <2> QED
    BY <2>1, <2>2, <2>3 DEF Unleased, NoLease
<1> QED
  BY <1>1, <1>2

(* The lease claim writes into a candidate it selected.                    *)
LEMMA LeasedRow ==
    ASSUME NEW r \in Row, NEW token \in Nat, Claimable(r)
    PROVE  HasLease(r, token)
<1>1. r.attempts \in 0..MaxAttempts /\ r.attempts < MaxAttempts
  BY DEF Claimable, Row
<1>2. r.attempts + 1 \in 0..MaxAttempts
  BY <1>1, EnvelopeAssumption
<1> QED
  BY <1>2 DEF HasLease, Leased, Row, Claimable, Unleased

(* Every operation of Store keeps the types of the table: in particular    *)
(* the attempts of a row never pass the limit its CHECK constraint states. *)
LEMMA OutboxTypeStep ==
    ASSUME OutboxTypeOK, [OutboxNext]_outboxVars
    PROVE  OutboxTypeOK'
<1> USE EnvelopeAssumption DEF OutboxTypeOK, NoLease
<1>1. CASE UNCHANGED outboxVars
  BY <1>1 DEF outboxVars, Row
<1>2. ASSUME NEW e \in Events, NEW b \in Bodies, Enqueue(e, b)
      PROVE  OutboxTypeOK'
  BY <1>2 DEF Enqueue, NewRow, Row
<1>3. ASSUME NEW e \in Events, Claim(e)
      PROVE  OutboxTypeOK'
  <2>1. outbox \in [Events -> Row] /\ nextToken \in Nat
    OBVIOUS
  <2>2. \A x \in Events : Sweep(outbox[x]) \in Row
    BY <2>1, SweptRow DEF Swept
  <2>3. Leased(outbox[e], nextToken) \in Row
    BY <1>3, <2>1, LeasedRow DEF Claim, HasLease
  <2> QED
    BY <1>3, <2>2, <2>3 DEF Claim
<1>4. CASE ClaimNone
  <2>1. outbox \in [Events -> Row]
    OBVIOUS
  <2>2. \A x \in Events : Sweep(outbox[x]) \in Row
    BY <2>1, SweptRow DEF Swept
  <2> QED
    BY <1>4, <2>2 DEF ClaimNone
<1>5. ASSUME NEW e \in Events, NEW t \in 1..(nextToken - 1),
             Ack(e, t) \/ Release(e, t)
      PROVE  OutboxTypeOK'
  BY <1>5 DEF Ack, Release, Row
<1>6. ASSUME NEW e \in Events, LeaseExpires(e) \/ RetryDue(e)
      PROVE  OutboxTypeOK'
  <2>1. outbox[e] \in Row
    OBVIOUS
  <2>2. CASE LeaseExpires(e)
    <3>1. [outbox[e] EXCEPT !.live = FALSE] \in Row
      BY <2>1 DEF Row
    <3> QED
      BY <2>2, <3>1 DEF LeaseExpires
  <2>3. CASE RetryDue(e)
    <3>1. [outbox[e] EXCEPT !.ready = TRUE] \in Row
      BY <2>1 DEF Row
    <3> QED
      BY <2>3, <3>1 DEF RetryDue
  <2> QED
    BY <1>6, <2>2, <2>3
<1> QED
  BY <1>1, <1>2, <1>3, <1>4, <1>5, <1>6 DEF OutboxNext

(* The types of the table hold in every state of the outbox.               *)
THEOREM OutboxTypes == OutboxSpec => []OutboxTypeOK
<1>1. OutboxInit => OutboxTypeOK
  BY EnvelopeAssumption DEF OutboxInit, OutboxTypeOK, Row, AbsentRow, NoLease
<1>2. OutboxTypeOK /\ [OutboxNext]_outboxVars => OutboxTypeOK'
  BY OutboxTypeStep
<1> QED
  BY <1>1, <1>2, PTL DEF OutboxSpec

(* The sweep and the lease are the only writes of claim; both leave a row  *)
(* consistent.                                                             *)
LEMMA RowsStep ==
    ASSUME OutboxTypeOK, RowsOK, [OutboxNext]_outboxVars
    PROVE  RowsOK'
<1> USE EnvelopeAssumption
<1>1. CASE UNCHANGED outboxVars
  BY <1>1 DEF outboxVars, OutboxTypeOK, RowsOK, Row, NoLease
<1>2. ASSUME NEW e \in Events, NEW b \in Bodies, Enqueue(e, b)
      PROVE  RowsOK'
  BY <1>2 DEF Enqueue, NewRow,
                OutboxTypeOK, RowsOK, Row, NoLease
<1>3. ASSUME NEW e \in Events, Claim(e)
      PROVE  RowsOK'
  <2>1. /\ outbox'[e] = Leased(outbox[e], nextToken)
        /\ \A x \in Events \ {e} : outbox'[x] = Sweep(outbox[x])
        /\ nextToken' = nextToken + 1
        /\ nextToken \in Nat \ {0}
        /\ Claimable(outbox[e])
    BY <1>3 DEF Claim, OutboxTypeOK
  <2>2. \A x \in Events : outbox[x] \in Row /\ Swept(outbox[x])
    BY SweptRow DEF OutboxTypeOK
  <2>3. HasLease(outbox[e], nextToken)
    BY <2>1, <2>2, LeasedRow
  <2> QED
    BY <2>1, <2>2, <2>3 DEF RowsOK, Swept, HasLease, Row, NoLease
<1>4. CASE ClaimNone
  <2>1. /\ \A x \in Events : outbox'[x] = Sweep(outbox[x])
        /\ nextToken' = nextToken
        /\ nextToken \in Nat \ {0}
    BY <1>4 DEF ClaimNone, OutboxTypeOK
  <2>2. \A x \in Events : outbox[x] \in Row /\ Swept(outbox[x])
    BY SweptRow DEF OutboxTypeOK
  <2> QED
    BY <2>1, <2>2 DEF RowsOK, Swept, Row, NoLease
<1>5. ASSUME NEW e \in Events, NEW t \in 1..(nextToken - 1),
             Ack(e, t) \/ Release(e, t)
      PROVE  RowsOK'
  BY <1>5 DEF Ack, Release, Owns,
                OutboxTypeOK, RowsOK, Row, NoLease
<1>6. ASSUME NEW e \in Events, LeaseExpires(e) \/ RetryDue(e)
      PROVE  RowsOK'
  BY <1>6 DEF LeaseExpires, RetryDue,
                OutboxTypeOK, RowsOK, Row, NoLease
<1> QED
  BY <1>1, <1>2, <1>3, <1>4, <1>5, <1>6 DEF OutboxNext

(* What is in the outbox stays there, under the envelope it was committed  *)
(* with.                                                                   *)
LEMMA RowsGrowStep ==
    ASSUME OutboxTypeOK, RowsOK, [OutboxNext]_outboxVars
    PROVE  RowsGrow /\ nextToken' >= nextToken
<1> USE EnvelopeAssumption
<1>1. CASE UNCHANGED outboxVars
  BY <1>1 DEF outboxVars, OutboxTypeOK, RowsOK, RowsGrow, Row, NoLease
<1>2. ASSUME NEW e \in Events, NEW b \in Bodies, Enqueue(e, b)
      PROVE  RowsGrow /\ nextToken' >= nextToken
  BY <1>2 DEF Enqueue, NewRow,
                OutboxTypeOK, RowsOK, RowsGrow, Row, NoLease
<1>3. ASSUME NEW e \in Events, Claim(e)
      PROVE  RowsGrow /\ nextToken' >= nextToken
  <2>1. /\ outbox'[e] = Leased(outbox[e], nextToken)
        /\ \A x \in Events \ {e} : outbox'[x] = Sweep(outbox[x])
        /\ nextToken' = nextToken + 1
        /\ nextToken \in Nat \ {0}
        /\ Claimable(outbox[e])
    BY <1>3 DEF Claim, OutboxTypeOK
  <2>2. \A x \in Events : outbox[x] \in Row /\ Swept(outbox[x])
    BY SweptRow DEF OutboxTypeOK
  <2>3. HasLease(outbox[e], nextToken)
    BY <2>1, <2>2, LeasedRow
  <2> QED
    BY <2>1, <2>2, <2>3 DEF RowsOK, RowsGrow, Swept, HasLease, Row, NoLease
<1>4. CASE ClaimNone
  <2>1. /\ \A x \in Events : outbox'[x] = Sweep(outbox[x])
        /\ nextToken' = nextToken
        /\ nextToken \in Nat \ {0}
    BY <1>4 DEF ClaimNone, OutboxTypeOK
  <2>2. \A x \in Events : outbox[x] \in Row /\ Swept(outbox[x])
    BY SweptRow DEF OutboxTypeOK
  <2> QED
    BY <2>1, <2>2 DEF RowsOK, RowsGrow, Swept, Row, NoLease
<1>5. ASSUME NEW e \in Events, NEW t \in 1..(nextToken - 1),
             Ack(e, t) \/ Release(e, t)
      PROVE  RowsGrow /\ nextToken' >= nextToken
  BY <1>5 DEF Ack, Release, Owns,
                OutboxTypeOK, RowsOK, RowsGrow, Row, NoLease
<1>6. ASSUME NEW e \in Events, LeaseExpires(e) \/ RetryDue(e)
      PROVE  RowsGrow /\ nextToken' >= nextToken
  BY <1>6 DEF LeaseExpires, RetryDue,
                OutboxTypeOK, RowsOK, RowsGrow, Row, NoLease
<1> QED
  BY <1>1, <1>2, <1>3, <1>4, <1>5, <1>6 DEF OutboxNext

(* Everything but a finish leaves a row with an unexpired lease alone.     *)
LeaseLapses ==
    \A e \in Events : outbox[e].live =>
        \/ outbox'[e] = outbox[e]
        \/ outbox'[e] = [outbox[e] EXCEPT !.live = FALSE]
        \/ outbox'[e] = [outbox[e] EXCEPT !.ready = TRUE]

(* Claim, enqueue and the clock leave an unexpired lease alone.            *)
LEMMA LeaseLapsesStep ==
    ASSUME OutboxTypeOK, RowsOK,
           \/ UNCHANGED outboxVars
           \/ \E e \in Events, b \in Bodies : Enqueue(e, b)
           \/ \E e \in Events : Claim(e)
           \/ ClaimNone
           \/ \E e \in Events : LeaseExpires(e) \/ RetryDue(e)
    PROVE  LeaseLapses
<1> USE EnvelopeAssumption
<1>1. CASE UNCHANGED outboxVars
  BY <1>1 DEF outboxVars, OutboxTypeOK, RowsOK, LeaseLapses, Row, NoLease
<1>2. ASSUME NEW e \in Events, NEW b \in Bodies, Enqueue(e, b)
      PROVE  LeaseLapses
  BY <1>2 DEF Enqueue, NewRow,
                OutboxTypeOK, RowsOK, LeaseLapses, Row, NoLease
<1>3. ASSUME NEW e \in Events, Claim(e)
      PROVE  LeaseLapses
  <2>1. /\ outbox'[e] = Leased(outbox[e], nextToken)
        /\ \A x \in Events \ {e} : outbox'[x] = Sweep(outbox[x])
        /\ nextToken' = nextToken + 1
        /\ nextToken \in Nat \ {0}
        /\ Claimable(outbox[e])
    BY <1>3 DEF Claim, OutboxTypeOK
  <2>2. \A x \in Events : outbox[x] \in Row /\ Swept(outbox[x])
    BY SweptRow DEF OutboxTypeOK
  <2>3. HasLease(outbox[e], nextToken)
    BY <2>1, <2>2, LeasedRow
  <2> QED
    BY <2>1, <2>2, <2>3 DEF RowsOK, LeaseLapses, Swept, HasLease, Row, NoLease
<1>4. CASE ClaimNone
  <2>1. /\ \A x \in Events : outbox'[x] = Sweep(outbox[x])
        /\ nextToken' = nextToken
        /\ nextToken \in Nat \ {0}
    BY <1>4 DEF ClaimNone, OutboxTypeOK
  <2>2. \A x \in Events : outbox[x] \in Row /\ Swept(outbox[x])
    BY SweptRow DEF OutboxTypeOK
  <2> QED
    BY <2>1, <2>2 DEF RowsOK, LeaseLapses, Swept, Row, NoLease
<1>5. ASSUME NEW e \in Events, LeaseExpires(e) \/ RetryDue(e)
      PROVE  LeaseLapses
  <2>1. /\ \A x \in Events : x # e => outbox'[x] = outbox[x]
        /\ \/ outbox'[e] = [outbox[e] EXCEPT !.live = FALSE]
           \/ outbox'[e] = [outbox[e] EXCEPT !.ready = TRUE]
    BY <1>5 DEF LeaseExpires, RetryDue, OutboxTypeOK
  <2> QED
    BY <2>1 DEF LeaseLapses
<1> QED
  BY <1>1, <1>2, <1>3, <1>4, <1>5

(* A token that is not the one in the row finishes nothing.                *)
LEMMA LeaseExcludesStep ==
    ASSUME OutboxTypeOK, RowsOK, [OutboxNext]_outboxVars
    PROVE  LeaseExcludes
<1>1. ASSUME NEW e \in Events, NEW t \in 1..(nextToken - 1),
             Ack(e, t) \/ Release(e, t)
      PROVE  LeaseExcludes
  <2>1. outbox[e].lease = t
    BY <1>1 DEF Ack, Release, Owns
  <2>2. \A x \in Events : x # e => outbox'[x] = outbox[x]
    <3>1. CASE Ack(e, t)
      BY <3>1 DEF Ack, OutboxTypeOK
    <3>2. CASE Release(e, t)
      BY <3>2 DEF Release, OutboxTypeOK
    <3> QED
      BY <1>1, <3>1, <3>2
  <2>3. Ack(e, outbox[e].lease) \/ Release(e, outbox[e].lease)
    BY <1>1, <2>1
  <2> QED
    BY <2>2, <2>3 DEF LeaseExcludes
<1>2. LeaseLapses => LeaseExcludes
  BY DEF LeaseLapses, LeaseExcludes
<1> QED
  BY <1>1, <1>2, LeaseLapsesStep DEF OutboxNext

(* Only the producer gives a row its envelope.                             *)
LEMMA BodiesKept ==
    ASSUME OutboxTypeOK,
           \/ \E e \in Events : Claim(e) \/ LeaseExpires(e) \/ RetryDue(e)
           \/ ClaimNone
           \/ \E e \in Events, t \in Nat : Ack(e, t) \/ Release(e, t)
    PROVE  \A x \in Events : outbox'[x].body = outbox[x].body
<1>1. \A x \in Events : outbox[x] \in Row /\ Swept(outbox[x])
  BY SweptRow DEF OutboxTypeOK
<1>2. ASSUME NEW e \in Events, Claim(e)
      PROVE  \A x \in Events : outbox'[x].body = outbox[x].body
  <2>1. HasLease(outbox[e], nextToken)
    BY <1>1, <1>2, LeasedRow DEF Claim, OutboxTypeOK
  <2> QED
    BY <1>1, <1>2, <2>1 DEF Claim, Swept, HasLease
<1>3. CASE ClaimNone
  BY <1>1, <1>3 DEF ClaimNone, Swept
<1>4. ASSUME NEW e \in Events, NEW t \in Nat, Ack(e, t) \/ Release(e, t)
      PROVE  \A x \in Events : outbox'[x].body = outbox[x].body
  <2>1. /\ \A x \in Events : x # e => outbox'[x] = outbox[x]
        /\ outbox'[e].body = outbox[e].body
    <3>1. CASE Ack(e, t)
      BY <3>1 DEF Ack, OutboxTypeOK, Row
    <3>2. CASE Release(e, t)
      <4>1. \A x \in Events : x # e => outbox'[x] = outbox[x]
        BY <3>2 DEF Release, OutboxTypeOK
      <4> DEFINE s == IF outbox[e].attempts >= MaxAttempts
                      THEN "dead" ELSE "pending"
      <4>2. outbox[e] \in Row
        BY DEF OutboxTypeOK
      <4>3. outbox'[e] = [outbox[e] EXCEPT !.state = s, !.lease = NoLease,
                                           !.live = FALSE, !.ready = FALSE]
        BY <3>2 DEF Release, OutboxTypeOK
      <4> HIDE DEF s
      <4>4. outbox'[e].body = outbox[e].body
        BY <4>2, <4>3 DEF Row
      <4> QED
        BY <4>1, <4>4
    <3> QED
      BY <1>4, <3>1, <3>2
  <2> QED
    BY <2>1
<1>5. ASSUME NEW e \in Events, LeaseExpires(e) \/ RetryDue(e)
      PROVE  \A x \in Events : outbox'[x].body = outbox[x].body
  BY <1>5 DEF LeaseExpires, RetryDue, OutboxTypeOK, Row
<1> QED
  BY <1>2, <1>3, <1>4, <1>5

(* Rows are consistent in every reachable state.                           *)
THEOREM OutboxRows == OutboxSpec => [](OutboxTypeOK /\ RowsOK)
<1>1. OutboxInit => OutboxTypeOK /\ RowsOK
  BY EnvelopeAssumption
  DEF OutboxInit, OutboxTypeOK, RowsOK, Row, AbsentRow, NoLease
<1>2. OutboxTypeOK /\ RowsOK /\ [OutboxNext]_outboxVars
        => OutboxTypeOK' /\ RowsOK'
  BY OutboxTypeStep, RowsStep
<1> QED
  BY <1>1, <1>2, PTL DEF OutboxSpec

(* An enqueued event keeps its envelope for ever, sent and dead are final, *)
(* and an unexpired lease excludes every caller but its owner - for any    *)
(* number of callers, and whatever tokens they present.                    *)
THEOREM OutboxIsSafe == OutboxSpec => [][RowsGrow /\ LeaseExcludes]_outboxVars
<1>1. OutboxTypeOK /\ RowsOK /\ [OutboxNext]_outboxVars
        => [RowsGrow /\ LeaseExcludes]_outboxVars
  BY RowsGrowStep, LeaseExcludesStep
<1> QED
  BY <1>1, OutboxRows, PTL DEF OutboxSpec

-----------------------------------------------------------------------------
(* The outbox, the mailboxes, the workers and the broker together.         *)

Inv == TypeOK /\ IInv

-----------------------------------------------------------------------------
(* What a step of the whole system is to each of its parts.                *)

OutboxMove ==
    /\ [OutboxNext]_outboxVars
    /\ \A e \in Events : outbox'[e].state = "sent" /\ outbox[e].state # "sent" =>
          \E w \in Workers : pc[w] = "ack" /\ hold[w].event = e

(* Every step of the system is a step of the outbox alone or leaves it be; *)
(* only the worker at its ack stage marks a row sent.                      *)
LEMMA OutboxMoves ==
    ASSUME Inv, [Next]_vars
    PROVE  OutboxMove
<1> USE DEF Inv, TypeOK, OutboxTypeOK
<1>1. CASE UNCHANGED outboxVars
  BY <1>1 DEF outboxVars, OutboxMove
<1>2. ASSUME NEW e \in Events, NEW b \in Bodies, Enqueue(e, b)
      PROVE  OutboxMove
  BY <1>2 DEF Enqueue, NewRow, OutboxMove, OutboxNext
<1>3. ASSUME NEW e \in Events, Claim(e)
      PROVE  OutboxMove
  <2>1. \A x \in Events : outbox[x] \in Row /\ Swept(outbox[x])
    BY SweptRow
  <2>2. HasLease(outbox[e], nextToken)
    BY <1>3, <2>1, LeasedRow DEF Claim
  <2>3. \A x \in Events : outbox'[x].state = "sent" => outbox[x].state = "sent"
    BY <1>3, <2>1, <2>2 DEF Claim, Swept, HasLease
  <2> QED
    BY <1>3, <2>3 DEF OutboxMove, OutboxNext
<1>4. CASE ClaimNone
  <2>1. \A x \in Events : outbox[x] \in Row /\ Swept(outbox[x])
    BY SweptRow
  <2>2. \A x \in Events : outbox'[x].state = "sent" => outbox[x].state = "sent"
    BY <1>4, <2>1 DEF ClaimNone, Swept
  <2> QED
    BY <1>4, <2>2 DEF OutboxMove, OutboxNext
<1>5. ASSUME NEW w \in Workers, AckOutbox(w)
      PROVE  OutboxMove
  <2>1. hold[w].event \in Events /\ hold[w].ref \in 1..(nextToken - 1)
    BY <1>5 DEF AckOutbox, IInv, Held, LeaseHeld
  <2>2. \A e \in Events : e # hold[w].event => outbox'[e] = outbox[e]
    BY <1>5 DEF AckOutbox, Ack
  <2> QED
    BY <1>5, <2>1, <2>2 DEF AckOutbox, OutboxMove, OutboxNext
<1>6. ASSUME NEW w \in Workers, ReleaseOutbox(w)
      PROVE  OutboxMove
  <2>1. hold[w].event \in Events /\ hold[w].ref \in 1..(nextToken - 1)
    BY <1>6 DEF ReleaseOutbox, IInv, Held, LeaseHeld
  <2>2. \A e \in Events : outbox'[e].state = "sent" => outbox[e].state = "sent"
    BY <1>6, <2>1 DEF ReleaseOutbox, Release
  <2> QED
    BY <1>6, <2>1, <2>2 DEF ReleaseOutbox, OutboxMove, OutboxNext
<1>7. ASSUME NEW e \in Events, LeaseExpires(e) \/ RetryDue(e)
      PROVE  OutboxMove
  <2>1. \A x \in Events : outbox'[x].state = outbox[x].state
    BY <1>7 DEF LeaseExpires, RetryDue, Row
  <2> QED
    BY <1>7, <2>1 DEF OutboxMove, OutboxNext
<1>8. CASE UNCHANGED vars
  BY <1>1, <1>8 DEF vars, outboxVars
<1>9. CASE Time
  BY <1>1, <1>7, <1>9 DEF Time
<1>10. ASSUME NEW w \in Workers,
              Step(w) \/ Close(w) \/ CloseBroker(w) \/ Crash(w) \/ Restart(w)
       PROVE  OutboxMove
  <2>1. CASE Dispatch(w)
    BY <1>1, <1>3, <1>4, <1>5, <1>6, <2>1
    DEF Dispatch, ClaimOne, ClaimNothing, ClaimFails, Publish, PublishFails,
        AckFails, ReleaseFails
  <2>2. CASE Transfer(w)
    BY <1>1, <2>2 DEF Transfer, Pull, PullEmpty, Sink, AckBroker, TransferFails
  <2>3. CASE Consume(w)
    BY <1>1, <2>3 DEF Consume, Select, SelectNothing, CallbackDone,
                      CallbackRejects, ConsumeFails
  <2>4. CASE Wake(w) \/ Leave(w) \/ Close(w) \/ CloseBroker(w) \/ Crash(w)
             \/ Restart(w)
    BY <1>1, <2>4 DEF Wake, Leave, Close, CloseBroker, Crash, Restart
  <2> QED
    BY <1>10, <2>1, <2>2, <2>3, <2>4 DEF Step
<1> QED
  BY <1>2, <1>8, <1>9, <1>10 DEF Next, Produce

(* The broker sees stores and acks of what the workers hold, nothing else. *)
BrokerMove ==
    \/ UNCHANGED brokerVars
    \/ \E w \in Workers : /\ pc[w] = "publish"
                          /\ Store(hold[w].event, hold[w].body)
    \/ \E s \in Seqs : Deliver(s) \/ AckWaitPasses(s)
    \/ \E w \in Workers : pc[w] = "brokerAck" /\ Acknowledge(hold[w].ref)
    \/ \E e \in Events : WindowPasses(e)

(* Every step of the system is one of these to the broker.                 *)
LEMMA BrokerMoves ==
    ASSUME [Next]_vars
    PROVE  BrokerMove
<1>1. CASE UNCHANGED brokerVars
  BY <1>1 DEF BrokerMove
<1>2. CASE UNCHANGED vars
  BY <1>1, <1>2 DEF vars, brokerVars
<1>3. CASE Time
  BY <1>1, <1>3 DEF Time, BrokerMove
<1>4. ASSUME NEW w \in Workers,
             Step(w) \/ Close(w) \/ CloseBroker(w) \/ Crash(w) \/ Restart(w)
      PROVE  BrokerMove
  <2>1. CASE Publish(w)
    BY <1>1, <2>1 DEF Publish, PublishEffect, Duplicate, BrokerMove
  <2>2. CASE Dispatch(w) /\ ~Publish(w)
    BY <1>1, <2>2
    DEF Dispatch, ClaimOne, ClaimNothing, ClaimFails, PublishFails,
        AckOutbox, AckFails, ReleaseOutbox, ReleaseFails
  <2>3. CASE Transfer(w)
    BY <1>1, <2>3 DEF Transfer, Pull, PullEmpty, Sink, AckBroker,
                      TransferFails, BrokerMove
  <2>4. CASE Consume(w)
    BY <1>1, <2>4 DEF Consume, Select, SelectNothing, CallbackDone,
                      CallbackRejects, ConsumeFails
  <2>5. CASE Wake(w) \/ Leave(w) \/ Close(w) \/ CloseBroker(w) \/ Crash(w)
             \/ Restart(w)
    BY <1>1, <2>5 DEF Wake, Leave, Close, CloseBroker, Crash, Restart
  <2> QED
    BY <1>4, <2>1, <2>2, <2>3, <2>4, <2>5 DEF Step
<1> QED
  BY <1>1, <1>2, <1>3, <1>4 DEF Next, Produce

(* So does the mailbox.                                                    *)
MailboxMove ==
    \/ UNCHANGED mailboxVars
    \/ \E w \in Workers : /\ pc[w] \in {"publish", "sink"}
                          /\ Deposit(hold[w].event, hold[w].body)
    \/ \E w \in Workers :
          /\ pc[w] = "callback"
          /\ \/ Process(hold[w].event, ConsumerOf[w], hold[w].body)
             \/ Reject(hold[w].event, ConsumerOf[w], hold[w].ref)
          /\ pc' = [pc EXCEPT ![w] = "sleep"]
    \/ \E e \in Events, c \in Consumers : ReceiptDue(e, c)

(* Every step of the system is one of these to the mailbox.                *)
LEMMA MailboxMoves ==
    ASSUME [Next]_vars
    PROVE  MailboxMove
<1>1. CASE UNCHANGED mailboxVars
  BY <1>1 DEF MailboxMove
<1>2. CASE UNCHANGED vars
  BY <1>1, <1>2 DEF vars, mailboxVars
<1>3. CASE Time
  BY <1>1, <1>3 DEF Time, MailboxMove
<1>4. ASSUME NEW w \in Workers,
             Step(w) \/ Close(w) \/ CloseBroker(w) \/ Crash(w) \/ Restart(w)
      PROVE  MailboxMove
  <2>1. CASE Publish(w)
    BY <1>1, <2>1 DEF Publish, PublishEffect, MailboxMove
  <2>2. CASE Dispatch(w) /\ ~Publish(w)
    BY <1>1, <2>2
    DEF Dispatch, ClaimOne, ClaimNothing, ClaimFails, PublishFails,
        AckOutbox, AckFails, ReleaseOutbox, ReleaseFails
  <2>3. CASE Transfer(w)
    BY <1>1, <2>3 DEF Transfer, Pull, PullEmpty, Sink, AckBroker,
                      TransferFails, MailboxMove
  <2>4. CASE Consume(w)
    BY <1>1, <2>4 DEF Consume, Select, SelectNothing, CallbackDone, EndTick,
                      CallbackRejects, ConsumeFails, MailboxMove, Goto
  <2>5. CASE Wake(w) \/ Leave(w) \/ Close(w) \/ CloseBroker(w) \/ Crash(w)
             \/ Restart(w)
    BY <1>1, <2>5 DEF Wake, Leave, Close, CloseBroker, Crash, Restart
  <2> QED
    BY <1>4, <2>1, <2>2, <2>3, <2>4, <2>5 DEF Step
<1> QED
  BY <1>1, <1>2, <1>3, <1>4 DEF Next, Produce

-----------------------------------------------------------------------------
(* The broker: types, and what is stored stays stored.                     *)
SlotsGrow ==
    \A s \in Seqs : stream[s].status # "free" =>
        /\ stream'[s].status # "free"
        /\ stream'[s].event = stream[s].event
        /\ stream'[s].body = stream[s].body

(* What the broker stores stays stored with its event and body, and its    *)
(* slots and duplicate window stay consistent.                             *)
LEMMA BrokerStep ==
    ASSUME Inv, BrokerMove, OutboxMove, RowsGrow
    PROVE  BrokerTypeOK' /\ SlotsOK' /\ WindowOK' /\ SlotsGrow
<1> USE BrokerAssumption, EnvelopeAssumption
<1> DEFINE Goal == BrokerTypeOK' /\ SlotsOK' /\ WindowOK' /\ SlotsGrow
<1>1. BrokerTypeOK /\ SlotsOK /\ WindowOK /\ RowsOK /\ OutboxTypeOK
  BY DEF Inv, TypeOK, IInv
<1>2. \A e \in Events : outbox[e].body # NoBody => outbox'[e].body = outbox[e].body
  BY <1>1 DEF RowsOK, RowsGrow
<1>3. CASE UNCHANGED brokerVars
  BY <1>1, <1>2, <1>3 DEF brokerVars, BrokerTypeOK, SlotsOK, WindowOK, SlotsGrow
<1>4. ASSUME NEW w \in Workers, pc[w] = "publish",
             Store(hold[w].event, hold[w].body)
      PROVE  Goal
  <2>1. /\ hold[w].event \in Events
        /\ hold[w].body \in Bodies
        /\ hold[w].body = outbox[hold[w].event].body
    BY <1>4 DEF Inv, TypeOK, IInv, Held, LeaseHeld, Item
  <2>2. /\ last + 1 \in Seqs
        /\ last' = last + 1
        /\ stream' = [stream EXCEPT ![last + 1] =
                        [event |-> hold[w].event, body |-> hold[w].body,
                         status |-> "new", deliveries |-> 0]]
        /\ window' = [window EXCEPT ![hold[w].event] = last + 1]
    BY <1>1, <1>4 DEF Store, BrokerTypeOK, Seqs
  <2>3. BrokerTypeOK'
    BY <1>1, <2>1, <2>2 DEF BrokerTypeOK, Slot, Seqs
  <2>4. /\ stream[last + 1].status = "free"
        /\ stream'[last + 1] = [event |-> hold[w].event, body |-> hold[w].body,
                                status |-> "new", deliveries |-> 0]
        /\ \A s \in Seqs : s # last + 1 => stream'[s] = stream[s]
    BY <1>1, <2>2 DEF BrokerTypeOK, SlotsOK, Seqs
  <2>5. SlotsGrow
    BY <2>4 DEF SlotsGrow
  <2>6. hold[w].body # NoBody /\ hold[w].body = outbox'[hold[w].event].body
    BY <1>2, <2>1
  <2>7. SlotsOK'
    <3> SUFFICES
          ASSUME NEW s \in Seqs
          PROVE  /\ stream'[s].status = "free" <=> s > last'
                 /\ stream'[s].status = "free" => stream'[s].event = NoEvent
                 /\ stream'[s].status \in {"new", "waiting"} =>
                       stream'[s].deliveries < MaxDeliver
                 /\ stream'[s].status # "free" =>
                       /\ stream'[s].event \in Events
                       /\ stream'[s].body # NoBody
                       /\ stream'[s].body = outbox'[stream'[s].event].body
      BY DEF SlotsOK
    <3>1. CASE s = last + 1
      BY <1>1, <2>1, <2>2, <2>4, <2>6, <3>1 DEF BrokerTypeOK
    <3>2. CASE s # last + 1
      <4>1. stream'[s] = stream[s] /\ (s > last' <=> s > last)
        BY <1>1, <2>2, <2>4, <3>2 DEF BrokerTypeOK, Seqs
      <4> QED
        BY <1>1, <1>2, <4>1 DEF SlotsOK
    <3> QED
      BY <3>1, <3>2
  <2>8. WindowOK'
    BY <1>1, <2>1, <2>2 DEF BrokerTypeOK, WindowOK, Seqs
  <2> QED
    BY <2>3, <2>5, <2>7, <2>8
<1>5. ASSUME NEW s \in Seqs, stream[s].status # "free",
             NEW status \in {"out", "waiting", "spent", "acked"},
             NEW n \in 0..MaxDeliver, status = "waiting" => n < MaxDeliver,
             stream' = [stream EXCEPT ![s] = [@ EXCEPT !.status = status,
                                                       !.deliveries = n]],
             last' = last, window' = window
      PROVE  Goal
  <2>1. /\ [stream[s] EXCEPT !.status = status, !.deliveries = n] \in Slot
        /\ [stream[s] EXCEPT !.status = status, !.deliveries = n].status = status
        /\ [stream[s] EXCEPT !.status = status, !.deliveries = n].event
              = stream[s].event
        /\ [stream[s] EXCEPT !.status = status, !.deliveries = n].body
              = stream[s].body
    BY <1>1 DEF BrokerTypeOK, Slot
  <2>2. BrokerTypeOK'
    BY <1>1, <1>5, <2>1 DEF BrokerTypeOK
  <2>3. SlotsOK' /\ SlotsGrow
    BY <1>1, <1>2, <1>5, <2>1 DEF BrokerTypeOK, SlotsOK, SlotsGrow
  <2>4. WindowOK'
    BY <1>1, <1>5, <2>1 DEF BrokerTypeOK, WindowOK, Seqs
  <2> QED
    BY <2>2, <2>3, <2>4
<1>6. ASSUME NEW s \in Seqs, Deliver(s)
      PROVE  Goal
  <2>1. stream[s] \in Slot /\ stream[s].status \in {"new", "waiting"}
    BY <1>1, <1>6 DEF Deliver, Deliverable, BrokerTypeOK
  <2>2. stream[s].deliveries + 1 \in 0..MaxDeliver
    BY <1>1, <2>1 DEF SlotsOK, Slot
  <2>3. stream' = [stream EXCEPT ![s] =
                     [@ EXCEPT !.status = "out",
                               !.deliveries = stream[s].deliveries + 1]]
    BY <1>6 DEF Deliver
  <2> QED
    BY <1>5, <1>6, <2>1, <2>2, <2>3 DEF Deliver
<1>7. ASSUME NEW s \in Seqs, AckWaitPasses(s)
      PROVE  Goal
  <2>1. stream[s].deliveries \in 0..MaxDeliver /\ stream[s].status = "out"
    BY <1>1, <1>7 DEF AckWaitPasses, BrokerTypeOK, Slot
  <2> DEFINE status == IF stream[s].deliveries >= MaxDeliver
                       THEN "spent" ELSE "waiting"
  <2>2. /\ status \in {"waiting", "spent"}
        /\ status = "waiting" => stream[s].deliveries < MaxDeliver
        /\ stream' = [stream EXCEPT ![s].status = status]
    BY <1>7, <2>1 DEF AckWaitPasses
  <2> HIDE DEF status
  <2>3. stream' = [stream EXCEPT ![s] =
                     [@ EXCEPT !.status = status,
                               !.deliveries = stream[s].deliveries]]
    BY <1>1, <2>2 DEF BrokerTypeOK, Slot
  <2> QED
    BY <1>5, <1>7, <2>1, <2>2, <2>3 DEF AckWaitPasses
<1>8. ASSUME NEW w \in Workers, pc[w] = "brokerAck", Acknowledge(hold[w].ref)
      PROVE  Goal
  <2>1. hold[w].ref \in Seqs /\ stream[hold[w].ref].status # "free"
    BY <1>8 DEF Inv, IInv, Held, MessageHeld
  <2>2. stream[hold[w].ref].deliveries \in 0..MaxDeliver
    BY <1>1, <2>1 DEF BrokerTypeOK, Slot
  <2>3. stream' = [stream EXCEPT ![hold[w].ref] =
                     [@ EXCEPT !.status = "acked",
                               !.deliveries = stream[hold[w].ref].deliveries]]
    BY <1>1, <1>8, <2>1 DEF Acknowledge, BrokerTypeOK, Slot
  <2> QED
    BY <1>5, <1>8, <2>1, <2>2, <2>3 DEF Acknowledge
<1>9. ASSUME NEW e \in Events, WindowPasses(e)
      PROVE  Goal
  <2>1. BrokerTypeOK' /\ WindowOK'
    BY <1>1, <1>9 DEF WindowPasses, BrokerTypeOK, WindowOK
  <2>2. SlotsOK' /\ SlotsGrow
    BY <1>1, <1>2, <1>9 DEF WindowPasses, SlotsOK, SlotsGrow
  <2> QED
    BY <2>1, <2>2
<1> QED
  BY <1>3, <1>4, <1>6, <1>7, <1>8, <1>9 DEF BrokerMove

-----------------------------------------------------------------------------
(* The mailbox: types, and an envelope in it is never replaced.  The row   *)
(* and the receipt a callback works on are its own until it ends.          *)
MailGrows ==
    \A e \in Events : mailbox[e] # NoBody => mailbox'[e] = mailbox[e]

ReceiptsKept ==
    \A w \in Workers : pc[w] = "callback" /\ pc'[w] = "callback" =>
        LET e == hold[w].event
            c == ConsumerOf[w]
        IN  /\ receipts'[e][c].state = receipts[e][c].state
            /\ receipts'[e][c].attempts = receipts[e][c].attempts

MailboxGoal ==
    /\ MailboxTypeOK'
    /\ MailboxOK'
    /\ ReceiptsOK'
    /\ RecordsMatchReceipts'
    /\ MailGrows
    /\ ReceiptsKept

(* The mailbox, its receipts and the audit table stay consistent with each *)
(* other and with the outbox.                                              *)
LEMMA MailboxStep ==
    ASSUME Inv, MailboxMove, OutboxMove, RowsGrow
    PROVE  MailboxGoal
<1> USE EnvelopeAssumption
<1>1. /\ MailboxTypeOK /\ MailboxOK /\ ReceiptsOK /\ RecordsMatchReceipts
      /\ RowsOK
  BY DEF Inv, TypeOK, IInv
<1>2. \A e \in Events : outbox[e].body # NoBody => outbox'[e].body = outbox[e].body
  BY <1>1 DEF RowsOK, RowsGrow
<1>3. \A e \in Events : mailbox[e] # NoBody => mailbox[e] = outbox'[e].body
  BY <1>1, <1>2 DEF MailboxOK
<1>4. CASE UNCHANGED mailboxVars
  BY <1>1, <1>3, <1>4
  DEF mailboxVars, MailboxGoal, MailboxTypeOK, MailboxOK, ReceiptsOK,
      RecordsMatchReceipts, MailGrows, ReceiptsKept
<1>5. ASSUME NEW w \in Workers, pc[w] \in {"publish", "sink"},
             Deposit(hold[w].event, hold[w].body)
      PROVE  MailboxGoal
  <2> DEFINE e == hold[w].event
             b == hold[w].body
  <2>1. e \in Events /\ b \in Bodies /\ b # NoBody /\ b = outbox[e].body
    BY <1>5 DEF Inv, TypeOK, IInv, Held, LeaseHeld, MessageHeld, SlotsOK, Item
  <2>2. /\ mailbox' = [mailbox EXCEPT ![e] = b]
        /\ mailbox[e] \in {NoBody, b}
        /\ receipts' = receipts /\ records' = records /\ applied' = applied
    BY <1>5 DEF Deposit, Accepts
  <2>3. /\ mailbox'[e] = b
        /\ \A x \in Events : x # e => mailbox'[x] = mailbox[x]
    BY <1>1, <2>1, <2>2 DEF MailboxTypeOK
  <2>4. MailboxTypeOK'
    BY <1>1, <2>1, <2>2 DEF MailboxTypeOK
  <2>5. MailGrows /\ ReceiptsKept
    BY <2>2, <2>3 DEF MailGrows, ReceiptsKept
  <2>6. MailboxOK'
    BY <1>2, <1>3, <2>1, <2>3 DEF MailboxOK
  <2>7. ReceiptsOK'
    BY <1>1, <2>1, <2>2, <2>3 DEF ReceiptsOK
  <2>8. RecordsMatchReceipts'
    <3>1. CASE mailbox[e] = b
      BY <1>1, <2>2, <2>3, <3>1 DEF RecordsMatchReceipts
    <3>2. CASE mailbox[e] = NoBody
      <4>1. \A c \in Consumers : receipts[e][c].state # "processed"
        BY <1>1, <2>1, <3>2 DEF ReceiptsOK
      <4> QED
        BY <1>1, <2>1, <2>2, <2>3, <4>1 DEF RecordsMatchReceipts
    <3> QED
      BY <2>2, <3>1, <3>2
  <2> QED
    BY <2>4, <2>5, <2>6, <2>7, <2>8 DEF MailboxGoal
<1>6. ASSUME NEW w \in Workers, pc[w] = "callback",
             \/ Process(hold[w].event, ConsumerOf[w], hold[w].body)
             \/ Reject(hold[w].event, ConsumerOf[w], hold[w].ref),
             pc' = [pc EXCEPT ![w] = "sleep"]
      PROVE  MailboxGoal
  <2> DEFINE e == hold[w].event
             c == ConsumerOf[w]
  <2>1. /\ e \in Events /\ c \in Consumers
        /\ mailbox[e] # NoBody /\ hold[w].body = mailbox[e]
        /\ receipts[e][c] \in Receipt
        /\ receipts[e][c].state = "pending"
        /\ hold[w].ref = receipts[e][c].attempts
        /\ applied[e][c] = 0
        /\ receipts[e][c].attempts \in Nat
        /\ receipts[e][c].attempts + 1 \in 0..MaxAttempts
    BY <1>1, <1>6, WorkerAssumption
    DEF Inv, IInv, Held, RowHeld, ReceiptsOK, MailboxTypeOK, Receipt
  <2>2. mailbox' = mailbox
    BY <1>6 DEF Process, Reject
  <2>3. \A v \in Workers : pc[v] = "callback" /\ pc'[v] = "callback" =>
          /\ hold[v].event \in Events /\ ConsumerOf[v] \in Consumers
          /\ hold[v].event # e
    BY <1>6, WorkerAssumption DEF Inv, TypeOK, IInv, Held, RowHeld, OneHolder
  <2>4. CASE Process(e, c, hold[w].body)
    <3> DEFINE r == [state |-> "processed",
                     attempts |-> receipts[e][c].attempts + 1, ready |-> FALSE]
    <3>1. r \in Receipt /\ receipts' = [receipts EXCEPT ![e][c] = r]
      BY <2>1, <2>4 DEF Process, Receipt
    <3> HIDE DEF r
    <3>2. /\ receipts' \in [Events -> [Consumers -> Receipt]]
          /\ receipts'[e][c] = r
          /\ \A x \in Events, d \in Consumers :
                <<x, d>> # <<e, c>> => receipts'[x][d] = receipts[x][d]
      BY <1>1, <2>1, <3>1 DEF MailboxTypeOK
    <3>3. r.state = "processed"
      BY DEF r
    <3>4. /\ applied' \in [Events -> [Consumers -> Nat]]
          /\ applied'[e][c] = 1
          /\ \A x \in Events, d \in Consumers :
                <<x, d>> # <<e, c>> => applied'[x][d] = applied[x][d]
      BY <1>1, <2>1, <2>4 DEF Process, MailboxTypeOK
    <3>5. /\ records' \in [Events -> Bodies \cup {NoBody}]
          /\ records'[e] = IF mailbox[e] \in Recordable /\ records[e] = NoBody
                           THEN mailbox[e] ELSE records[e]
          /\ \A x \in Events : x # e => records'[x] = records[x]
      BY <1>1, <2>1, <2>4 DEF Process, MailboxTypeOK
    <3>6. MailboxTypeOK' /\ MailboxOK' /\ MailGrows
      BY <1>1, <1>3, <2>2, <3>2, <3>4, <3>5
      DEF MailboxTypeOK, MailboxOK, MailGrows
    <3>7. ReceiptsOK'
      BY <1>1, <2>1, <2>2, <3>2, <3>3, <3>4 DEF ReceiptsOK
    <3>8. RecordsMatchReceipts'
      <4>1. records'[e] = IF mailbox[e] \in Recordable
                          THEN mailbox[e] ELSE NoBody
        BY <1>1, <2>1, <3>5 DEF RecordsMatchReceipts
      <4>2. \E d \in Consumers : receipts'[e][d].state = "processed"
        BY <2>1, <3>2, <3>3
      <4>3. \A x \in Events : x # e =>
              \A d \in Consumers : receipts'[x][d] = receipts[x][d]
        BY <3>2
      <4> QED
        BY <1>1, <2>1, <2>2, <3>5, <4>1, <4>2, <4>3 DEF RecordsMatchReceipts
    <3>9. ReceiptsKept
      BY <2>3, <3>2 DEF ReceiptsKept
    <3> QED
      BY <3>6, <3>7, <3>8, <3>9 DEF MailboxGoal
  <2>5. CASE Reject(e, c, hold[w].ref)
    <3> DEFINE r == [state |-> IF hold[w].ref + 1 >= MaxAttempts
                               THEN "dead" ELSE "pending",
                     attempts |-> receipts[e][c].attempts + 1, ready |-> FALSE]
    <3>1. r \in Receipt /\ receipts' = [receipts EXCEPT ![e][c] = r]
      BY <2>1, <2>5 DEF Reject, Receipt
    <3>2. r.state # "processed" /\ (r.state = "pending" => r.attempts < MaxAttempts)
      BY <2>1
    <3> HIDE DEF r
    <3>3. /\ receipts' \in [Events -> [Consumers -> Receipt]]
          /\ receipts'[e][c] = r
          /\ \A x \in Events, d \in Consumers :
                <<x, d>> # <<e, c>> => receipts'[x][d] = receipts[x][d]
      BY <1>1, <2>1, <3>1 DEF MailboxTypeOK
    <3>4. records' = records /\ applied' = applied
      BY <2>5 DEF Reject
    <3>5. MailboxTypeOK' /\ MailboxOK' /\ MailGrows
      BY <1>1, <1>3, <2>2, <3>3, <3>4 DEF MailboxTypeOK, MailboxOK, MailGrows
    <3>6. ReceiptsOK'
      BY <1>1, <2>1, <2>2, <3>2, <3>3, <3>4 DEF ReceiptsOK
    <3>7. \A x \in Events, d \in Consumers :
            receipts'[x][d].state = "processed" <=> receipts[x][d].state = "processed"
      BY <2>1, <3>2, <3>3
    <3>8. RecordsMatchReceipts'
      BY <1>1, <2>2, <3>4, <3>7 DEF RecordsMatchReceipts
    <3>9. ReceiptsKept
      BY <2>3, <3>3 DEF ReceiptsKept
    <3> QED
      BY <3>5, <3>6, <3>8, <3>9 DEF MailboxGoal
  <2> QED
    BY <1>6, <2>4, <2>5
<1>7. ASSUME NEW e \in Events, NEW c \in Consumers, ReceiptDue(e, c)
      PROVE  MailboxGoal
  <2> DEFINE r == [receipts[e][c] EXCEPT !.ready = TRUE]
  <2>1. /\ receipts[e][c] \in Receipt
        /\ mailbox' = mailbox /\ records' = records /\ applied' = applied
    BY <1>1, <1>7 DEF ReceiptDue, MailboxTypeOK
  <2>2. /\ r \in Receipt
        /\ r.state = receipts[e][c].state
        /\ r.attempts = receipts[e][c].attempts
        /\ receipts' = [receipts EXCEPT ![e][c] = r]
    BY <1>1, <1>7, <2>1 DEF ReceiptDue, Receipt, MailboxTypeOK
  <2> HIDE DEF r
  <2>3. /\ receipts' \in [Events -> [Consumers -> Receipt]]
        /\ receipts'[e][c] = r
        /\ \A x \in Events, d \in Consumers :
              <<x, d>> # <<e, c>> => receipts'[x][d] = receipts[x][d]
    BY <1>1, <2>2 DEF MailboxTypeOK
  <2>4. \A x \in Events, d \in Consumers :
          /\ receipts'[x][d].state = receipts[x][d].state
          /\ receipts'[x][d].attempts = receipts[x][d].attempts
    BY <2>2, <2>3
  <2>5. MailboxTypeOK' /\ MailboxOK' /\ MailGrows
    BY <1>1, <1>3, <2>1, <2>3 DEF MailboxTypeOK, MailboxOK, MailGrows
  <2>6. ReceiptsOK' /\ RecordsMatchReceipts'
    BY <1>1, <2>1, <2>4 DEF ReceiptsOK, RecordsMatchReceipts
  <2>7. ReceiptsKept
    BY <2>4, WorkerAssumption DEF ReceiptsKept, Inv, IInv, Held, RowHeld
  <2> QED
    BY <2>5, <2>6, <2>7 DEF MailboxGoal
<1> QED
  BY <1>4, <1>5, <1>6, <1>7 DEF MailboxMove

-----------------------------------------------------------------------------
(* The workers: each stage is entered with what it relies on, and keeps it *)
(* while the others go on.                                                 *)
Grows ==
    /\ RowsGrow /\ OutboxTypeOK' /\ nextToken' >= nextToken
    /\ SlotsGrow
    /\ MailGrows
    /\ ReceiptsKept

(* What the transport once stored it keeps.                                *)
LEMMA DurableGrows ==
    ASSUME Inv, Grows, NEW e \in Events, NEW b, b # NoBody, Durable(e, b)
    PROVE  Durable(e, b)'
  BY EnvelopeAssumption
  DEF Durable, Grows, SlotsGrow, MailGrows, Inv, IInv, SlotsOK

(* What a worker relies on is not broken by a step of another one.         *)
LEMMA HeldKept ==
    ASSUME Inv, Grows, NEW w \in Workers, pc'[w] = pc[w], hold'[w] = hold[w]
    PROVE  Held(w)'
<1>1. Held(w) /\ RowsOK /\ SlotsOK /\ OutboxTypeOK /\ hold[w] \in Item
  BY DEF Inv, IInv, TypeOK
<1>2. LeaseHeld(w)'
  <2>1. nextToken \in Nat /\ nextToken' \in Nat /\ nextToken' >= nextToken
    BY <1>1 DEF Grows, OutboxTypeOK
  <2>2. \A e \in Events : outbox[e].body # NoBody =>
                             outbox'[e].body = outbox[e].body
    BY <1>1 DEF Grows, RowsGrow, RowsOK
  <2> QED
    BY <1>1, <2>1, <2>2 DEF Held, LeaseHeld
<1>3. MessageHeld(w)'
  BY <1>1 DEF Held, MessageHeld, Grows, SlotsGrow
<1>4. RowHeld(w)'
  BY <1>1 DEF Held, RowHeld, Grows, MailGrows, ReceiptsKept
<1>5. ReceiptEarned(w)'
  <2>1. CASE pc[w] = "ack"
    <3>1. Durable(hold[w].event, hold[w].body)'
      BY <1>1, <2>1, DurableGrows DEF Held, LeaseHeld, ReceiptEarned
    <3> QED
      BY <2>1, <3>1 DEF ReceiptEarned, Durable
  <2>2. CASE pc[w] = "brokerAck"
    BY <1>1, <2>2
    DEF Held, MessageHeld, SlotsOK, ReceiptEarned, Grows, MailGrows
  <2> QED
    BY <2>1, <2>2 DEF ReceiptEarned
<1> QED
  BY <1>2, <1>3, <1>4, <1>5 DEF Held

(* The stages that hold nothing.                                           *)
Idle == {"tick", "transfer", "consume", "sleep", "stopped", "down"}

WorkerMove(w) ==
    \E stage \in Stages, item \in Item :
        /\ pc' = [pc EXCEPT ![w] = stage]
        /\ hold' = [hold EXCEPT ![w] = item]
        /\ Held(w)'
        /\ stage = "callback" => ~Locked(item.event)

(* A stage that holds nothing relies on nothing.                           *)
LEMMA IdleMove ==
    ASSUME Inv, NEW w \in Workers, NEW stage \in Idle,
           pc' = [pc EXCEPT ![w] = stage], hold' = [hold EXCEPT ![w] = NoItem]
    PROVE  WorkerMove(w)
<1>1. pc'[w] = stage
  BY DEF Inv, TypeOK
<1>2. NoItem \in Item /\ stage \in Stages
  BY DEF NoItem, Item, Idle, Stages
<1>3. Held(w)'
  BY <1>1 DEF Held, LeaseHeld, MessageHeld, RowHeld, ReceiptEarned, Idle
<1> QED
  BY <1>2, <1>3 DEF WorkerMove, Idle

(* Claim, publish, ack and release take a worker to a stage that may rely  *)
(* on what it then holds.                                                  *)
LEMMA DispatchMove ==
    ASSUME Inv, Inv => Grows, NEW w \in Workers, Dispatch(w)
    PROVE  WorkerMove(w)
<1> USE DEF Inv, TypeOK, EndTick, Goto
<1>1. ASSUME NEW e \in Events, ClaimOne(w, e)
      PROVE  WorkerMove(w)
  <2>1. CASE EndTick(w)
    BY <2>1, IdleMove DEF Idle
  <2> DEFINE item == [event |-> e, body |-> outbox[e].body, ref |-> nextToken]
  <2>2. CASE Goto(w, "publish", item)
    <3>1. /\ pc' = [pc EXCEPT ![w] = "publish"] /\ pc'[w] = "publish"
          /\ hold' = [hold EXCEPT ![w] = item] /\ hold'[w] = item
      BY <2>2
    <3>2. outbox[e].state = "pending" /\ nextToken' = nextToken + 1
      BY <1>1 DEF ClaimOne, Claim, Claimable
    <3>3. outbox[e].body # NoBody /\ outbox'[e].body = outbox[e].body
      BY <3>2 DEF IInv, RowsOK, Grows, RowsGrow
    <3>4. item \in Item /\ nextToken \in Nat \ {0}
      BY DEF Item, OutboxTypeOK, Row
    <3>5. nextToken \in 1..(nextToken' - 1)
      BY <3>2, <3>4
    <3>6. Held(w)'
      BY <3>1, <3>3, <3>5
      DEF Held, LeaseHeld, MessageHeld, RowHeld, ReceiptEarned
    <3> QED
      BY <3>1, <3>4, <3>6 DEF WorkerMove, Stages
  <2> QED
    BY <1>1, <2>1, <2>2 DEF ClaimOne
<1>2. CASE ClaimNothing(w) \/ AckOutbox(w)
  BY <1>2, IdleMove DEF ClaimNothing, AckOutbox, AfterDispatch, Idle
<1>3. CASE ClaimFails(w) \/ AckFails(w) \/ ReleaseOutbox(w) \/ ReleaseFails(w)
  BY <1>3, IdleMove DEF ClaimFails, AckFails, ReleaseOutbox, ReleaseFails, Idle
<1>4. ASSUME NEW stage \in {"ack", "release"}, pc[w] = "publish",
             Goto(w, stage, hold[w]),
             stage = "ack" => Durable(hold[w].event, hold[w].body)'
      PROVE  WorkerMove(w)
  <2>1. /\ pc' = [pc EXCEPT ![w] = stage] /\ pc'[w] = stage
        /\ hold' = [hold EXCEPT ![w] = hold[w]] /\ hold'[w] = hold[w]
    BY <1>4
  <2>2. hold[w] \in Item /\ Held(w) /\ RowsOK /\ nextToken \in Nat \ {0}
    BY DEF IInv, OutboxTypeOK
  <2>3. LeaseHeld(w)'
    <3>1. nextToken' \in Nat /\ nextToken' >= nextToken
      BY DEF Grows, OutboxTypeOK
    <3>2. \A e \in Events : outbox[e].body # NoBody =>
                               outbox'[e].body = outbox[e].body
      BY <2>2 DEF Grows, RowsGrow, RowsOK
    <3> QED
      BY <1>4, <2>1, <2>2, <3>1, <3>2 DEF Held, LeaseHeld
  <2>4. Held(w)'
    BY <1>4, <2>1, <2>3 DEF Held, MessageHeld, RowHeld, ReceiptEarned, Durable
  <2> QED
    BY <2>1, <2>2, <2>4 DEF WorkerMove, Stages
<1>5. CASE Publish(w)
  <2> DEFINE e == hold[w].event
             b == hold[w].body
  <2>1. e \in Events /\ b \in Bodies /\ b # NoBody /\ pc[w] = "publish"
    BY <1>5 DEF Publish, IInv, Held, LeaseHeld, Item
  <2>2. hold'[w].event = e /\ hold'[w].body = b
    BY <1>5 DEF Publish
  <2>3. Durable(e, b)'
    <3>1. CASE ~HasBroker
      BY <1>5, <2>1, <2>2, <3>1
      DEF Publish, PublishEffect, Deposit, Durable, MailboxTypeOK
    <3>2. CASE HasBroker /\ Store(e, b)
      <4>1. last + 1 \in Seqs
        BY <3>2, BrokerAssumption DEF Store, Seqs, BrokerTypeOK
      <4>2. stream'[last + 1].event = e /\ stream'[last + 1].body = b
        BY <3>2, <4>1 DEF Store, BrokerTypeOK
      <4> QED
        BY <2>2, <3>2, <4>1, <4>2 DEF Durable
    <3>3. CASE HasBroker /\ Duplicate(e, b)
      <4>1. /\ window[e] \in Seqs
            /\ stream'[window[e]].event = e
            /\ stream'[window[e]].body = b
        BY <2>1, <3>3, BrokerAssumption
        DEF Duplicate, brokerVars, IInv, WindowOK, BrokerTypeOK, Seqs
      <4> QED
        BY <2>2, <3>3, <4>1 DEF Durable
    <3> QED
      BY <1>5, <3>1, <3>2, <3>3 DEF Publish, PublishEffect
  <2> QED
    BY <1>4, <1>5, <2>1, <2>3 DEF Publish
<1>6. CASE PublishFails(w)
  BY <1>4, <1>6 DEF PublishFails
<1> QED
  BY <1>1, <1>2, <1>3, <1>5, <1>6 DEF Dispatch

(* So do pull, the sink and +ACK.                                          *)
LEMMA TransferMove ==
    ASSUME Inv, Grows, NEW w \in Workers, Transfer(w)
    PROVE  WorkerMove(w)
<1> USE DEF Inv, TypeOK, EndTick, Goto
<1>1. ASSUME NEW s \in Seqs, Pull(w, s)
      PROVE  WorkerMove(w)
  <2>1. CASE EndTick(w)
    BY <2>1, IdleMove DEF Idle
  <2> DEFINE item == [event |-> stream[s].event, body |-> stream[s].body,
                      ref |-> s]
  <2>2. CASE Goto(w, "sink", item)
    <3>1. /\ pc' = [pc EXCEPT ![w] = "sink"] /\ pc'[w] = "sink"
          /\ hold' = [hold EXCEPT ![w] = item] /\ hold'[w] = item
      BY <2>2
    <3>2. stream[s].status # "free" /\ stream[s] \in Slot
      BY <1>1 DEF Pull, Deliver, Deliverable, BrokerTypeOK
    <3>3. /\ stream'[s].status # "free"
          /\ stream'[s].event = stream[s].event
          /\ stream'[s].body = stream[s].body
      BY <3>2 DEF Grows, SlotsGrow
    <3>4. item \in Item
      BY <3>2, BrokerAssumption DEF Item, Slot, Seqs
    <3>5. Held(w)'
      BY <3>1, <3>3 DEF Held, LeaseHeld, MessageHeld, RowHeld, ReceiptEarned
    <3> QED
      BY <3>1, <3>4, <3>5 DEF WorkerMove, Stages
  <2> QED
    BY <1>1, <2>1, <2>2 DEF Pull
<1>2. CASE PullEmpty(w) \/ AckBroker(w) \/ TransferFails(w)
  BY <1>2, IdleMove DEF PullEmpty, AckBroker, TransferFails, Idle
<1>3. CASE Sink(w)
  <2>1. CASE EndTick(w)
    BY <2>1, IdleMove DEF Idle
  <2>2. CASE Goto(w, "brokerAck", hold[w])
    <3>1. /\ pc' = [pc EXCEPT ![w] = "brokerAck"] /\ pc'[w] = "brokerAck"
          /\ hold' = [hold EXCEPT ![w] = hold[w]] /\ hold'[w] = hold[w]
          /\ pc[w] = "sink" /\ hold[w] \in Item
      BY <1>3, <2>2 DEF Sink
    <3>2. MessageHeld(w)'
      BY <3>1 DEF IInv, Held, MessageHeld, Grows, SlotsGrow
    <3>3. hold[w].event \in Events
      BY <3>1 DEF IInv, Held, MessageHeld, SlotsOK
    <3>4. mailbox'[hold[w].event] = hold[w].body
      BY <1>3, <3>3 DEF Sink, Deposit, MailboxTypeOK
    <3>5. Held(w)'
      BY <3>1, <3>2, <3>4 DEF Held, LeaseHeld, RowHeld, ReceiptEarned
    <3> QED
      BY <3>1, <3>5 DEF WorkerMove, Stages
  <2> QED
    BY <1>3, <2>1, <2>2 DEF Sink
<1> QED
  BY <1>1, <1>2, <1>3 DEF Transfer

(* So do the SELECT of consume, the callback and its failures.             *)
LEMMA ConsumeMove ==
    ASSUME Inv, Grows, NEW w \in Workers, Consume(w)
    PROVE  WorkerMove(w)
<1> USE DEF Inv, TypeOK, EndTick, Goto
<1>1. ASSUME NEW e \in Events, Select(w, e)
      PROVE  WorkerMove(w)
  <2> DEFINE item == [event |-> e, body |-> mailbox[e],
                      ref |-> receipts[e][ConsumerOf[w]].attempts]
  <2>1. /\ pc' = [pc EXCEPT ![w] = "callback"] /\ pc'[w] = "callback"
        /\ hold' = [hold EXCEPT ![w] = item] /\ hold'[w] = item
        /\ mailbox' = mailbox /\ receipts' = receipts
    BY <1>1 DEF Select, mailboxVars
  <2>2. /\ mailbox[e] # NoBody
        /\ receipts[e][ConsumerOf[w]].state = "pending"
        /\ ~Locked(e)
    BY <1>1 DEF Select, Consumable
  <2>3. item \in Item
    <3>1. receipts[e][ConsumerOf[w]] \in Receipt
      BY WorkerAssumption DEF MailboxTypeOK
    <3>2. receipts[e][ConsumerOf[w]].attempts \in Nat
      BY <3>1, EnvelopeAssumption DEF Receipt
    <3> QED
      BY <3>2 DEF Item, MailboxTypeOK
  <2>4. Held(w)'
    BY <2>1, <2>2 DEF Held, LeaseHeld, MessageHeld, RowHeld, ReceiptEarned
  <2> QED
    BY <2>1, <2>2, <2>3, <2>4 DEF WorkerMove, Stages
<1>2. CASE SelectNothing(w) \/ CallbackDone(w)
  BY <1>2, IdleMove DEF SelectNothing, CallbackDone, Idle
<1>3. CASE CallbackRejects(w) \/ ConsumeFails(w)
  BY <1>3, IdleMove DEF CallbackRejects, ConsumeFails, Idle
<1> QED
  BY <1>1, <1>2, <1>3 DEF Consume

(* Crash and restart leave a worker that holds nothing.                    *)
LEMMA CrashMove ==
    ASSUME Inv, NEW w \in Workers, Crash(w) \/ Restart(w)
    PROVE  WorkerMove(w)
<1> USE DEF Inv, TypeOK
<1>1. CASE Crash(w)
  BY <1>1, IdleMove DEF Crash, Idle
<1>2. CASE Restart(w)
  <2>1. pc'[w] = "tick" /\ hold' = [hold EXCEPT ![w] = hold[w]]
    BY <1>2 DEF Restart
  <2>2. Held(w)'
    BY <2>1 DEF Held, LeaseHeld, MessageHeld, RowHeld, ReceiptEarned
  <2> QED
    BY <1>2, <2>1, <2>2 DEF Restart, WorkerMove, Stages
<1> QED
  BY <1>1, <1>2

(* In every step at most one worker moves, and to such a stage.            *)
LEMMA WorkerMoves ==
    ASSUME Inv, Grows, [Next]_vars
    PROVE  UNCHANGED <<pc, hold>> \/ \E w \in Workers : WorkerMove(w)
<1>1. ASSUME NEW w \in Workers,
             Step(w) \/ Close(w) \/ CloseBroker(w) \/ Crash(w) \/ Restart(w)
      PROVE  UNCHANGED <<pc, hold>> \/ WorkerMove(w)
  <2>1. CASE Dispatch(w) \/ Transfer(w) \/ Consume(w)
    BY <2>1, DispatchMove, TransferMove, ConsumeMove
  <2>2. CASE Wake(w) \/ Leave(w)
    BY <2>2, IdleMove DEF Wake, Leave, Goto, Idle
  <2>3. CASE Close(w) \/ CloseBroker(w)
    BY <2>3 DEF Close, CloseBroker
  <2>4. CASE Crash(w) \/ Restart(w)
    BY <2>4, CrashMove
  <2> QED
    BY <1>1, <2>1, <2>2, <2>3, <2>4 DEF Step
<1>2. CASE UNCHANGED vars
  BY <1>2 DEF vars, workerVars
<1>3. CASE Time
  BY <1>3 DEF Time, workerVars
<1>4. ASSUME NEW e \in Events, NEW b \in Bodies, Produce(e, b)
      PROVE  UNCHANGED <<pc, hold>>
  BY <1>4 DEF Produce, workerVars
<1> QED
  BY <1>1, <1>2, <1>3, <1>4 DEF Next

(* stop and closed only ever take Boolean values.                          *)
LEMMA SignalTypes ==
    ASSUME Inv, [Next]_vars
    PROVE  stop' \in [Workers -> BOOLEAN] /\ closed' \in [Workers -> BOOLEAN]
<1> USE DEF Inv, TypeOK
<1>1. CASE UNCHANGED <<stop, closed>>
  BY <1>1
<1>2. ASSUME NEW w \in Workers,
             Step(w) \/ Close(w) \/ CloseBroker(w) \/ Crash(w) \/ Restart(w)
      PROVE  stop' \in [Workers -> BOOLEAN] /\ closed' \in [Workers -> BOOLEAN]
  <2>1. CASE Dispatch(w)
    BY <1>1, <2>1
    DEF Dispatch, ClaimOne, ClaimNothing, ClaimFails, Publish, PublishFails,
        AckOutbox, AckFails, ReleaseOutbox, ReleaseFails, EndTick, Goto
  <2>2. CASE Transfer(w)
    BY <1>1, <2>2 DEF Transfer, Pull, PullEmpty, Sink, AckBroker,
                      TransferFails, EndTick, Goto
  <2>3. CASE Consume(w)
    BY <1>1, <2>3 DEF Consume, Select, SelectNothing, CallbackDone,
                      CallbackRejects, ConsumeFails, EndTick, Goto
  <2>4. CASE Wake(w) \/ Leave(w)
    BY <1>1, <2>4 DEF Wake, Leave, Goto
  <2>5. CASE Close(w) \/ CloseBroker(w) \/ Crash(w) \/ Restart(w)
    BY <2>5 DEF Close, CloseBroker, Crash, Restart
  <2> QED
    BY <1>2, <2>1, <2>2, <2>3, <2>4, <2>5 DEF Step
<1>3. CASE UNCHANGED vars \/ Time
  BY <1>1, <1>3 DEF vars, workerVars, Time
<1> QED
  BY <1>1, <1>2, <1>3 DEF Next, Produce, workerVars

-----------------------------------------------------------------------------
(* All of it together is inductive.                                        *)
LEMMA InvStep ==
    ASSUME Inv, [Next]_vars
    PROVE  Inv'
<1>1. OutboxMove /\ BrokerMove /\ MailboxMove
  BY OutboxMoves, BrokerMoves, MailboxMoves
<1>2. OutboxTypeOK' /\ RowsOK' /\ RowsGrow /\ nextToken' >= nextToken
  BY <1>1, OutboxTypeStep, RowsStep, RowsGrowStep
  DEF OutboxMove, Inv, TypeOK, IInv
<1>3. BrokerTypeOK' /\ SlotsOK' /\ WindowOK' /\ SlotsGrow
  BY <1>1, <1>2, BrokerStep
<1>4. MailboxGoal
  BY <1>1, <1>2, MailboxStep
<1>5. Grows
  BY <1>2, <1>3, <1>4 DEF Grows, MailboxGoal
<1>6. UNCHANGED <<pc, hold>> \/ \E w \in Workers : WorkerMove(w)
  BY <1>5, WorkerMoves
<1>7. pc' \in [Workers -> Stages] /\ hold' \in [Workers -> Item]
  BY <1>6 DEF WorkerMove, Inv, TypeOK
<1>8. TypeOK'
  BY <1>2, <1>3, <1>4, <1>7, SignalTypes DEF TypeOK, MailboxGoal
<1>9. \A w \in Workers : Held(w)'
  <2>1. CASE UNCHANGED <<pc, hold>>
    BY <1>5, <2>1, HeldKept
  <2>2. ASSUME NEW w \in Workers, WorkerMove(w), NEW v \in Workers
        PROVE  Held(v)'
    <3>1. CASE v = w
      BY <2>2, <3>1 DEF WorkerMove
    <3>2. CASE v # w
      <4>1. pc'[v] = pc[v] /\ hold'[v] = hold[v]
        BY <2>2, <3>2 DEF WorkerMove, Inv, TypeOK
      <4> QED
        BY <1>5, <4>1, HeldKept
    <3> QED
      BY <3>1, <3>2
  <2> QED
    BY <1>6, <2>1, <2>2
<1>10. OneHolder'
  <2>1. OneHolder
    BY DEF Inv, IInv
  <2>2. CASE UNCHANGED <<pc, hold>>
    BY <2>1, <2>2 DEF OneHolder
  <2>3. ASSUME NEW w \in Workers, WorkerMove(w)
        PROVE  OneHolder'
    BY <2>1, <2>3 DEF OneHolder, WorkerMove, Locked, Inv, TypeOK
  <2> QED
    BY <1>6, <2>2, <2>3
<1>11. SentIsDurable'
  <2> SUFFICES ASSUME NEW e \in Events, outbox'[e].state = "sent"
               PROVE  Durable(e, outbox[e].body)'
    BY DEF SentIsDurable
  <2>1. Durable(e, outbox[e].body) /\ outbox[e].state # "absent"
    <3>1. CASE outbox[e].state = "sent"
      BY <3>1 DEF Inv, IInv, SentIsDurable
    <3>2. CASE outbox[e].state # "sent"
      <4>1. PICK w \in Workers : pc[w] = "ack" /\ hold[w].event = e
        BY <1>1, <3>2 DEF OutboxMove
      <4>2. /\ Durable(e, hold[w].body)
            /\ hold[w].body = outbox[e].body /\ hold[w].body # NoBody
        BY <4>1 DEF Inv, IInv, Held, ReceiptEarned, LeaseHeld
      <4> QED
        BY <4>2 DEF Inv, IInv, RowsOK
    <3> QED
      BY <3>1, <3>2
  <2>2. outbox[e].body # NoBody /\ outbox'[e].body = outbox[e].body
    BY <1>2, <2>1 DEF RowsGrow, Inv, IInv, RowsOK
  <2>3. ASSUME NEW b, b = outbox[e].body
        PROVE  Durable(e, b)'
    BY <1>5, <2>1, <2>2, <2>3, DurableGrows
  <2> QED
    BY <2>2, <2>3 DEF Durable
<1>12. AckedIsInMailbox'
  <2> SUFFICES ASSUME NEW s \in Seqs, stream'[s].status = "acked"
               PROVE  mailbox'[stream'[s].event] = stream'[s].body
    BY DEF AckedIsInMailbox
  <2>1. /\ stream[s].status # "free"
        /\ mailbox[stream[s].event] = stream[s].body
    <3>1. CASE stream[s].status = "acked"
      BY <3>1 DEF Inv, IInv, AckedIsInMailbox
    <3>2. CASE stream[s].status # "acked"
      <4>1. \E w \in Workers : pc[w] = "brokerAck" /\ hold[w].ref = s
        <5>1. stream \in [Seqs -> Slot] /\ last \in 0..StreamMax
          BY DEF Inv, TypeOK, BrokerTypeOK
        <5>2. ASSUME UNCHANGED brokerVars \/ \E e \in Events : WindowPasses(e)
              PROVE  FALSE
          BY <3>2, <5>2 DEF brokerVars, WindowPasses
        <5>3. ASSUME NEW e, NEW b, Store(e, b)
              PROVE  FALSE
          BY <3>2, <5>1, <5>3 DEF Store
        <5>4. ASSUME NEW r \in Seqs, Deliver(r) \/ AckWaitPasses(r)
              PROVE  FALSE
          <6>1. PICK t \in {"out", "spent", "waiting"} : stream'[r].status = t
            BY <5>1, <5>4 DEF Deliver, AckWaitPasses, Slot
          <6>2. r # s => stream'[s] = stream[s]
            BY <5>1, <5>4 DEF Deliver, AckWaitPasses
          <6> QED
            BY <3>2, <6>1, <6>2
        <5>5. ASSUME NEW w \in Workers, Acknowledge(hold[w].ref)
              PROVE  hold[w].ref = s
          BY <3>2, <5>1, <5>5 DEF Acknowledge
        <5> QED
          BY <1>1, <5>2, <5>3, <5>4, <5>5 DEF BrokerMove
      <4> QED
        BY <4>1 DEF Inv, IInv, Held, MessageHeld, ReceiptEarned
    <3> QED
      BY <3>1, <3>2
  <2>2. /\ stream[s].event \in Events /\ stream[s].body # NoBody
        /\ stream'[s].event = stream[s].event
        /\ stream'[s].body = stream[s].body
    BY <1>3, <2>1 DEF SlotsGrow, Inv, IInv, SlotsOK
  <2> QED
    BY <1>4, <2>1, <2>2 DEF MailboxGoal, MailGrows
<1> QED
  BY <1>2, <1>3, <1>4, <1>8, <1>9, <1>10, <1>11, <1>12
  DEF Inv, IInv, MailboxGoal

(* The invariant holds in the empty system.                                *)
LEMMA InvInit == Init => Inv
<1> SUFFICES ASSUME Init
             PROVE  Inv
  OBVIOUS
<1> USE EnvelopeAssumption, BrokerAssumption, WorkerAssumption
    DEF Init, OutboxInit, MailboxInit, BrokerInit
<1>1. OutboxTypeOK /\ RowsOK
  BY DEF OutboxTypeOK, RowsOK, Row, AbsentRow, NoLease
<1>2. MailboxTypeOK /\ MailboxOK /\ ReceiptsOK /\ RecordsMatchReceipts
  BY DEF MailboxTypeOK, MailboxOK, ReceiptsOK, RecordsMatchReceipts,
         Receipt, NewReceipt
<1>3. BrokerTypeOK /\ SlotsOK /\ WindowOK /\ AckedIsInMailbox
  BY DEF BrokerTypeOK, SlotsOK, WindowOK, AckedIsInMailbox, Slot, FreeSlot, Seqs
<1>4. TypeOK
  BY <1>1, <1>2, <1>3 DEF TypeOK, Stages, Item, NoItem
<1>5. \A w \in Workers : Held(w)
  BY DEF Held, LeaseHeld, MessageHeld, RowHeld, ReceiptEarned
<1>6. OneHolder /\ SentIsDurable
  BY DEF OneHolder, SentIsDurable, AbsentRow
<1> QED
  BY <1>1, <1>2, <1>3, <1>4, <1>5, <1>6 DEF Inv, IInv

-----------------------------------------------------------------------------
(* The invariant, for any constants.                                       *)
THEOREM Invariance == Spec => []Inv
<1>1. Inv /\ [Next]_vars => Inv'
  BY InvStep
<1> QED
  BY InvInit, <1>1, PTL DEF Spec

(* Attempts and deliveries stay within their limits, stages and columns    *)
(* take the values the code gives them.                                    *)
THEOREM TypesHold == Spec => []TypeOK
<1>1. Inv => TypeOK
  BY DEF Inv
<1> QED
  BY Invariance, <1>1, PTL

(* What dispatch marks sent is stored by the transport, with the envelope  *)
(* that was committed, whatever is lost, repeated or interrupted.          *)
THEOREM SentIsDurableHolds == Spec => []SentIsDurable
<1>1. Inv => SentIsDurable
  BY DEF Inv, IInv
<1> QED
  BY Invariance, <1>1, PTL

(* transfer never acknowledges what the mailbox does not hold.             *)
THEOREM AckedIsInMailboxHolds == Spec => []AckedIsInMailbox
<1>1. Inv => AckedIsInMailbox
  BY DEF Inv, IInv
<1> QED
  BY Invariance, <1>1, PTL

(* Audit records and processed receipts appear together.                   *)
THEOREM RecordsMatchReceiptsHolds == Spec => []RecordsMatchReceipts
<1>1. Inv => RecordsMatchReceipts
  BY DEF Inv, IInv
<1> QED
  BY Invariance, <1>1, PTL

-----------------------------------------------------------------------------
(* While a lease has not expired nobody but its holder changes the row.    *)
THEOREM LeaseProtectsHolds == Spec => LeaseProtects
<1> DEFINE Protected ==
      \A e \in Events :
        (outbox[e].live /\ outbox'[e] # [outbox[e] EXCEPT !.live = FALSE]
                       /\ outbox'[e] # [outbox[e] EXCEPT !.ready = TRUE]
                       /\ outbox'[e] # outbox[e])
        => \E w \in Workers :
              /\ pc[w] \in {"ack", "release"}
              /\ hold[w].event = e
              /\ hold[w].ref = outbox[e].lease
<1>1. ASSUME Inv, Next
      PROVE  Protected
  <2>1. ASSUME \/ UNCHANGED outboxVars
               \/ \E e \in Events, b \in Bodies : Enqueue(e, b)
               \/ \E e \in Events : Claim(e)
               \/ ClaimNone
               \/ \E e \in Events : LeaseExpires(e) \/ RetryDue(e)
        PROVE  Protected
    <3>1. OutboxTypeOK /\ RowsOK
      BY <1>1 DEF Inv, TypeOK, IInv
    <3>2. LeaseLapses
      BY <2>1, <3>1, LeaseLapsesStep
    <3> QED
      BY <3>2 DEF LeaseLapses
  <2>2. ASSUME NEW w \in Workers, AckOutbox(w) \/ ReleaseOutbox(w)
        PROVE  Protected
    <3> DEFINE e == hold[w].event
    <3>1. outbox \in [Events -> Row]
      BY <1>1 DEF Inv, TypeOK, OutboxTypeOK
    <3>2. pc[w] \in {"ack", "release"} /\ hold[w].ref = outbox[e].lease
      BY <2>2 DEF AckOutbox, ReleaseOutbox, Ack, Release, Owns
    <3>3. \A x \in Events : x # e => outbox'[x] = outbox[x]
      <4>1. CASE Ack(e, hold[w].ref)
        BY <3>1, <4>1 DEF Ack
      <4>2. CASE Release(e, hold[w].ref)
        BY <3>1, <4>2 DEF Release
      <4> QED
        BY <2>2, <4>1, <4>2 DEF AckOutbox, ReleaseOutbox
    <3> QED
      BY <3>2, <3>3
  <2>3. ASSUME NEW w \in Workers,
               Step(w) \/ Close(w) \/ CloseBroker(w) \/ Crash(w) \/ Restart(w)
        PROVE  Protected
    <3>1. CASE Dispatch(w)
      BY <2>1, <2>2, <3>1
      DEF Dispatch, ClaimOne, ClaimNothing, ClaimFails, Publish, PublishFails,
          AckFails, ReleaseFails
    <3>2. CASE Transfer(w)
      BY <2>1, <3>2 DEF Transfer, Pull, PullEmpty, Sink, AckBroker,
                        TransferFails
    <3>3. CASE Consume(w)
      BY <2>1, <3>3 DEF Consume, Select, SelectNothing, CallbackDone,
                        CallbackRejects, ConsumeFails
    <3>4. CASE Wake(w) \/ Leave(w) \/ Close(w) \/ CloseBroker(w) \/ Crash(w)
               \/ Restart(w)
      BY <2>1, <3>4 DEF Wake, Leave, Close, CloseBroker, Crash, Restart
    <3> QED
      BY <2>3, <3>1, <3>2, <3>3, <3>4 DEF Step
  <2>4. CASE Time
    BY <2>1, <2>4 DEF Time
  <2> QED
    BY <1>1, <2>1, <2>3, <2>4 DEF Next, Produce
<1>2. Inv /\ [Next]_vars => [Protected]_vars
  BY <1>1
<1> QED
  BY Invariance, <1>2, PTL DEF Spec, LeaseProtects

-----------------------------------------------------------------------------
(* Delivery implements EventPromise: no consumer handles an event twice,   *)
(* before its commit, or with another envelope than the committed one.     *)
LEMMA PromiseStep ==
    ASSUME Inv, [Next]_vars
    PROVE  [Promise!PromiseNext]_(Promise!promiseVars)
<1> USE DEF Inv, TypeOK, OutboxTypeOK
<1> DEFINE bodies == [e \in Events |-> outbox[e].body]
           Stutter == UNCHANGED <<bodies, applied, records>>
<1>1. ASSUME \A e \in Events : outbox'[e].body = outbox[e].body,
             applied' = applied, records' = records
      PROVE  Stutter
  BY <1>1
<1>2. ASSUME UNCHANGED mailboxVars,
             \/ UNCHANGED outboxVars
             \/ \E e \in Events : Claim(e) \/ LeaseExpires(e) \/ RetryDue(e)
             \/ ClaimNone
             \/ \E e \in Events, t \in Nat : Ack(e, t) \/ Release(e, t)
      PROVE  Stutter
  <2>1. CASE UNCHANGED outboxVars
    BY <1>2, <2>1 DEF outboxVars, mailboxVars
  <2>2. CASE ~UNCHANGED outboxVars
    <3>1. \A e \in Events : outbox'[e].body = outbox[e].body
      BY <1>2, <2>2, BodiesKept
    <3> QED
      BY <1>1, <1>2, <3>1 DEF mailboxVars
  <2> QED
    BY <2>1, <2>2
<1>3. ASSUME UNCHANGED outboxVars, applied' = applied, records' = records
      PROVE  Stutter
  BY <1>3 DEF outboxVars
<1>4. ASSUME NEW e \in Events, NEW b \in Bodies, Produce(e, b)
      PROVE  Promise!PromiseNext \/ Stutter
  <2>1. applied' = applied /\ records' = records
    BY <1>4 DEF Produce, mailboxVars
  <2>2. CASE outbox[e].state # "absent"
    <3>1. outbox' = outbox
      BY <1>4, <2>2 DEF Produce, Enqueue
    <3> QED
      BY <1>1, <2>1, <3>1
  <2>3. CASE outbox[e].state = "absent"
    <3>1. bodies[e] = NoBody
      BY <2>3 DEF IInv, RowsOK
    <3>2. /\ outbox'[e].body = b
          /\ \A x \in Events : x # e => outbox'[x] = outbox[x]
      BY <1>4, <2>3 DEF Produce, Enqueue, NewRow
    <3>3. bodies' = [bodies EXCEPT ![e] = b]
      BY <3>2
    <3>4. Promise!Commit(e, b)
      BY <2>1, <3>1, <3>3 DEF Promise!Commit
    <3> QED
      BY <3>4 DEF Promise!PromiseNext
  <2> QED
    BY <2>2, <2>3
<1>5. ASSUME NEW w \in Workers, CallbackDone(w)
      PROVE  Promise!PromiseNext
  <2> DEFINE e == hold[w].event
             c == ConsumerOf[w]
  <2>1. /\ e \in Events /\ c \in Consumers
        /\ mailbox[e] # NoBody /\ hold[w].body = mailbox[e]
        /\ mailbox[e] = bodies[e]
        /\ applied[e][c] = 0
    BY <1>5, WorkerAssumption
    DEF CallbackDone, IInv, Held, RowHeld, ReceiptsOK, MailboxOK
  <2>2. bodies' = bodies
    BY <1>5 DEF CallbackDone, outboxVars
  <2>3. applied' = [applied EXCEPT ![e][c] = 1]
    BY <1>5, <2>1 DEF CallbackDone, Process, MailboxTypeOK
  <2>4. records' = [records EXCEPT ![e] =
                      IF bodies[e] \in Recordable THEN bodies[e] ELSE @]
    <3>1. records' = [records EXCEPT ![e] =
                        IF hold[w].body \in Recordable /\ @ = NoBody
                        THEN hold[w].body ELSE @]
      BY <1>5 DEF CallbackDone, Process
    <3>2. mailbox[e] \in Recordable =>
            records[e] = NoBody \/ records[e] = mailbox[e]
      BY <2>1 DEF IInv, RecordsMatchReceipts
    <3> QED
      BY <2>1, <3>1, <3>2 DEF MailboxTypeOK
  <2>5. Promise!Handle(e, c)
    BY <2>1, <2>2, <2>3, <2>4 DEF Promise!Handle
  <2> QED
    BY <2>1, <2>5 DEF Promise!PromiseNext
<1>6. ASSUME NEW w \in Workers,
             Step(w) \/ Close(w) \/ CloseBroker(w) \/ Crash(w) \/ Restart(w)
      PROVE  Promise!PromiseNext \/ Stutter
  <2>1. CASE Publish(w) \/ Sink(w)
    BY <1>3, <2>1 DEF Publish, PublishEffect, Sink, Deposit, mailboxVars
  <2>2. CASE Dispatch(w) /\ ~Publish(w)
    <3>1. hold[w].ref \in Nat
      BY DEF Item
    <3>2. CASE AckOutbox(w) \/ ReleaseOutbox(w)
      <4>1. hold[w].event \in Events
        BY <3>2 DEF AckOutbox, ReleaseOutbox, IInv, Held, LeaseHeld
      <4> QED
        BY <1>2, <3>1, <3>2, <4>1 DEF AckOutbox, ReleaseOutbox
    <3>3. CASE ~(AckOutbox(w) \/ ReleaseOutbox(w))
      BY <1>2, <2>2, <3>3
      DEF Dispatch, ClaimOne, ClaimNothing, ClaimFails, PublishFails,
          AckFails, ReleaseFails
    <3> QED
      BY <3>2, <3>3
  <2>3. CASE Transfer(w) /\ ~Sink(w)
    BY <1>2, <2>3 DEF Transfer, Pull, PullEmpty, AckBroker, TransferFails
  <2>4. CASE CallbackRejects(w)
    BY <1>3, <2>4 DEF CallbackRejects, Reject
  <2>5. CASE Consume(w) /\ ~CallbackRejects(w)
    BY <1>2, <1>5, <2>5 DEF Consume, Select, SelectNothing, ConsumeFails
  <2>6. CASE Wake(w) \/ Leave(w) \/ Close(w) \/ CloseBroker(w) \/ Crash(w)
             \/ Restart(w)
    BY <1>2, <2>6 DEF Wake, Leave, Close, CloseBroker, Crash, Restart
  <2> QED
    BY <1>6, <2>1, <2>2, <2>3, <2>4, <2>5, <2>6 DEF Step
<1>7. ASSUME Time
      PROVE  Stutter
  BY <1>2, <1>3, <1>7 DEF Time, ReceiptDue
<1>8. ASSUME UNCHANGED vars
      PROVE  Stutter
  <2>1. UNCHANGED outboxVars /\ UNCHANGED mailboxVars
    BY <1>8 DEF vars
  <2> QED
    BY <1>2, <2>1
<1>9. Promise!PromiseNext \/ Stutter
  BY <1>4, <1>6, <1>7, <1>8 DEF Next
<1> QED
  BY <1>9 DEF Promise!promiseVars

(* Delivery implements EventPromise: no consumer handles an event twice,   *)
(* before its commit, or with another envelope than the committed one.     *)
THEOREM KeepsPromiseHolds == Spec => KeepsPromise
<1>1. Init => Promise!PromiseInit
  BY DEF Init, OutboxInit, MailboxInit, AbsentRow, Promise!PromiseInit
<1>2. Inv /\ [Next]_vars => [Promise!PromiseNext]_(Promise!promiseVars)
  BY PromiseStep
<1> QED
  BY Invariance, <1>1, <1>2, PTL DEF Spec, KeepsPromise, Promise!PromiseSpec

-----------------------------------------------------------------------------
(* Sent, dead, processed and acknowledged are final.                       *)
THEOREM SettledIsFinalHolds == Spec => SettledIsFinal
<1> DEFINE Final ==
      /\ \A e \in Events :
            outbox[e].state \in {"sent", "dead"} =>
                outbox'[e].state = outbox[e].state
      /\ \A e \in Events, c \in Consumers :
            receipts[e][c].state # "pending" =>
                receipts'[e][c].state = receipts[e][c].state
      /\ \A s \in Seqs :
            stream[s].status = "acked" => stream'[s].status = "acked"
<1>1. ASSUME Inv, [Next]_vars
      PROVE  Final
  <2> USE <1>1 DEF Inv, TypeOK
  <2>1. OutboxMove /\ BrokerMove /\ MailboxMove
    BY OutboxMoves, BrokerMoves, MailboxMoves
  <2>2. RowsGrow
    BY <2>1, RowsGrowStep DEF OutboxMove, IInv
  <2>3. ASSUME NEW e \in Events, NEW c \in Consumers,
               receipts[e][c].state # "pending"
        PROVE  receipts'[e][c].state = receipts[e][c].state
    <3>1. CASE receipts' = receipts
      BY <3>1
    <3>2. ASSUME NEW x \in Events, NEW d \in Consumers,
                 receipts[x][d].state = "pending", NEW r,
                 receipts' = [receipts EXCEPT ![x][d] = r]
          PROVE  receipts'[e][c].state = receipts[e][c].state
      BY <2>3, <3>2 DEF MailboxTypeOK
    <3>3. CASE UNCHANGED mailboxVars
      BY <3>1, <3>3 DEF mailboxVars
    <3>4. CASE \E w \in Workers : Deposit(hold[w].event, hold[w].body)
      BY <3>1, <3>4 DEF Deposit
    <3>5. ASSUME NEW w \in Workers, pc[w] = "callback",
                 \/ Process(hold[w].event, ConsumerOf[w], hold[w].body)
                 \/ Reject(hold[w].event, ConsumerOf[w], hold[w].ref)
          PROVE  receipts'[e][c].state = receipts[e][c].state
      <4>1. /\ hold[w].event \in Events /\ ConsumerOf[w] \in Consumers
            /\ receipts[hold[w].event][ConsumerOf[w]].state = "pending"
        BY <3>5, WorkerAssumption DEF IInv, Held, RowHeld
      <4>2. CASE Process(hold[w].event, ConsumerOf[w], hold[w].body)
        BY <3>2, <4>1, <4>2 DEF Process
      <4>3. CASE Reject(hold[w].event, ConsumerOf[w], hold[w].ref)
        BY <3>2, <4>1, <4>3 DEF Reject
      <4> QED
        BY <3>5, <4>2, <4>3
    <3>6. ASSUME NEW x \in Events, NEW d \in Consumers, ReceiptDue(x, d)
          PROVE  receipts'[e][c].state = receipts[e][c].state
      <4>1. /\ receipts[x][d].state = "pending"
            /\ receipts' = [receipts EXCEPT ![x][d] =
                               [@ EXCEPT !.ready = TRUE]]
        BY <3>6 DEF ReceiptDue
      <4> QED
        BY <3>2, <4>1
    <3> QED
      BY <2>1, <3>3, <3>4, <3>5, <3>6 DEF MailboxMove
  <2>4. ASSUME NEW s \in Seqs, stream[s].status = "acked"
        PROVE  stream'[s].status = "acked"
    <3>1. stream \in [Seqs -> Slot] /\ last \in 0..StreamMax
      BY DEF BrokerTypeOK
    <3>2. CASE UNCHANGED stream
      BY <2>4, <3>2
    <3>3. ASSUME NEW e, NEW b, Store(e, b)
          PROVE  stream'[s].status = "acked"
      <4>1. last + 1 # s
        <5>1. s <= last
          BY <2>4, <3>1, BrokerAssumption DEF IInv, SlotsOK, Seqs
        <5> QED
          BY <3>1, <5>1 DEF Seqs
      <4> QED
        BY <2>4, <3>1, <3>3, <4>1 DEF Store
    <3>4. ASSUME NEW r \in Seqs, Deliver(r) \/ AckWaitPasses(r)
          PROVE  stream'[s].status = "acked"
      <4>1. r # s
        BY <2>4, <3>4 DEF Deliver, Deliverable, AckWaitPasses
      <4> QED
        BY <2>4, <3>1, <3>4, <4>1 DEF Deliver, AckWaitPasses
    <3>5. ASSUME NEW w \in Workers, Acknowledge(hold[w].ref)
          PROVE  stream'[s].status = "acked"
      BY <2>4, <3>1, <3>5 DEF Acknowledge, Slot
    <3> QED
      BY <2>1, <3>2, <3>3, <3>4, <3>5 DEF BrokerMove, brokerVars, WindowPasses
  <2> QED
    BY <2>2, <2>3, <2>4 DEF RowsGrow
<1>2. Inv /\ [Next]_vars => [Final]_vars
  BY <1>1
<1> QED
  BY Invariance, <1>2, PTL DEF Spec, SettledIsFinal
=============================================================================
