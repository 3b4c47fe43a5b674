---------------------------- MODULE AuditRuntime ----------------------------
(***************************************************************************)
(* Event delivery end to end: the audit worker of root/audit.rs, one loop  *)
(* per server process, over one database and (optionally) one broker.      *)
(* tick is  dispatch (claim, publish, ack or release), transfer (broker to *)
(* mailbox, only with a broker), consume;  the first stage that reports an *)
(* error ends the tick.                                                    *)
(*                                                                         *)
(* Every call of the database or the broker is one step with three kinds   *)
(* of outcome: it took effect and says so, it had no effect and reports an *)
(* error, or it took effect and reports an error all the same (a commit    *)
(* whose outcome is uncertain, a reply that is lost, a timeout).           *)
(***************************************************************************)
EXTENDS Outbox, Mailbox, Broker

CONSTANTS
    Workers,      \* server processes
    ConsumerOf,   \* the consumer name each one is configured with
    HasBroker,    \* whether EventsConfig.broker is set
    Closing,      \* the processes that are asked to close
    Crashing      \* the processes that may crash

ASSUME WorkerAssumption ==
    /\ ConsumerOf \in [Workers -> Consumers]
    /\ HasBroker \in BOOLEAN
    /\ Closing \subseteq Workers
    /\ Crashing \subseteq Workers

VARIABLES
    pc,           \* the stage of the worker's loop
    hold,         \* what the stage works on
    stop,         \* the stop signal of the runtime
    closed        \* whether the broker connection of the process is closed

workerVars == <<pc, hold, stop, closed>>
vars == <<outboxVars, mailboxVars, brokerVars, workerVars>>

Stages == {"tick", "publish", "ack", "release", "transfer", "sink",
           "brokerAck", "consume", "callback", "sleep", "stopped", "down"}

\* A Lease (ref is the token), a pulled message (ref is the sequence number)
\* or the row consume selected (ref is its attempts).
Item == [event : Events \cup {NoEvent}, body : Bodies \cup {NoBody}, ref : Nat]

NoItem == [event |-> NoEvent, body |-> NoBody, ref |-> 0]

Init ==
    /\ OutboxInit
    /\ MailboxInit
    /\ BrokerInit
    /\ pc = [w \in Workers |-> "tick"]
    /\ hold = [w \in Workers |-> NoItem]
    /\ stop = [w \in Workers |-> FALSE]
    /\ closed = [w \in Workers |-> FALSE]

Goto(w, stage, item) ==
    /\ pc' = [pc EXCEPT ![w] = stage]
    /\ hold' = [hold EXCEPT ![w] = item]
    /\ UNCHANGED <<stop, closed>>

\* The error of a stage is logged and ends the tick.
EndTick(w) == Goto(w, "sleep", NoItem)

AfterDispatch == IF HasBroker THEN "transfer" ELSE "consume"

-----------------------------------------------------------------------------
(* A producer's transaction (a command of the identity module) commits.    *)
Produce(e, b) ==
    /\ Enqueue(e, b)
    /\ UNCHANGED <<mailboxVars, brokerVars, workerVars>>

-----------------------------------------------------------------------------
(* Dispatch, first transaction: claim with a fresh token.                  *)
ClaimOne(w, e) ==
    /\ pc[w] = "tick"
    /\ Claim(e)
    /\ \/ Goto(w, "publish", [event |-> e, body |-> outbox[e].body,
                              ref |-> nextToken])
       \/ EndTick(w)                              \* commit uncertain
    /\ UNCHANGED <<mailboxVars, brokerVars>>

ClaimNothing(w) ==
    /\ pc[w] = "tick"
    /\ ClaimNone
    /\ \/ Goto(w, AfterDispatch, NoItem)
       \/ EndTick(w)                              \* commit uncertain
    /\ UNCHANGED <<mailboxVars, brokerVars>>

(* No id could be generated, or the transaction failed.                    *)
ClaimFails(w) ==
    /\ pc[w] = "tick"
    /\ EndTick(w)
    /\ UNCHANGED <<outboxVars, mailboxVars, brokerVars>>

(* Dispatch, second step: the publisher.  With a durable receipt of the    *)
(* same event it is followed by ack, with anything else by release.        *)
PublishEffect(w) ==
    IF HasBroker
    THEN /\ ~closed[w]
         /\ \/ Store(hold[w].event, hold[w].body)
            \/ Duplicate(hold[w].event, hold[w].body)
         /\ UNCHANGED mailboxVars
    ELSE /\ Deposit(hold[w].event, hold[w].body)
         /\ UNCHANGED brokerVars

Publish(w) ==
    /\ pc[w] = "publish"
    /\ PublishEffect(w)
    /\ \/ Goto(w, "ack", hold[w])
       \/ Goto(w, "release", hold[w])             \* outcome unknown
    /\ UNCHANGED outboxVars

(* Fault: dispatch acks whatever the publisher answers.                    *)
PublishFailsAcked(w) ==
    /\ pc[w] = "publish"
    /\ Goto(w, "ack", hold[w])
    /\ UNCHANGED <<outboxVars, mailboxVars, brokerVars>>

(* Refused (conflicting id, full stream, closed connection) or not reached.*)
PublishFails(w) ==
    /\ pc[w] = "publish"
    /\ Goto(w, "release", hold[w])
    /\ UNCHANGED <<outboxVars, mailboxVars, brokerVars>>

(* Dispatch, last transaction.                                             *)
AckOutbox(w) ==
    /\ pc[w] = "ack"
    /\ Ack(hold[w].event, hold[w].ref)
    /\ \/ Goto(w, AfterDispatch, NoItem)
       \/ EndTick(w)                              \* commit uncertain
    /\ UNCHANGED <<mailboxVars, brokerVars>>

(* The lease was lost, or the transaction failed.                          *)
AckFails(w) ==
    /\ pc[w] = "ack"
    /\ EndTick(w)
    /\ UNCHANGED <<outboxVars, mailboxVars, brokerVars>>

(* Whatever release reports, dispatch returns an error.                    *)
ReleaseOutbox(w) ==
    /\ pc[w] = "release"
    /\ Release(hold[w].event, hold[w].ref)
    /\ EndTick(w)
    /\ UNCHANGED <<mailboxVars, brokerVars>>

ReleaseFails(w) ==
    /\ pc[w] = "release"
    /\ EndTick(w)
    /\ UNCHANGED <<outboxVars, mailboxVars, brokerVars>>

-----------------------------------------------------------------------------
(* Transfer: pull one message, publish it into the mailbox, then +ACK it.  *)
Pull(w, s) ==
    /\ pc[w] = "transfer"
    /\ ~closed[w]
    /\ Deliver(s)
    /\ \/ Goto(w, "sink", [event |-> stream[s].event, body |-> stream[s].body,
                           ref |-> s])
       \/ EndTick(w)                              \* delivery lost
    /\ UNCHANGED <<outboxVars, mailboxVars>>

PullEmpty(w) ==
    /\ pc[w] = "transfer"
    /\ ~closed[w]
    /\ \A s \in Seqs : ~Deliverable(s)
    /\ Goto(w, "consume", NoItem)
    /\ UNCHANGED <<outboxVars, mailboxVars, brokerVars>>

(* Fault: +ACK before the destination commits.                             *)
SinkAcksFirst(w) ==
    /\ pc[w] = "sink"
    /\ Goto(w, "brokerAck", hold[w])
    /\ UNCHANGED <<outboxVars, mailboxVars, brokerVars>>

Sink(w) ==
    /\ pc[w] = "sink"
    /\ Deposit(hold[w].event, hold[w].body)
    /\ \/ Goto(w, "brokerAck", hold[w])
       \/ EndTick(w)                              \* commit uncertain
    /\ UNCHANGED <<outboxVars, brokerVars>>

AckBroker(w) ==
    /\ pc[w] = "brokerAck"
    /\ ~closed[w]
    /\ Acknowledge(hold[w].ref)
    /\ \/ Goto(w, "consume", NoItem)
       \/ EndTick(w)                              \* reply lost
    /\ UNCHANGED <<outboxVars, mailboxVars>>

(* A request failed, was refused, or the budget of transfer ran out.       *)
TransferFails(w) ==
    /\ pc[w] \in {"transfer", "sink", "brokerAck"}
    /\ EndTick(w)
    /\ UNCHANGED <<outboxVars, mailboxVars, brokerVars>>

-----------------------------------------------------------------------------
(* Fault: the SELECT takes no row lock.                                    *)
NotLocked(e) == FALSE

(* Consume is one transaction; from its SELECT to its end it locks the     *)
(* mailbox row and the receipt, and the SELECT skips locked rows.          *)
Locked(e) == \E w \in Workers : pc[w] = "callback" /\ hold[w].event = e

Select(w, e) ==
    /\ pc[w] = "consume"
    /\ Consumable(e, ConsumerOf[w])
    /\ ~Locked(e)
    /\ Goto(w, "callback", [event |-> e, body |-> mailbox[e],
                            ref |-> receipts[e][ConsumerOf[w]].attempts])
    /\ UNCHANGED <<outboxVars, mailboxVars, brokerVars>>

SelectNothing(w) ==
    /\ pc[w] = "consume"
    /\ \A e \in Events : ~Consumable(e, ConsumerOf[w]) \/ Locked(e)
    /\ Goto(w, "sleep", NoItem)
    /\ UNCHANGED <<outboxVars, mailboxVars, brokerVars>>

(* The callback ran and the transaction committed (consume may report an   *)
(* error all the same: the tick is over either way).                       *)
CallbackDone(w) ==
    /\ pc[w] = "callback"
    /\ Process(hold[w].event, ConsumerOf[w], hold[w].body)
    /\ Goto(w, "sleep", NoItem)
    /\ UNCHANGED <<outboxVars, brokerVars>>

(* translate refused the envelope, or a statement of the callback failed.  *)
CallbackRejects(w) ==
    /\ pc[w] = "callback"
    /\ Reject(hold[w].event, ConsumerOf[w], hold[w].ref)
    /\ EndTick(w)
    /\ UNCHANGED <<outboxVars, brokerVars>>

(* The transaction failed as a whole: the attempt is not counted.          *)
ConsumeFails(w) ==
    /\ pc[w] \in {"consume", "callback"}
    /\ EndTick(w)
    /\ UNCHANGED <<outboxVars, mailboxVars, brokerVars>>

-----------------------------------------------------------------------------
(* The loop of start: a select of the timer and the stop signal.  When     *)
(* both are ready it takes either.                                         *)
Wake(w) ==
    /\ pc[w] = "sleep"
    /\ Goto(w, "tick", NoItem)
    /\ UNCHANGED <<outboxVars, mailboxVars, brokerVars>>

(* Fault: the stop branch of the select goes on with the loop.             *)
LeaveContinues(w) ==
    /\ pc[w] = "sleep"
    /\ stop[w]
    /\ Goto(w, "tick", NoItem)
    /\ UNCHANGED <<outboxVars, mailboxVars, brokerVars>>

Leave(w) ==
    /\ pc[w] = "sleep"
    /\ stop[w]
    /\ Goto(w, "stopped", NoItem)
    /\ UNCHANGED <<outboxVars, mailboxVars, brokerVars>>

(* close: signal stop, wait for the loop no longer than the budget, then   *)
(* close the broker.  A loop that outlives the budget runs on, detached.   *)
Close(w) ==
    /\ w \in Closing
    /\ pc[w] # "down"
    /\ ~stop[w]
    /\ stop' = [stop EXCEPT ![w] = TRUE]
    /\ UNCHANGED <<pc, hold, closed, outboxVars, mailboxVars, brokerVars>>

CloseBroker(w) ==
    /\ HasBroker
    /\ pc[w] # "down"
    /\ stop[w]
    /\ ~closed[w]
    /\ closed' = [closed EXCEPT ![w] = TRUE]
    /\ UNCHANGED <<pc, hold, stop, outboxVars, mailboxVars, brokerVars>>

(* The process ends, at any point; an open transaction is rolled back and  *)
(* what the worker held in memory is gone.  It may be started again.       *)
Crash(w) ==
    /\ w \in Crashing
    /\ pc[w] # "down"
    /\ pc' = [pc EXCEPT ![w] = "down"]
    /\ hold' = [hold EXCEPT ![w] = NoItem]
    /\ UNCHANGED <<stop, closed, outboxVars, mailboxVars, brokerVars>>

Restart(w) ==
    /\ pc[w] = "down"
    /\ pc' = [pc EXCEPT ![w] = "tick"]
    /\ stop' = [stop EXCEPT ![w] = FALSE]
    /\ closed' = [closed EXCEPT ![w] = FALSE]
    /\ UNCHANGED <<hold, outboxVars, mailboxVars, brokerVars>>

-----------------------------------------------------------------------------
(* The clocks of the database and of the broker.                           *)
Time ==
    \/ /\ \E e \in Events : LeaseExpires(e) \/ RetryDue(e)
       /\ UNCHANGED <<mailboxVars, brokerVars, workerVars>>
    \/ /\ \E e \in Events, c \in Consumers : ReceiptDue(e, c)
       /\ UNCHANGED <<outboxVars, brokerVars, workerVars>>
    \/ /\ \/ \E e \in Events : WindowPasses(e)
          \/ \E s \in Seqs : AckWaitPasses(s)
       /\ UNCHANGED <<outboxVars, mailboxVars, workerVars>>

Dispatch(w) ==
    \/ \E e \in Events : ClaimOne(w, e)
    \/ ClaimNothing(w)
    \/ ClaimFails(w)
    \/ Publish(w)
    \/ PublishFails(w)
    \/ AckOutbox(w)
    \/ AckFails(w)
    \/ ReleaseOutbox(w)
    \/ ReleaseFails(w)

Transfer(w) ==
    \/ \E s \in Seqs : Pull(w, s)
    \/ PullEmpty(w)
    \/ Sink(w)
    \/ AckBroker(w)
    \/ TransferFails(w)

Consume(w) ==
    \/ \E e \in Events : Select(w, e)
    \/ SelectNothing(w)
    \/ CallbackDone(w)
    \/ CallbackRejects(w)
    \/ ConsumeFails(w)

Step(w) == Dispatch(w) \/ Transfer(w) \/ Consume(w) \/ Wake(w) \/ Leave(w)

Next ==
    \/ \E e \in Events, b \in Bodies : Produce(e, b)
    \/ \E w \in Workers :
          Step(w) \/ Close(w) \/ CloseBroker(w) \/ Crash(w) \/ Restart(w)
    \/ Time

Spec == Init /\ [][Next]_vars

(***************************************************************************)
(* Fairness.  A running loop takes its next step, a process that crashed   *)
(* is restarted, time passes (weak fairness).  A transaction that is tried *)
(* again and again is not refused for ever, and neither is a pull, and a   *)
(* select with two ready branches does not take the same one for ever:     *)
(* strong fairness of these outcomes.  Publishing, acknowledging and the   *)
(* callback may fail every time.                                           *)
(***************************************************************************)
ClaimAnswers(w) ==
    (ClaimNothing(w) \/ \E e \in Events : ClaimOne(w, e)) /\ pc'[w] # "sleep"
PullAnswers(w) ==
    (PullEmpty(w) \/ \E s \in Seqs : Pull(w, s)) /\ pc'[w] # "sleep"
SelectAnswers(w) ==
    SelectNothing(w) \/ \E e \in Events : Select(w, e)

Fairness ==
    /\ \A w \in Workers :
          /\ WF_vars(Step(w))
          /\ WF_vars(Restart(w))
          /\ SF_vars(ClaimAnswers(w))
          /\ SF_vars(PullAnswers(w))
          /\ SF_vars(SelectAnswers(w))
          /\ SF_vars(CallbackDone(w) \/ CallbackRejects(w))
    /\ \A w \in Closing : SF_vars(Leave(w))
    /\ \A e \in Events : WF_vars(Time /\ (LeaseExpires(e) \/ RetryDue(e)))
    /\ \A e \in Events, c \in Consumers : WF_vars(Time /\ ReceiptDue(e, c))
    /\ \A s \in Seqs : WF_vars(Time /\ AckWaitPasses(s))

FairSpec == Spec /\ Fairness

-----------------------------------------------------------------------------
TypeOK ==
    /\ OutboxTypeOK
    /\ MailboxTypeOK
    /\ BrokerTypeOK
    /\ pc \in [Workers -> Stages]
    /\ hold \in [Workers -> Item]
    /\ stop \in [Workers -> BOOLEAN]
    /\ closed \in [Workers -> BOOLEAN]

(* Where an envelope is safe once the publisher has answered for it.       *)
Durable(e, b) ==
    IF HasBroker
    THEN \E s \in Seqs : stream[s].event = e /\ stream[s].body = b
    ELSE mailbox[e] = b

(* A row is marked sent only when the transport stores exactly the         *)
(* envelope the producer committed (dispatch acks after a durable receipt; *)
(* lost replies, expired leases and crashes must not break this).          *)
SentIsDurable ==
    \A e \in Events : outbox[e].state = "sent" => Durable(e, outbox[e].body)

(* A message is acknowledged to the broker only when its envelope is in    *)
(* the mailbox: transfer sends +ACK after the sink's receipt.              *)
AckedIsInMailbox ==
    \A s \in Seqs : stream[s].status = "acked" =>
        mailbox[stream[s].event] = stream[s].body

(* The audit table holds a record exactly for the recordable envelopes     *)
(* that some consumer processed: the record and the processed marker of    *)
(* the receipt commit together or not at all.                              *)
RecordsMatchReceipts ==
    \A e \in Events : records[e] =
        IF /\ mailbox[e] \in Recordable
           /\ \E c \in Consumers : receipts[e][c].state = "processed"
        THEN mailbox[e] ELSE NoBody

(* While the lease of a row is unexpired, only its holder, finishing with  *)
(* its token, changes the row: no other claim, sweep, ack or release of a  *)
(* worker that lost an earlier lease touches it.                           *)
LeaseProtects ==
    [][\A e \in Events :
          (outbox[e].live /\ outbox'[e] # [outbox[e] EXCEPT !.live = FALSE]
                         /\ outbox'[e] # [outbox[e] EXCEPT !.ready = TRUE]
                         /\ outbox'[e] # outbox[e])
          => \E w \in Workers :
                /\ pc[w] \in {"ack", "release"}
                /\ hold[w].event = e
                /\ hold[w].ref = outbox[e].lease]_vars

(* What is settled stays settled: sent and dead rows of the outbox,        *)
(* processed and dead receipts, acknowledged messages.                     *)
SettledIsFinal ==
    [][/\ \A e \in Events :
             outbox[e].state \in {"sent", "dead"} =>
                 outbox'[e].state = outbox[e].state
       /\ \A e \in Events, c \in Consumers :
             receipts[e][c].state # "pending" =>
                 receipts'[e][c].state = receipts[e][c].state
       /\ \A s \in Seqs :
             stream[s].status = "acked" => stream'[s].status = "acked"]_vars

(* The runtime keeps the promise of EventPromise.                          *)
Promise == INSTANCE EventPromise WITH
    committed <- [e \in Events |-> outbox[e].body],
    handled   <- applied,
    journal   <- records

KeepsPromise == Promise!PromiseSpec

(* Every committed event is eventually published or given up: no row stays *)
(* pending for ever, whoever crashes holding its lease.                    *)
OutboxSettles ==
    \A e \in Events :
        outbox[e].state = "pending" ~> outbox[e].state \in {"sent", "dead"}

(* Every envelope in the mailbox is eventually processed or given up by    *)
(* every consumer that has a worker: a malformed envelope or a failing     *)
(* dispatch does not starve consume for ever.                              *)
MailboxDrains ==
    \A e \in Events : \A w \in Workers \ Closing :
        mailbox[e] # NoBody ~>
            receipts[e][ConsumerOf[w]].state \in {"processed", "dead"}

(* A published event reaches the mailbox, unless the broker has used up    *)
(* every delivery of every copy of it.                                     *)
StreamDrains ==
    \A e \in Events :
        outbox[e].state = "sent" ~>
            \/ mailbox[e] = outbox[e].body
            \/ \A s \in Seqs :
                  stream[s].event = e => stream[s].status = "spent"

(* A loop that is asked to stop does stop, whatever stage it is in and     *)
(* whether or not the broker was closed under it.                          *)
StopIsHonoured ==
    \A w \in Workers : stop[w] ~> pc[w] \in {"stopped", "down"}

-----------------------------------------------------------------------------
(* The inductive invariant: what each stage may rely on about what it      *)
(* holds, and that all copies of an envelope agree.                        *)
SlotsOK ==
    \A s \in Seqs :
        /\ stream[s].status = "free" <=> s > last
        /\ stream[s].status = "free" => stream[s].event = NoEvent
        /\ stream[s].status \in {"new", "waiting"} =>
              stream[s].deliveries < MaxDeliver
        /\ stream[s].status # "free" =>
              /\ stream[s].event \in Events
              /\ stream[s].body # NoBody
              /\ stream[s].body = outbox[stream[s].event].body

WindowOK ==
    \A e \in Events : window[e] # 0 =>
        window[e] <= last /\ stream[window[e]].event = e

MailboxOK ==
    \A e \in Events : mailbox[e] # NoBody => mailbox[e] = outbox[e].body

ReceiptsOK ==
    \A e \in Events, c \in Consumers :
        /\ receipts[e][c].state = "pending" => receipts[e][c].attempts < MaxAttempts
        /\ receipts[e][c].state = "processed" => mailbox[e] # NoBody
        /\ applied[e][c] = IF receipts[e][c].state = "processed" THEN 1 ELSE 0

LeaseHeld(w) ==
    pc[w] \in {"publish", "ack", "release"} =>
        /\ hold[w].event \in Events
        /\ hold[w].body # NoBody
        /\ hold[w].body = outbox[hold[w].event].body
        /\ hold[w].ref \in 1..(nextToken - 1)

MessageHeld(w) ==
    pc[w] \in {"sink", "brokerAck"} =>
        /\ hold[w].ref \in Seqs
        /\ stream[hold[w].ref].status # "free"
        /\ hold[w].event = stream[hold[w].ref].event
        /\ hold[w].body = stream[hold[w].ref].body

RowHeld(w) ==
    pc[w] = "callback" =>
        /\ hold[w].event \in Events
        /\ hold[w].body # NoBody
        /\ hold[w].body = mailbox[hold[w].event]
        /\ receipts[hold[w].event][ConsumerOf[w]].state = "pending"
        /\ hold[w].ref = receipts[hold[w].event][ConsumerOf[w]].attempts

(* What the answer the worker just got entitles it to.                     *)
ReceiptEarned(w) ==
    /\ pc[w] = "ack" => Durable(hold[w].event, hold[w].body)
    /\ pc[w] = "brokerAck" => mailbox[hold[w].event] = hold[w].body

Held(w) == LeaseHeld(w) /\ MessageHeld(w) /\ RowHeld(w) /\ ReceiptEarned(w)

OneHolder ==
    \A v, w \in Workers :
        pc[v] = "callback" /\ pc[w] = "callback" /\ v # w =>
            hold[v].event # hold[w].event

IInv ==
    /\ RowsOK
    /\ SlotsOK
    /\ WindowOK
    /\ MailboxOK
    /\ ReceiptsOK
    /\ \A w \in Workers : Held(w)
    /\ OneHolder
    /\ SentIsDurable
    /\ AckedIsInMailbox
    /\ RecordsMatchReceipts
=============================================================================
