------------------------------- MODULE Broker -------------------------------
(***************************************************************************)
(* The JetStream stream and its durable pull consumer as provision sets    *)
(* them up (shared/events/jetstream): file storage with discard-new, a     *)
(* duplicate window, explicit acks, one pending delivery, an ack wait and  *)
(* a limit on deliveries.  The server is external: what is modelled is the *)
(* behaviour the adapter asks for and relies on.                           *)
(***************************************************************************)
EXTENDS Envelopes

CONSTANTS
    StreamMax,    \* messages the stream holds before it discards new ones
    MaxDeliver    \* deliveries of one message: 5 in the code

ASSUME BrokerAssumption == StreamMax \in Nat /\ MaxDeliver \in Nat \ {0}

VARIABLES
    stream,       \* stored messages by sequence number
    last,         \* the last sequence number used
    window        \* event id to the sequence number the duplicate window knows

brokerVars == <<stream, last, window>>

Seqs == 1..StreamMax

\* status: new, out (delivered, the ack wait runs), waiting (to be delivered
\* again), acked, or spent (no delivery left; kept for inspection).
Slot == [event      : Events \cup {NoEvent},
         body       : Bodies \cup {NoBody},
         status     : {"free", "new", "out", "waiting", "acked", "spent"},
         deliveries : 0..MaxDeliver]

FreeSlot == [event |-> NoEvent, body |-> NoBody, status |-> "free",
             deliveries |-> 0]

BrokerInit ==
    /\ stream = [s \in Seqs |-> FreeSlot]
    /\ last = 0
    /\ window = [e \in Events |-> 0]

-----------------------------------------------------------------------------
(* Broker::publish, as the server executes it: Nats-Msg-Id is the event    *)
(* id.  Outside the duplicate window the message is stored under the next  *)
(* sequence number; inside it the adapter accepts the PubAck only if the   *)
(* stored message is the same envelope.                                    *)
Store(e, b) ==
    /\ window[e] = 0
    /\ last < StreamMax
    /\ last' = last + 1
    /\ stream' = [stream EXCEPT ![last + 1] =
                    [event |-> e, body |-> b, status |-> "new",
                     deliveries |-> 0]]
    /\ window' = [window EXCEPT ![e] = last + 1]

Duplicate(e, b) ==
    /\ window[e] # 0
    /\ stream[window[e]].body = b
    /\ UNCHANGED brokerVars

(* The duplicate window of two minutes passes.                             *)
WindowPasses(e) ==
    /\ window[e] # 0
    /\ window' = [window EXCEPT ![e] = 0]
    /\ UNCHANGED <<stream, last>>

-----------------------------------------------------------------------------
(* Fault: a message whose ack wait passed is not delivered again.          *)
DeliverableOnce(s) ==
    /\ stream[s].status = "new"
    /\ \A r \in Seqs : stream[r].status # "out"

(* A pull with batch 1 and no_wait: with max_ack_pending 1 nothing is      *)
(* delivered while a delivery is out.                                      *)
Deliverable(s) ==
    /\ stream[s].status \in {"new", "waiting"}
    /\ \A r \in Seqs : stream[r].status # "out"

Deliver(s) ==
    /\ Deliverable(s)
    /\ stream' = [stream EXCEPT ![s].status = "out",
                                ![s].deliveries = @ + 1]
    /\ UNCHANGED <<last, window>>

(* Fault: no limit on deliveries.                                          *)
AckWaitWithoutLimit(s) ==
    /\ stream[s].status = "out"
    /\ stream' = [stream EXCEPT ![s].status = "waiting"]
    /\ UNCHANGED <<last, window>>

(* The ack wait of one second passes: the message is delivered again, or   *)
(* is left in the stream once its deliveries are used up.                  *)
AckWaitPasses(s) ==
    /\ stream[s].status = "out"
    /\ stream' = [stream EXCEPT ![s].status =
                    IF stream[s].deliveries >= MaxDeliver
                    THEN "spent" ELSE "waiting"]
    /\ UNCHANGED <<last, window>>

(* +ACK on the reply subject of any delivery of s, however late.           *)
Acknowledge(s) ==
    /\ stream[s].status # "free"
    /\ stream' = [stream EXCEPT ![s].status = "acked"]
    /\ UNCHANGED <<last, window>>

-----------------------------------------------------------------------------
BrokerTypeOK ==
    /\ stream \in [Seqs -> Slot]
    /\ last \in 0..StreamMax
    /\ window \in [Events -> 0..StreamMax]
=============================================================================
