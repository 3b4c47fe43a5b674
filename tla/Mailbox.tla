------------------------------ MODULE Mailbox ------------------------------
(***************************************************************************)
(* The durable local mailbox of shared/events/postgres (tables n2f_mailbox *)
(* and n2f_mailbox_receipts) and the audit table its one consumer in the   *)
(* application writes (domains/audit).                                     *)
(*                                                                         *)
(* A receipt row is read only by consume, which first inserts the default  *)
(* row (pending, no attempts, available now) for every envelope of the     *)
(* mailbox that has none; so a missing receipt and a default one are the   *)
(* same thing, and the model keeps no difference between them.             *)
(***************************************************************************)
EXTENDS Envelopes

CONSTANTS
    Consumers,    \* consumer names
    Recordable,   \* bodies audit::translate turns into a record
    Malformed     \* bodies audit::translate refuses; the others are skipped

ASSUME BodiesAssumption ==
    /\ Recordable \subseteq Bodies
    /\ Malformed \subseteq Bodies
    /\ Recordable \cap Malformed = {}

VARIABLES
    mailbox,      \* the table n2f_mailbox: event id to body
    receipts,     \* the table n2f_mailbox_receipts
    records,      \* the table n2f_audit_records: event id to body
    applied       \* how many callback runs have committed (no column of it)

mailboxVars == <<mailbox, receipts, records, applied>>

Receipt == [state    : {"pending", "processed", "dead"},
            attempts : 0..MaxAttempts,
            ready    : BOOLEAN]

\* The column defaults of 0003_mailbox_receipts.sql.
NewReceipt == [state |-> "pending", attempts |-> 0, ready |-> TRUE]

MailboxInit ==
    /\ mailbox = [e \in Events |-> NoBody]
    /\ receipts = [e \in Events |-> [c \in Consumers |-> NewReceipt]]
    /\ records = [e \in Events |-> NoBody]
    /\ applied = [e \in Events |-> [c \in Consumers |-> 0]]

-----------------------------------------------------------------------------
(* Mailbox::publish: the insert of one envelope.  The same envelope again  *)
(* changes nothing; a different one under a stored id is events.id_reused. *)
Accepts(e, b) == mailbox[e] \in {NoBody, b}

Deposit(e, b) ==
    /\ Accepts(e, b)
    /\ mailbox' = [mailbox EXCEPT ![e] = b]
    /\ UNCHANGED <<receipts, records, applied>>

-----------------------------------------------------------------------------
(* The rows the SELECT of consume ranges over, before SKIP LOCKED.         *)
Consumable(e, c) ==
    /\ mailbox[e] # NoBody
    /\ receipts[e][c].state = "pending"
    /\ receipts[e][c].attempts < MaxAttempts
    /\ receipts[e][c].ready

(* Fault: an unsupported envelope is recorded too.                         *)
ProcessRecordsAll(e, c, b) ==
    /\ b \notin Malformed
    /\ records' = [records EXCEPT ![e] = IF @ = NoBody THEN b ELSE @]
    /\ applied' = [applied EXCEPT ![e][c] = @ + 1]
    /\ receipts' = [receipts EXCEPT ![e][c] =
                      [state |-> "processed", attempts |-> @.attempts + 1,
                       ready |-> FALSE]]
    /\ UNCHANGED mailbox

(* The commit of consume after the callback returned Ok: the effect of the *)
(* callback (the audit record, ON CONFLICT DO NOTHING) and the processed   *)
(* marker in one transaction.                                              *)
Process(e, c, b) ==
    /\ b \notin Malformed
    /\ records' = [records EXCEPT ![e] =
                     IF b \in Recordable /\ @ = NoBody THEN b ELSE @]
    /\ applied' = [applied EXCEPT ![e][c] = @ + 1]
    /\ receipts' = [receipts EXCEPT ![e][c] =
                      [state |-> "processed", attempts |-> @.attempts + 1,
                       ready |-> FALSE]]
    /\ UNCHANGED mailbox

(* Fault: the limit is off by one.                                         *)
RejectOffByOne(e, c, attempt) ==
    /\ receipts' = [receipts EXCEPT ![e][c] =
                      [state |-> IF attempt >= MaxAttempts
                                 THEN "dead" ELSE "pending",
                       attempts |-> @.attempts + 1,
                       ready |-> FALSE]]
    /\ UNCHANGED <<mailbox, records, applied>>

(* The commit of consume after the callback returned an error: the         *)
(* savepoint took its effects back, the attempt stays.  attempt is the     *)
(* count the SELECT read.                                                  *)
Reject(e, c, attempt) ==
    /\ receipts' = [receipts EXCEPT ![e][c] =
                      [state |-> IF attempt + 1 >= MaxAttempts
                                 THEN "dead" ELSE "pending",
                       attempts |-> @.attempts + 1,
                       ready |-> FALSE]]
    /\ UNCHANGED <<mailbox, records, applied>>

(* The database clock passes available_at.                                 *)
ReceiptDue(e, c) ==
    /\ receipts[e][c].state = "pending"
    /\ ~receipts[e][c].ready
    /\ receipts' = [receipts EXCEPT ![e][c].ready = TRUE]
    /\ UNCHANGED <<mailbox, records, applied>>

-----------------------------------------------------------------------------
MailboxTypeOK ==
    /\ mailbox \in [Events -> Bodies \cup {NoBody}]
    /\ receipts \in [Events -> [Consumers -> Receipt]]
    /\ records \in [Events -> Bodies \cup {NoBody}]
    /\ applied \in [Events -> [Consumers -> Nat]]
=============================================================================
