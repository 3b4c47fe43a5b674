------------------------------- MODULE Outbox -------------------------------
(***************************************************************************)
(* The transactional outbox of shared/events/postgres: the table           *)
(* n2f_outbox and the operations of Store on it.  Every operation is one   *)
(* database transaction and is one action here.                            *)
(*                                                                         *)
(* Timestamps are only ever compared with the database clock, so a row     *)
(* keeps the results of the two comparisons: ready is  available_at <= now *)
(* and live is  lease_until > now.  The passing of time is the actions     *)
(* RetryDue and LeaseExpires, which may happen at any moment (a process    *)
(* can be suspended for any time).                                         *)
(***************************************************************************)
EXTENDS Envelopes

VARIABLES
    outbox,       \* the table n2f_outbox
    nextToken     \* the next lease token the id generator hands out

outboxVars == <<outbox, nextToken>>

\* Lease tokens are fresh ids; NoLease is the NULL of the lease column.
NoLease == 0

Row == [state    : {"absent", "pending", "sent", "dead"},
        body     : Bodies \cup {NoBody},
        attempts : 0..MaxAttempts,
        ready    : BOOLEAN,
        lease    : Nat,
        live     : BOOLEAN]

AbsentRow == [state |-> "absent", body |-> NoBody, attempts |-> 0,
              ready |-> FALSE, lease |-> NoLease, live |-> FALSE]

\* The column defaults of 0001_events.sql.
NewRow(b) == [state |-> "pending", body |-> b, attempts |-> 0,
              ready |-> TRUE, lease |-> NoLease, live |-> FALSE]

OutboxInit ==
    /\ outbox = [e \in Events |-> AbsentRow]
    /\ nextToken = 1

-----------------------------------------------------------------------------
(* Enqueue: the insert a producer runs inside its own transaction.  It     *)
(* commits when the id is new, or when the stored envelope is the same one *)
(* (which changes nothing); another envelope under a used id is            *)
(* events.id_reused and rolls the producer's transaction back.             *)
Enqueue(e, b) ==
    /\ outbox[e].state = "absent" \/ outbox[e].body = b
    /\ outbox' = [outbox EXCEPT ![e] =
                    IF @.state = "absent" THEN NewRow(b) ELSE @]
    /\ UNCHANGED nextToken

(* A row is free when no unexpired lease protects it.                      *)
Unleased(r) == r.lease = NoLease \/ ~r.live

(* Faults: the sweep forgets  state='pending',  or is missing.             *)
SweepAnyState(r) ==
    IF r.attempts = MaxAttempts /\ Unleased(r)
    THEN [r EXCEPT !.state = "dead", !.lease = NoLease, !.live = FALSE]
    ELSE r
SweepMissing(r) == r

(* The first statement of claim: rows whose last lease ran out are dead.   *)
Sweep(r) ==
    IF r.state = "pending" /\ r.attempts = MaxAttempts /\ Unleased(r)
    THEN [r EXCEPT !.state = "dead", !.lease = NoLease, !.live = FALSE]
    ELSE r

(* The second statement's candidates.                                      *)
Claimable(r) ==
    /\ r.state = "pending"
    /\ r.attempts < MaxAttempts
    /\ r.ready
    /\ Unleased(r)

(* What the second statement writes into the candidate it selected.        *)
Leased(r, token) ==
    [r EXCEPT !.lease = token, !.live = TRUE, !.attempts = @ + 1]

(* Claim: sweep, then lease one candidate under a fresh token.  The order  *)
(* by available_at is not kept: any candidate may be the selected one.     *)
Claim(e) ==
    /\ Claimable(outbox[e])
    /\ outbox' = [x \in Events |-> IF x = e THEN Leased(outbox[x], nextToken)
                                            ELSE Sweep(outbox[x])]
    /\ nextToken' = nextToken + 1

(* Claim when there is no candidate: only the sweep is committed.          *)
ClaimNone ==
    /\ \A e \in Events : ~Claimable(outbox[e])
    /\ outbox' = [x \in Events |-> Sweep(outbox[x])]
    /\ UNCHANGED nextToken

(* Fault: finish does not compare the token.                               *)
OwnsAnyToken(r, token) == r.lease # NoLease /\ r.state = "pending" /\ r.live

(* The WHERE clause of finish.                                             *)
Owns(r, token) ==
    /\ r.lease = token
    /\ r.state = "pending"
    /\ r.live

(* Ack and release: finish(lease, true) and finish(lease, false).  Without *)
(* Owns they change no row and report events.lease_lost.                   *)
Ack(e, token) ==
    /\ Owns(outbox[e], token)
    /\ outbox' = [outbox EXCEPT ![e].state = "sent", ![e].lease = NoLease,
                                ![e].live = FALSE, ![e].ready = FALSE]
    /\ UNCHANGED nextToken

Release(e, token) ==
    /\ Owns(outbox[e], token)
    /\ outbox' = [outbox EXCEPT
                    ![e].state = IF outbox[e].attempts >= MaxAttempts
                                 THEN "dead" ELSE "pending",
                    ![e].lease = NoLease, ![e].live = FALSE,
                    ![e].ready = FALSE]
    /\ UNCHANGED nextToken

-----------------------------------------------------------------------------
(* The database clock.                                                     *)
LeaseExpires(e) ==
    /\ outbox[e].live
    /\ outbox' = [outbox EXCEPT ![e].live = FALSE]
    /\ UNCHANGED nextToken

RetryDue(e) ==
    /\ outbox[e].state = "pending"
    /\ ~outbox[e].ready
    /\ outbox' = [outbox EXCEPT ![e].ready = TRUE]
    /\ UNCHANGED nextToken

-----------------------------------------------------------------------------
(* The outbox among callers of any kind: any token ever handed out may be  *)
(* presented at any time, as often as the caller likes.                    *)
OutboxNext ==
    \/ \E e \in Events, b \in Bodies : Enqueue(e, b)
    \/ \E e \in Events : Claim(e)
    \/ ClaimNone
    \/ \E e \in Events, t \in 1..(nextToken - 1) : Ack(e, t) \/ Release(e, t)
    \/ \E e \in Events : LeaseExpires(e) \/ RetryDue(e)

OutboxSpec == OutboxInit /\ [][OutboxNext]_outboxVars

-----------------------------------------------------------------------------
OutboxTypeOK ==
    /\ outbox \in [Events -> Row]
    /\ nextToken \in Nat \ {0}

(* What the columns of a row say about each other: only a pending row is   *)
(* leased, and only under a token that was handed out.                     *)
RowsOK ==
    \A e \in Events :
        /\ outbox[e].state = "absent" <=> outbox[e].body = NoBody
        /\ outbox[e].lease # NoLease => outbox[e].state = "pending"
        /\ outbox[e].live => outbox[e].lease # NoLease
        /\ outbox[e].lease < nextToken

(* No operation takes an event back or changes its envelope; what is sent  *)
(* or dead stays so.                                                       *)
RowsGrow ==
    \A e \in Events :
        /\ outbox[e].state # "absent" =>
              /\ outbox'[e].state # "absent"
              /\ outbox'[e].body = outbox[e].body
        /\ outbox[e].state \in {"sent", "dead"} =>
              outbox'[e].state = outbox[e].state

(* An unexpired lease protects its row from everything except the lapse of *)
(* the lease itself and a finish that presents its token.                  *)
LeaseExcludes ==
    \A e \in Events : outbox[e].live =>
        \/ outbox'[e] = outbox[e]
        \/ outbox'[e] = [outbox[e] EXCEPT !.live = FALSE]
        \/ outbox'[e] = [outbox[e] EXCEPT !.ready = TRUE]
        \/ Ack(e, outbox[e].lease)
        \/ Release(e, outbox[e].lease)
=============================================================================
