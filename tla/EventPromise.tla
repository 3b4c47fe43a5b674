---------------------------- MODULE EventPromise ----------------------------
(***************************************************************************)
(* What event delivery promises its users, with no tables, leases, broker  *)
(* or workers: an event is committed once with one envelope, and each      *)
(* consumer handles it at most once, after it was committed, and sees that *)
(* envelope.  A recordable event that was handled is in the journal.       *)
(* Nothing says that a committed event is handled: delivery may give up.   *)
(***************************************************************************)
EXTENDS Envelopes

CONSTANTS Consumers, Recordable

VARIABLES
    committed,    \* event id to the committed body
    handled,      \* how often a consumer has handled an event
    journal       \* event id to the body the journal shows

promiseVars == <<committed, handled, journal>>

PromiseInit ==
    /\ committed = [e \in Events |-> NoBody]
    /\ handled = [e \in Events |-> [c \in Consumers |-> 0]]
    /\ journal = [e \in Events |-> NoBody]

Commit(e, b) ==
    /\ committed[e] = NoBody
    /\ committed' = [committed EXCEPT ![e] = b]
    /\ UNCHANGED <<handled, journal>>

Handle(e, c) ==
    /\ committed[e] # NoBody
    /\ handled[e][c] = 0
    /\ handled' = [handled EXCEPT ![e][c] = 1]
    /\ journal' = [journal EXCEPT ![e] =
                     IF committed[e] \in Recordable THEN committed[e] ELSE @]
    /\ UNCHANGED committed

PromiseNext ==
    \/ \E e \in Events, b \in Bodies : Commit(e, b)
    \/ \E e \in Events, c \in Consumers : Handle(e, c)

PromiseSpec == PromiseInit /\ [][PromiseNext]_promiseVars
=============================================================================
