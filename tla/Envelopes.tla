----------------------------- MODULE Envelopes -----------------------------
(***************************************************************************)
(* What the parts of event delivery share: envelopes, reduced to an event  *)
(* id and a body, and the attempt limit of the outbox and of the receipts. *)
(* Two envelopes of one id are equal as jsonb iff their bodies are.        *)
(***************************************************************************)
EXTENDS Naturals

CONSTANTS
    Events,       \* event ids
    Bodies,       \* what an envelope carries besides its id
    NoEvent,      \* the id where there is no envelope
    NoBody,       \* the body where there is no envelope
    MaxAttempts   \* attempts at delivering or consuming: 5 in the code

ASSUME EnvelopeAssumption ==
    /\ NoEvent \notin Events
    /\ NoBody \notin Bodies
    /\ MaxAttempts \in Nat \ {0}
=============================================================================
