------------------------------ MODULE Outbound ------------------------------
(***************************************************************************)
(* The outbound HTTP client (shared/httpclient): bounded attempts to one   *)
(* configured origin, closed while they are under way.  A call reads the   *)
(* flag, takes a slot, subscribes to the stop signal and reads the flag    *)
(* again; then the attempt races its timeout and the signal.  The body of  *)
(* a response comes in pieces, counted against the bound.                  *)
(***************************************************************************)
EXTENDS Naturals, FiniteSets

CONSTANTS Calls,
          Slots,         \* 64
          MaxResponse,   \* the bound on a response, in pieces
          Lengths        \* lengths of the bodies that the origin answers with
OutboundAssumption == Slots \in Nat \ {0} /\ MaxResponse \in Nat /\ Lengths \subseteq Nat

VARIABLES at,       \* at[k]: "idle", "entered", "holding", "subscribed", "sending", "reading", "done"
          wanted,   \* wanted[k]: the length of the body that the origin sends
          got,      \* got[k]: the pieces received
          told,     \* told[k]: its receiver has an unseen stop signal
          result,   \* result[k]: what the call returned
          held,     \* calls that hold a slot
          closed, signalled
vars == <<at, wanted, got, told, result, held, closed, signalled>>

Init == /\ at = [k \in Calls |-> "idle"] /\ wanted \in [Calls -> Lengths]
        /\ got = [k \in Calls |-> 0] /\ told = [k \in Calls |-> FALSE]
        /\ result = [k \in Calls |-> "none"] /\ held = {}
        /\ closed = FALSE /\ signalled = FALSE

Go(k, from, to) == at[k] = from /\ at' = [at EXCEPT ![k] = to]
Return(k, r) == /\ at' = [at EXCEPT ![k] = "done"] /\ result' = [result EXCEPT ![k] = r]
                /\ held' = held \ {k}
Keep == UNCHANGED <<wanted, closed, signalled>>

(* execute, up to the select. *)
Enter(k) ==
  /\ at[k] = "idle"
  /\ IF closed THEN Return(k, "closed") ELSE Go(k, "idle", "entered") /\ UNCHANGED <<result, held>>
  /\ UNCHANGED <<got, told>> /\ Keep
TakeSlot(k) ==
  /\ at[k] = "entered"
  /\ \/ Cardinality(held) >= Slots /\ Return(k, "busy")
     \/ /\ Cardinality(held) < Slots
        /\ \/ Go(k, "entered", "holding") /\ held' = held \cup {k} /\ UNCHANGED result
           \/ Return(k, "request")     \* a method, path or body that is refused
  /\ UNCHANGED <<got, told>> /\ Keep
Subscribe(k) ==
  /\ Go(k, "holding", "subscribed") /\ told' = [told EXCEPT ![k] = FALSE]
  /\ UNCHANGED <<got, result, held>> /\ Keep
StartUnchecked(k) ==   \* mutant: the flag is not read again
  /\ Go(k, "subscribed", "sending") /\ UNCHANGED <<got, told, result, held>> /\ Keep
Start(k) ==
  /\ at[k] = "subscribed"
  /\ IF closed THEN Return(k, "closed") ELSE Go(k, "subscribed", "sending") /\ UNCHANGED <<result, held>>
  /\ UNCHANGED <<got, told>> /\ Keep

(* The attempt: the head of a response, its pieces, its end.               *)
Head(k) ==
  /\ at[k] = "sending"
  /\ \/ Go(k, "sending", "reading") /\ UNCHANGED <<result, held>>
     \/ Return(k, "network") \/ Return(k, "protocol")
  /\ UNCHANGED <<got, told>> /\ Keep
Piece(k) ==
  /\ at[k] = "reading" /\ got[k] < wanted[k]
  /\ IF got[k] + 1 > MaxResponse THEN Return(k, "too_large") /\ UNCHANGED got
     ELSE got' = [got EXCEPT ![k] = @ + 1] /\ UNCHANGED <<at, result, held>>
  /\ UNCHANGED told /\ Keep
EndOfBody(k) ==
  /\ at[k] = "reading"
  /\ \/ got[k] = wanted[k] /\ Return(k, "ok")
     \/ Return(k, "network")
  /\ UNCHANGED <<got, told>> /\ Keep
Timeout(k) == /\ at[k] \in {"sending", "reading"} /\ Return(k, "timeout")
              /\ UNCHANGED <<got, told>> /\ Keep
Cancel(k)  == /\ at[k] \in {"sending", "reading"} /\ told[k] /\ Return(k, "canceled")
              /\ UNCHANGED <<got, told>> /\ Keep

(* close: the flag, then the signal to the receivers of the moment. *)
Close  == /\ ~closed /\ closed' = TRUE
          /\ UNCHANGED <<at, wanted, got, told, result, held, signalled>>
Signal == /\ closed /\ ~signalled /\ signalled' = TRUE
          /\ told' = [k \in Calls |-> told[k] \/ at[k] \in {"subscribed", "sending", "reading"}]
          /\ UNCHANGED <<at, wanted, got, result, held, closed>>

Next == \/ \E k \in Calls : \/ Enter(k) \/ TakeSlot(k) \/ Subscribe(k) \/ Start(k) \/ Head(k)
                            \/ Piece(k) \/ EndOfBody(k) \/ Timeout(k) \/ Cancel(k)
        \/ Close \/ Signal
Spec == Init /\ [][Next]_vars
-----------------------------------------------------------------------------
(* The type invariant: a slot is held by the calls that are under way, and *)
(* by no call that has returned (C02).                                     *)
TypeOK ==
  /\ at \in [Calls -> {"idle", "entered", "holding", "subscribed", "sending", "reading", "done"}]
  /\ wanted \in [Calls -> Lengths] /\ got \in [Calls -> Nat] /\ told \in [Calls -> BOOLEAN]
  /\ result \in [Calls -> {"none", "closed", "busy", "request", "network", "protocol",
                           "too_large", "ok", "timeout", "canceled"}]
  /\ held = {k \in Calls : at[k] \in {"holding", "subscribed", "sending", "reading"}}
  /\ Cardinality(held) <= Slots /\ closed \in BOOLEAN /\ signalled \in BOOLEAN

(* C02: once close has returned, every attempt that is still under way has *)
(* been cancelled; none can have started without the signal.               *)
CloseReachesAttempts ==
  signalled => \A k \in Calls : at[k] \in {"sending", "reading"} => told[k]

(* C02, C03: a response is the whole body that the origin sent, within the *)
(* bound; a truncated or larger one is a failure, whenever it breaks.      *)
ResponseIsWhole ==
  \A k \in Calls : /\ got[k] <= MaxResponse
                   /\ result[k] = "ok" => got[k] = wanted[k]

(* A call that races a close, a full pool or a broken body never goes on   *)
(* unseen by the close, keeps no slot and returns no part of a response.   *)
ClientIsClosed == TypeOK /\ CloseReachesAttempts /\ ResponseIsWhole
=============================================================================
