------------------------------ MODULE Sockets -------------------------------
(***************************************************************************)
(* The WebSocket server (shared/socket/axum): upgrades, the session loop   *)
(* of a connection, heartbeats, revalidation of the admission, and a close *)
(* that signals every loop and drains the slots while upgrades go on.      *)
(* Handlers, loops and the closing thread interleave between any two       *)
(* reads of the flag, the signal and the slots.                            *)
(***************************************************************************)
EXTENDS Naturals, FiniteSets

CONSTANTS Conns, Slots       \* 64
SocketsAssumption == Slots \in Nat \ {0}

VARIABLES stage,     \* stage[c]: where the connection is
          permits,   \* connections that hold a slot
          told,      \* told[c]: its receiver has an unseen stop signal
          pong,      \* pong[c]: the last ping was answered
          valid,     \* valid[c]: its session still passes revalidation
          silent,    \* silent[c]: the peer neither sends, answers nor hangs up
          sent,      \* sent[c]: the session was valid when the message at hand came
          closed,    \* the flag
          closing    \* Server::close: "no", "flagged", "draining", "drained", "late"
vars == <<stage, permits, told, pong, valid, silent, sent, closed, closing>>

Loop      == {"waiting", "checking_message", "handling", "checking_beat"}
Subscribed == Loop \cup {"subscribed"}

Init == /\ stage = [c \in Conns |-> "new"] /\ permits = {}
        /\ told = [c \in Conns |-> FALSE] /\ pong = [c \in Conns |-> TRUE]
        /\ valid = [c \in Conns |-> TRUE] /\ silent = [c \in Conns |-> FALSE]
        /\ sent = [c \in Conns |-> TRUE] /\ closed = FALSE /\ closing = "no"

Go(c, from, to) == stage[c] = from /\ stage' = [stage EXCEPT ![c] = to]
(* `break` and `return`: the session's close runs, the permit is dropped.  *)
End(c) == /\ stage' = [stage EXCEPT ![c] = "over"]
          /\ permits' = permits \ {c}
Still == UNCHANGED <<pong, valid, silent, sent, closed, closing>>
-----------------------------------------------------------------------------
(* upgrade: origin and protocol, the flag, the authorization, a slot.      *)
Upgrade(c) ==
  /\ stage[c] = "new"
  /\ Go(c, "new", IF closed THEN "over" ELSE "authorizing")
  /\ UNCHANGED <<permits, told>> /\ Still
Authorize(c) ==
  /\ \/ Go(c, "authorizing", "authorized") /\ valid[c]
     \/ Go(c, "authorizing", "over")
  /\ UNCHANGED <<permits, told>> /\ Still
(* While close waits for all slots, those that are free are its own.       *)
Free == closing # "draining" /\ Cardinality(permits) < Slots
TakeSlot(c) ==
  /\ stage[c] = "authorized"
  /\ IF Free THEN Go(c, "authorized", "upgraded") /\ permits' = permits \cup {c}
     ELSE Go(c, "authorized", "over") /\ UNCHANGED permits
  /\ UNCHANGED told /\ Still

(* run: the root's open, the subscription, then the flag again.            *)
Subscribe(c) ==
  /\ \/ Go(c, "upgraded", "goodbye")            \* the root's open fails
     \/ Go(c, "upgraded", "subscribed")
  /\ told' = [told EXCEPT ![c] = FALSE] /\ UNCHANGED permits /\ Still
EnterUnchecked(c) ==       \* mutant: the flag is not read again
  Go(c, "subscribed", "waiting") /\ UNCHANGED <<permits, told>> /\ Still
Enter(c) ==
  /\ Go(c, "subscribed", IF closed THEN "goodbye" ELSE "waiting")
  /\ UNCHANGED <<permits, told>> /\ Still

(* The branches of the select in the loop and in the handler.              *)
Stop(c) ==
  /\ told[c] /\ stage[c] \in {"waiting", "handling"}
  /\ stage' = [stage EXCEPT ![c] = "goodbye"] /\ told' = [told EXCEPT ![c] = FALSE]
  /\ UNCHANGED permits /\ Still
Beat(c) ==
  /\ stage[c] = "waiting"
  /\ IF pong[c] THEN stage' = [stage EXCEPT ![c] = "checking_beat"] /\ UNCHANGED permits
     ELSE End(c)
  /\ UNCHANGED told /\ Still
(* admission_valid: an answer in one second, else the session is refused.  *)
BeatUnvalidated(c) ==      \* mutant: the heartbeat only pings
  /\ Go(c, "checking_beat", "waiting") /\ pong' = [pong EXCEPT ![c] = FALSE]
  /\ UNCHANGED <<permits, told, valid, silent, sent, closed, closing>>
Ping(c) ==
  /\ stage[c] = "checking_beat"
  /\ \/ /\ valid[c] /\ pong' = [pong EXCEPT ![c] = FALSE]
        /\ Go(c, "checking_beat", "waiting") /\ UNCHANGED permits
     \/ /\ valid[c] /\ pong' = [pong EXCEPT ![c] = FALSE] /\ End(c)   \* the send fails
     \/ Go(c, "checking_beat", "goodbye") /\ UNCHANGED <<pong, permits>>
  /\ UNCHANGED <<told, valid, silent, sent, closed, closing>>
Pong(c) ==
  /\ stage[c] = "waiting" /\ ~silent[c] /\ pong' = [pong EXCEPT ![c] = TRUE]
  /\ UNCHANGED <<stage, permits, told, valid, silent, sent, closed, closing>>
Text(c) ==
  /\ ~silent[c] /\ Go(c, "waiting", "checking_message")
  /\ sent' = [sent EXCEPT ![c] = valid[c]]
  /\ UNCHANGED <<permits, told, pong, valid, silent, closed, closing>>
Validate(c) ==
  /\ \/ valid[c] /\ Go(c, "checking_message", "handling")
     \/ Go(c, "checking_message", "goodbye")        \* refused, late, or malformed
  /\ UNCHANGED <<permits, told>> /\ Still
Answer(c) ==
  /\ stage[c] = "handling"
  /\ \/ Go(c, "handling", "waiting") /\ UNCHANGED permits
     \/ Go(c, "handling", "goodbye") /\ UNCHANGED permits   \* handler error or timeout
     \/ End(c)                                              \* the write fails or is slow
  /\ UNCHANGED told /\ Still
(* Binary, oversize or broken frames get a close frame; an end does not.   *)
Hangup(c) ==
  /\ stage[c] = "waiting" /\ ~silent[c]
  /\ \/ Go(c, "waiting", "goodbye") /\ UNCHANGED permits
     \/ End(c)
  /\ UNCHANGED told /\ Still
(* The close frame is tried for 100 ms. *)
Goodbye(c) == stage[c] = "goodbye" /\ End(c) /\ UNCHANGED told /\ Still

(* Server::close. *)
Close  == /\ closing = "no" /\ closing' = "flagged" /\ closed' = TRUE
          /\ UNCHANGED <<stage, permits, told, pong, valid, silent, sent>>
Signal == /\ closing = "flagged" /\ closing' = "draining"
          /\ told' = [c \in Conns |-> told[c] \/ stage[c] \in Subscribed]
          /\ UNCHANGED <<stage, permits, pong, valid, silent, sent, closed>>
Drain  == /\ closing = "draining"
          /\ \/ permits = {} /\ closing' = "drained"
             \/ closing' = "late"
          /\ UNCHANGED <<stage, permits, told, pong, valid, silent, sent, closed>>

(* The world: a session ends, a peer falls silent. *)
Revoke(c) == valid[c] /\ valid' = [valid EXCEPT ![c] = FALSE]
             /\ UNCHANGED <<stage, permits, told, pong, silent, sent, closed, closing>>
Hush(c)   == ~silent[c] /\ silent' = [silent EXCEPT ![c] = TRUE]
             /\ UNCHANGED <<stage, permits, told, pong, valid, sent, closed, closing>>

Serve(c) == \/ TakeSlot(c) \/ Subscribe(c) \/ Enter(c) \/ Stop(c)
            \/ Ping(c) \/ Validate(c) \/ Answer(c) \/ Goodbye(c)
Next == \/ \E c \in Conns : \/ Upgrade(c) \/ Authorize(c) \/ Serve(c) \/ Beat(c) \/ Pong(c)
                            \/ Text(c) \/ Hangup(c) \/ Revoke(c) \/ Hush(c)
        \/ Close \/ Signal \/ Drain
Spec == Init /\ [][Next]_vars
(* Every await of the loop is bounded by a timer, and select is fair to    *)
(* the signal and the heartbeat even while a peer keeps sending.           *)
FairSpec == /\ Spec /\ WF_vars(Signal)
            /\ \A c \in Conns : WF_vars(Serve(c)) /\ SF_vars(Stop(c)) /\ SF_vars(Beat(c))
-----------------------------------------------------------------------------
(* The type invariant; W01 bounds the connections by the slots.            *)
TypeOK ==
  /\ stage \in [Conns -> {"new", "authorizing", "authorized", "upgraded", "goodbye", "over"}
                         \cup Subscribed]
  /\ permits = {c \in Conns : stage[c] \in Subscribed \cup {"upgraded", "goodbye"}}
  /\ Cardinality(permits) <= Slots
  /\ told \in [Conns -> BOOLEAN] /\ pong \in [Conns -> BOOLEAN] /\ valid \in [Conns -> BOOLEAN]
  /\ silent \in [Conns -> BOOLEAN] /\ sent \in [Conns -> BOOLEAN] /\ closed \in BOOLEAN
  /\ closing \in {"no", "flagged", "draining", "drained", "late"}

(* W04: once close has reported its drain, no connection is served: an     *)
(* upgrade that was under way is turned away before its first message.     *)
DrainedIsQuiet == closing = "drained" => \A c \in Conns : stage[c] \notin Loop

(* No loop goes on unaware of the close: it has the signal, or it will     *)
(* read the flag before it starts.                                         *)
NobodyMissesTheSignal ==
  closing \in {"draining", "drained", "late"} =>
    \A c \in Conns : stage[c] \in Loop => told[c]

(* R12a, W04: a message that arrived when the session was already over is  *)
(* never handled.                                                          *)
NothingAfterRevocation == \A c \in Conns : stage[c] = "handling" => sent[c]

(* W04: after close every connection leaves its loop, whatever its peer    *)
(* does.                                                                   *)
CloseEndsAll == \A c \in Conns : []<>~(stage[c] \in Loop /\ closed)
(* W04: a connection whose session is over ends, even without a message.   *)
RevokedEnds == \A c \in Conns : []<>~(stage[c] \in Loop /\ ~valid[c])
(* W04: a peer that does not answer is cut off.                            *)
SilentIsCut == \A c \in Conns : []<>~(stage[c] \in Loop /\ silent[c])

(* No socket outlives its right to be served: neither a close nor the end  *)
(* of its session can pass it by, wherever its upgrade or its loop is then.*)
SocketsAreSafe == /\ TypeOK /\ DrainedIsQuiet
                  /\ NobodyMissesTheSignal /\ NothingAfterRevocation
=============================================================================
