--------------------------- MODULE ServicesProofs ---------------------------
(***************************************************************************)
(* Proofs about the services, for any addresses and proxies, builds and    *)
(* migrations, ids and depths, calls, connections and slots.  A step of    *)
(* the services leaves a component alone or is one step of it, so each     *)
(* component has its own inductive invariant.                              *)
(***************************************************************************)
EXTENDS Services, FiniteSetTheorems, SequenceTheorems, WellFoundedInduction, TLAPS

(* Who holds a slot when one, at c, goes from a place to another.          *)
Holders(D, f, P) == {x \in D : f[x] \in P}

LEMMA HoldersFollow ==
  ASSUME NEW D, NEW f, NEW c \in D, NEW v, NEW P, NEW bound \in Nat, f = [x \in D |-> f[x]],
         IsFiniteSet(Holders(D, f, P)), Cardinality(Holders(D, f, P)) <= bound,
         v \in P /\ f[c] \notin P => Cardinality(Holders(D, f, P)) < bound
  PROVE  LET g == [f EXCEPT ![c] = v]
         IN  /\ Holders(D, g, P) = IF v \in P THEN Holders(D, f, P) \cup {c}
                                               ELSE Holders(D, f, P) \ {c}
             /\ IsFiniteSet(Holders(D, g, P)) /\ Cardinality(Holders(D, g, P)) <= bound
<1>. DEFINE g == [f EXCEPT ![c] = v]
            H == Holders(D, f, P)
            G == Holders(D, g, P)
<1>1. G = IF v \in P THEN H \cup {c} ELSE H \ {c}
  BY DEF Holders
<1>2. c \in H <=> f[c] \in P
  BY DEF Holders
<1>3. IsFiniteSet(H) /\ Cardinality(H) \in Nat /\ Cardinality(H) <= bound
  BY FS_CardinalityType
<1>4. v \in P /\ f[c] \notin P => Cardinality(H) < bound
  OBVIOUS
<1>. HIDE DEF g, H, G
<1>5. CASE v \in P /\ c \notin H
  <2>1. IsFiniteSet(G) /\ Cardinality(G) = Cardinality(H) + 1
    BY <1>1, <1>3, <1>5, FS_AddElement
  <2>. QED  BY <1>1, <1>2, <1>3, <1>4, <1>5, <2>1 DEF g, G, H
<1>6. CASE v \in P /\ c \in H
  <2>1. G = H
    BY <1>1, <1>6
  <2>. QED  BY <1>1, <1>3, <2>1 DEF g, G, H
<1>7. CASE v \notin P
  <2>1. G \subseteq H
    BY <1>1, <1>7
  <2>2. IsFiniteSet(G) /\ Cardinality(G) \in Nat /\ Cardinality(G) <= Cardinality(H)
    BY <1>3, <2>1, FS_Subset, FS_CardinalityType
  <2>. QED  BY <1>1, <1>3, <2>2 DEF g, G, H
<1>. QED  BY <1>5, <1>6, <1>7
-----------------------------------------------------------------------------
(* The sockets.  A slot is held from the upgrade to the end.               *)
Serving == {"upgraded", "subscribed", "waiting", "checking_message", "handling", "checking_beat",
            "goodbye"}
Places  == Serving \cup {"new", "authorizing", "authorized", "over"}
Signalled == {"draining", "drained", "late"}

SocketsTyped ==
  /\ socket \in [Conns -> Places] /\ told \in [Conns -> BOOLEAN] /\ pong \in [Conns -> BOOLEAN]
  /\ valid \in [Conns -> BOOLEAN] /\ silent \in [Conns -> BOOLEAN] /\ sent \in [Conns -> BOOLEAN]
  /\ closed \in BOOLEAN /\ closing \in {"no", "flagged"} \cup Signalled
  /\ closed <=> closing # "no"
SlotsAreHeld ==
  /\ taken = Holders(Conns, socket, Serving)
  /\ IsFiniteSet(taken) /\ Cardinality(taken) <= ConnSlots
LoopsKnow ==
  \A c \in Conns : socket[c] \in Sck!Loop =>
    /\ closing # "drained"
    /\ closing \in Signalled => told[c]
MessagesAreChecked ==
  \A c \in Conns : /\ socket[c] = "checking_message" /\ valid[c] => sent[c]
                   /\ socket[c] = "handling" => sent[c]
SocketsInv == SocketsTyped /\ SlotsAreHeld /\ LoopsKnow /\ MessagesAreChecked

(* A step of connection c, to a place: what it may do to the others.       *)
Moves(c, to) ==
  /\ socket' = [socket EXCEPT ![c] = to] /\ to \in Places
  /\ taken' = IF to \in Serving THEN taken \cup {c} ELSE taken \ {c}
  /\ to \in Serving /\ socket[c] \notin Serving => Cardinality(taken) < ConnSlots
  /\ UNCHANGED <<valid, silent, closed, closing>>
  /\ told' = told \/ (told' = [told EXCEPT ![c] = FALSE] /\ to \notin Sck!Loop)
  /\ to \in Sck!Loop => socket[c] \in Sck!Loop \/ ~closed
  /\ to = "checking_message" => sent' = [sent EXCEPT ![c] = valid[c]]
  /\ to # "checking_message" => sent' = sent
  /\ to = "handling" => socket[c] = "checking_message" /\ valid[c]
  /\ pong' \in [Conns -> BOOLEAN]

LEMMA SocketMoves ==
  ASSUME SocketsInv, NEW c \in Conns,
         \/ Sck!Upgrade(c) \/ Sck!Authorize(c) \/ Sck!Serve(c) \/ Sck!Beat(c) \/ Sck!Pong(c)
         \/ Sck!Text(c) \/ Sck!Hangup(c)
  PROVE  \E to : Moves(c, to)
<1>. USE DEF SocketsInv, SocketsTyped, SlotsAreHeld, Holders, Serving, Places, Moves,
         Sck!Go, Sck!End, Sck!Still, Sck!Loop
<1>1. \A S : Sck!Cardinality(S) = Cardinality(S)
  BY DEF Sck!Cardinality, Cardinality
<1>2. socket[c] \in Serving <=> c \in taken
  OBVIOUS
<1>3. CASE Sck!Upgrade(c)
  BY <1>3 DEF Sck!Upgrade
<1>4. CASE Sck!Authorize(c)
  BY <1>4 DEF Sck!Authorize
<1>5. CASE Sck!TakeSlot(c)
  BY <1>1, <1>5 DEF Sck!TakeSlot, Sck!Free
<1>6. CASE Sck!Subscribe(c)
  BY <1>6 DEF Sck!Subscribe
<1>7. CASE Sck!Enter(c)
  BY <1>7 DEF Sck!Enter
<1>8. CASE Sck!Stop(c)
  BY <1>8 DEF Sck!Stop
<1>9. CASE Sck!Ping(c)
  <2>. DEFINE pinged == [pong EXCEPT ![c] = FALSE]
  <2>1. socket[c] = "checking_beat" /\ UNCHANGED <<told, valid, silent, sent, closed, closing>>
    BY <1>9 DEF Sck!Ping
  <2>2. \/ pong' = pinged /\ socket' = [socket EXCEPT ![c] = "waiting"] /\ taken' = taken
        \/ pong' = pinged /\ socket' = [socket EXCEPT ![c] = "over"] /\ taken' = taken \ {c}
        \/ pong' = pong /\ socket' = [socket EXCEPT ![c] = "goodbye"] /\ taken' = taken
    BY <1>9 DEF Sck!Ping
  <2>3. pong' \in [Conns -> BOOLEAN]
    BY <2>2
  <2>. HIDE DEF pinged
  <2>4. c \in taken
    BY <1>2, <2>1
  <2>5. socket' = [socket EXCEPT ![c] = "waiting"] /\ taken' = taken => Moves(c, "waiting")
    BY <2>1, <2>3, <2>4
  <2>6. socket' = [socket EXCEPT ![c] = "over"] /\ taken' = taken \ {c} => Moves(c, "over")
    BY <2>1, <2>3
  <2>7. socket' = [socket EXCEPT ![c] = "goodbye"] /\ taken' = taken => Moves(c, "goodbye")
    BY <2>1, <2>3, <2>4
  <2>. QED  BY <2>2, <2>5, <2>6, <2>7
<1>10. CASE Sck!Validate(c)
  BY <1>10 DEF Sck!Validate
<1>11. CASE Sck!Answer(c)
  BY <1>11 DEF Sck!Answer
<1>12. CASE Sck!Goodbye(c)
  BY <1>12 DEF Sck!Goodbye
<1>13. CASE Sck!Beat(c)
  BY <1>13 DEF Sck!Beat
<1>14. CASE Sck!Pong(c)
  <2>1. Moves(c, "waiting")
    BY <1>14 DEF Sck!Pong
  <2>. QED  BY <2>1
<1>15. CASE Sck!Text(c)
  BY <1>15 DEF Sck!Text
<1>16. CASE Sck!Hangup(c)
  BY <1>16 DEF Sck!Hangup
<1>. QED  BY <1>3, <1>4, <1>5, <1>6, <1>7, <1>8, <1>9, <1>10, <1>11, <1>12, <1>13, <1>14, <1>15,
          <1>16 DEF Sck!Serve

LEMMA MoveKeeps ==
  ASSUME SocketsInv, NEW c \in Conns, NEW to, Moves(c, to)
  PROVE  SocketsInv'
<1>1. /\ socket' = [socket EXCEPT ![c] = to] /\ to \in Places
      /\ UNCHANGED <<valid, silent, closed, closing>>
  BY DEF Moves
<1>2. SocketsTyped'
  <2>1. told' \in [Conns -> BOOLEAN] /\ sent' \in [Conns -> BOOLEAN] /\ pong' \in [Conns -> BOOLEAN]
    BY DEF SocketsInv, SocketsTyped, Moves
  <2>. QED  BY <1>1, <2>1 DEF SocketsInv, SocketsTyped
<1>3. SlotsAreHeld'
  <2>1. ConnSlots \in Nat
    BY ServicesAssumption DEF Sck!SocketsAssumption
  <2>2. socket = [x \in Conns |-> socket[x]]
    BY DEF SocketsInv, SocketsTyped
  <2>3. taken = Holders(Conns, socket, Serving)
    BY DEF SocketsInv, SlotsAreHeld
  <2>4. /\ IsFiniteSet(Holders(Conns, socket, Serving))
        /\ Cardinality(Holders(Conns, socket, Serving)) <= ConnSlots
        /\ to \in Serving /\ socket[c] \notin Serving
             => Cardinality(Holders(Conns, socket, Serving)) < ConnSlots
    BY <2>3 DEF SocketsInv, SlotsAreHeld, Moves
  <2>. DEFINE after == [socket EXCEPT ![c] = to]
  <2>5. /\ Holders(Conns, after, Serving) = IF to \in Serving THEN Holders(Conns, socket, Serving) \cup {c}
                                             ELSE Holders(Conns, socket, Serving) \ {c}
        /\ IsFiniteSet(Holders(Conns, after, Serving))
        /\ Cardinality(Holders(Conns, after, Serving)) <= ConnSlots
    BY <2>1, <2>2, <2>4, HoldersFollow
  <2>6. after = socket'
    BY <1>1
  <2>. HIDE DEF after
  <2>. QED  BY <2>3, <2>5, <2>6 DEF SlotsAreHeld, Moves
<1>4. LoopsKnow'
  BY <1>1 DEF SocketsInv, SocketsTyped, LoopsKnow, Moves, Signalled
<1>5. MessagesAreChecked'
  BY <1>1 DEF SocketsInv, SocketsTyped, MessagesAreChecked, Moves
<1>. QED  BY <1>2, <1>3, <1>4, <1>5 DEF SocketsInv

LEMMA SocketsNext ==
  ASSUME SocketsInv, Sck!Next
  PROVE  SocketsInv'
<1>. USE DEF SocketsInv, SocketsTyped, SlotsAreHeld, LoopsKnow, MessagesAreChecked, Signalled
<1>1. CASE Sck!Close
  BY <1>1 DEF Sck!Close
<1>2. CASE Sck!Signal
  BY <1>2 DEF Sck!Signal, Sck!Subscribed
<1>3. CASE Sck!Drain
  <2>1. taken = {} => \A c \in Conns : socket[c] \notin Sck!Loop
    BY DEF Holders, Serving, Sck!Loop
  <2>. QED  BY <1>3, <2>1 DEF Sck!Drain
<1>4. ASSUME NEW c \in Conns, Sck!Revoke(c) \/ Sck!Hush(c)
      PROVE  SocketsInv'
  <2>1. /\ UNCHANGED <<socket, taken, told, pong, sent, closed, closing>>
        /\ \/ valid' = [valid EXCEPT ![c] = FALSE] /\ silent' = silent
           \/ valid' = valid /\ silent' = [silent EXCEPT ![c] = TRUE]
    BY <1>4 DEF Sck!Revoke, Sck!Hush
  <2>2. /\ valid' \in [Conns -> BOOLEAN] /\ silent' \in [Conns -> BOOLEAN]
        /\ \A x \in Conns : valid'[x] => valid[x]
    BY <2>1
  <2>. QED  BY <2>1, <2>2
<1>5. ASSUME NEW c \in Conns,
             \/ Sck!Upgrade(c) \/ Sck!Authorize(c) \/ Sck!Serve(c) \/ Sck!Beat(c) \/ Sck!Pong(c)
             \/ Sck!Text(c) \/ Sck!Hangup(c)
      PROVE  SocketsInv'
  <2>. HIDE DEF SocketsInv
  <2>. QED  BY <1>5, SocketMoves, MoveKeeps
<1>. HIDE DEF SocketsInv
<1>. QED  BY <1>1, <1>2, <1>3, <1>4, <1>5 DEF Sck!Next

LEMMA SocketsInvariant == ServicesSpec => []SocketsInv
<1>1. ServicesInit => SocketsInv
  <2>. SUFFICES ASSUME Sck!Init
                PROVE  SocketsInv
    BY DEF ServicesInit
  <2>1. taken = {} /\ taken = Holders(Conns, socket, Serving)
    BY DEF Sck!Init, Holders, Serving
  <2>2. SlotsAreHeld
    BY <2>1, ServicesAssumption, FS_EmptySet DEF SlotsAreHeld, Sck!SocketsAssumption
  <2>. QED
    BY <2>2 DEF Sck!Init, SocketsInv, SocketsTyped, LoopsKnow, MessagesAreChecked, Places, Sck!Loop
<1>2. SocketsInv /\ [ServicesNext]_services => SocketsInv'
  <2>1. [ServicesNext]_services => Sck!Next \/ UNCHANGED sockets
    BY DEF ServicesNext, services, SourcesStep, MigrationsStep, LineageStep, OutboundStep, SocketsStep, BrowserStep, LimiterStep
  <2>2. SocketsInv /\ UNCHANGED sockets => SocketsInv'
    BY DEF sockets, SocketsInv, SocketsTyped, SlotsAreHeld, LoopsKnow, MessagesAreChecked
  <2>. QED  BY <2>1, <2>2, SocketsNext
<1>. QED  BY <1>1, <1>2, PTL DEF ServicesSpec

(* Neither a close nor the end of a session passes a connection by,        *)
(* wherever its upgrade or its loop is: for any connections and slots.     *)
THEOREM SocketsStaySafe == ServicesSpec => []SocketsAreSafe
<1>1. SocketsInv => SocketsAreSafe
  <2>. SUFFICES ASSUME SocketsInv
                PROVE  Sck!SocketsAreSafe
    BY DEF SocketsAreSafe
  <2>. USE DEF SocketsInv
  <2>1. \A S : Sck!Cardinality(S) = Cardinality(S)
    BY DEF Sck!Cardinality, Cardinality
  <2>2. Sck!TypeOK
    BY <2>1 DEF SocketsTyped, SlotsAreHeld, Holders, Serving, Places, Signalled, Sck!TypeOK,
       Sck!Subscribed, Sck!Loop
  <2>3. Sck!DrainedIsQuiet /\ Sck!NobodyMissesTheSignal
    BY DEF LoopsKnow, Signalled, Sck!DrainedIsQuiet, Sck!NobodyMissesTheSignal
  <2>4. Sck!NothingAfterRevocation
    BY DEF MessagesAreChecked, Sck!NothingAfterRevocation
  <2>. QED  BY <2>2, <2>3, <2>4 DEF Sck!SocketsAreSafe
<1>. QED  BY <1>1, SocketsInvariant, PTL
-----------------------------------------------------------------------------
(* The outbound client.                                                    *)
UnderWay == {"holding", "subscribed", "sending", "reading"}
Trying   == {"sending", "reading"}
Results  == {"none", "closed", "busy", "request", "network", "protocol", "too_large", "ok",
             "timeout", "canceled"}

CallsTyped ==
  /\ attempt \in [Calls -> UnderWay \cup {"idle", "entered", "done"}]
  /\ wanted \in [Calls -> Lengths] /\ received \in [Calls -> Nat] /\ aborted \in [Calls -> BOOLEAN]
  /\ result \in [Calls -> Results] /\ clientClosed \in BOOLEAN /\ signalled \in BOOLEAN
CallsHoldSlots ==
  /\ slots = Holders(Calls, attempt, UnderWay)
  /\ IsFiniteSet(slots) /\ Cardinality(slots) <= CallSlots
CallsAreReached ==
  signalled => clientClosed /\ \A k \in Calls : attempt[k] \in Trying => aborted[k]
BodiesAreWhole ==
  \A k \in Calls : /\ received[k] <= MaxResponse
                   /\ result[k] = "ok" => received[k] = wanted[k]
                   /\ result[k] # "none" => attempt[k] = "done"
OutboundInv == CallsTyped /\ CallsHoldSlots /\ CallsAreReached /\ BodiesAreWhole

(* A step of call k, to a stage.                                           *)
Goes(k, to) ==
  /\ attempt[k] # "done" /\ attempt' = [attempt EXCEPT ![k] = to]
  /\ to \in UnderWay \cup {"entered", "done"}
  /\ slots' = IF to \in UnderWay THEN slots \cup {k} ELSE slots \ {k}
  /\ to \in UnderWay /\ attempt[k] \notin UnderWay => Cardinality(slots) < CallSlots
  /\ UNCHANGED <<wanted, clientClosed, signalled>>
  /\ aborted' = aborted \/ (aborted' = [aborted EXCEPT ![k] = FALSE] /\ to \notin Trying)
  /\ to \in Trying => attempt[k] \in Trying \/ ~clientClosed
  /\ to # "done" => result' = result
  /\ to = "done" => \E r \in Results : /\ result' = [result EXCEPT ![k] = r]
                                       /\ r = "ok" => received[k] = wanted[k]
                                       /\ received' = received
  /\ \/ received' = received
     \/ received[k] + 1 <= MaxResponse /\ received' = [received EXCEPT ![k] = @ + 1]

LEMMA CallGoes ==
  ASSUME OutboundInv, NEW k \in Calls,
         \/ Out!Enter(k) \/ Out!TakeSlot(k) \/ Out!Subscribe(k) \/ Out!Start(k) \/ Out!Head(k)
         \/ Out!Piece(k) \/ Out!EndOfBody(k) \/ Out!Timeout(k) \/ Out!Cancel(k)
  PROVE  \E to : Goes(k, to)
<1>. USE DEF OutboundInv, CallsTyped, CallsHoldSlots, Holders, UnderWay, Trying, Results, Goes,
         Out!Go, Out!Return, Out!Keep
<1>1. \A S : Out!Cardinality(S) = Cardinality(S)
  BY DEF Out!Cardinality, Cardinality
<1>2. Cardinality(slots) \in Nat /\ CallSlots \in Nat /\ MaxResponse \in Nat
  BY ServicesAssumption, FS_CardinalityType DEF Out!OutboundAssumption
<1>3. CASE Out!Enter(k)
  BY <1>3 DEF Out!Enter
<1>4. CASE Out!TakeSlot(k)
  BY <1>1, <1>4 DEF Out!TakeSlot
<1>5. CASE Out!Subscribe(k)
  BY <1>5 DEF Out!Subscribe
<1>6. CASE Out!Start(k)
  BY <1>6 DEF Out!Start
<1>7. CASE Out!Head(k)
  BY <1>7 DEF Out!Head
<1>8. CASE Out!Piece(k)
  BY <1>2, <1>8 DEF Out!Piece
<1>9. CASE Out!EndOfBody(k)
  BY <1>9 DEF Out!EndOfBody
<1>10. CASE Out!Timeout(k)
  BY <1>10 DEF Out!Timeout
<1>11. CASE Out!Cancel(k)
  BY <1>11 DEF Out!Cancel
<1>. HIDE DEF Goes
<1>. QED  BY <1>3, <1>4, <1>5, <1>6, <1>7, <1>8, <1>9, <1>10, <1>11

LEMMA GoingKeeps ==
  ASSUME OutboundInv, NEW k \in Calls, NEW to, Goes(k, to)
  PROVE  OutboundInv'
<1>1. /\ attempt' = [attempt EXCEPT ![k] = to] /\ UNCHANGED <<wanted, clientClosed, signalled>>
      /\ to \in UnderWay \cup {"entered", "done"} /\ attempt[k] # "done"
      /\ attempt \in [Calls -> UnderWay \cup {"idle", "entered", "done"}]
  BY DEF Goes, OutboundInv, CallsTyped
<1>2. CallsTyped'
  <2>1. aborted' \in [Calls -> BOOLEAN] /\ received' \in [Calls -> Nat]
    <3>1. aborted \in [Calls -> BOOLEAN] /\ received \in [Calls -> Nat]
      BY DEF OutboundInv, CallsTyped
    <3>2. \/ aborted' = aborted
          \/ aborted' = [aborted EXCEPT ![k] = FALSE]
      BY DEF Goes
    <3>3. \/ received' = received
          \/ received' = [received EXCEPT ![k] = @ + 1]
      BY DEF Goes
    <3>4. aborted' \in [Calls -> BOOLEAN]
      BY <3>1, <3>2
    <3>5. received' \in [Calls -> Nat]
      BY <3>1, <3>3
    <3>. QED  BY <3>4, <3>5
  <2>2. result' \in [Calls -> Results]
    BY DEF Goes, OutboundInv, CallsTyped
  <2>. QED  BY <1>1, <2>1, <2>2 DEF OutboundInv, CallsTyped
<1>3. CallsHoldSlots'
  <2>1. CallSlots \in Nat /\ attempt = [x \in Calls |-> attempt[x]]
    BY <1>1, ServicesAssumption DEF Out!OutboundAssumption
  <2>2. slots = Holders(Calls, attempt, UnderWay)
    BY DEF OutboundInv, CallsHoldSlots
  <2>3. /\ IsFiniteSet(Holders(Calls, attempt, UnderWay))
        /\ Cardinality(Holders(Calls, attempt, UnderWay)) <= CallSlots
        /\ to \in UnderWay /\ attempt[k] \notin UnderWay
             => Cardinality(Holders(Calls, attempt, UnderWay)) < CallSlots
    BY <2>2 DEF OutboundInv, CallsHoldSlots, Goes
  <2>. DEFINE after == [attempt EXCEPT ![k] = to]
  <2>4. /\ Holders(Calls, after, UnderWay) =
             IF to \in UnderWay THEN Holders(Calls, attempt, UnderWay) \cup {k}
                                ELSE Holders(Calls, attempt, UnderWay) \ {k}
        /\ IsFiniteSet(Holders(Calls, after, UnderWay))
        /\ Cardinality(Holders(Calls, after, UnderWay)) <= CallSlots
    BY <2>1, <2>3, HoldersFollow
  <2>5. after = attempt'
    BY <1>1
  <2>. HIDE DEF after
  <2>. QED  BY <2>2, <2>4, <2>5 DEF CallsHoldSlots, Goes
<1>4. CallsAreReached'
  BY <1>1 DEF OutboundInv, CallsTyped, CallsAreReached, Goes
<1>5. BodiesAreWhole'
  <2>1. /\ \A x \in Calls : x # k => /\ received'[x] = received[x] /\ result'[x] = result[x]
                                     /\ attempt'[x] = attempt[x] /\ wanted'[x] = wanted[x]
        /\ received'[k] <= MaxResponse
    BY <1>1 DEF Goes, OutboundInv, CallsTyped, BodiesAreWhole
  <2>2. result[k] = "none" /\ attempt'[k] = to
    BY <1>1 DEF OutboundInv, BodiesAreWhole
  <2>3. CASE to = "done"
    <3>1. result'[k] = "ok" => received'[k] = wanted'[k]
      BY <1>1, <2>3 DEF Goes, OutboundInv, CallsTyped
    <3>. QED  BY <2>1, <2>2, <2>3, <3>1 DEF OutboundInv, BodiesAreWhole
  <2>4. CASE to # "done"
    <3>1. result'[k] = "none"
      BY <2>2, <2>4 DEF Goes
    <3>. QED  BY <2>1, <3>1 DEF OutboundInv, BodiesAreWhole
  <2>. QED  BY <2>3, <2>4
<1>. QED  BY <1>2, <1>3, <1>4, <1>5 DEF OutboundInv

LEMMA OutboundNext ==
  ASSUME OutboundInv, Out!Next
  PROVE  OutboundInv'
<1>1. CASE Out!Close
  BY <1>1 DEF Out!Close, OutboundInv, CallsTyped, CallsHoldSlots, CallsAreReached, BodiesAreWhole
<1>2. CASE Out!Signal
  <2>1. /\ UNCHANGED <<attempt, wanted, received, result, slots, clientClosed>> /\ clientClosed
        /\ signalled' = TRUE
        /\ aborted' = [k \in Calls |-> aborted[k] \/ attempt[k] \in {"subscribed", "sending", "reading"}]
    BY <1>2 DEF Out!Signal
  <2>2. CallsTyped' /\ CallsHoldSlots' /\ BodiesAreWhole'
    BY <2>1 DEF OutboundInv, CallsTyped, CallsHoldSlots, BodiesAreWhole
  <2>3. CallsAreReached'
    BY <2>1 DEF CallsAreReached, Trying
  <2>. QED  BY <2>2, <2>3 DEF OutboundInv
<1>. QED  BY <1>1, <1>2, CallGoes, GoingKeeps DEF Out!Next

LEMMA OutboundInvariant == ServicesSpec => []OutboundInv
<1>1. ServicesInit => OutboundInv
  <2>. SUFFICES ASSUME Out!Init
                PROVE  OutboundInv
    BY DEF ServicesInit
  <2>1. CallSlots \in Nat /\ MaxResponse \in Nat
    BY ServicesAssumption DEF Out!OutboundAssumption
  <2>2. slots = {} /\ slots = Holders(Calls, attempt, UnderWay)
    BY DEF Out!Init, Holders, UnderWay
  <2>3. CallsHoldSlots
    BY <2>1, <2>2, FS_EmptySet DEF CallsHoldSlots
  <2>4. CallsTyped /\ CallsAreReached
    BY DEF Out!Init, CallsTyped, CallsAreReached, Results
  <2>5. BodiesAreWhole
    BY <2>1 DEF Out!Init, BodiesAreWhole
  <2>. QED  BY <2>3, <2>4, <2>5 DEF OutboundInv
<1>2. OutboundInv /\ [ServicesNext]_services => OutboundInv'
  <2>1. [ServicesNext]_services => Out!Next \/ UNCHANGED outbound
    BY DEF ServicesNext, services, SourcesStep, MigrationsStep, LineageStep, OutboundStep, SocketsStep, BrowserStep, LimiterStep
  <2>2. OutboundInv /\ UNCHANGED outbound => OutboundInv'
    BY DEF outbound, OutboundInv, CallsTyped, CallsHoldSlots, CallsAreReached, BodiesAreWhole
  <2>. QED  BY <2>1, <2>2, OutboundNext
<1>. QED  BY <1>1, <1>2, PTL DEF ServicesSpec

(* No call goes on unseen by a close, keeps a slot after it has returned   *)
(* or returns part of a body: for any calls, slots, bodies and bound.      *)
THEOREM ClientStaysClosed == ServicesSpec => []ClientIsClosed
<1>1. OutboundInv => ClientIsClosed
  <2>. SUFFICES ASSUME OutboundInv
                PROVE  Out!ClientIsClosed
    BY DEF ClientIsClosed
  <2>. USE DEF OutboundInv
  <2>1. \A S : Out!Cardinality(S) = Cardinality(S)
    BY DEF Out!Cardinality, Cardinality
  <2>2. Out!TypeOK
    BY <2>1 DEF CallsTyped, CallsHoldSlots, Holders, UnderWay, Results, Out!TypeOK
  <2>3. Out!CloseReachesAttempts /\ Out!ResponseIsWhole
    BY DEF CallsAreReached, BodiesAreWhole, Trying, Out!CloseReachesAttempts, Out!ResponseIsWhole
  <2>. QED  BY <2>2, <2>3 DEF Out!ClientIsClosed
<1>. QED  BY <1>1, OutboundInvariant, PTL
-----------------------------------------------------------------------------
(* The ledger.                                                             *)
Entries == [version : Int, sql : STRING]
States  == {"down", "begin", "reading", "applying", "up", "invalid", "drift", "failed"}
Rising(s) == \A i, j \in DOMAIN s : i < j => s[i].version < s[j].version

LEMMA PlansAreOneList ==
  ASSUME NEW b \in Plans
  PROVE  b \in Seq(Seq(Entries)) /\ b # <<>> /\ 1 \in DOMAIN b /\ \A i, j \in DOMAIN b : b[i] = b[j]
BY ServicesAssumption DEF Mig!MigrationsAssumption, Entries

LEMMA LeastOf ==
  ASSUME NEW T \in SUBSET Nat, T # {}
  PROVE  \E x \in T : \A y \in T : x <= y
<1>1. PICK x \in T : \A y \in T : <<y, x>> \notin OpToRel(<, Nat)
  BY NatLessThanWellFounded, WFMin
<1>2. \A y \in T : ~(y < x)
  BY <1>1 DEF OpToRel
<1>. QED  BY <1>2

(* Each version above the one before it is above all before it: otherwise  *)
(* the first that is not has one before it that is.                        *)
LEMMA WellFormedRises ==
  ASSUME NEW s \in Seq(Entries), Mig!WellFormed(s)
  PROVE  Rising(s)
<1>. SUFFICES ASSUME NEW i \in DOMAIN s, NEW j0 \in DOMAIN s, i < j0, ~(s[i].version < s[j0].version)
              PROVE  FALSE
  BY DEF Rising
<1>. DEFINE Bad == {j \in DOMAIN s : i < j /\ ~(s[i].version < s[j].version)}
<1>1. /\ DOMAIN s = 1 .. Len(s) /\ Len(s) \in Nat /\ Bad \in SUBSET Nat /\ Bad # {}
      /\ \A k \in DOMAIN s : s[k].version \in Int
  <2>1. DOMAIN s = 1 .. Len(s) /\ Len(s) \in Nat /\ \A k \in DOMAIN s : s[k] \in Entries
    OBVIOUS
  <2>2. j0 \in Bad /\ Bad \subseteq DOMAIN s
    OBVIOUS
  <2>3. \A e \in Entries : e.version \in Int
    BY DEF Entries
  <2>. HIDE DEF Bad
  <2>. QED  BY <2>1, <2>2, <2>3
<1>2. PICK j \in Bad : \A k \in Bad : j <= k
  BY <1>1, LeastOf
<1>3. j - 1 \in DOMAIN s /\ j - 1 \notin Bad /\ j \in DOMAIN s /\ i < j /\ j # 1
      /\ ~(s[i].version < s[j].version) /\ i <= j - 1 /\ i \in Nat /\ j \in Nat
  <2>1. j \in DOMAIN s /\ i < j /\ ~(s[i].version < s[j].version) /\ i \in Nat /\ j \in Nat
    BY <1>1, <1>2
  <2>2. j - 1 \in 1 .. Len(s) /\ ~(j <= j - 1)
    BY <1>1, <2>1
  <2>3. j - 1 \notin Bad
    BY <1>2, <2>2
  <2>. HIDE DEF Bad
  <2>. QED  BY <1>1, <2>1, <2>2, <2>3
<1>4. s[j - 1].version < s[j].version
  BY <1>3 DEF Mig!WellFormed
<1>5. CASE i = j - 1
  BY <1>3, <1>4, <1>5
<1>6. CASE i < j - 1
  <2>1. s[i].version < s[j - 1].version
    BY <1>3, <1>6
  <2>. QED  BY <1>1, <1>3, <1>4, <2>1
<1>. QED  BY <1>1, <1>3, <1>5, <1>6

LEMMA Prefixes ==
  ASSUME NEW s \in Seq(Entries), NEW t \in Seq(Entries), NEW r \in Seq(Entries)
  PROVE  /\ Mig!IsPrefix(s, s) /\ Mig!IsPrefix(<<>>, s)
         /\ Mig!IsPrefix(s, t) => /\ Mig!IsPrefix(s, t \o r)
                                  /\ s \o Mig!Missing(s, t) = t /\ Mig!Missing(s, t) \in Seq(Entries)
<1>1. Mig!IsPrefix(s, s) /\ Mig!IsPrefix(<<>>, s)
  BY DEF Mig!IsPrefix
<1>. SUFFICES ASSUME Len(s) <= Len(t), SubSeq(s, 1, Len(s)) = SubSeq(t, 1, Len(s))
              PROVE  /\ Len(s) <= Len(t \o r) /\ SubSeq(s, 1, Len(s)) = SubSeq(t \o r, 1, Len(s))
                     /\ s \o SubSeq(t, Len(s) + 1, Len(t)) = t
                     /\ SubSeq(t, Len(s) + 1, Len(t)) \in Seq(Entries)
  BY <1>1 DEF Mig!IsPrefix, Mig!Missing
<1>2. Len(s) \in Nat /\ Len(t) \in Nat /\ Len(r) \in Nat
  OBVIOUS
<1>3. \A i \in 1 .. Len(s) : s[i] = t[i]
  <2>1. \A i \in 1 .. Len(s) : SubSeq(s, 1, Len(s))[i] = s[i] /\ SubSeq(t, 1, Len(s))[i] = t[i]
    BY <1>2
  <2>. QED  BY <2>1
<1>4. t \o r \in Seq(Entries) /\ Len(t \o r) = Len(t) + Len(r)
      /\ \A i \in 1 .. Len(s) : (t \o r)[i] = s[i]
  BY <1>2, <1>3
<1>5. SubSeq(s, 1, Len(s)) = SubSeq(t \o r, 1, Len(s))
  BY <1>2, <1>4
<1>. DEFINE rest == SubSeq(t, Len(s) + 1, Len(t))
<1>6. rest \in Seq(Entries) /\ Len(rest) = Len(t) - Len(s)
      /\ \A i \in 1 .. Len(rest) : rest[i] = t[Len(s) + i]
  BY <1>2
<1>. HIDE DEF rest
<1>7. s \o rest \in Seq(Entries) /\ Len(s \o rest) = Len(t)
      /\ \A i \in 1 .. Len(t) : (s \o rest)[i] = t[i]
  BY <1>2, <1>3, <1>6
<1>8. s \o rest = t
  BY <1>7, SeqEqual
<1>. QED  BY <1>2, <1>4, <1>5, <1>6, <1>8 DEF rest

LEMMA Concatenated ==
  ASSUME NEW a \in Seq(Entries), NEW b \in Seq(Entries)
  PROVE  /\ a \o b \in Seq(Entries) /\ Len(a \o b) = Len(a) + Len(b)
         /\ \A i \in DOMAIN a : i \in DOMAIN (a \o b) /\ (a \o b)[i] = a[i] /\ a[i] \in Entries
         /\ \A j \in DOMAIN b : /\ Len(a) + j \in DOMAIN (a \o b) /\ (a \o b)[Len(a) + j] = b[j]
                                /\ \A i \in DOMAIN a : i < Len(a) + j
<1>1. /\ DOMAIN a = 1 .. Len(a) /\ DOMAIN b = 1 .. Len(b) /\ Len(a) \in Nat /\ Len(b) \in Nat
      /\ a \o b \in Seq(Entries) /\ Len(a \o b) = Len(a) + Len(b)
  OBVIOUS
<1>2. DOMAIN (a \o b) = 1 .. (Len(a) + Len(b))
  BY <1>1
<1>3. \A i \in 1 .. (Len(a) + Len(b)) :
        (a \o b)[i] = IF i <= Len(a) THEN a[i] ELSE b[i - Len(a)]
  BY ConcatProperties
<1>. DEFINE c == a \o b
<1>. HIDE DEF c
<1>4. \A i \in DOMAIN a : i \in DOMAIN c /\ c[i] = a[i] /\ a[i] \in Entries
  BY <1>1, <1>2, <1>3 DEF c
<1>5. \A j \in DOMAIN b : /\ Len(a) + j \in DOMAIN c /\ c[Len(a) + j] = b[j]
                           /\ \A i \in DOMAIN a : i < Len(a) + j
  <2>. TAKE j \in DOMAIN b
  <2>1. /\ Len(a) + j \in 1 .. (Len(a) + Len(b)) /\ ~(Len(a) + j <= Len(a)) /\ Len(a) + j - Len(a) = j
        /\ \A i \in DOMAIN a : i < Len(a) + j
    BY <1>1
  <2>. QED  BY <1>2, <1>3, <2>1 DEF c
<1>. QED  BY <1>1, <1>4, <1>5 DEF c

LEMMA Associative ==
  \A a, b, c \in Seq(Entries) : (a \o b) \o c = a \o (b \o c)
  BY SMT, ConcatAssociative

(* Running the next migration moves it from what is left.                  *)
Joined(h, r, l) == h \o r \o l

LEMMA NextIsRun ==
  ASSUME NEW h \in Seq(Entries), NEW r \in Seq(Entries), NEW l \in Seq(Entries), l # <<>>
  PROVE  /\ Append(r, Head(l)) \in Seq(Entries) /\ Tail(l) \in Seq(Entries)
         /\ Joined(h, Append(r, Head(l)), Tail(l)) = Joined(h, r, l)
<1>1. /\ Head(l) \in Entries /\ Tail(l) \in Seq(Entries) /\ l = <<Head(l)>> \o Tail(l)
  BY HeadTailProperties
<1>2. Append(r, Head(l)) = r \o <<Head(l)>> /\ Append(r, Head(l)) \in Seq(Entries)
      /\ <<Head(l)>> \in Seq(Entries)
  BY <1>1, AppendIsConcat
<1>3. r \o <<Head(l)>> \o Tail(l) = r \o l
  BY <1>1, <1>2, Associative
<1>. DEFINE more == Append(r, Head(l))
            rest == Tail(l)
<1>4. h \o more \o rest = h \o (more \o rest)
  <2>1. more \in Seq(Entries) /\ rest \in Seq(Entries)
    BY <1>1, <1>2
  <2>. HIDE DEF more, rest
  <2>. QED  BY Zenon, <2>1, Associative
<1>5. h \o r \o l = h \o (r \o l)
  BY Zenon, Associative
<1>. QED  BY <1>1, <1>2, <1>3, <1>4, <1>5 DEF Joined

LedgerTyped ==
  /\ history \in Seq(Entries) /\ past \subseteq Plans
  /\ plan \in [Processes -> Plans \cup {<<>>}] /\ turn \in [Processes -> Nat]
  /\ left \in [Processes -> Seq(Entries)] /\ ran \in [Processes -> Seq(Entries)]
  /\ pc \in [Processes -> States] /\ lock \in Processes \cup {Mig!Nobody}
  /\ \A p \in Processes : pc[p] # "down" => plan[p] \in past /\ turn[p] \in DOMAIN plan[p]
OneMigrates ==
  \A p \in Processes : /\ pc[p] \in {"reading", "applying"} <=> lock = p
                       /\ pc[p] # "applying" => left[p] = <<>> /\ ran[p] = <<>>
TheRestIsLeft ==
  \A p \in Processes :
    /\ pc[p] \in {"reading", "applying"} => Rising(Mig!List(p))
    /\ pc[p] = "applying" => Joined(history, ran[p], left[p]) = Mig!List(p)
HistoryIsAList ==
  Rising(history) /\ (history = <<>> \/ \E b \in past : history = b[1])
LedgerInv == /\ LedgerTyped /\ OneMigrates /\ TheRestIsLeft /\ HistoryIsAList
             /\ Mig!ServesItsLists /\ Mig!DriftMeansDifference

(* Whoever can commit has the whole of its list.                           *)
LEMMA AllIsRun ==
  ASSUME LedgerInv, NEW p \in Processes, Mig!Committable(p)
  PROVE  history \o ran[p] = Mig!List(p) /\ Mig!List(p) \in Seq(Entries)
<1>1. history \in Seq(Entries) /\ ran[p] \in Seq(Entries) /\ left[p] = <<>>
  BY DEF LedgerInv, LedgerTyped, Mig!Committable
<1>2. history \o ran[p] \in Seq(Entries) /\ history \o ran[p] \o left[p] = history \o ran[p]
  BY <1>1, ConcatEmptySeq
<1>3. Joined(history, ran[p], left[p]) = Mig!List(p)
  BY DEF LedgerInv, TheRestIsLeft, Mig!Committable
<1>. QED  BY <1>2, <1>3 DEF Joined

(* A step of process p that ends its transaction, if it has one.           *)
Ends(p, as) ==
  /\ Mig!Over(p, as) /\ as \in States \ {"reading", "applying"} /\ pc[p] # "down"
  /\ history' = history \/ (Mig!Committable(p) /\ history' = history \o ran[p])
  /\ as = "drift" => \E other \in past : other # plan[p]
  /\ as = "up" => Mig!Committable(p) /\ history' = history \o ran[p]
  /\ turn' \in [Processes -> Nat] /\ turn'[p] \in DOMAIN plan[p]
  /\ \A q \in Processes \ {p} : turn'[q] = turn[q]
  /\ UNCHANGED <<plan, past>>

LEMMA MigrationEnds ==
  ASSUME LedgerInv, NEW p \in Processes,
         Mig!Drift(p) \/ Mig!Commit(p) \/ Mig!Uncertain(p) \/ Mig!Fail(p) \/ Mig!Down(p)
  PROVE  \E as : Ends(p, as)
<1>. USE DEF LedgerInv, LedgerTyped, Ends, States
<1>1. CASE Mig!Drift(p)
  <2>1. plan[p] \in past /\ plan[p] \in Plans /\ turn[p] \in DOMAIN plan[p] /\ history \in Seq(Entries)
    BY <1>1 DEF Mig!Drift
  <2>2. history # <<>> /\ history # Mig!List(p)
    <3>1. Mig!List(p) \in Seq(Entries)
      BY <2>1, PlansAreOneList DEF Mig!List
    <3>. QED  BY <1>1, <2>1, <3>1, Prefixes DEF Mig!Drift, Mig!Differs
  <2>3. plan[p][1] = Mig!List(p)
    BY <2>1, PlansAreOneList DEF Mig!List
  <2>4. \E other \in past : other # plan[p]
    BY <2>2, <2>3 DEF HistoryIsAList
  <2>5. Ends(p, "drift")
    BY <1>1, <2>1, <2>4 DEF Mig!Drift
  <2>. QED  BY <2>5
<1>2. CASE Mig!Commit(p)
  <2>1. plan[p] \in Plans /\ turn[p] \in DOMAIN plan[p] /\ pc[p] = "applying"
    BY <1>2 DEF Mig!Commit, Mig!Committable
  <2>2. DOMAIN plan[p] = 1 .. Len(plan[p]) /\ Len(plan[p]) \in Nat
    BY <2>1, PlansAreOneList
  <2>3. turn' = [turn EXCEPT ![p] = IF @ < Len(plan[p]) THEN @ + 1 ELSE @]
    BY <1>2 DEF Mig!Commit
  <2>4. turn' \in [Processes -> Nat] /\ turn'[p] \in DOMAIN plan[p]
        /\ \A q \in Processes \ {p} : turn'[q] = turn[q]
    BY <2>1, <2>2, <2>3
  <2>5. PICK as \in {"begin", "up"} : Mig!Over(p, as)
    BY <1>2 DEF Mig!Commit
  <2>6. Ends(p, as)
    BY <1>2, <2>1, <2>4, <2>5 DEF Mig!Commit
  <2>. QED  BY <2>6
<1>3. CASE Mig!Uncertain(p)
  <2>1. Ends(p, "failed")
    BY <1>3 DEF Mig!Uncertain, Mig!Committable
  <2>. QED  BY <2>1
<1>4. CASE Mig!Fail(p)
  <2>1. Ends(p, "failed")
    BY <1>4 DEF Mig!Fail
  <2>. QED  BY <2>1
<1>5. CASE Mig!Down(p)
  <2>1. Ends(p, "down")
    BY <1>5 DEF Mig!Down
  <2>. QED  BY <2>1
<1>. QED  BY <1>1, <1>2, <1>3, <1>4, <1>5

LEMMA EndingKeeps ==
  ASSUME LedgerInv, NEW p \in Processes, NEW as, Ends(p, as)
  PROVE  LedgerInv'
<1>1. /\ pc' = [pc EXCEPT ![p] = as] /\ lock' = (IF lock = p THEN Mig!Nobody ELSE lock)
      /\ left' = [left EXCEPT ![p] = <<>>] /\ ran' = [ran EXCEPT ![p] = <<>>]
      /\ UNCHANGED <<plan, past>> /\ as \in States \ {"reading", "applying"} /\ pc[p] # "down"
  BY DEF Ends, Mig!Over
<1>2. Mig!Nobody \notin Processes
  BY ServicesAssumption DEF Mig!MigrationsAssumption
<1>3. history' \in Seq(Entries) /\ (history' = history \/ (lock = p /\ history' = Mig!List(p)))
  <2>1. history \in Seq(Entries) /\ (Mig!Committable(p) => lock = p)
    BY DEF LedgerInv, LedgerTyped, OneMigrates, Mig!Committable
  <2>2. history' = history \/ (Mig!Committable(p) /\ history' = history \o ran[p])
    BY DEF Ends
  <2>. QED  BY <2>1, <2>2, AllIsRun
<1>4. LedgerTyped'
  <2>1. turn' \in [Processes -> Nat] /\ turn'[p] \in DOMAIN plan[p]
        /\ \A q \in Processes \ {p} : turn'[q] = turn[q]
    BY DEF Ends
  <2>2. left' \in [Processes -> Seq(Entries)] /\ ran' \in [Processes -> Seq(Entries)]
    BY <1>1 DEF LedgerInv, LedgerTyped
  <2>. QED  BY <1>1, <1>3, <2>1, <2>2 DEF LedgerInv, LedgerTyped
<1>5. OneMigrates'
  BY <1>1, <1>2 DEF LedgerInv, LedgerTyped, OneMigrates
<1>6. TheRestIsLeft'
  <2>. SUFFICES ASSUME NEW q \in Processes, pc'[q] \in {"reading", "applying"}
                PROVE  /\ Rising(Mig!List(q))'
                       /\ pc'[q] = "applying" => Joined(history', ran'[q], left'[q]) = Mig!List(q)'
    BY DEF TheRestIsLeft
  <2>1. q # p /\ pc'[q] = pc[q] /\ ran'[q] = ran[q] /\ left'[q] = left[q] /\ turn'[q] = turn[q]
    BY <1>1 DEF LedgerInv, LedgerTyped, Ends
  <2>2. lock = q /\ history' = history
    BY <1>3, <2>1 DEF LedgerInv, OneMigrates
  <2>3. Mig!List(q)' = Mig!List(q)
    BY <1>1, <2>1 DEF Mig!List
  <2>4. Rising(Mig!List(q)) /\ (pc[q] = "applying" => Joined(history, ran[q], left[q]) = Mig!List(q))
    BY <2>1 DEF LedgerInv, TheRestIsLeft
  <2>5. Rising(Mig!List(q))'
    BY <2>3, <2>4 DEF Rising
  <2>. QED  BY <2>1, <2>2, <2>3, <2>4, <2>5
<1>7. HistoryIsAList'
  <2>1. CASE history' = history
    BY <1>1, <2>1 DEF LedgerInv, HistoryIsAList, Rising
  <2>2. CASE lock = p /\ history' = Mig!List(p)
    <3>1. plan[p] \in past /\ plan[p] \in Plans /\ turn[p] \in DOMAIN plan[p]
      BY <1>1 DEF LedgerInv, LedgerTyped
    <3>2. history' = plan[p][1]
      BY <2>2, <3>1, PlansAreOneList DEF Mig!List
    <3>3. Rising(Mig!List(p))
      BY <2>2 DEF LedgerInv, OneMigrates, TheRestIsLeft
    <3>4. Rising(history)'
      BY <2>2, <3>3 DEF Rising
    <3>5. \E b \in past' : history' = b[1]
      BY <1>1, <3>1, <3>2
    <3>. QED  BY <3>4, <3>5 DEF HistoryIsAList
  <2>. QED  BY <1>3, <2>1, <2>2
<1>8. Mig!ServesItsLists'
  <2>. SUFFICES ASSUME NEW q \in Processes, pc'[q] = "up", NEW i \in DOMAIN plan[q]
                PROVE  Mig!IsPrefix(plan[q][i], history')
    BY <1>1 DEF Mig!ServesItsLists, Mig!IsPrefix
  <2>1. CASE q # p
    <3>1. pc[q] = "up" /\ plan[q] \in Plans
      BY <1>1, <2>1 DEF LedgerInv, LedgerTyped
    <3>2. plan[q][i] \in Seq(Entries) /\ Mig!IsPrefix(plan[q][i], history)
      BY <3>1, PlansAreOneList DEF LedgerInv, Mig!ServesItsLists
    <3>3. history \in Seq(Entries) /\ ran[p] \in Seq(Entries)
      BY DEF LedgerInv, LedgerTyped
    <3>4. history' = history \/ history' = history \o ran[p]
      BY DEF Ends
    <3>5. Mig!IsPrefix(plan[q][i], history \o ran[p])
      BY <3>2, <3>3, Prefixes
    <3>. QED  BY <3>2, <3>4, <3>5
  <2>2. CASE q = p
    <3>1. as = "up"
      BY <1>1, <2>2 DEF LedgerInv, LedgerTyped
    <3>2. Mig!Committable(p) /\ history' = history \o ran[p]
      BY <3>1 DEF Ends
    <3>3. history' = Mig!List(p) /\ plan[p] \in Plans /\ turn[p] \in DOMAIN plan[p]
      BY <1>1, <3>2, AllIsRun DEF LedgerInv, LedgerTyped
    <3>4. history' = plan[p][i] /\ plan[p][i] \in Seq(Entries)
      BY <2>2, <3>3, PlansAreOneList DEF Mig!List
    <3>. QED  BY <2>2, <3>4, Prefixes
  <2>. QED  BY <2>1, <2>2
<1>9. Mig!DriftMeansDifference'
  BY <1>1 DEF LedgerInv, LedgerTyped, Ends, Mig!DriftMeansDifference
<1>. QED  BY <1>4, <1>5, <1>6, <1>7, <1>8, <1>9 DEF LedgerInv

LEMMA LedgerStep ==
  ASSUME LedgerInv, NEW p \in Processes, Mig!Step(p)
  PROVE  LedgerInv'
<1>. USE DEF LedgerInv, LedgerTyped, OneMigrates, States
<1>0. Mig!Nobody \notin Processes
  BY ServicesAssumption DEF Mig!MigrationsAssumption
<1>1. ASSUME NEW what \in Plans, Mig!Start(p, what)
      PROVE  LedgerInv'
  <2>1. /\ pc[p] = "down" /\ pc' = [pc EXCEPT ![p] = "begin"] /\ plan' = [plan EXCEPT ![p] = what]
        /\ turn' = [turn EXCEPT ![p] = 1] /\ past' = past \cup {what}
        /\ UNCHANGED <<history, lock, left, ran>>
    BY <1>1 DEF Mig!Start
  <2>2. 1 \in DOMAIN what
    BY PlansAreOneList
  <2>3. LedgerTyped' /\ OneMigrates'
    BY <2>1, <2>2
  <2>4. TheRestIsLeft' /\ HistoryIsAList' /\ Mig!ServesItsLists' /\ Mig!DriftMeansDifference'
    <3>1. \A q \in Processes : q # p => plan'[q] = plan[q] /\ turn'[q] = turn[q] /\ pc'[q] = pc[q]
      BY <2>1
    <3>2. pc'[p] = "begin"
      BY <2>1
    <3>3. TheRestIsLeft'
      BY <2>1, <3>1, <3>2 DEF TheRestIsLeft, Mig!List, Rising
    <3>4. HistoryIsAList'
      BY <2>1 DEF HistoryIsAList, Rising
    <3>5. Mig!ServesItsLists'
      BY <2>1, <3>1, <3>2 DEF Mig!ServesItsLists, Mig!IsPrefix
    <3>6. Mig!DriftMeansDifference'
      BY <2>1, <3>1, <3>2 DEF Mig!DriftMeansDifference
    <3>. QED  BY <3>3, <3>4, <3>5, <3>6
  <2>. QED  BY <2>3, <2>4
<1>2. CASE Mig!Invalid(p)
  BY <1>2 DEF Mig!Invalid, TheRestIsLeft, HistoryIsAList, Rising, Mig!List, Mig!ServesItsLists,
     Mig!IsPrefix, Mig!DriftMeansDifference
<1>3. CASE Mig!Lock(p)
  <2>1. Mig!List(p) \in Seq(Entries)
    <3>1. plan[p] \in Plans /\ turn[p] \in DOMAIN plan[p]
      BY <1>3 DEF Mig!Lock
    <3>. QED  BY <3>1, PlansAreOneList DEF Mig!List
  <2>2. Rising(Mig!List(p))
    BY <1>3, <2>1, WellFormedRises DEF Mig!Lock
  <2>. QED
    BY <1>0, <1>3, <2>2 DEF Mig!Lock, Mig!LockFree, TheRestIsLeft, HistoryIsAList, Rising, Mig!List,
       Mig!ServesItsLists, Mig!IsPrefix, Mig!DriftMeansDifference
<1>4. CASE Mig!Read(p)
  <2>1. Mig!List(p) \in Seq(Entries) /\ Mig!IsPrefix(history, Mig!List(p))
    <3>1. plan[p] \in Plans /\ turn[p] \in DOMAIN plan[p]
      BY <1>4 DEF Mig!Read
    <3>2. Mig!List(p) \in Seq(Entries)
      BY <3>1, PlansAreOneList DEF Mig!List
    <3>. QED  BY <1>4, <3>2 DEF Mig!Read, Mig!Differs
  <2>2. history \o Mig!Missing(history, Mig!List(p)) = Mig!List(p)
        /\ Mig!Missing(history, Mig!List(p)) \in Seq(Entries)
    BY <2>1, Prefixes
  <2>3. /\ left' = [left EXCEPT ![p] = Mig!Missing(history, Mig!List(p))]
        /\ pc' = [pc EXCEPT ![p] = "applying"] /\ pc[p] = "reading"
        /\ UNCHANGED <<history, lock, plan, turn, ran, past>>
    BY <1>4 DEF Mig!Read
  <2>4. LedgerTyped' /\ OneMigrates'
    BY <2>2, <2>3
  <2>5. Joined(history', ran'[p], left'[p]) = Mig!List(p)
    <3>1. ran[p] = <<>> /\ history \o <<>> = history
      <4>1. ran[p] = <<>> /\ history \in Seq(Entries)
        BY <2>3
      <4>. QED  BY <4>1, ConcatEmptySeq
    <3>2. history' = history /\ ran'[p] = ran[p] /\ left'[p] = Mig!Missing(history, Mig!List(p))
      BY <2>3
    <3>. QED  BY <2>2, <3>1, <3>2 DEF Joined
  <2>6. TheRestIsLeft'
    <3>. SUFFICES ASSUME NEW q \in Processes, pc'[q] \in {"reading", "applying"}
                  PROVE  /\ Rising(Mig!List(q))'
                         /\ pc'[q] = "applying" => Joined(history', ran'[q], left'[q]) = Mig!List(q)'
      BY DEF TheRestIsLeft
    <3>1. Mig!List(q)' = Mig!List(q) /\ q = p
      BY <1>0, <2>3 DEF Mig!List
    <3>2. Rising(Mig!List(q))
      BY <2>3, <3>1 DEF TheRestIsLeft
    <3>3. Rising(Mig!List(q))'
      BY <3>1, <3>2 DEF Rising
    <3>. QED  BY <2>5, <3>1, <3>3
  <2>7. HistoryIsAList' /\ Mig!ServesItsLists' /\ Mig!DriftMeansDifference'
    BY <2>3 DEF HistoryIsAList, Rising, Mig!ServesItsLists, Mig!IsPrefix, Mig!DriftMeansDifference
  <2>. QED  BY <2>4, <2>6, <2>7
<1>5. CASE Mig!Apply(p)
  <2>1. /\ pc[p] = "applying" /\ left[p] # <<>>
        /\ ran' = [ran EXCEPT ![p] = Append(@, Head(left[p]))]
        /\ left' = [left EXCEPT ![p] = Tail(@)]
        /\ UNCHANGED <<history, lock, plan, turn, pc, past>>
    BY <1>5 DEF Mig!Apply
  <2>2. left[p] \in Seq(Entries) /\ ran[p] \in Seq(Entries) /\ history \in Seq(Entries)
    OBVIOUS
  <2>3. /\ Append(ran[p], Head(left[p])) \in Seq(Entries) /\ Tail(left[p]) \in Seq(Entries)
        /\ Joined(history, Append(ran[p], Head(left[p])), Tail(left[p]))
             = Joined(history, ran[p], left[p])
    <3>. HIDE DEF LedgerInv
    <3>. QED  BY <2>1, <2>2, NextIsRun
  <2>4. LedgerTyped' /\ OneMigrates'
    BY <2>1, <2>3
  <2>5. TheRestIsLeft'
    BY <2>1, <2>3 DEF TheRestIsLeft, Mig!List, Rising
  <2>6. HistoryIsAList' /\ Mig!ServesItsLists' /\ Mig!DriftMeansDifference'
    BY <2>1 DEF HistoryIsAList, Rising, Mig!ServesItsLists, Mig!IsPrefix, Mig!DriftMeansDifference
  <2>. QED  BY <2>4, <2>5, <2>6
<1>. HIDE DEF LedgerInv
<1>. QED  BY <1>1, <1>2, <1>3, <1>4, <1>5, MigrationEnds, EndingKeeps DEF Mig!Step

LEMMA LedgerInvariant == ServicesSpec => []LedgerInv
<1>1. ServicesInit => LedgerInv
  <2>. SUFFICES ASSUME Mig!Init
                PROVE  LedgerInv
    BY DEF ServicesInit
  <2>1. Mig!Nobody \notin Processes
    BY ServicesAssumption DEF Mig!MigrationsAssumption
  <2>. QED
    BY <2>1 DEF Mig!Init, LedgerInv, LedgerTyped, OneMigrates, TheRestIsLeft, HistoryIsAList, Rising,
       States, Mig!ServesItsLists, Mig!DriftMeansDifference
<1>2. LedgerInv /\ [ServicesNext]_services => LedgerInv'
  <2>1. [ServicesNext]_services => Mig!Next \/ UNCHANGED migrations
    BY DEF ServicesNext, services, SourcesStep, MigrationsStep, LineageStep, OutboundStep, SocketsStep, BrowserStep, LimiterStep
  <2>2. LedgerInv /\ UNCHANGED migrations => LedgerInv'
    BY DEF migrations, LedgerInv, LedgerTyped, OneMigrates, TheRestIsLeft, HistoryIsAList, Rising,
       Mig!List, Mig!ServesItsLists, Mig!IsPrefix, Mig!DriftMeansDifference
  <2>. QED  BY <2>1, <2>2, LedgerStep DEF Mig!Next
<1>. QED  BY <1>1, <1>2, PTL DEF ServicesSpec

(* One history, whatever builds start, race and crash over a database: for *)
(* any processes and any lists of migrations.                              *)
THEOREM LedgerStaysSound == ServicesSpec => []LedgerIsSound
<1>1. LedgerInv => LedgerIsSound
  <2>. SUFFICES ASSUME LedgerInv
                PROVE  Mig!LedgerIsSound
    BY DEF LedgerIsSound
  <2>. USE DEF LedgerInv
  <2>1. Mig!TypeOK
    <3>1. \A p \in Processes : /\ pc[p] \in {"reading", "applying"} <=> lock = p
                               /\ pc[p] # "applying" => left[p] = <<>> /\ ran[p] = <<>>
      BY DEF OneMigrates
    <3>2. /\ plan \in [Processes -> Plans \cup {<<>>}] /\ pc \in [Processes -> States]
          /\ lock \in Processes \cup {Mig!Nobody}
      BY DEF LedgerTyped
    <3>. HIDE DEF LedgerInv
    <3>. QED  BY <3>1, <3>2 DEF States, Mig!TypeOK
  <2>2. Mig!HistoryInOrder
    BY DEF HistoryIsAList, Rising, Mig!HistoryInOrder
  <2>3. Mig!NobodyCollides
    <3>. SUFFICES ASSUME NEW p \in Processes, NEW i \in DOMAIN left[p], NEW j \in DOMAIN history,
                         left[p][i] = history[j]
                  PROVE  FALSE
      BY DEF Mig!NobodyCollides, Mig!ToSet
    <3>1. history \in Seq(Entries) /\ left[p] \in Seq(Entries) /\ ran[p] \in Seq(Entries)
      BY DEF LedgerTyped
    <3>2. pc[p] = "applying"
      <4>1. left[p] # <<>>
        BY <3>1
      <4>. QED  BY <4>1 DEF OneMigrates
    <3>. DEFINE all == history \o ran[p] \o left[p]
                k == Len(history) + Len(ran[p]) + i
    <3>3. j \in DOMAIN all /\ all[j] = history[j] /\ k \in DOMAIN all /\ all[k] = left[p][i] /\ j < k
          /\ all[j] \in Entries
      <4>. DEFINE both == history \o ran[p]
      <4>1. /\ both \in Seq(Entries) /\ Len(both) = Len(history) + Len(ran[p])
            /\ j \in DOMAIN both /\ both[j] = history[j] /\ history[j] \in Entries
        BY <3>1, Concatenated
      <4>. HIDE DEF both
      <4>. DEFINE rest == left[p]
      <4>2. rest \in Seq(Entries) /\ i \in DOMAIN rest
        BY <3>1
      <4>. HIDE DEF rest
      <4>3. /\ j \in DOMAIN (both \o rest) /\ (both \o rest)[j] = both[j]
            /\ Len(both) + i \in DOMAIN (both \o rest)
            /\ (both \o rest)[Len(both) + i] = rest[i] /\ j < Len(both) + i
        BY <4>1, <4>2, Concatenated
      <4>. QED  BY <4>1, <4>3 DEF both, rest
    <3>4. Rising(all)
      BY <3>2 DEF TheRestIsLeft, Joined
    <3>. HIDE DEF all, k
    <3>5. all[j].version < all[k].version
      BY <3>3, <3>4 DEF Rising
    <3>6. all[j] = all[k] /\ all[j].version \in Int
      BY <3>3 DEF Entries
    <3>. QED  BY <3>5, <3>6
  <2>. QED  BY <2>1, <2>2, <2>3 DEF Mig!LedgerIsSound
<1>. QED  BY <1>1, LedgerInvariant, PTL
-----------------------------------------------------------------------------
(* The source of a request.                                                *)
LEMMA AddressIs ==
  ASSUME NEW a \in Src!Addresses
  PROVE  /\ a.family \in {"v4", "v6"} /\ a.raw \in [1 .. Width[a.family] -> {0, 1}]
         /\ a = [family |-> a.family, raw |-> a.raw] /\ a # Src!NoPeer
BY DEF Src!Addresses, Src!NoPeer

(* Two addresses of a family have the same bits left by a mask exactly     *)
(* when they agree in the bits it keeps.                                   *)
LEMMA MasksAgree ==
  ASSUME NEW a \in Src!Addresses, NEW n \in Src!Addresses, a.family = n.family,
         NEW bits \in 0 .. Width[n.family]
  PROVE  Src!Mask(a, bits) = Src!Mask(n, bits) <=> \A i \in 1 .. bits : a.raw[i] = n.raw[i]
<1>. DEFINE w == Width[n.family]
            Kept(x) == [i \in 1 .. w |-> IF i <= bits THEN x.raw[i] ELSE 0]
<1>1. a.raw \in [1 .. w -> {0, 1}] /\ n.raw \in [1 .. w -> {0, 1}] /\ w \in Nat /\ bits \in 0 .. w
  BY AddressIs, ServicesAssumption DEF Src!SourcesAssumption
<1>2. /\ a = [family |-> a.family, raw |-> a.raw] /\ n = [family |-> n.family, raw |-> n.raw]
      /\ DOMAIN a.raw = 1 .. w /\ DOMAIN n.raw = 1 .. w
  BY <1>1, AddressIs
<1>3. /\ Src!Mask(a, bits) = [family |-> a.family, raw |-> Kept(a)]
      /\ Src!Mask(n, bits) = [family |-> n.family, raw |-> Kept(n)]
  <2>. SUFFICES ASSUME NEW x \in {a, n}
                PROVE  Src!Mask(x, bits) = [family |-> x.family, raw |-> Kept(x)]
    OBVIOUS
  <2>1. Src!Mask(x, bits) = [x EXCEPT !.raw = Kept(x)]
    BY <1>2 DEF Src!Mask
  <2>. HIDE DEF Kept
  <2>2. x = [family |-> x.family, raw |-> x.raw]
    BY <1>2
  <2>. QED  BY <2>1, <2>2
<1>. HIDE DEF w
<1>4. Kept(a) = Kept(n) => \A i \in 1 .. bits : a.raw[i] = n.raw[i]
  <2>. SUFFICES ASSUME Kept(a) = Kept(n), NEW i \in 1 .. bits
                PROVE  a.raw[i] = n.raw[i]
    OBVIOUS
  <2>1. Kept(a)[i] = Kept(n)[i] /\ i \in 1 .. w /\ i <= bits
    BY <1>1
  <2>. QED  BY <2>1
<1>5. (\A i \in 1 .. bits : a.raw[i] = n.raw[i]) => Kept(a) = Kept(n)
  BY <1>1
<1>. HIDE DEF Kept
<1>. QED  BY <1>3, <1>4, <1>5

Proxy(a) == Src!Trusted(Src!Parsed(list), a)

SourcesTyped ==
  /\ list \in Lists /\ client \in Nodes /\ holder \in Nodes
  /\ header \in Seq(Src!Addresses \cup {Src!Unreadable})
(* Behind a client that is no proxy, everybody who has passed the request  *)
(* on is one, and they have noted the client.                              *)
PassedByProxies ==
  ~Proxy(client) =>
    \/ holder = client
    \/ /\ Proxy(holder)
       /\ \E i \in DOMAIN header :
            /\ header[i] = client
            /\ \A j \in DOMAIN header : i < j => Proxy(header[j])
SourcesInv == SourcesTyped /\ PassedByProxies /\ Src!ForgeryIsIgnored

LEMMA PassedStays ==
  ASSUME PassedByProxies, UNCHANGED <<list, client, holder, header>>
  PROVE  PassedByProxies'
<1>1. Src!Parsed(list)' = Src!Parsed(list)
  BY DEF Src!Parsed, Src!Mask
<1>2. /\ Proxy(client)' = Proxy(client) /\ Proxy(holder)' = Proxy(holder)
      /\ \A j : Proxy(header[j])' = Proxy(header[j])
  BY <1>1 DEF Proxy, Src!Trusted, Src!InNetwork, Src!Mask
<1>3. CASE holder = client \/ Proxy(client)
  BY <1>2, <1>3 DEF PassedByProxies
<1>4. CASE holder # client /\ ~Proxy(client)
  <2>1. PICK i \in DOMAIN header : header[i] = client /\ \A j \in DOMAIN header : i < j => Proxy(header[j])
    BY <1>4 DEF PassedByProxies
  <2>2. i \in DOMAIN header' /\ header'[i] = client' /\ \A j \in DOMAIN header' : i < j => Proxy(header[j])'
    BY <1>2, <2>1
  <2>3. Proxy(holder)'
    BY <1>2, <1>4 DEF PassedByProxies
  <2>. QED  BY <2>2, <2>3 DEF PassedByProxies
<1>. QED  BY <1>3, <1>4

LEMMA SourcesNext ==
  ASSUME SourcesInv, Src!Next
  PROVE  SourcesInv'
<1>. USE DEF SourcesInv, SourcesTyped
<1>0. Nodes \subseteq Src!Addresses
  BY ServicesAssumption DEF Src!SourcesAssumption
<1>1. ASSUME NEW p \in Nodes, Src!Forward(p)
      PROVE  SourcesInv'
  <2>1. /\ derived = Src!NoPeer /\ Proxy(p) /\ holder' = p /\ header' = Append(header, holder)
        /\ UNCHANGED <<list, client, derived>>
    BY <1>1 DEF Src!Forward, Proxy
  <2>2. /\ header' \in Seq(Src!Addresses \cup {Src!Unreadable})
        /\ DOMAIN header' = 1 .. Len(header) + 1 /\ DOMAIN header = 1 .. Len(header)
        /\ Len(header) \in Nat /\ header'[Len(header) + 1] = holder
        /\ \A i \in DOMAIN header : header'[i] = header[i]
    BY <1>0, <2>1
  <2>3. \A a : Proxy(a)' <=> Src!Trusted(Src!Parsed(list), a')
    BY <2>1 DEF Proxy, Src!Trusted, Src!Parsed, Src!InNetwork, Src!Mask
  <2>. DEFINE After(i) == /\ i \in DOMAIN header' /\ header'[i] = client
                          /\ \A j \in DOMAIN header' : i < j => Proxy(header'[j])
  <2>4. ~Proxy(client) => \E i : After(i)
    <3>1. CASE holder = client
      <4>1. After(Len(header) + 1)
        BY <2>2, <3>1
      <4>. QED  BY <4>1
    <3>2. ASSUME Proxy(holder), NEW i \in DOMAIN header, header[i] = client,
                 \A j \in DOMAIN header : i < j => Proxy(header[j])
          PROVE  After(i)
      <4>1. \A j \in DOMAIN header' : j \in DOMAIN header \/ header'[j] = holder
        BY <2>2
      <4>. QED  BY <2>2, <3>2, <4>1
    <3>. QED  BY <3>1, <3>2 DEF PassedByProxies
  <2>5. PassedByProxies'
    <3>1. \A x \in {p, client} \cup {header'[j] : j \in DOMAIN header'} : Proxy(x) <=> Src!Trusted(Src!Parsed(list), x)
      BY DEF Proxy
    <3>. QED  BY <2>1, <2>4 DEF PassedByProxies, Proxy
  <2>6. Src!ForgeryIsIgnored'
    BY <2>1 DEF Src!ForgeryIsIgnored
  <2>. QED  BY <1>1, <2>1, <2>2, <2>5, <2>6
<1>2. CASE Src!Arrive
  <2>1. /\ derived' = Src!TrustedSource(Src!Parsed(list), holder, header)
        /\ UNCHANGED <<list, client, holder, header>>
    BY <1>2 DEF Src!Arrive
  <2>2. ~Proxy(client) => derived' = IF Src!Unreadable \in Src!ToSet(header) THEN holder ELSE client
    <3>. SUFFICES ASSUME ~Proxy(client)
                  PROVE  derived' = IF Src!Unreadable \in Src!ToSet(header) THEN holder ELSE client
      OBVIOUS
    <3>1. holder # Src!NoPeer
      BY <1>0, AddressIs
    <3>2. CASE ~Proxy(holder)
      BY <2>1, <3>1, <3>2 DEF PassedByProxies, Proxy, Src!TrustedSource
    <3>3. CASE Proxy(holder) /\ Src!Unreadable \in Src!ToSet(header)
      BY <2>1, <3>1, <3>3 DEF Proxy, Src!TrustedSource
    <3>4. CASE Proxy(holder) /\ Src!Unreadable \notin Src!ToSet(header)
      <4>1. PICK i \in DOMAIN header : /\ header[i] = client
                                       /\ \A j \in DOMAIN header : i < j => Proxy(header[j])
        BY <3>4 DEF PassedByProxies
      <4>. DEFINE chain == Append(header, holder)
                  outside == {k \in DOMAIN chain : ~Src!Trusted(Src!Parsed(list), chain[k])}
      <4>2. /\ DOMAIN chain = 1 .. Len(header) + 1 /\ DOMAIN header = 1 .. Len(header)
            /\ Len(header) \in Nat /\ chain[Len(header) + 1] = holder
            /\ \A k \in DOMAIN header : chain[k] = header[k]
        BY <1>0
      <4>3. header # <<>>
        BY <4>1
      <4>4. derived' = IF outside = {} THEN chain[1]
                       ELSE chain[CHOOSE k \in outside : \A j \in outside : j <= k]
        BY <2>1, <3>1, <3>4, <4>3 DEF Proxy, Src!TrustedSource
      <4>5. outside \subseteq DOMAIN chain /\ \A k \in DOMAIN chain : k \in outside <=> ~Proxy(chain[k])
        BY DEF Proxy
      <4>. HIDE DEF chain, outside
      <4>6. i \in outside /\ chain[i] = client /\ \A j \in outside : j <= i
        BY <3>4, <4>1, <4>2, <4>5
      <4>7. \A k \in outside : (\A j \in outside : j <= k) => k = i
        BY <4>2, <4>5, <4>6
      <4>8. (CHOOSE k \in outside : \A j \in outside : j <= k) = i
        BY <4>6, <4>7
      <4>. QED  BY <3>4, <4>4, <4>6, <4>8
    <3>. QED  BY <3>2, <3>3, <3>4
  <2>3. Src!ForgeryIsIgnored'
    BY <2>1, <2>2 DEF Src!ForgeryIsIgnored, Proxy, Src!Trusted, Src!Parsed, Src!InNetwork, Src!Mask, Src!ToSet
  <2>4. PassedByProxies'
    BY <2>1, PassedStays
  <2>. QED  BY <2>1, <2>3, <2>4
<1>. QED
  BY <1>1, <1>2 DEF Src!Next, Src!Done, Src!vars, PassedByProxies, Proxy, Src!ForgeryIsIgnored

LEMMA SourcesInvariant == ServicesSpec => []SourcesInv
<1>1. ServicesInit => SourcesInv
  BY ServicesAssumption DEF ServicesInit, Src!Init, SourcesInv, SourcesTyped, PassedByProxies,
     Src!ForgeryIsIgnored, Src!SourcesAssumption
<1>2. SourcesInv /\ [ServicesNext]_services => SourcesInv'
  <2>1. [ServicesNext]_services => Src!Next \/ UNCHANGED sources
    BY DEF ServicesNext, services, SourcesStep, MigrationsStep, LineageStep, OutboundStep, SocketsStep, BrowserStep, LimiterStep
  <2>2. SourcesInv /\ UNCHANGED sources => SourcesInv'
    <3>. SUFFICES ASSUME SourcesInv, UNCHANGED sources
                  PROVE  SourcesInv'
      OBVIOUS
    <3>1. SourcesTyped'
      BY DEF SourcesInv, sources, SourcesTyped
    <3>2. PassedByProxies'
      BY PassedStays DEF sources, SourcesInv
    <3>3. Src!ForgeryIsIgnored'
      BY DEF sources, SourcesInv, Src!ForgeryIsIgnored, Src!Trusted, Src!Parsed, Src!InNetwork, Src!Mask,
         Src!ToSet
    <3>. QED  BY <3>1, <3>2, <3>3 DEF SourcesInv
  <2>. QED  BY <2>1, <2>2, SourcesNext
<1>. QED  BY <1>1, <1>2, PTL DEF ServicesSpec

(* No client chooses its source, whatever it claims and whatever proxies   *)
(* pass it on: for any networks, widths and chains of proxies.             *)
THEOREM SourceStaysHonest == ServicesSpec => []SourceIsHonest
<1>1. SourcesInv => SourceIsHonest
  <2>. SUFFICES ASSUME SourcesInv
                PROVE  Src!ContainsIsPrefix
    BY DEF SourceIsHonest, Src!SourceIsHonest, SourcesInv
  <2>. SUFFICES ASSUME NEW p \in list, NEW a \in Nodes
                PROVE  Src!Trusted({q \in Src!Parsed(list) :
                           q = [network |-> Src!Mask(p.network, p.bits), bits |-> p.bits]}, a)
                       <=> (a.family = p.network.family /\ \A i \in 1 .. p.bits : a.raw[i] = p.network.raw[i])
    BY DEF Src!ContainsIsPrefix
  <2>. DEFINE masked == [network |-> Src!Mask(p.network, p.bits), bits |-> p.bits]
  <2>1. /\ a \in Src!Addresses /\ p.network \in Src!Addresses
        /\ p.bits \in 0 .. Width[p.network.family]
    BY ServicesAssumption DEF SourcesInv, SourcesTyped, Src!SourcesAssumption
  <2>2. {q \in Src!Parsed(list) : q = masked} = {masked}
    BY DEF Src!Parsed
  <2>3. masked.network.family = p.network.family
    BY <2>1, AddressIs DEF Src!Mask
  <2>4. Src!Trusted({masked}, a) <=>
          a.family = p.network.family /\ Src!Mask(a, p.bits) = Src!Mask(p.network, p.bits)
    BY <2>3 DEF Src!Trusted, Src!InNetwork
  <2>. HIDE DEF masked
  <2>. QED  BY <2>1, <2>2, <2>4, MasksAgree DEF masked
<1>. QED  BY <1>1, SourcesInvariant, PTL
-----------------------------------------------------------------------------
(* The lineage.  A prepared work and the work of a scope are kept alike:   *)
(* what is local has its root and every hop from it among the scopes.      *)
Causes == [kind : {"none", "scope", "work", "event"}, id : Int]
WorkSnapshots ==
  [work_id : Int, correlation : Int, source : {"local", "external"}, cause : Causes,
   origin : {"request", "replay", "none"}, who : Initiators,
   depth : (0 .. MaxU32) \cup {Lin!NoId}, replay : Causes]
ScopeSnapshots ==
  [work : WorkSnapshots, scope_id : Nat, attempt : 1 .. MaxU32, previous : Int]

RootIsHere(w) ==
  \E r \in scopes :
    /\ r.scope_id = w.correlation /\ r.work.depth = 0
    /\ <<w.who, w.origin, w.replay>> = <<r.work.who, r.work.origin, r.work.replay>>
HopsAreHere(w) ==
  \A d \in 0 .. w.depth - 1 :
    \E p \in scopes : p.work.depth = d /\ p.work.correlation = w.correlation
IsKept(w) ==
  /\ w \in WorkSnapshots /\ w.work_id # Lin!NoId /\ w.correlation # Lin!NoId
  /\ (w.depth = Lin!NoId) <=> (w.source = "external")
  /\ w.source = "local" => RootIsHere(w) /\ HopsAreHere(w)

LastId == Lin!Id(last.ms, last.counter)
LineageTyped ==
  /\ now \in 0 .. MaxMs
  /\ last \in {Lin!Fresh0} \cup [ms : 0 .. MaxMs, counter : 0 .. CounterMax]
HopsAreOlder(s) ==
  \A d \in 0 .. s.work.depth - 1 :
    \E p \in scopes : /\ p.scope_id < s.scope_id /\ p.work.depth = d
                      /\ p.work.correlation = s.work.correlation
ScopesAreKept ==
  \A s \in scopes :
    /\ s \in ScopeSnapshots /\ IsKept(s.work) /\ s.scope_id <= LastId
    /\ HopsAreOlder(s)
IdsAreUnique == \A s, t \in scopes : s.scope_id = t.scope_id => s = t
LineageInv ==
  /\ LineageTyped /\ ScopesAreKept /\ IdsAreUnique
  /\ \A w \in works : IsKept(w)
  /\ Lin!RetryKeepsWork

(* A later millisecond is worth more than any counter.                     *)
LEMMA Weighs ==
  ASSUME NEW a \in Int, NEW b \in Int, NEW c \in Nat, NEW d \in Nat, NEW m \in Nat, a > b, d < m
  PROVE  a * m + c > b * m + d
<1>1. a * m >= b * m + m
  <2>1. a >= b + 1
    OBVIOUS
  <2>2. a * m >= (b + 1) * m /\ (b + 1) * m = b * m + m
    BY <2>1
  <2>. QED  BY <2>2
<1>. QED  BY <1>1

LEMMA IdsGrow ==
  ASSUME LineageTyped, NEW st \in Lin!NextStates
  PROVE  /\ st \in [ms : 0 .. MaxMs, counter : 0 .. CounterMax]
         /\ Lin!Id(st.ms, st.counter) \in Nat /\ LastId \in Int
         /\ LastId < Lin!Id(st.ms, st.counter)
<1>. DEFINE m == CounterMax + 1
<1>1. /\ MaxMs \in Nat /\ CounterMax \in Nat /\ StartMax \in 0 .. CounterMax /\ m \in Nat /\ m > 0
      /\ now \in 0 .. MaxMs
  BY ServicesAssumption DEF Lin!LineageAssumption, LineageTyped
<1>2. CASE last = Lin!Fresh0
  <2>1. st \in {[ms |-> now, counter |-> c] : c \in 0 .. StartMax}
    BY <1>2 DEF Lin!NextStates, Lin!Newer
  <2>2. PICK c \in 0 .. StartMax : st = [ms |-> now, counter |-> c]
    BY <2>1
  <2>3. c \in 0 .. CounterMax /\ st.ms = now /\ st.counter = c /\ now > -1 /\ now \in Int
    BY <1>1, <2>2
  <2>4. now * m + c > (-1) * m + 0 /\ now * m \in Nat
    BY <1>1, <2>3, Weighs
  <2>5. LastId = (-1) * m + 0 /\ Lin!Id(st.ms, st.counter) = now * m + c
    BY <1>2, <2>3 DEF LastId, Lin!Id, Lin!Fresh0
  <2>. QED  BY <1>1, <2>2, <2>3, <2>4, <2>5
<1>3. CASE last # Lin!Fresh0
  <2>1. /\ last.ms \in 0 .. MaxMs /\ last.counter \in 0 .. CounterMax
        /\ last = [ms |-> last.ms, counter |-> last.counter]
    BY <1>3 DEF LineageTyped
  <2>2. LastId = last.ms * m + last.counter
    BY DEF LastId, Lin!Id
  <2>3. CASE now > last.ms
    <3>1. PICK c \in 0 .. StartMax : st = [ms |-> now, counter |-> c]
      BY <2>3 DEF Lin!NextStates, Lin!Newer
    <3>2. c \in 0 .. CounterMax /\ st.ms = now /\ st.counter = c
      BY <1>1, <3>1
    <3>3. now * m + c > last.ms * m + last.counter /\ now * m \in Nat /\ last.ms * m \in Nat
      BY <1>1, <2>1, <2>3, <3>2, Weighs
    <3>4. Lin!Id(st.ms, st.counter) = now * m + c
      BY <3>2 DEF Lin!Id
    <3>. QED  BY <1>1, <2>1, <2>2, <3>1, <3>2, <3>3, <3>4
  <2>4. CASE ~(now > last.ms)
    <3>1. st = [last EXCEPT !.counter = @ + 1] /\ last.counter # CounterMax
      BY <1>3, <2>4 DEF Lin!NextStates, Lin!Newer
    <3>2. /\ st.ms = last.ms /\ st.counter = last.counter + 1 /\ st.counter \in 0 .. CounterMax
          /\ st \in [ms : 0 .. MaxMs, counter : 0 .. CounterMax]
      BY <1>1, <2>1, <3>1
    <3>3. last.ms * m \in Nat
      BY <1>1, <2>1
    <3>4. Lin!Id(st.ms, st.counter) = last.ms * m + (last.counter + 1)
      BY <3>2 DEF Lin!Id
    <3>. QED  BY <1>1, <2>1, <2>2, <3>2, <3>3, <3>4
  <2>. QED  BY <2>3, <2>4
<1>. QED  BY <1>2, <1>3

LEMMA KeptGrows ==
  ASSUME scopes \subseteq scopes', NEW w, IsKept(w)
  PROVE  IsKept(w)'
BY DEF IsKept, RootIsHere, HopsAreHere

(* What the factory may open a scope for.                                  *)
Openable(w, attempt_, previous) ==
  /\ w \in WorkSnapshots /\ attempt_ \in 1 .. MaxU32 /\ previous \in Int
  /\ (w.depth = Lin!NoId) <=> (w.source = "external")
  /\ w.source = "local" =>
       /\ HopsAreHere(w)
       /\ w.correlation = Lin!NoId => w.depth = 0
       /\ w.correlation # Lin!NoId => RootIsHere(w)
  /\ previous # Lin!NoId =>
       /\ IsKept(w)
       /\ \E p \in scopes : p.scope_id = previous /\ p.work = w /\ attempt_ = p.attempt + 1

LEMMA EmitKeeps ==
  ASSUME LineageInv, NEW w, NEW attempt_, NEW previous, NEW forbidden,
         Openable(w, attempt_, previous), Lin!Emit(w, attempt_, previous, forbidden)
  PROVE  LineageInv'
<1>1. PICK st \in Lin!NextStates :
        LET id == Lin!Id(st.ms, st.counter)
            s  == [work |-> Lin!Named(w, id), scope_id |-> id, attempt |-> attempt_, previous |-> previous]
        IN  /\ last' = st
            /\ scopes' = scopes \/ scopes' = scopes \cup {s}
  BY DEF Lin!Emit
<1>. DEFINE id == Lin!Id(st.ms, st.counter)
            n  == Lin!Named(w, id)
            s  == [work |-> n, scope_id |-> id, attempt |-> attempt_, previous |-> previous]
<1>2. /\ st \in [ms : 0 .. MaxMs, counter : 0 .. CounterMax] /\ id \in Nat /\ LastId \in Int /\ LastId < id
  BY IdsGrow DEF LineageInv
<1>3. LastId' = id /\ LineageTyped' /\ UNCHANGED <<now, works>>
  BY <1>1, <1>2 DEF Lin!Emit, LineageInv, LineageTyped, LastId, Lin!Id
<1>. HIDE DEF id
<1>4. /\ n \in WorkSnapshots /\ n.work_id # Lin!NoId /\ n.correlation # Lin!NoId
      /\ n.source = w.source /\ n.cause = w.cause /\ n.origin = w.origin /\ n.who = w.who
      /\ n.depth = w.depth /\ n.replay = w.replay
      /\ w.correlation # Lin!NoId => n.correlation = w.correlation
      /\ w.correlation = Lin!NoId => n.correlation = id
      /\ w.work_id # Lin!NoId /\ w.correlation # Lin!NoId => n = w
  <2>. DEFINE a == IF w.work_id = Lin!NoId THEN id ELSE w.work_id
              b == IF w.correlation = Lin!NoId THEN id ELSE w.correlation
  <2>1. n = [w EXCEPT !.work_id = a, !.correlation = b]
    BY DEF Lin!Named
  <2>2. w \in WorkSnapshots /\ w.work_id \in Int /\ w.correlation \in Int
    BY DEF Openable, WorkSnapshots
  <2>3. /\ a \in Int /\ b \in Int /\ a # Lin!NoId /\ b # Lin!NoId
        /\ w.work_id # Lin!NoId => a = w.work_id
        /\ w.correlation # Lin!NoId => b = w.correlation
        /\ w.correlation = Lin!NoId => b = id
    BY <1>2, <2>2 DEF Lin!NoId
  <2>. HIDE DEF a, b, n
  <2>4. /\ n \in WorkSnapshots /\ n.work_id = a /\ n.correlation = b
        /\ n.source = w.source /\ n.cause = w.cause /\ n.origin = w.origin /\ n.who = w.who
        /\ n.depth = w.depth /\ n.replay = w.replay
    BY <2>1, <2>2, <2>3 DEF WorkSnapshots
  <2>5. a = w.work_id /\ b = w.correlation => n = w
    BY <2>1, <2>2 DEF WorkSnapshots
  <2>. QED  BY <2>3, <2>4, <2>5
<1>. HIDE DEF n
<1>5. s \in ScopeSnapshots /\ s.work = n /\ s.scope_id = id /\ s.attempt = attempt_ /\ s.previous = previous
  BY <1>2, <1>4 DEF Openable, ScopeSnapshots
<1>. HIDE DEF s
<1>6. scopes' = scopes \/ scopes' = scopes \cup {s}
  BY <1>1 DEF s, n, id
<1>7. scopes \subseteq scopes' /\ \A x \in scopes : x.scope_id < id /\ x.scope_id \in Nat
  BY <1>2, <1>6 DEF LineageInv, ScopesAreKept, ScopeSnapshots
<1>8. ASSUME s \in scopes'
      PROVE  IsKept(n)' /\ HopsAreOlder(s)'
  <2>1. (n.depth = Lin!NoId) <=> (n.source = "external")
    BY <1>4 DEF Openable
  <2>2. CASE n.source = "external"
    <3>1. 0 .. n.depth - 1 = {}
      BY <2>1, <2>2 DEF Lin!NoId
    <3>. QED  BY <1>4, <1>5, <2>1, <2>2, <3>1 DEF IsKept, HopsAreOlder
  <2>3. CASE n.source = "local"
    <3>1. RootIsHere(n)'
      <4>1. CASE w.correlation = Lin!NoId
        <5>1. s.scope_id = n.correlation /\ s.work = n /\ n.depth = 0
          BY <1>4, <1>5, <2>3, <4>1 DEF Openable
        <5>. QED  BY <1>8, <5>1 DEF RootIsHere
      <4>2. CASE w.correlation # Lin!NoId
        <5>1. RootIsHere(w) /\ n.correlation = w.correlation
          BY <1>4, <2>3, <4>2 DEF Openable
        <5>. QED  BY <1>4, <1>7, <5>1 DEF RootIsHere
      <4>. QED  BY <4>1, <4>2
    <3>2. HopsAreHere(n)
      <4>1. CASE w.correlation = Lin!NoId
        <5>1. 0 .. n.depth - 1 = {}
          BY <1>4, <2>3, <4>1 DEF Openable
        <5>. QED  BY <5>1 DEF HopsAreHere
      <4>2. CASE w.correlation # Lin!NoId
        BY <1>4, <2>3, <4>2 DEF Openable, HopsAreHere
      <4>. QED  BY <4>1, <4>2
    <3>3. HopsAreHere(n)' /\ HopsAreOlder(s)'
      BY <1>5, <1>7, <3>2 DEF HopsAreHere, HopsAreOlder
    <3>. QED  BY <1>4, <2>1, <3>1, <3>3 DEF IsKept
  <2>. QED  BY <1>4, <2>2, <2>3 DEF WorkSnapshots
<1>9. ScopesAreKept'
  <2>. SUFFICES ASSUME NEW x \in scopes'
                PROVE  x \in ScopeSnapshots /\ IsKept(x.work)' /\ x.scope_id <= id /\ HopsAreOlder(x)'
    BY <1>3 DEF ScopesAreKept
  <2>1. CASE x \in scopes
    <3>1. x \in ScopeSnapshots /\ IsKept(x.work) /\ HopsAreOlder(x)
      BY <2>1 DEF LineageInv, ScopesAreKept
    <3>2. IsKept(x.work)'
      BY <1>7, <3>1, KeptGrows
    <3>3. HopsAreOlder(x)'
      BY <1>7, <3>1 DEF HopsAreOlder
    <3>. QED  BY <1>2, <1>7, <2>1, <3>1, <3>2, <3>3
  <2>2. CASE x = s
    BY <1>2, <1>5, <1>8, <2>2
  <2>. QED  BY <1>6, <2>1, <2>2
<1>10. IdsAreUnique'
  BY <1>5, <1>6, <1>7 DEF LineageInv, IdsAreUnique
<1>11. \A x \in works' : IsKept(x)'
  BY <1>3, <1>7, KeptGrows DEF LineageInv
<1>12. Lin!RetryKeepsWork'
  <2>. SUFFICES ASSUME NEW x \in scopes', x.previous # Lin!NoId
                PROVE  \E p \in scopes' : p.scope_id = x.previous /\ p.work = x.work /\ x.attempt = p.attempt + 1
    BY DEF Lin!RetryKeepsWork
  <2>1. CASE x \in scopes
    BY <1>7, <2>1 DEF LineageInv, Lin!RetryKeepsWork
  <2>2. CASE x = s
    <3>1. IsKept(w) /\ \E p \in scopes : p.scope_id = previous /\ p.work = w /\ attempt_ = p.attempt + 1
      BY <1>5, <2>2 DEF Openable
    <3>2. n = w
      BY <1>4, <3>1 DEF IsKept
    <3>. QED  BY <1>5, <1>7, <2>2, <3>1, <3>2
  <2>. QED  BY <1>6, <2>1, <2>2
<1>. QED  BY <1>3, <1>9, <1>10, <1>11, <1>12 DEF LineageInv

LEMMA RootOpens ==
  ASSUME NEW workId \in Int, NEW origin \in {"request", "replay", "none"}, NEW who \in Initiators,
         NEW replay \in Causes
  PROVE  LET w == Lin!Root(workId, origin, who, replay)
         IN  /\ w \in WorkSnapshots /\ w.depth = 0 /\ w.source = "local" /\ w.correlation = Lin!NoId
             /\ w.cause = Lin!None
BY ServicesAssumption
DEF Lin!Root, WorkSnapshots, Causes, Lin!None, Lin!NoId, Lin!LineageAssumption

LEMMA ChildIsKept ==
  ASSUME LineageInv, NEW p \in scopes, NEW workId \in Lin!Supplied,
         NEW cause \in Lin!Refs \cup {Lin!None}, Lin!Deepens(p)
  PROVE  LET w == Lin!ChildWork(p, workId, cause)
         IN  /\ w \in WorkSnapshots /\ w.source = p.work.source
             /\ w.correlation # Lin!NoId /\ w.work_id # Lin!NoId
             /\ workId # Lin!NoId => w.work_id = workId
             /\ (w.depth = Lin!NoId) <=> (w.source = "external")
             /\ w.source = "local" => RootIsHere(w) /\ HopsAreHere(w)
<1>. DEFINE q == p.work
            a == IF workId = Lin!NoId THEN q.work_id ELSE workId
            d == IF q.depth = Lin!NoId THEN q.depth ELSE q.depth + 1
            c == IF cause = Lin!None THEN [kind |-> "scope", id |-> p.scope_id] ELSE cause
            w == Lin!ChildWork(p, workId, cause)
<1>1. w = [q EXCEPT !.work_id = a, !.depth = d, !.cause = c]
  BY DEF Lin!ChildWork
<1>2. /\ q \in WorkSnapshots /\ q.work_id \in Int /\ q.work_id # Lin!NoId /\ q.correlation # Lin!NoId
      /\ p.scope_id \in Nat /\ q.depth \in (0 .. MaxU32) \cup {Lin!NoId} /\ q.correlation \in Int
      /\ (q.depth = Lin!NoId) <=> (q.source = "external")
      /\ q.source = "local" => RootIsHere(q) /\ HopsAreHere(q)
  BY DEF LineageInv, ScopesAreKept, ScopeSnapshots, IsKept, WorkSnapshots
<1>3. MaxU32 \in Nat /\ \A f \in Foreign : f \in Nat
  BY ServicesAssumption DEF Lin!LineageAssumption
<1>4. workId \in Int /\ (workId # Lin!NoId => workId \in Nat)
  BY <1>3 DEF Lin!Supplied, Lin!NoId
<1>5. a \in Int /\ a # Lin!NoId /\ (workId # Lin!NoId => a = workId)
  BY <1>2, <1>4 DEF Lin!NoId
<1>6. /\ d \in (0 .. MaxU32) \cup {Lin!NoId}
      /\ IF q.depth = Lin!NoId THEN d = Lin!NoId ELSE d = q.depth + 1 /\ d # Lin!NoId
  BY <1>2, <1>3 DEF Lin!Deepens, Lin!NoId
<1>7. c \in Causes
  <2>1. Lin!Refs \subseteq Causes
    BY <1>3 DEF Lin!Refs, Lin!Ids, Causes, LineageInv, ScopesAreKept, ScopeSnapshots
  <2>2. CASE cause = Lin!None
    BY <1>2, <2>2 DEF Causes
  <2>3. CASE cause # Lin!None
    BY <2>1, <2>3
  <2>. QED  BY <2>2, <2>3
<1>. HIDE DEF q, a, d, c, w
<1>8. /\ w \in WorkSnapshots /\ w.work_id = a /\ w.depth = d /\ w.cause = c /\ w.source = q.source
      /\ w.correlation = q.correlation /\ w.who = q.who /\ w.origin = q.origin /\ w.replay = q.replay
  BY <1>1, <1>2, <1>5, <1>6, <1>7 DEF WorkSnapshots
<1>9. (w.depth = Lin!NoId) <=> (w.source = "external")
  BY <1>2, <1>6, <1>8
<1>10. w.source = "local" => RootIsHere(w) /\ HopsAreHere(w)
  <2>. SUFFICES ASSUME w.source = "local"
                PROVE  RootIsHere(w) /\ HopsAreHere(w)
    OBVIOUS
  <2>1. RootIsHere(w)
    BY <1>2, <1>8 DEF RootIsHere
  <2>2. q.depth \in 0 .. MaxU32 /\ w.depth = q.depth + 1
    BY <1>2, <1>6, <1>8
  <2>3. ASSUME NEW h \in 0 .. w.depth - 1
        PROVE  \E s \in scopes : s.work.depth = h /\ s.work.correlation = w.correlation
    <3>1. CASE h = q.depth
      BY <1>8, <3>1 DEF q
    <3>2. CASE h # q.depth
      <4>1. h \in 0 .. q.depth - 1
        BY <1>3, <2>2, <3>2
      <4>. QED  BY <1>2, <1>8, <4>1 DEF HopsAreHere
    <3>. QED  BY <3>1, <3>2
  <2>. QED  BY <2>1, <2>3 DEF HopsAreHere
<1>. QED  BY <1>2, <1>5, <1>8, <1>9, <1>10 DEF w, q

LEMMA LineageNext ==
  ASSUME LineageInv, Lin!Next
  PROVE  LineageInv'
<1>0. /\ MaxU32 \in Nat \ {0} /\ \A f \in Foreign : f \in Nat
      /\ \A i \in Lin!Ids : i \in Nat
      /\ \A i \in Lin!Supplied : i \in Int
  BY ServicesAssumption
  DEF Lin!LineageAssumption, LineageInv, ScopesAreKept, ScopeSnapshots, Lin!Ids, Lin!Supplied, Lin!NoId
<1>1. /\ \A r \in Lin!Refs : r \in Causes
      /\ Lin!None \in Causes /\ Lin!None.kind # "scope"
  BY <1>0 DEF Lin!Refs, Causes, Lin!None
<1>2. CASE Lin!Tick
  BY <1>2 DEF Lin!Tick, LineageInv, LineageTyped, LastId, Lin!Id, ScopesAreKept, IsKept, RootIsHere,
     HopsAreHere, HopsAreOlder, IdsAreUnique, Lin!RetryKeepsWork
<1>3. ASSUME NEW workId \in Lin!Supplied, NEW who \in Initiators, Lin!Open(workId, "request", who)
      PROVE  LineageInv'
  <2>. DEFINE w == Lin!Root(workId, "request", who, Lin!None)
  <2>1. Lin!Emit(w, 1, Lin!NoId, {})
    BY <1>3 DEF Lin!Open
  <2>2. /\ w \in WorkSnapshots /\ w.depth = 0 /\ w.source = "local" /\ w.correlation = Lin!NoId
        /\ w.cause = Lin!None
    BY <1>0, <1>1, RootOpens
  <2>. HIDE DEF w
  <2>3. Openable(w, 1, Lin!NoId)
    BY <1>0, <1>1, <2>2 DEF Openable, HopsAreHere, Lin!NoId
  <2>. QED  BY <2>1, <2>3, EmitKeeps
<1>4. ASSUME NEW workId \in Lin!Supplied, NEW who \in Initiators, NEW replayed \in Lin!Refs,
             Lin!Replay(replayed, workId, who)
      PROVE  LineageInv'
  <2>. DEFINE w == Lin!Root(workId, "replay", who, replayed)
  <2>1. \E forbidden : Lin!Emit(w, 1, Lin!NoId, forbidden)
    BY <1>4 DEF Lin!Replay
  <2>2. /\ w \in WorkSnapshots /\ w.depth = 0 /\ w.source = "local" /\ w.correlation = Lin!NoId
        /\ w.cause = Lin!None
    BY <1>0, <1>1, RootOpens
  <2>. HIDE DEF w
  <2>3. Openable(w, 1, Lin!NoId)
    BY <1>0, <1>1, <2>2 DEF Openable, HopsAreHere, Lin!NoId
  <2>. QED  BY <2>1, <2>3, EmitKeeps
<1>5. ASSUME NEW hint \in Lin!Hints, NEW workId \in Lin!Supplied, NEW who \in Initiators,
             Lin!Enter(hint, workId, who)
      PROVE  LineageInv'
  <2>. DEFINE w == [Lin!Root(workId, "none", who, Lin!None) EXCEPT
                      !.correlation = hint.correlation, !.source = "external",
                      !.cause = hint.cause, !.depth = Lin!NoId]
  <2>1. CASE Lin!Open(workId, "request", who)
    BY <1>3, <2>1
  <2>2. CASE Lin!Emit(w, 1, Lin!NoId, {})
    <3>1. hint.correlation \in Int /\ hint.cause \in Causes
      BY <1>0, <1>1 DEF Lin!Hints, Lin!Incoming, Lin!NoId
    <3>2. Lin!Root(workId, "none", who, Lin!None) \in WorkSnapshots
      BY <1>0, <1>1, RootOpens
    <3>3. w \in WorkSnapshots /\ w.source = "external" /\ w.depth = Lin!NoId
      BY <3>1, <3>2 DEF WorkSnapshots
    <3>. HIDE DEF w
    <3>4. Openable(w, 1, Lin!NoId)
      BY <1>0, <3>3 DEF Openable, Lin!NoId
    <3>. QED  BY <2>2, <3>4, EmitKeeps
  <2>. QED  BY <1>5, <2>1, <2>2 DEF Lin!Enter
<1>6. ASSUME NEW p \in scopes, NEW workId \in Lin!Supplied,
             NEW cause \in Lin!Refs \cup {Lin!None}, Lin!Child(p, workId, cause)
      PROVE  LineageInv'
  <2>. DEFINE c == Lin!ChildWork(p, workId, cause)
              w == [c EXCEPT !.work_id = workId]
  <2>1. Lin!Deepens(p) /\ \E forbidden : Lin!Emit(w, 1, Lin!NoId, forbidden)
    BY <1>6 DEF Lin!Child, Lin!Derives
  <2>2. /\ c \in WorkSnapshots /\ c.correlation # Lin!NoId
        /\ (c.depth = Lin!NoId) <=> (c.source = "external")
        /\ c.source = "local" => RootIsHere(c) /\ HopsAreHere(c)
    BY <2>1, ChildIsKept
  <2>. HIDE DEF c
  <2>3. /\ w \in WorkSnapshots /\ w.correlation = c.correlation /\ w.source = c.source /\ w.depth = c.depth
        /\ w.who = c.who /\ w.origin = c.origin /\ w.replay = c.replay /\ w.cause = c.cause
    BY <1>0, <2>2 DEF WorkSnapshots
  <2>. HIDE DEF w
  <2>4. w.source = "local" => RootIsHere(w) /\ HopsAreHere(w)
    BY <2>2, <2>3 DEF RootIsHere, HopsAreHere
  <2>5. Openable(w, 1, Lin!NoId)
    BY <1>0, <2>2, <2>3, <2>4 DEF Openable, Lin!NoId
  <2>. QED  BY <2>1, <2>5, EmitKeeps
<1>7. ASSUME NEW p \in scopes, NEW workId \in Lin!Supplied, workId # Lin!NoId,
             NEW cause \in Lin!Refs \cup {Lin!None}, Lin!Prepare(p, workId, cause)
      PROVE  LineageInv'
  <2>. DEFINE w == Lin!ChildWork(p, workId, cause)
  <2>1. Lin!Deepens(p) /\ works' = works \cup {w} /\ UNCHANGED <<now, last, scopes>>
    BY <1>7 DEF Lin!Prepare, Lin!Derives
  <2>2. IsKept(w)
    BY <2>1, ChildIsKept DEF IsKept
  <2>. HIDE DEF w
  <2>3. \A x \in works' : IsKept(x)'
    <3>1. \A x \in works' : IsKept(x)
      BY <2>1, <2>2 DEF LineageInv
    <3>. QED  BY <2>1, <3>1, KeptGrows
  <2>4. LineageTyped' /\ ScopesAreKept' /\ IdsAreUnique' /\ Lin!RetryKeepsWork'
    BY <2>1 DEF LineageInv, LineageTyped, LastId, Lin!Id, ScopesAreKept, IsKept, RootIsHere, HopsAreHere, HopsAreOlder,
       IdsAreUnique, Lin!RetryKeepsWork
  <2>. QED  BY <2>3, <2>4 DEF LineageInv
<1>8. ASSUME NEW w \in works, NEW attempt_ \in 1 .. MaxU32, Lin!Execute(w, attempt_)
      PROVE  LineageInv'
  <2>1. Lin!Emit(w, attempt_, Lin!NoId, {})
    BY <1>8 DEF Lin!Execute
  <2>2. Openable(w, attempt_, Lin!NoId)
    BY DEF LineageInv, IsKept, Openable, Lin!NoId
  <2>. QED  BY <2>1, <2>2, EmitKeeps
<1>9. ASSUME NEW s \in scopes, Lin!Retry(s)
      PROVE  LineageInv'
  <2>1. Lin!Emit(s.work, s.attempt + 1, s.scope_id, {s.scope_id}) /\ s.attempt < MaxU32
    BY <1>9 DEF Lin!Retry
  <2>2. s \in ScopeSnapshots /\ IsKept(s.work)
    BY DEF LineageInv, ScopesAreKept
  <2>3. s.attempt + 1 \in 1 .. MaxU32 /\ s.scope_id \in Int
    BY <1>0, <2>1, <2>2 DEF ScopeSnapshots
  <2>4. Openable(s.work, s.attempt + 1, s.scope_id)
    BY <2>2, <2>3 DEF Openable, IsKept
  <2>. QED  BY <2>1, <2>4, EmitKeeps
<1>. QED  BY <1>2, <1>3, <1>4, <1>5, <1>6, <1>7, <1>8, <1>9 DEF Lin!Next

LEMMA LineageInvariant == ServicesSpec => []LineageInv
<1>1. ServicesInit => LineageInv
  BY ServicesAssumption
  DEF ServicesInit, Lin!Init, LineageInv, LineageTyped, ScopesAreKept, IdsAreUnique, Lin!RetryKeepsWork
<1>2. LineageInv /\ [ServicesNext]_services => LineageInv'
  <2>1. [ServicesNext]_services => Lin!Next \/ UNCHANGED lineage
    BY DEF ServicesNext, services, SourcesStep, MigrationsStep, LineageStep, OutboundStep, SocketsStep, BrowserStep, LimiterStep
  <2>2. LineageInv /\ UNCHANGED lineage => LineageInv'
    BY DEF lineage, LineageInv, LineageTyped, LastId, Lin!Id, ScopesAreKept, IsKept, RootIsHere, HopsAreHere, HopsAreOlder,
       IdsAreUnique, Lin!RetryKeepsWork
  <2>. QED  BY <2>1, <2>2, LineageNext
<1>. QED  BY <1>1, <1>2, PTL DEF ServicesSpec

(* Only an emission takes an id, and it takes the next one.                *)
LEMMA LastMoves ==
  ASSUME Lin!Next
  PROVE  last' = last \/ last' \in Lin!NextStates
<1>1. ASSUME NEW w, NEW attempt_, NEW previous, NEW forbidden, Lin!Emit(w, attempt_, previous, forbidden)
      PROVE  last' \in Lin!NextStates
  BY <1>1 DEF Lin!Emit
<1>. QED
  BY <1>1 DEF Lin!Next, Lin!Tick, Lin!Open, Lin!Replay, Lin!Enter, Lin!Child, Lin!Prepare, Lin!Execute,
     Lin!Retry

(* What a scope says of its lineage stays true, and no id is given out a   *)
(* second time: for any clock, counter, depths and ids from elsewhere.     *)
THEOREM LineageStaysKept == ServicesSpec => LineageIsKept
<1>1. LineageInv => Lin!TypeOK /\ Lin!LocalLineage /\ Lin!DepthCountsHops /\ Lin!RetryKeepsWork
  <2>. SUFFICES ASSUME LineageInv
                PROVE  Lin!TypeOK /\ Lin!LocalLineage /\ Lin!DepthCountsHops /\ Lin!RetryKeepsWork
    OBVIOUS
  <2>1. \A s \in scopes : s \in ScopeSnapshots /\ IsKept(s.work)
    BY DEF LineageInv, ScopesAreKept
  <2>2. Lin!TypeOK
    <3>1. \A w \in WorkSnapshots : w.depth \in (0 .. MaxU32) \cup {Lin!NoId}
      BY DEF WorkSnapshots
    <3>2. \A w \in works : w \in WorkSnapshots
      BY DEF LineageInv, IsKept
    <3>3. \A s \in scopes : s.work \in WorkSnapshots /\ s.attempt \in 1 .. MaxU32
      BY <2>1 DEF ScopeSnapshots
    <3>. QED  BY <3>1, <3>2, <3>3 DEF LineageInv, LineageTyped, Lin!TypeOK
  <2>3. Lin!LocalLineage
    BY <2>1 DEF IsKept, RootIsHere, Lin!LocalLineage
  <2>4. Lin!DepthCountsHops
    BY <2>1 DEF LineageInv, ScopesAreKept, IsKept, HopsAreOlder, Lin!DepthCountsHops
  <2>. QED  BY <2>2, <2>3, <2>4 DEF LineageInv
<1>2. LineageInv /\ [ServicesNext]_services
        => [last # Lin!Fresh0 /\ last' # last
              => Lin!Id(last'.ms, last'.counter) > Lin!Id(last.ms, last.counter)]_Lin!vars
  <2>. SUFFICES ASSUME LineageInv, [ServicesNext]_services, last' # last
                PROVE  Lin!Id(last'.ms, last'.counter) > Lin!Id(last.ms, last.counter)
    OBVIOUS
  <2>1. Lin!Next
    BY DEF ServicesNext, services, SourcesStep, MigrationsStep, LineageStep, OutboundStep, SocketsStep, BrowserStep, LimiterStep,
       lineage
  <2>2. last' \in Lin!NextStates
    BY <2>1, LastMoves
  <2>3. PICK st : st = last'
    OBVIOUS
  <2>4. LastId \in Int /\ Lin!Id(st.ms, st.counter) \in Nat /\ LastId < Lin!Id(st.ms, st.counter)
    BY <2>2, <2>3, IdsGrow DEF LineageInv
  <2>. QED  BY <2>3, <2>4 DEF LastId
<1>. QED  BY <1>1, <1>2, LineageInvariant, PTL DEF ServicesSpec, LineageIsKept, Lin!IdsIncrease
=============================================================================
