------------------------------ MODULE Sources -------------------------------
(***************************************************************************)
(* The source key of a request (root/proxy.rs): a request leaves a client, *)
(* which may bring a forwarded header of its own, passes proxies that each *)
(* append the address they got it from, and arrives at the server.  An     *)
(* address is a family and its bits, from the left.                        *)
(***************************************************************************)
EXTENDS Naturals, Sequences, FiniteSets, SequencesExt

CONSTANTS Width,     \* Width[f]: bits of an address of f: 32 for v4, 128 for v6
          Lists,     \* the proxy lists considered: sets of [network, bits]
          Nodes,     \* addresses that send requests
          Forged,    \* the headers a client may bring: sequences of addresses
          MaxHops    \* a bound on the proxies a request passes

Addresses == UNION {[family : {f}, raw : [1 .. Width[f] -> {0, 1}]] : f \in {"v4", "v6"}}
NoPeer     == [family |-> "no_peer", raw |-> <<>>]
NoSource   == [family |-> "no_source", raw |-> <<>>]    \* the empty text
Unreadable == [family |-> "unreadable", raw |-> <<>>]   \* text that is no address

SourcesAssumption ==
  /\ Width \in [{"v4", "v6"} -> Nat \ {0}] /\ MaxHops \in Nat /\ Nodes \subseteq Addresses
  /\ \A l \in Lists : \A p \in l : p.network \in Addresses /\ p.bits \in 0 .. Width[p.network.family]
  /\ Forged \subseteq Seq(Addresses \cup {Unreadable})

(* mask: what is left of an address when all but its first bits are cleared. *)
Mask(a, bits) == [a EXCEPT !.raw = [i \in DOMAIN @ |-> IF i <= bits THEN @[i] ELSE 0]]
(* parse_proxy stores the network masked. *)
Parsed(list) == {[network |-> Mask(p.network, p.bits), bits |-> p.bits] : p \in list}
InNetwork(p, a) == p.network.family = a.family /\ Mask(a, p.bits) = p.network
Trusted(proxies, a) == \E p \in proxies : InNetwork(p, a)

TrustedSourceLeft(proxies, peer, header) ==   \* mutant: the leftmost address is the client
  IF peer = NoPeer THEN NoSource
  ELSE IF ~Trusted(proxies, peer) \/ header = <<>> \/ Unreadable \in ToSet(header) THEN peer
  ELSE header[1]
(* trusted_source: the forwarded addresses count only behind a trusted     *)
(* peer, and then from the right, to the first that is no proxy.           *)
TrustedSource(proxies, peer, header) ==
  IF peer = NoPeer THEN NoSource
  ELSE IF ~Trusted(proxies, peer) \/ header = <<>> \/ Unreadable \in ToSet(header) THEN peer
  ELSE LET chain == Append(header, peer)
           outside == {i \in DOMAIN chain : ~Trusted(proxies, chain[i])} IN
       IF outside = {} THEN chain[1]
       ELSE chain[CHOOSE i \in outside : \A j \in outside : j <= i]

VARIABLES list,    \* HTTP_TRUSTED_PROXIES
          client,  \* who the request is from
          holder,  \* who has it now
          header,  \* the x-forwarded-for addresses, in order
          hops,    \* proxies passed
          derived, \* what the policy makes of the connection's peer
          source   \* the source the handler gets
vars == <<list, client, holder, header, hops, derived, source>>

Init == /\ list \in Lists /\ client \in Nodes /\ holder = client /\ header \in Forged /\ hops = 0
        /\ derived = NoPeer /\ source = NoPeer
(* A proxy of the list takes the request and notes whom it got it from.    *)
Forward(p) ==
  /\ derived = NoPeer /\ hops < MaxHops /\ Trusted(Parsed(list), p) /\ p # holder
  /\ holder' = p /\ header' = Append(header, holder) /\ hops' = hops + 1
  /\ UNCHANGED <<list, client, derived, source>>
(* The serving loop discards the address that accept returns, so the       *)
(* request carries no Peer and the adapter passes None to the policy.      *)
PeerOfRequest == NoPeer
Arrive ==
  /\ derived = NoPeer
  /\ derived' = TrustedSource(Parsed(list), holder, header)
  /\ source' = TrustedSource(Parsed(list), PeerOfRequest, header)
  /\ UNCHANGED <<list, client, holder, header, hops>>
Done == derived # NoPeer /\ UNCHANGED vars
Next == (\E p \in Nodes : Forward(p)) \/ Arrive \/ Done
Spec == Init /\ [][Next]_vars
-----------------------------------------------------------------------------
(* An address is in a proxy network exactly when it is of its family and   *)
(* agrees with it in its first bits, for 0 bits and for all of them too.   *)
ContainsIsPrefix ==
  \A p \in list, a \in Nodes :
    Trusted({q \in Parsed(list) : q = [network |-> Mask(p.network, p.bits), bits |-> p.bits]}, a)
      <=> (a.family = p.network.family /\ \A i \in 1 .. p.bits : a.raw[i] = p.network.raw[i])

(* A client that is no proxy cannot choose its source by the header it     *)
(* brings: whatever proxies the request passes, the policy derives the     *)
(* client's address or, when the header is unreadable, the peer's.         *)
ForgeryIsIgnored ==
  derived # NoPeer /\ ~Trusted(Parsed(list), client) =>
    derived = IF Unreadable \in ToSet(header) THEN holder ELSE client

(* The handler's source is the one that the policy derives from the peer   *)
(* of the connection.                                                      *)
SourceIsDerived == derived # NoPeer => source = derived

(* The source of a request is the client's own address whenever the client *)
(* is no proxy, for networks of every width in both families.              *)
SourceIsHonest == ContainsIsPrefix /\ ForgeryIsIgnored
=============================================================================
