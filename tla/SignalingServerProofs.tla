----------------------- MODULE SignalingServerProofs -----------------------
(***************************************************************************)
(* Proofs about SignalingServer, for any set of connections and addresses. *)
(*                                                                         *)
(* Neither RegistryConsistent nor PairingSymmetric is inductive alone: that *)
(* a pairing never names a closed target needs the Map to name attached    *)
(* sockets only, and both need the types.  Their conjunction IInv is.      *)
(***************************************************************************)
EXTENDS SignalingServer, TLAPS

IInv == TypeOK /\ RegistryConsistent /\ PairingSymmetric

-----------------------------------------------------------------------------
(* The operators the actions are built from keep the type of wire.         *)

LEMMA SentType ==
    ASSUME TypeOK, NEW w \in [Conns -> Seq(Msg)], NEW c \in Conns, NEW m \in Msg
    PROVE  Sent(w, c, m) \in [Conns -> Seq(Msg)]
  BY DEF Sent

LEMMA PeersMsgType ==
    ASSUME NEW ks \in SUBSET Keys
    PROVE  PeersMsg(ks) \in Msg
  BY DEF PeersMsg, Msg

LEMMA BroadcastType ==
    ASSUME NEW w \in [Conns -> Seq(Msg)], NEW map, NEW rs
    PROVE  BroadcastPeerLists(w, map, rs) \in [Conns -> Seq(Msg)]
  <1>1. \A c : PeerListFor(c, map, rs) \in SUBSET Keys
    BY DEF PeerListFor
  <1>2. \A c : PeersMsg(PeerListFor(c, map, rs)) \in Msg
    BY <1>1, PeersMsgType
  <1>. QED
    BY <1>2 DEF BroadcastPeerLists

LEMMA ErrorMsgType ==
    ASSUME NEW r \in {"target_not_found", "busy"}
    PROVE  ErrorMsg(r) \in Msg
  BY DEF ErrorMsg, Msg

LEMMA RoleMsgType ==
    ASSUME TypeOK, NEW c \in Conns, NEW t \in Conns
    PROVE  OffererMsg(c, t) \in Msg /\ AnswererMsg(t, c) \in Msg
  <1>1. clientIP[c] \in KeysOrNone /\ clientIP[t] \in KeysOrNone /\ None \in KeysOrNone
    BY DEF TypeOK, KeysOrNone
  <1>2. /\ OffererMsg(c, t) \in [type : {"role"}, role : {"offerer", "answerer"},
                selfIP : KeysOrNone, peerIP : KeysOrNone, with : Conns]
        /\ AnswererMsg(t, c) \in [type : {"role"}, role : {"offerer", "answerer"},
                selfIP : KeysOrNone, peerIP : KeysOrNone, with : Conns]
    BY <1>1 DEF OffererMsg, AnswererMsg
  <1>. QED
    BY <1>2 DEF Msg

LEMMA PeerLeftMsgType == PeerLeftMsg \in Msg
  BY DEF PeerLeftMsg, Msg

LEMMA PeerJoinedMsgType ==
    ASSUME NEW k \in KeysOrNone
    PROVE  PeerJoinedMsg(k) \in Msg
  BY DEF PeerJoinedMsg, Msg

LEMMA SignalMsgType ==
    ASSUME NEW c \in Conns, NEW p \in Payloads
    PROVE  SignalMsg(c, p) \in Msg
  BY DEF SignalMsg, Msg

\* What receiveSignal makes of a client's state is again a client's state.
LEMMA ReceiveSignalType ==
    ASSUME NEW cl \in Client, NEW m \in Msg
    PROVE  ReceiveSignal(cl, m) \in Client
  <1>1. m.type = "role" =>
            m.selfIP \in KeysOrNone /\ m.peerIP \in KeysOrNone /\ m.with \in ConnsOrNone
    BY DEF Msg, ConnsOrNone
  <1>2. m.type = "peer_joined" => m.peerIP \in KeysOrNone
    BY DEF Msg
  <1>3. m.type = "peers" => m.peers \in SUBSET Keys
    BY DEF Msg
  <1>. QED
    BY <1>1, <1>2, <1>3 DEF ReceiveSignal, Client, ConnsOrNone

-----------------------------------------------------------------------------
(* Type correctness.                                                       *)

LEMMA TypeInit == Init => TypeOK
  BY DEF Init, TypeOK, KeysOrNone, ConnsOrNone, NewClient, Client

\* A pair_request names a connection, or nothing.
LEMMA TargetType ==
    ASSUME TypeOK, NEW t \in KeysOrNone
    PROVE  TargetOf(t) \in ConnsOrNone
  BY DEF TypeOK, TargetOf, KeysOrNone, ConnsOrNone

LEMMA TypeStep == TypeOK /\ [Next]_vars => TypeOK'
  <1>. SUFFICES ASSUME TypeOK, [Next]_vars PROVE TypeOK'
    OBVIOUS
  <1>w. wire \in [Conns -> Seq(Msg)]
    BY DEF TypeOK
  <1>1. CASE PeerJoinedTimer
    <2>1. Head(timers) \in Conns \X Conns /\ Tail(timers) \in Seq(Conns \X Conns)
      BY <1>1 DEF PeerJoinedTimer, TypeOK
    <2>2. PeerJoinedMsg(clientIP[Head(timers)[2]]) \in Msg
      BY <2>1, PeerJoinedMsgType DEF TypeOK
    <2>3. wire' \in [Conns -> Seq(Msg)]
      BY <1>1, <1>w, <2>1, <2>2, SentType DEF PeerJoinedTimer
    <2>. QED
      BY <1>1, <2>1, <2>3 DEF PeerJoinedTimer, TypeOK
  <1>2. ASSUME NEW c \in Conns, NEW k \in Keys, Connect(c, k) PROVE TypeOK'
    <2>1. wire' \in [Conns -> Seq(Msg)]
      BY <1>2, <1>w, BroadcastType DEF Connect
    <2>. QED
      BY <1>2, <2>1 DEF Connect, TypeOK, KeysOrNone, ConnsOrNone
  <1>3. ASSUME NEW c \in Conns, NEW t \in KeysOrNone, PairRequest(c, t) PROVE TypeOK'
    <2>1. CASE PairTargetNotFound(c, t) \/ PairBusy(c, t)
      <3>1. wire' \in [Conns -> Seq(Msg)]
        BY <2>1, <1>w, SentType, ErrorMsgType DEF PairTargetNotFound, PairBusy
      <3>. QED
        BY <2>1, <3>1 DEF PairTargetNotFound, PairBusy, Request, server, TypeOK
    <2>2. CASE Pair(c, t)
      <3>1. TargetOf(t) \in Conns
        BY <2>2, TargetType DEF Pair, ConnsOrNone
      <3>2. wire' \in [Conns -> Seq(Msg)]
        BY <2>2, <1>w, <3>1, SentType, RoleMsgType DEF Pair
      <3>3. pairPartner' \in [Conns -> ConnsOrNone]
        BY <2>2, <3>1 DEF Pair, TypeOK, ConnsOrNone
      <3>4. timers' \in Seq(Conns \X Conns)
        BY <2>2, <3>1 DEF Pair, TypeOK
      <3>5. requests' \in Nat
        BY <2>2 DEF Pair, Request, TypeOK
      <3>. QED
        BY <2>2, <3>2, <3>3, <3>4, <3>5 DEF Pair, TypeOK
    <2>. QED
      BY <1>3, <2>1, <2>2 DEF PairRequest
  <1>4. ASSUME NEW c \in Conns, ListPeers(c) PROVE TypeOK'
    <2>1. PeerListFor(c, clientsByIP, readyState) \in SUBSET Keys
      BY DEF PeerListFor
    <2>2. wire' \in [Conns -> Seq(Msg)]
      BY <1>4, <1>w, <2>1, SentType, PeersMsgType DEF ListPeers
    <2>. QED
      BY <1>4, <2>2 DEF ListPeers, Request, server, TypeOK
  <1>5. ASSUME NEW c \in Conns, NEW p \in Payloads \cup {"peer_left"}, Relay(c, p) PROVE TypeOK'
    <2>1. wire' \in [Conns -> Seq(Msg)]
      <3>1. CASE pairPartner[c] = None \/ p \notin Payloads
        BY <1>5, <3>1, <1>w DEF Relay
      <3>2. CASE ~(pairPartner[c] = None \/ p \notin Payloads)
        <4>1. pairPartner[c] \in Conns /\ p \in Payloads
          BY <3>2 DEF TypeOK, ConnsOrNone
        <4>. QED
          BY <1>5, <3>2, <4>1, <1>w, SentType, SignalMsgType DEF Relay
      <3>. QED
        BY <3>1, <3>2
    <2>. QED
      BY <1>5, <2>1 DEF Relay, Request, server, TypeOK
  <1>6. ASSUME NEW c \in Conns, BeginClose(c) PROVE TypeOK'
    BY <1>6 DEF BeginClose, TypeOK, NewClient, Client, KeysOrNone, ConnsOrNone
  <1>7. ASSUME NEW c \in Conns, Close(c) PROVE TypeOK'
    <2>1. PeerLeftNotice(wire, c) \in [Conns -> Seq(Msg)]
      BY <1>w, SentType, PeerLeftMsgType
         DEF PeerLeftNotice, ReleasesPartner, TypeOK, ConnsOrNone
    <2>2. wire' \in [Conns -> Seq(Msg)]
      BY <1>7, <2>1, BroadcastType DEF Close
    <2>3. clientsByIP' \in [Keys -> ConnsOrNone] /\ pairPartner' \in [Conns -> ConnsOrNone]
      BY <1>7 DEF Close, Unregistered, TypeOK, ConnsOrNone
    <2>. QED
      BY <1>7, <2>2, <2>3 DEF Close, TypeOK
  <1>8. ASSUME NEW c \in Conns, Deliver(c) PROVE TypeOK'
    <2>1. Head(wire[c]) \in Msg /\ Tail(wire[c]) \in Seq(Msg)
      BY <1>8, <1>w DEF Deliver
    <2>2. ReceiveSignal(client[c], Head(wire[c])) \in Client
      BY <2>1, ReceiveSignalType DEF TypeOK
    <2>. QED
      BY <1>8, <2>1, <2>2 DEF Deliver, server, TypeOK
  <1>9. CASE UNCHANGED vars
    BY <1>9 DEF vars, TypeOK
  <1>. QED
    BY <1>1, <1>2, <1>3, <1>4, <1>5, <1>6, <1>7, <1>8, <1>9 DEF Next

\* Every variable of the server keeps its type, whatever connects, asks, closes
\* or is delivered in whatever order.
THEOREM TypeCorrect == Spec => []TypeOK
  BY TypeInit, TypeStep, PTL DEF Spec

-----------------------------------------------------------------------------
(* The registry and the pairings.                                          *)

LEMMA InvInit == Init => RegistryConsistent /\ PairingSymmetric
  BY NoneAssumption DEF Init, RegistryConsistent, PairingSymmetric

\* A step that leaves sockets, addresses, partners and the Map as they are.
LEMMA InvUnchanged ==
    ASSUME IInv, UNCHANGED <<readyState, clientIP, pairPartner, clientsByIP>>
    PROVE  RegistryConsistent' /\ PairingSymmetric'
  BY DEF IInv, RegistryConsistent, PairingSymmetric, Attached

LEMMA InvStep == IInv /\ [Next]_vars => RegistryConsistent' /\ PairingSymmetric'
  <1>. SUFFICES ASSUME IInv, [Next]_vars PROVE RegistryConsistent' /\ PairingSymmetric'
    OBVIOUS
  <1>. USE NoneAssumption
  <1>1. CASE PeerJoinedTimer
    BY <1>1, InvUnchanged DEF PeerJoinedTimer
  <1>2. ASSUME NEW c \in Conns, NEW k \in Keys, Connect(c, k)
        PROVE  RegistryConsistent' /\ PairingSymmetric'
    <2>1. RegistryConsistent'
      BY <1>2 DEF Connect, IInv, TypeOK, RegistryConsistent, Attached, ConnsOrNone
    <2>2. PairingSymmetric'
      BY <1>2 DEF Connect, IInv, TypeOK, PairingSymmetric, Attached, ConnsOrNone
    <2>. QED
      BY <2>1, <2>2
  <1>3. ASSUME NEW c \in Conns, NEW t \in KeysOrNone, PairRequest(c, t)
        PROVE  RegistryConsistent' /\ PairingSymmetric'
    <2>1. CASE PairTargetNotFound(c, t) \/ PairBusy(c, t)
      BY <2>1, InvUnchanged DEF PairTargetNotFound, PairBusy, server
    <2>2. CASE Pair(c, t)
      <3>. DEFINE target == TargetOf(t)
      <3>1. target \in Conns /\ target # c /\ Attached(target) /\ Attached(c)
        BY <2>2 DEF Pair, TargetOf, Request, IInv, TypeOK, RegistryConsistent, Attached,
                    KeysOrNone, ConnsOrNone
      <3>2. RegistryConsistent'
        BY <2>2 DEF Pair, IInv, RegistryConsistent, Attached
      <3>3. pairPartner' = [pairPartner EXCEPT ![c] = target, ![target] = c]
        BY <2>2 DEF Pair
      <3>4. pairPartner[c] = None /\ pairPartner[target] = None /\ readyState' = readyState
        BY <2>2 DEF Pair, BothFree
      <3>. HIDE DEF target
      <3>5. PairingSymmetric'
        <4>. SUFFICES ASSUME NEW x \in Conns, pairPartner'[x] # None
                      PROVE  /\ pairPartner'[x] # x
                             /\ Attached(x)
                             /\ \/ /\ pairPartner'[pairPartner'[x]] = x
                                   /\ Attached(pairPartner'[x])
                                \/ /\ readyState[x] = "CLOSING"
                                   /\ readyState[pairPartner'[x]] = "CLOSED"
          BY <3>4 DEF PairingSymmetric, Attached
        <4>1. CASE x \in {c, target}
          BY <4>1, <3>1, <3>3 DEF IInv, TypeOK
        <4>2. CASE x \notin {c, target}
          <5>1. pairPartner'[x] = pairPartner[x] /\ pairPartner[x] \in Conns
            BY <4>2, <3>1, <3>3 DEF IInv, TypeOK, ConnsOrNone
          <5>2. pairPartner[x] \notin {c, target}
            BY <4>2, <5>1, <3>1, <3>4 DEF IInv, PairingSymmetric, Attached
          <5>3. pairPartner'[pairPartner[x]] = pairPartner[pairPartner[x]]
            BY <5>1, <5>2, <3>1, <3>3 DEF IInv, TypeOK
          <5>. QED
            BY <5>1, <5>3 DEF IInv, PairingSymmetric
        <4>. QED
          BY <4>1, <4>2
      <3>. QED
        BY <3>2, <3>5
    <2>. QED
      BY <1>3, <2>1, <2>2 DEF PairRequest
  <1>4. ASSUME NEW c \in Conns, ListPeers(c) PROVE RegistryConsistent' /\ PairingSymmetric'
    BY <1>4, InvUnchanged DEF ListPeers, server
  <1>5. ASSUME NEW c \in Conns, NEW p \in Payloads \cup {"peer_left"}, Relay(c, p)
        PROVE  RegistryConsistent' /\ PairingSymmetric'
    BY <1>5, InvUnchanged DEF Relay, server
  <1>6. ASSUME NEW c \in Conns, BeginClose(c) PROVE RegistryConsistent' /\ PairingSymmetric'
    <2>1. RegistryConsistent'
      BY <1>6 DEF BeginClose, IInv, TypeOK, RegistryConsistent, Attached, ConnsOrNone
    <2>2. PairingSymmetric'
      BY <1>6 DEF BeginClose, IInv, TypeOK, PairingSymmetric, Attached, ConnsOrNone
    <2>. QED
      BY <2>1, <2>2
  <1>7. ASSUME NEW c \in Conns, Close(c) PROVE RegistryConsistent' /\ PairingSymmetric'
    <2>1. RegistryConsistent'
      BY <1>7 DEF Close, Unregistered, IInv, TypeOK, RegistryConsistent, Attached, ConnsOrNone
    <2>2. PairingSymmetric'
      BY <1>7 DEF Close, ReleasesPartner, IInv, TypeOK, PairingSymmetric, Attached, ConnsOrNone
    <2>. QED
      BY <2>1, <2>2
  <1>8. ASSUME NEW c \in Conns, Deliver(c) PROVE RegistryConsistent' /\ PairingSymmetric'
    BY <1>8, InvUnchanged DEF Deliver, server
  <1>9. CASE UNCHANGED vars
    BY <1>9, InvUnchanged DEF vars
  <1>. QED
    BY <1>1, <1>2, <1>3, <1>4, <1>5, <1>6, <1>7, <1>8, <1>9 DEF Next

LEMMA InvariantHolds == Spec => []IInv
  <1>1. Init => IInv
    BY TypeInit, InvInit DEF IInv
  <1>2. IInv /\ [Next]_vars => IInv'
    BY TypeStep, InvStep DEF IInv
  <1>. QED
    BY <1>1, <1>2, PTL DEF Spec

\* The Map of clientsByIP never names a socket whose 'close' has run, nor one
\* under another's key, for any number of connections that reuse addresses.
THEOREM RegistrySound == Spec => []RegistryConsistent
  <1>1. IInv => RegistryConsistent
    BY DEF IInv
  <1>. QED
    BY <1>1, InvariantHolds, PTL

\* _pairPartner is symmetric between attached sockets, and an OPEN socket is
\* never left with a partner that is gone.
THEOREM PairingSound == Spec => []PairingSymmetric
  <1>1. IInv => PairingSymmetric
    BY DEF IInv
  <1>. QED
    BY <1>1, InvariantHolds, PTL

\* Only a client's own 'close' unregisters it: the guard of line 111, and every
\* entry of the Map being under its own socket's key, protect its successor.
THEOREM RegistrationPersists == Spec => RegistrationStable
  <1>1. IInv /\ [Next]_vars =>
            [\A k \in Keys : clientsByIP[k] # None /\ clientsByIP'[k] = None =>
                readyState'[clientsByIP[k]] = "CLOSED"]_vars
    <2>. SUFFICES ASSUME IInv, Next, NEW k \in Keys, clientsByIP[k] # None, clientsByIP'[k] = None
                  PROVE  readyState'[clientsByIP[k]] = "CLOSED"
      BY DEF vars
    <2>1. PICK c \in Conns : (\E q \in Keys : Connect(c, q)) \/ Close(c)
      BY DEF Next, PeerJoinedTimer, PairRequest, PairTargetNotFound, PairBusy, Pair, ListPeers,
             Relay, BeginClose, Deliver, server
    <2>2. ASSUME NEW q \in Keys, Connect(c, q) PROVE FALSE
      BY <2>2, NoneAssumption DEF Connect, IInv, TypeOK
    <2>3. CASE Close(c)
      BY <2>3 DEF Close, Unregistered, IInv, TypeOK
    <2>. QED
      BY <2>1, <2>2, <2>3
  <1>. QED
    BY <1>1, InvariantHolds, PTL DEF Spec, RegistrationStable

-----------------------------------------------------------------------------
(* The server implements Matchmaking.                                      *)

LEMMA PairsDef ==
    ASSUME NEW s
    PROVE  s \in Pairs <=> \E a \in Conns : /\ pairPartner[a] \in Conns
                                           /\ pairPartner[pairPartner[a]] = a
                                           /\ s = {a, pairPartner[a]}
  BY DEF Pairs

LEMMA PairsUnchanged ==
    ASSUME UNCHANGED <<readyState, pairPartner>>
    PROVE  UNCHANGED <<Online, Pairs>>
  BY DEF Online, Pairs, Attached

LEMMA ServiceInit == Init => Service!Init
  BY NoneAssumption DEF Init, Service!Init, Online, Pairs, Attached

\* A new connection joins.
LEMMA ConnectJoins ==
    ASSUME IInv, NEW c \in Conns, NEW k \in Keys, Connect(c, k)
    PROVE  Service!Join(c)
  <1>1. pairPartner[c] = None
    BY DEF Connect, IInv, TypeOK, PairingSymmetric, Attached
  <1>2. pairPartner' = pairPartner
    BY <1>1 DEF Connect, IInv, TypeOK
  <1>3. Pairs' = Pairs
    BY <1>2 DEF Pairs
  <1>4. c \notin Online /\ Online' = Online \cup {c}
    BY DEF Connect, IInv, TypeOK, Online, Attached
  <1>. QED
    BY <1>3, <1>4 DEF Service!Join

\* An accepted pair_request matches two idle connections, both attached.
LEMMA PairMatches ==
    ASSUME IInv, NEW c \in Conns, NEW t \in KeysOrNone, Pair(c, t)
    PROVE  Service!Match(c, TargetOf(t))
  <1>. USE NoneAssumption
  <1>. DEFINE target == TargetOf(t)
  <1>1. target \in Conns /\ target # c /\ Attached(target) /\ Attached(c)
    BY DEF Pair, TargetOf, Request, IInv, TypeOK, RegistryConsistent, Attached,
           KeysOrNone, ConnsOrNone
  <1>2. pairPartner' = [pairPartner EXCEPT ![c] = target, ![target] = c]
    BY DEF Pair
  <1>3. pairPartner[c] = None /\ pairPartner[target] = None /\ readyState' = readyState
    BY DEF Pair, BothFree
  <1>. HIDE DEF target
  <1>4. ASSUME NEW x \in {c, target}, NEW s \in Pairs PROVE x \notin s
    BY <1>1, <1>3, <1>4, PairsDef
  <1>5. ASSUME NEW x \in Conns, x \notin {c, target}, pairPartner[x] \in Conns
        PROVE  pairPartner[x] \notin {c, target}
    BY <1>1, <1>3, <1>5 DEF IInv, PairingSymmetric, Attached
  <1>6. /\ pairPartner'[c] = target /\ pairPartner'[target] = c
        /\ \A x \in Conns \ {c, target} : pairPartner'[x] = pairPartner[x]
    BY <1>1, <1>2 DEF IInv, TypeOK
  <1>7. Pairs' \subseteq Pairs \cup {{c, target}}
    <2>. SUFFICES ASSUME NEW s \in Pairs', s # {c, target} PROVE s \in Pairs
      OBVIOUS
    <2>1. PICK a \in Conns : /\ pairPartner'[a] \in Conns
                             /\ pairPartner'[pairPartner'[a]] = a
                             /\ s = {a, pairPartner'[a]}
      BY DEF Pairs
    <2>2. a \notin {c, target}
      BY <2>1, <1>6
    <2>3. pairPartner[a] = pairPartner'[a] /\ pairPartner[a] \notin {c, target}
      BY <2>1, <2>2, <1>5, <1>6
    <2>4. pairPartner[pairPartner[a]] = a
      BY <2>1, <2>3, <1>6
    <2>. QED
      BY <2>1, <2>3, <2>4, PairsDef
  <1>8. Pairs \cup {{c, target}} \subseteq Pairs'
    <2>1. {c, target} \in Pairs'
      BY <1>1, <1>6 DEF Pairs
    <2>2. ASSUME NEW s \in Pairs PROVE s \in Pairs'
      <3>1. PICK a \in Conns : /\ pairPartner[a] \in Conns
                               /\ pairPartner[pairPartner[a]] = a
                               /\ s = {a, pairPartner[a]}
        BY PairsDef
      <3>2. a \notin {c, target} /\ pairPartner[a] \notin {c, target}
        BY <3>1, <1>4
      <3>3. pairPartner'[a] = pairPartner[a] /\ pairPartner'[pairPartner[a]] = a
        BY <3>1, <3>2, <1>6
      <3>. QED
        BY <3>1, <3>3 DEF Pairs
    <2>. QED
      BY <2>1, <2>2
  <1>9. Online' = Online /\ c \in Online /\ target \in Online
    BY <1>1, <1>3 DEF Online, Attached
  <1>10. Service!Match(c, target)
    BY <1>1, <1>4, <1>7, <1>8, <1>9 DEF Service!Match, Service!Idle
  <1>. QED
    BY <1>10 DEF target

\* A 'close' event ends the pair of the connection that leaves, and no other.
LEMMA CloseLeaves ==
    ASSUME IInv, NEW c \in Conns, Close(c)
    PROVE  Service!Leave(c)
  <1>. USE NoneAssumption
  <1>1. /\ c \in Online
        /\ Online' = Online \ {c}
    BY DEF Close, IInv, TypeOK, Online, Attached
  <1>2. pairPartner'[c] = None
    BY DEF Close
  <1>3. ASSUME NEW x \in Conns, x # c, pairPartner[x] # c
        PROVE  pairPartner'[x] = pairPartner[x]
    BY <1>3 DEF Close, ReleasesPartner, IInv, PairingSymmetric
  <1>4. ASSUME NEW x \in Conns PROVE pairPartner'[x] \in {None, pairPartner[x]}
    BY DEF Close
  <1>5. ASSUME NEW s \in Pairs' PROVE s \in Pairs /\ c \notin s
    <2>1. PICK a \in Conns : /\ pairPartner'[a] \in Conns
                             /\ pairPartner'[pairPartner'[a]] = a
                             /\ s = {a, pairPartner'[a]}
      BY DEF Pairs
    <2>2. a # c /\ pairPartner'[a] # c
      BY <2>1, <1>2
    <2>3. pairPartner'[a] = pairPartner[a] /\ pairPartner[pairPartner[a]] = a
      BY <2>1, <1>4
    <2>. QED
      BY <2>1, <2>2, <2>3, PairsDef
  <1>6. ASSUME NEW s \in Pairs, c \notin s PROVE s \in Pairs'
    <2>1. PICK a \in Conns : /\ pairPartner[a] \in Conns
                             /\ pairPartner[pairPartner[a]] = a
                             /\ s = {a, pairPartner[a]}
      BY PairsDef
    <2>2. pairPartner'[a] = pairPartner[a] /\ pairPartner'[pairPartner[a]] = a
      BY <2>1, <1>3, <1>6
    <2>. QED
      BY <2>1, <2>2 DEF Pairs
  <1>7. Pairs' = {s \in Pairs : c \notin s}
    BY <1>5, <1>6
  <1>. QED
    BY <1>1, <1>7 DEF Service!Leave

LEMMA ServiceStep == IInv /\ [Next]_vars => [Service!Next]_<<Online, Pairs>>
  <1>. SUFFICES ASSUME IInv, [Next]_vars PROVE [Service!Next]_<<Online, Pairs>>
    OBVIOUS
  <1>1. CASE PeerJoinedTimer
    BY <1>1, PairsUnchanged DEF PeerJoinedTimer
  <1>2. ASSUME NEW c \in Conns, NEW k \in Keys, Connect(c, k) PROVE Service!Next
    BY <1>2, ConnectJoins DEF Service!Next
  <1>3. ASSUME NEW c \in Conns, NEW t \in KeysOrNone, PairRequest(c, t)
        PROVE  [Service!Next]_<<Online, Pairs>>
    <2>1. CASE PairTargetNotFound(c, t) \/ PairBusy(c, t)
      BY <2>1, PairsUnchanged DEF PairTargetNotFound, PairBusy, server
    <2>2. CASE Pair(c, t)
      <3>1. TargetOf(t) \in Conns
        BY <2>2, TargetType DEF Pair, IInv, ConnsOrNone
      <3>. QED
        BY <2>2, <3>1, PairMatches DEF Service!Next
    <2>. QED
      BY <1>3, <2>1, <2>2 DEF PairRequest
  <1>4. ASSUME NEW c \in Conns, ListPeers(c) PROVE UNCHANGED <<Online, Pairs>>
    BY <1>4, PairsUnchanged DEF ListPeers, server
  <1>5. ASSUME NEW c \in Conns, NEW p \in Payloads \cup {"peer_left"}, Relay(c, p) PROVE UNCHANGED <<Online, Pairs>>
    BY <1>5, PairsUnchanged DEF Relay, server
  <1>6. ASSUME NEW c \in Conns, BeginClose(c) PROVE UNCHANGED <<Online, Pairs>>
    BY <1>6 DEF BeginClose, IInv, TypeOK, Online, Pairs, Attached
  <1>7. ASSUME NEW c \in Conns, Close(c) PROVE Service!Next
    BY <1>7, CloseLeaves DEF Service!Next
  <1>8. ASSUME NEW c \in Conns, Deliver(c) PROVE UNCHANGED <<Online, Pairs>>
    BY <1>8, PairsUnchanged DEF Deliver, server
  <1>9. CASE UNCHANGED vars
    BY <1>9, PairsUnchanged DEF vars
  <1>. QED
    BY <1>1, <1>2, <1>3, <1>4, <1>5, <1>6, <1>7, <1>8, <1>9 DEF Next

\* signaling-server.js implements Matchmaking for any connections and keys: its
\* pairings are exclusive, between attached clients, and end with a member.
THEOREM ServerImplementsService == Spec => ImplementsService
  BY ServiceInit, ServiceStep, InvariantHolds, PTL
     DEF Spec, ImplementsService, Service!Spec, Service!vars
=============================================================================
