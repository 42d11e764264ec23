------------------------- MODULE NegotiationProofs -------------------------
(***************************************************************************)
(* Proofs about Negotiation, for any number of apps, calls, candidates and *)
(* offers.                                                                 *)
(*                                                                         *)
(* Every step of the composition is a step of the server or leaves its     *)
(* state alone, so what is proved of SignalingServer holds inside it: the  *)
(* instance W carries the proofs over.  What the negotiation adds is shown *)
(* by TInv, the types, and by PInv, which says of two partners that one of *)
(* them leads: it alone is told to offer, once, so that each has only one  *)
(* description to make, and what it receives is its partner's.  PInv is    *)
(* about the time before an app quits: afterwards a partner may be         *)
(* replaced while the peer connection still has the old one's description. *)
(***************************************************************************)
EXTENDS Negotiation, TLAPS

W == INSTANCE WireProofs WITH Payloads <- Sdp \cup Candidate

In(s) == {s[i] : i \in 1..Len(s)}
-----------------------------------------------------------------------------
(* The inductive invariants.                                               *)

Upward == Sdp \cup Candidate \cup [kind : {"pair_request"}, target : Keys]

UpOK == up \in [Conns -> Seq(Upward)]

IceOK ==
    /\ hasRemoteDescription \in [Conns -> BOOLEAN]
    /\ pendingCandidates \in [Conns -> Seq(Candidate)]
    /\ queueing \in [Conns -> Candidate \cup {None}]
    /\ iceCandidates \in [Conns -> SUBSET Candidate] /\ early \in [Conns -> SUBSET Candidate]

\* The operations, and the state of the peer connection they work on: an offer is
\* asked for after a channel was made, an answer when there is an offer.
OpsOK ==
    /\ ops \in [Conns -> Seq(Op)]
    /\ completion \in [Conns -> {"idle", "due", "flushed"}]
    /\ signalingState \in [Conns -> {"stable", "have-local-offer", "have-remote-offer"}]
    /\ localDescription \in [Conns -> Sdp \cup {None}]
    /\ remoteDescription \in [Conns -> Sdp \cup {None}]
    /\ \A c \in Conns :
        /\ \A o \in In(ops[c]) : o.op = "createOffer" => channels[c] > 0
        /\ signalingState[c] = "have-remote-offer" =>
             remoteDescription[c] # None /\ remoteDescription[c].kind = "offer"

ChannelsOK ==
    /\ dataChannel \in [Conns -> Channel \cup {None}]
    /\ channels \in [Conns -> 0..MaxOffers]
    /\ opened \subseteq Channel

UiOK ==
    /\ pendingPeerIP \in [Conns -> Keys \cup {None}]
    /\ autoSent \subseteq [by : Conns, to : Conns, pick : Keys]

CountersOK == gathered \in [Conns -> 0..MaxCandidates] /\ calls \in Nat /\ leaves \in 0..MaxLeaves

TInv == S!TypeOK /\ UpOK /\ IceOK /\ OpsOK /\ ChannelsOK /\ UiOK /\ CountersOK

\* The places of the timers that will announce a peer to c, and of the announcements
\* under way to it.
Armed(c) == {i \in 1..Len(timers) : timers[i][1] = c}
Announced(c) == {i \in 1..Len(wire[c]) : wire[c][i].type = "peer_joined"}

\* An app without a partner has not begun to negotiate.
Free(c) ==
    /\ \A m \in In(up[c]) : m.kind = "pair_request"
    /\ \A m \in In(wire[c]) : m.type \notin {"role", "peer_joined", "signal"}
    /\ ~client[c].isOfferer
    /\ Armed(c) = {} /\ channels[c] = 0
    /\ ops[c] = <<>> /\ completion[c] = "idle" /\ signalingState[c] = "stable"
    /\ localDescription[c] = None /\ remoteDescription[c] = None
    /\ ~hasRemoteDescription[c]
    /\ pendingCandidates[c] = <<>> /\ queueing[c] = None /\ early[c] = {}

TheOffer(a) == [kind |-> "offer", by |-> a, n |-> 1]
TheAnswer(b) == [kind |-> "answer", by |-> b, n |-> 1]

CandidateBy(x, m) == m.kind = "candidate" /\ m.by = x

\* The side of x in its session with y: d is the only description it makes, e the
\* only one it is sent, and every candidate it is sent is of y.
UpSide(x, d) ==
    \A m \in In(up[x]) : m.kind = "pair_request" \/ m = d \/ CandidateBy(x, m)

WireSide(x, y, e) ==
    \A m \in In(wire[x]) : m.type = "signal" => m.payload = e \/ CandidateBy(y, m.payload)

OpsSide(x, d, e) ==
    \A o \in In(ops[x]) :
        (o.op = "setLocal" => o.sdp = d) /\ (o.op = "setRemote" => o.sdp = e)

SdpSide(x, d, e) ==
    /\ localDescription[x] \in {None, d} /\ remoteDescription[x] \in {None, e}
    /\ signalingState[x] = "have-local-offer" => localDescription[x] # None
    /\ signalingState[x] = "stable" /\ remoteDescription[x] # None => localDescription[x] # None

IceSide(x, y) ==
    /\ hasRemoteDescription[x] \/ completion[x] # "idle" => remoteDescription[x] # None
    /\ \A m \in In(pendingCandidates[x]) : m.by = y
    /\ queueing[x] # None => queueing[x].by = y
    /\ early[x] = {}

Side(x, y, d, e) ==
    /\ pairPartner[x] = y
    /\ UpSide(x, d) /\ WireSide(x, y, e) /\ OpsSide(x, d, e) /\ SdpSide(x, d, e) /\ IceSide(x, y)

\* The leader is told once of its peer, and then makes its one channel.
Leader(a) ==
    /\ channels[a] <= 1
    /\ \A i, j \in Armed(a) : i = j
    /\ \A i, j \in Announced(a) : i = j
    /\ Armed(a) # {} => Announced(a) = {} /\ channels[a] = 0
    /\ Announced(a) # {} => channels[a] = 0

\* The other is never told to offer.
Follower(b) ==
    /\ \A m \in In(wire[b]) : m.type = "role" => m.role = "answerer"
    /\ ~client[b].isOfferer
    /\ \A o \in In(ops[b]) : o.op # "createOffer"

Lead(a, b) ==
    /\ Side(a, b, TheOffer(a), TheAnswer(b))
    /\ Side(b, a, TheAnswer(b), TheOffer(a))
    /\ Leader(a) /\ Follower(b)

\* Until an app quits.
PInv == leaves = 0 =>
    /\ \A c \in Conns : readyState[c] \in {"NEW", "OPEN"}
    /\ \A c \in Conns : pairPartner[c] = None => Free(c)
    /\ \A a, b \in Conns : pairPartner[a] = b => Lead(a, b) \/ Lead(b, a)
-----------------------------------------------------------------------------
(* The instance W of the server's proofs is about the server S inside the  *)
(* composition: the two have the same definitions.                         *)

\* The initial states, the types and the invariants are the same.
LEMMA SameStates ==
    /\ S!Init <=> W!Init
    /\ S!TypeOK <=> W!TypeOK
    /\ S!RegistryConsistent <=> W!RegistryConsistent
    /\ S!PairingSymmetric <=> W!PairingSymmetric
<1>1. S!Init <=> W!Init
  BY DEF S!Init, W!Init, S!NewClient, W!NewClient
<1>2. S!TypeOK <=> W!TypeOK
  BY DEF S!TypeOK, W!TypeOK, S!KeysOrNone, W!KeysOrNone, S!ConnsOrNone, W!ConnsOrNone, S!Msg,
         W!Msg, S!Client, W!Client
<1>3. S!RegistryConsistent <=> W!RegistryConsistent
  BY DEF S!RegistryConsistent, W!RegistryConsistent, S!Attached, W!Attached
<1>4. S!PairingSymmetric <=> W!PairingSymmetric
  BY DEF S!PairingSymmetric, W!PairingSymmetric, S!Attached, W!Attached
<1>. QED
  BY <1>1, <1>2, <1>3, <1>4

\* So is the timer of peer_joined.
LEMMA SameTimer == S!PeerJoinedTimer <=> W!PeerJoinedTimer
  BY DEF S!PeerJoinedTimer, W!PeerJoinedTimer, S!PeerJoinedMsg, W!PeerJoinedMsg, S!Sent, W!Sent

\* So are the handlers of the server.
LEMMA SameHandlers ==
    ASSUME NEW c \in Conns
    PROVE  /\ \A k : S!Connect(c, k) <=> W!Connect(c, k)
           /\ \A t : S!PairRequest(c, t) <=> W!PairRequest(c, t)
           /\ \A p : S!Relay(c, p) <=> W!Relay(c, p)
           /\ S!BeginClose(c) <=> W!BeginClose(c)
           /\ S!Close(c) <=> W!Close(c)
           /\ S!Deliver(c) <=> W!Deliver(c)
<1>b. \A w, map, rs : S!BroadcastPeerLists(w, map, rs) = W!BroadcastPeerLists(w, map, rs)
  BY DEF S!BroadcastPeerLists, W!BroadcastPeerLists, S!Registered, W!Registered, S!PeerListFor,
         W!PeerListFor, S!PeersMsg, W!PeersMsg
<1>s. \A w, x, m : S!Sent(w, x, m) = W!Sent(w, x, m)
  BY DEF S!Sent, W!Sent
<1>2. \A k : S!Connect(c, k) <=> W!Connect(c, k)
  BY <1>b DEF S!Connect, W!Connect
<1>r. S!Request(c) <=> W!Request(c)
  BY DEF S!Request, W!Request
<1>t. \A t : S!TargetOf(t) = W!TargetOf(t)
  BY DEF S!TargetOf, W!TargetOf
<1>f. \A x : S!BothFree(c, x) <=> W!BothFree(c, x)
  BY DEF S!BothFree, W!BothFree
<1>3. \A t : S!PairRequest(c, t) <=> W!PairRequest(c, t)
  <2>. TAKE t
  <2>1. S!PairTargetNotFound(c, t) <=> W!PairTargetNotFound(c, t)
    BY <1>r, <1>t, <1>s DEF S!PairTargetNotFound, W!PairTargetNotFound, S!ErrorMsg, W!ErrorMsg,
                            S!server, W!server
  <2>2. S!PairBusy(c, t) <=> W!PairBusy(c, t)
    BY <1>r, <1>t, <1>s, <1>f DEF S!PairBusy, W!PairBusy, S!ErrorMsg, W!ErrorMsg,
                            S!server, W!server
  <2>3. S!Pair(c, t) <=> W!Pair(c, t)
    BY <1>r, <1>t, <1>s, <1>f DEF S!Pair, W!Pair, S!OffererMsg, W!OffererMsg, S!AnswererMsg,
                            W!AnswererMsg
  <2>. QED
    BY <2>1, <2>2, <2>3 DEF S!PairRequest, W!PairRequest
<1>4. \A p : S!Relay(c, p) <=> W!Relay(c, p)
  BY <1>r, <1>s DEF S!Relay, W!Relay, S!SignalMsg, W!SignalMsg, S!server, W!server
<1>5. S!BeginClose(c) <=> W!BeginClose(c)
  BY DEF S!BeginClose, W!BeginClose, S!NewClient, W!NewClient
<1>6. S!Close(c) <=> W!Close(c)
  BY <1>b, <1>s DEF S!Close, W!Close, S!ReleasesPartner, W!ReleasesPartner, S!Unregistered,
                    W!Unregistered, S!PeerLeftNotice, W!PeerLeftNotice, S!PeerLeftMsg, W!PeerLeftMsg
<1>7. S!Deliver(c) <=> W!Deliver(c)
  BY DEF S!Deliver, W!Deliver, S!ReceiveSignal, W!ReceiveSignal, S!server, W!server
<1>. QED
  BY <1>2, <1>3, <1>4, <1>5, <1>6, <1>7

\* So are its steps.
LEMMA SameNext == [S!Next]_(S!vars) <=> [W!Next]_(W!vars)
<1>1. \A c \in Conns : S!ListPeers(c) <=> W!ListPeers(c)
  BY DEF S!ListPeers, W!ListPeers, S!Request, W!Request, S!PeersMsg, W!PeersMsg, S!PeerListFor,
         W!PeerListFor, S!Sent, W!Sent, S!server, W!server
<1>2. S!KeysOrNone = W!KeysOrNone
  BY DEF S!KeysOrNone, W!KeysOrNone
<1>3. S!Next <=> W!Next
  BY <1>1, <1>2, SameTimer, SameHandlers DEF S!Next, W!Next
<1>. QED
  BY <1>3 DEF S!vars, W!vars

\* A step of the composition is a step of the server, or leaves its state alone: what
\* the apps send are requests and payloads that the server knows.
LEMMA ServerStepInside == UpOK /\ [Next]_vars => [S!Next]_(S!vars)
<1>. SUFFICES ASSUME UpOK, [Next]_vars PROVE [S!Next]_(S!vars)
  OBVIOUS
<1>1. ASSUME NEW c \in Conns, NEW k \in Keys, Connect(c, k) PROVE S!Next
  BY <1>1 DEF Connect, S!Next
<1>2. ASSUME NEW c \in Conns, ServerHandles(c) PROVE S!Next
  <2>1. PICK m \in Upward : m = Head(up[c])
    BY <1>2 DEF ServerHandles, UpOK
  <2>2. CASE m.kind = "pair_request"
    <3>1. m.target \in Keys /\ S!PairRequest(c, m.target)
      BY <1>2, <2>1, <2>2 DEF ServerHandles, Upward, Sdp, Candidate
    <3>. QED
      BY <3>1 DEF S!Next, S!KeysOrNone
  <2>3. CASE m.kind # "pair_request"
    <3>1. m \in Sdp \cup Candidate /\ S!Relay(c, m)
      BY <1>2, <2>1, <2>3 DEF ServerHandles, Upward
    <3>. QED
      BY <3>1 DEF S!Next
  <2>. QED
    BY <2>2, <2>3
<1>3. PeerJoinedTimer => S!Next
  BY DEF PeerJoinedTimer, S!Next
<1>4. ASSUME NEW c \in Conns, Quit(c) \/ ServerCloses(c) PROVE S!Next
  BY <1>4 DEF Quit, ServerCloses, S!Next
<1>5. ASSUME NEW c \in Conns, SocketStep(c) PROVE S!Next \/ UNCHANGED sig
  BY <1>5 DEF SocketStep, ReceiveNotice, ReceivePeerJoined, ReceiveDescription,
     ReceiveCandidate, QueueCandidate, Receive, S!Next
<1>6. ASSUME NEW c \in Conns, RtcStep(c) \/ GenerateCandidate(c) \/ OnSend(c)
             \/ \E k \in Keys : OnSelectPeerIP(c, k)
      PROVE  UNCHANGED sig
  BY <1>6 DEF RtcStep, GenerateCandidate, OnSend, OnSelectPeerIP, ConnectToPeerIP, CreateOffer,
     CreateAnswer, SetLocalDescription, SetRemoteDescription, FlushPending, FlushEnd
<1>7. Opens \/ (\E ch \in Channel : ChannelLost(ch)) \/ UNCHANGED vars => UNCHANGED sig
  BY DEF Opens, DidOpenDataChannel, ChannelLost, vars
<1>8. S!Next \/ UNCHANGED sig
  BY <1>1, <1>2, <1>3, <1>4, <1>5, <1>6, <1>7 DEF Next, ServerStep
<1>. QED
  BY <1>8 DEF sig, S!vars
-----------------------------------------------------------------------------
(* The elements of a sequence.                                             *)

\* The elements of a sequence have its type; the head is one of them, the tail has no others.
LEMMA InSeq ==
    ASSUME NEW X, NEW s \in Seq(X)
    PROVE  /\ In(s) \subseteq X
           /\ s # <<>> => Head(s) \in In(s) /\ In(Tail(s)) \subseteq In(s)
<1>1. In(s) \subseteq X
  BY DEF In
<1>2. ASSUME s # <<>> PROVE Head(s) \in In(s) /\ In(Tail(s)) \subseteq In(s)
  <2>1. 1 \in 1..Len(s) /\ Head(s) = s[1]
    BY <1>2
  <2>2. \A i \in 1..Len(Tail(s)) : i + 1 \in 1..Len(s) /\ Tail(s)[i] = s[i + 1]
    BY <1>2
  <2>. QED
    BY <2>1, <2>2 DEF In
<1>. QED
  BY <1>1, <1>2

\* Append adds one element.
LEMMA InAppend ==
    ASSUME NEW X, NEW s \in Seq(X), NEW m
    PROVE  In(Append(s, m)) = In(s) \cup {m}
<1>1. Len(Append(s, m)) = Len(s) + 1 /\ Append(s, m)[Len(s) + 1] = m
  OBVIOUS
<1>2. \A i \in 1..Len(s) : Append(s, m)[i] = s[i]
  OBVIOUS
<1>3. \A i : i \in 1..(Len(s) + 1) <=> i \in 1..Len(s) \/ i = Len(s) + 1
  OBVIOUS
<1>. QED
  BY <1>1, <1>2, <1>3 DEF In

\* Concatenation adds the elements of the second sequence.
LEMMA InConcat ==
    ASSUME NEW X, NEW s \in Seq(X), NEW t \in Seq(X)
    PROVE  In(s \o t) \subseteq In(s) \cup In(t)
<1>. SUFFICES ASSUME NEW i \in 1..Len(s \o t) PROVE (s \o t)[i] \in In(s) \cup In(t)
  BY DEF In
<1>1. CASE i <= Len(s)
  BY <1>1 DEF In
<1>2. CASE i > Len(s)
  <2>1. i - Len(s) \in 1..Len(t) /\ (s \o t)[i] = t[i - Len(s)]
    BY <1>2
  <2>. QED
    BY <2>1 DEF In
<1>. QED
  BY <1>1, <1>2

\* The empty sequence has none.
LEMMA InEmpty == In(<<>>) = {}
  BY DEF In

\* A sequence of one has one.
LEMMA InOne == ASSUME NEW m PROVE In(<<m>>) = {m}
  BY DEF In
-----------------------------------------------------------------------------
(* Types.                                                                  *)

\* The server's invariant goes with every step of the composition.
LEMMA ServerKept ==
    UpOK /\ W!IInv /\ [Next]_vars => W!IInv'
<1>1. W!IInv /\ [W!Next]_(W!vars) => W!RegistryConsistent' /\ W!PairingSymmetric'
  BY NoneAssumption, BoundsAssumption, W!InvStep
<1>2. W!TypeOK /\ [W!Next]_(W!vars) => W!TypeOK'
  BY NoneAssumption, BoundsAssumption, W!TypeStep
<1>. QED
  BY <1>1, <1>2, ServerStepInside, SameNext DEF W!IInv

\* The types of S and W are the same after a step, too.
LEMMA SameTypes == (S!TypeOK)' <=> (W!TypeOK)'
  BY SameStates, PTL

\* What is in a client's wire, and what it says, is what the server may send.
LEMMA Received ==
    ASSUME S!TypeOK, NEW c \in Conns, wire[c] # <<>>
    PROVE  /\ Message(c) \in S!Msg
           /\ \A k : Signal(c, k) => Message(c).payload \in Sdp \cup Candidate
<1>1. Message(c) \in S!Msg
  BY DEF S!TypeOK, Message
<1>2. Message(c).type = "signal" => Message(c).payload \in Sdp \cup Candidate
  BY <1>1 DEF S!Msg
<1>. QED
  BY <1>1, <1>2 DEF Signal

\* What the apps send stays requests, descriptions and candidates.
LEMMA UpStep == TInv /\ [Next]_vars => UpOK'
<1>. SUFFICES ASSUME TInv, [Next]_vars PROVE UpOK'
  OBVIOUS
<1>t. up \in [Conns -> Seq(Upward)]
  BY DEF TInv, UpOK
<1>s. ASSUME NEW c \in Conns, NEW m \in Upward, SendSignaling(c, m) PROVE UpOK'
  BY <1>t, <1>s DEF SendSignaling, UpOK
<1>1. ASSUME NEW c \in Conns, ServerHandles(c) PROVE UpOK'
  BY <1>t, <1>1 DEF ServerHandles, UpOK
<1>2. ASSUME NEW c \in Conns, ServerCloses(c) PROVE UpOK'
  BY <1>t, <1>2 DEF ServerCloses, UpOK
<1>3. ASSUME NEW c \in Conns, NEW k \in Keys, ConnectToPeerIP(c, k) PROVE UpOK'
  <2>1. PairRequestMsg(k) \in Upward
    BY DEF PairRequestMsg, Upward
  <2>. QED
    BY <1>3, <1>s, <2>1 DEF ConnectToPeerIP
<1>4. ASSUME NEW c \in Conns, OnSend(c) PROVE UpOK'
  <2>1. pendingPeerIP[c] \in Keys
    BY <1>4 DEF OnSend, TInv, UiOK
  <2>. QED
    BY <1>3, <1>4, <2>1 DEF OnSend
<1>5. ASSUME NEW c \in Conns, SetLocalDescription(c) PROVE UpOK'
  <2>1. PICK o \in Op : o = Head(ops[c])
    BY <1>5 DEF SetLocalDescription, NextOp, TInv, OpsOK
  <2>2. o.sdp \in Upward
    BY <1>5, <2>1 DEF SetLocalDescription, NextOp, Op, Upward
  <2>. QED
    BY <1>5, <1>s, <1>t, <2>1, <2>2 DEF SetLocalDescription, UpOK
<1>6. ASSUME NEW c \in Conns, GenerateCandidate(c) PROVE UpOK'
  <2>1. gathered[c] + 1 \in Nr
    BY <1>6, BoundsAssumption DEF GenerateCandidate, TInv, CountersOK, Nr
  <2>2. [kind |-> "candidate", by |-> c, n |-> gathered[c] + 1] \in Upward
    BY <2>1 DEF Upward, Candidate
  <2>. QED
    BY <1>6, <1>s, <2>2 DEF GenerateCandidate
<1>7. ASSUME NEW c \in Conns,
             SocketStep(c) \/ (\E k \in Keys : Connect(c, k)) \/ Quit(c) \/ CreateOffer(c)
             \/ CreateAnswer(c) \/ SetRemoteDescription(c) \/ FlushPending(c) \/ FlushEnd(c)
      PROVE  UpOK'
  BY <1>7, <1>t DEF SocketStep, Connect, Quit, CreateOffer, CreateAnswer, SetRemoteDescription,
     FlushPending, FlushEnd, ReceiveNotice, ReceivePeerJoined, ReceiveDescription,
     ReceiveCandidate, QueueCandidate, UpOK
<1>8. PeerJoinedTimer \/ Opens \/ (\E ch \in Channel : ChannelLost(ch)) \/ UNCHANGED vars => UpOK'
  BY <1>t DEF PeerJoinedTimer, Opens, DidOpenDataChannel, ChannelLost, vars, UpOK
<1>. QED
  BY <1>1, <1>2, <1>3, <1>4, <1>5, <1>6, <1>7, <1>8 DEF Next, ServerStep, RtcStep, OnSelectPeerIP

\* Candidates are candidates, wherever they wait.
LEMMA IceStep == TInv /\ [Next]_vars => IceOK'
<1>. SUFFICES ASSUME TInv, [Next]_vars PROVE IceOK'
  OBVIOUS
<1>t. IceOK
  BY DEF TInv
<1>a. ASSUME NEW c \in Conns, NEW cands \in SUBSET Candidate, AddIceCandidates(c, cands)
      PROVE  /\ iceCandidates' \in [Conns -> SUBSET Candidate]
             /\ early' \in [Conns -> SUBSET Candidate]
  <2>1. {x \in cands : remoteDescription[c] = None \/ remoteDescription[c].by # x.by}
            \in SUBSET Candidate
    OBVIOUS
  <2>. QED
    BY <1>t, <1>a, <2>1 DEF IceOK, AddIceCandidates
<1>1. ASSUME NEW c \in Conns, ReceiveCandidate(c) PROVE IceOK'
  <2>1. wire[c] # <<>> /\ Signal(c, "candidate")
    BY <1>1 DEF ReceiveCandidate, Receive, S!Deliver
  <2>2. Message(c).payload \in Candidate
    BY <2>1, Received DEF TInv, Sdp, Signal
  <2>3. CASE MayAdd(c)
    <3>1. AddIceCandidates(c, {Message(c).payload})
      BY <1>1, <2>3 DEF ReceiveCandidate
    <3>2. UNCHANGED <<hasRemoteDescription, pendingCandidates, queueing>>
      BY <1>1, <2>3 DEF ReceiveCandidate
    <3>. QED
      BY <1>a, <1>t, <2>2, <3>1, <3>2 DEF IceOK
  <2>4. CASE ~MayAdd(c)
    BY <1>1, <1>t, <2>2, <2>4 DEF ReceiveCandidate, IceOK
  <2>. QED
    BY <2>3, <2>4
<1>2. ASSUME NEW c \in Conns, QueueCandidate(c) PROVE IceOK'
  <2>1. queueing[c] \in Candidate
    BY <1>2, <1>t DEF QueueCandidate, IceOK
  <2>2. pendingCandidates' \in [Conns -> Seq(Candidate)]
    BY <1>2, <1>t, <2>1 DEF QueueCandidate, IceOK
  <2>3. queueing' \in [Conns -> Candidate \cup {None}]
    BY <1>2, <1>t DEF QueueCandidate, IceOK
  <2>. QED
    BY <1>2, <1>t, <2>2, <2>3 DEF QueueCandidate, IceOK
<1>3. ASSUME NEW c \in Conns, FlushPending(c) PROVE IceOK'
  <2>1. {pendingCandidates[c][i] : i \in 1..Len(pendingCandidates[c])} \in SUBSET Candidate
    BY <1>t DEF IceOK
  <2>2. /\ iceCandidates' \in [Conns -> SUBSET Candidate]
        /\ early' \in [Conns -> SUBSET Candidate]
    BY <1>3, <1>a, <2>1 DEF FlushPending
  <2>. QED
    BY <1>3, <1>t, <2>2 DEF FlushPending, IceOK
<1>4. ASSUME NEW c \in Conns, FlushEnd(c) PROVE IceOK'
  BY <1>4, <1>t DEF FlushEnd, IceOK
<1>5. ASSUME NEW c \in Conns,
             ReceiveNotice(c) \/ ReceivePeerJoined(c) \/ ReceiveDescription(c)
             \/ (\E k \in Keys : Connect(c, k) \/ ConnectToPeerIP(c, k)) \/ OnSend(c)
             \/ Quit(c) \/ CreateOffer(c) \/ CreateAnswer(c) \/ SetLocalDescription(c)
             \/ SetRemoteDescription(c) \/ GenerateCandidate(c) \/ ServerHandles(c)
             \/ ServerCloses(c)
      PROVE  UNCHANGED ice
  BY <1>5 DEF ReceiveNotice, ReceivePeerJoined, ReceiveDescription, Connect, ConnectToPeerIP,
     OnSend, Quit, CreateOffer, CreateAnswer, SetLocalDescription, SetRemoteDescription,
     GenerateCandidate, ServerHandles, ServerCloses
<1>6. PeerJoinedTimer \/ Opens \/ (\E ch \in Channel : ChannelLost(ch)) \/ UNCHANGED vars
        => UNCHANGED ice
  BY DEF PeerJoinedTimer, Opens, DidOpenDataChannel, ChannelLost, vars
<1>7. UNCHANGED ice => IceOK'
  BY <1>t DEF ice, IceOK
<1>. QED
  BY <1>1, <1>2, <1>3, <1>4, <1>5, <1>6, <1>7
     DEF Next, ServerStep, SocketStep, RtcStep, OnSelectPeerIP

\* An operation that is taken from the front and replaced by others.
LEMMA ThenOps ==
    ASSUME OpsOK, NEW c \in Conns, NEW more \in Seq(Op), ops[c] # <<>>, Then(c, more)
    PROVE  /\ ops' \in [Conns -> Seq(Op)]
           /\ \A x \in Conns \ {c} : ops'[x] = ops[x]
           /\ In(ops'[c]) \subseteq In(ops[c]) \cup In(more)
           /\ Head(ops[c]) \in In(ops[c]) /\ Head(ops[c]) \in Op
<1>1. ops \in [Conns -> Seq(Op)] /\ Tail(ops[c]) \in Seq(Op) /\ Head(ops[c]) \in Op
  BY DEF OpsOK
<1>2. ops'[c] = Tail(ops[c]) \o more /\ Tail(ops[c]) \o more \in Seq(Op)
  BY <1>1 DEF Then
<1>3. In(ops'[c]) \subseteq In(Tail(ops[c])) \cup In(more)
  BY <1>1, <1>2, InConcat
<1>4. Head(ops[c]) \in In(ops[c]) /\ In(Tail(ops[c])) \subseteq In(ops[c])
  BY <1>1, InSeq
<1>. QED
  BY <1>1, <1>2, <1>3, <1>4 DEF Then

\* An operation that is asked for last.
LEMMA MoreOps ==
    ASSUME OpsOK, NEW c \in Conns, NEW more \in Seq(Op),
           ops' = [ops EXCEPT ![c] = @ \o more]
    PROVE  /\ ops' \in [Conns -> Seq(Op)]
           /\ \A x \in Conns \ {c} : ops'[x] = ops[x]
           /\ In(ops'[c]) \subseteq In(ops[c]) \cup In(more)
<1>1. ops \in [Conns -> Seq(Op)]
  BY DEF OpsOK
<1>2. ops'[c] = ops[c] \o more /\ ops[c] \o more \in Seq(Op)
  BY <1>1
<1>3. In(ops'[c]) \subseteq In(ops[c]) \cup In(more)
  BY <1>1, <1>2, InConcat
<1>. QED
  BY <1>1, <1>2, <1>3

\* An operation that is asked for after the ones that wait.
LEMMA AskOps ==
    ASSUME OpsOK, NEW c \in Conns, NEW o \in Op, ops' = [ops EXCEPT ![c] = Append(@, o)]
    PROVE  /\ ops' \in [Conns -> Seq(Op)]
           /\ \A x \in Conns \ {c} : ops'[x] = ops[x]
           /\ In(ops'[c]) = In(ops[c]) \cup {o}
<1>1. ops \in [Conns -> Seq(Op)]
  BY DEF OpsOK
<1>2. ops'[c] = Append(ops[c], o) /\ Append(ops[c], o) \in Seq(Op)
  BY <1>1
<1>3. In(ops'[c]) = In(ops[c]) \cup {o}
  BY <1>1, <1>2, InAppend
<1>. QED
  BY <1>1, <1>2, <1>3

\* The descriptions an app makes are numbered like its channels, or like the offer
\* they answer.
LEMMA MadeType ==
    ASSUME TInv, NEW c \in Conns
    PROVE  /\ channels[c] > 0 => SetLocal(c, "offer", channels[c]) \in Op
           /\ signalingState[c] = "have-remote-offer" =>
                SetLocal(c, "answer", remoteDescription[c].n) \in Op
<1>1. \A n \in Nr, kind \in {"offer", "answer"} : SetLocal(c, kind, n) \in Op
  BY DEF SetLocal, Op, Sdp
<1>2. channels[c] > 0 => channels[c] \in Nr
  BY BoundsAssumption DEF TInv, ChannelsOK, Nr
<1>3. signalingState[c] = "have-remote-offer" => remoteDescription[c].n \in Nr
  BY DEF TInv, OpsOK, Sdp
<1>. QED
  BY <1>1, <1>2, <1>3

\* Operations and descriptions: an offer is asked for after its channel was made, and
\* have-remote-offer means that there is an offer.
LEMMA OpsStep == TInv /\ [Next]_vars => OpsOK'
<1>. SUFFICES ASSUME TInv, [Next]_vars PROVE OpsOK'
  OBVIOUS
<1>t. OpsOK /\ channels \in [Conns -> Nat]
  BY BoundsAssumption DEF TInv, ChannelsOK
<1>k. \A k : [op |-> k].op = k
  OBVIOUS
<1>1. ASSUME NEW c \in Conns, ReceivePeerJoined(c) PROVE OpsOK'
  <2>1. CASE client[c].isOfferer
    <3>1. PICK o \in Op : o = [op |-> "createOffer"]
      BY DEF Op
    <3>2. /\ ops' \in [Conns -> Seq(Op)]
          /\ \A x \in Conns \ {c} : ops'[x] = ops[x]
          /\ In(ops'[c]) = In(ops[c]) \cup {o}
      BY <1>1, <1>t, <2>1, <3>1, AskOps DEF ReceivePeerJoined
    <3>3. channels'[c] > 0 /\ \A x \in Conns \ {c} : channels'[x] = channels[x]
      BY <1>1, <1>t, <2>1 DEF ReceivePeerJoined
    <3>. QED
      BY <1>1, <1>t, <3>2, <3>3 DEF ReceivePeerJoined, OpsOK, sdp
  <2>2. CASE ~client[c].isOfferer
    BY <1>1, <1>t, <2>2 DEF ReceivePeerJoined, OpsOK, sdp
  <2>. QED
    BY <2>1, <2>2
<1>2. ASSUME NEW c \in Conns, ReceiveDescription(c) PROVE OpsOK'
  <2>1. wire[c] # <<>> /\ (Signal(c, "offer") \/ Signal(c, "answer"))
    BY <1>2 DEF ReceiveDescription, Receive, S!Deliver
  <2>2. Message(c).payload \in Sdp
    BY <2>1, Received DEF TInv, Candidate, Signal
  <2>3. PICK o \in Op : o = [op |-> "setRemote", sdp |-> Message(c).payload]
    BY <2>2 DEF Op
  <2>4. /\ ops' \in [Conns -> Seq(Op)]
        /\ \A x \in Conns \ {c} : ops'[x] = ops[x]
        /\ In(ops'[c]) = In(ops[c]) \cup {o}
    BY <1>2, <1>t, <2>3, AskOps DEF ReceiveDescription
  <2>. QED
    BY <1>2, <1>t, <2>3, <2>4 DEF ReceiveDescription, OpsOK, sdp, dc
<1>3. ASSUME NEW c \in Conns, CreateOffer(c) \/ CreateAnswer(c) PROVE OpsOK'
  <2>1. PICK more \in Seq(Op) : Then(c, more) /\ \A o \in In(more) : o.op = "setLocal"
    <3>1. CASE CreateOffer(c)
      <4>1. Head(ops[c]) \in In(ops[c]) /\ Head(ops[c]).op = "createOffer"
        BY <1>t, <3>1, InSeq DEF CreateOffer, NextOp, OpsOK
      <4>2. channels[c] > 0
        BY <1>t, <4>1 DEF OpsOK
      <4>3. PICK o \in Op : o = SetLocal(c, "offer", channels[c])
        BY <4>2, MadeType
      <4>4. <<o>> \in Seq(Op) /\ In(<<o>>) = {o} /\ o.op = "setLocal"
        BY <4>3, InOne DEF SetLocal
      <4>. QED
        BY <3>1, <4>3, <4>4 DEF CreateOffer
    <3>2. CASE CreateAnswer(c) /\ signalingState[c] = "have-remote-offer"
      <4>3. PICK o \in Op : o = SetLocal(c, "answer", remoteDescription[c].n)
        BY <3>2, MadeType
      <4>4. <<o>> \in Seq(Op) /\ In(<<o>>) = {o} /\ o.op = "setLocal"
        BY <4>3, InOne DEF SetLocal
      <4>. QED
        BY <3>2, <4>3, <4>4 DEF CreateAnswer
    <3>3. CASE CreateAnswer(c) /\ signalingState[c] # "have-remote-offer"
      <4>1. <<>> \in Seq(Op) /\ In(<<>>) = {}
        BY InEmpty
      <4>. QED
        BY <3>3, <4>1 DEF CreateAnswer
    <3>. QED
      BY <1>3, <3>1, <3>2, <3>3
  <2>2. ops[c] # <<>> /\ UNCHANGED <<completion, sdp, channels>>
    BY <1>3 DEF CreateOffer, CreateAnswer, NextOp, dc
  <2>3. /\ ops' \in [Conns -> Seq(Op)]
        /\ \A x \in Conns \ {c} : ops'[x] = ops[x]
        /\ In(ops'[c]) \subseteq In(ops[c]) \cup In(more)
    BY <1>t, <2>1, <2>2, ThenOps
  <2>. QED
    BY <1>t, <2>1, <2>2, <2>3 DEF OpsOK, sdp
<1>4. ASSUME NEW c \in Conns, SetLocalDescription(c) \/ SetRemoteDescription(c) PROVE OpsOK'
  <2>1. ops[c] # <<>> /\ Then(c, <<>>) /\ Head(ops[c]).op \in {"setLocal", "setRemote"}
    BY <1>4 DEF SetLocalDescription, SetRemoteDescription, NextOp
  <2>2. /\ ops' \in [Conns -> Seq(Op)]
        /\ \A x \in Conns \ {c} : ops'[x] = ops[x]
        /\ In(ops'[c]) \subseteq In(ops[c]) \cup In(<<>>)
        /\ Head(ops[c]) \in Op
    <3>e. <<>> \in Seq(Op)
      OBVIOUS
    <3>1. PICK none \in Seq(Op) : none = <<>>
      BY <3>e
    <3>2. Then(c, none) /\ In(none) = In(<<>>)
      BY <2>1, <3>1
    <3>. QED
      BY <1>t, <2>1, <3>2, ThenOps
  <2>3. PICK d \in Sdp : d = Head(ops[c]).sdp
    BY <2>1, <2>2 DEF Op
  <2>4. /\ localDescription' \in [Conns -> Sdp \cup {None}]
        /\ remoteDescription' \in [Conns -> Sdp \cup {None}]
        /\ completion' \in [Conns -> {"idle", "due", "flushed"}]
    BY <1>4, <1>t, <2>3 DEF SetLocalDescription, SetRemoteDescription, OpsOK
  <2>5. signalingState' \in [Conns -> {"stable", "have-local-offer", "have-remote-offer"}]
    BY <1>4, <1>t, <2>3 DEF SetLocalDescription, SetRemoteDescription, OpsOK
  <2>6. ASSUME NEW x \in Conns, signalingState'[x] = "have-remote-offer"
        PROVE  remoteDescription'[x] # None /\ remoteDescription'[x].kind = "offer"
    <3>1. CASE SetLocalDescription(c)
      <4>1. signalingState[x] = "have-remote-offer" /\ remoteDescription' = remoteDescription
        BY <1>t, <2>3, <2>6, <3>1 DEF SetLocalDescription, OpsOK
      <4>. QED
        BY <1>t, <4>1 DEF OpsOK
    <3>2. CASE SetRemoteDescription(c)
      <4>1. CASE x = c /\ signalingState[c] \in RemoteAllowed(d.kind)
        <5>1. remoteDescription'[c] = d
          BY <1>t, <2>3, <3>2, <4>1 DEF SetRemoteDescription, OpsOK
        <5>2. d.kind = "offer"
          BY <1>t, <2>3, <2>6, <3>2, <4>1 DEF SetRemoteDescription, OpsOK
        <5>. QED
          BY <4>1, <5>1, <5>2, NoneAssumption
      <4>2. CASE x # c \/ signalingState[c] \notin RemoteAllowed(d.kind)
        <5>1. signalingState'[x] = signalingState[x] /\ remoteDescription'[x] = remoteDescription[x]
          BY <1>t, <2>3, <3>2, <4>2 DEF SetRemoteDescription, OpsOK
        <5>. QED
          BY <1>t, <2>6, <5>1 DEF OpsOK
      <4>. QED
        BY <4>1, <4>2
    <3>. QED
      BY <1>4, <3>1, <3>2
  <2>7. UNCHANGED channels
    BY <1>4 DEF SetLocalDescription, SetRemoteDescription, dc
  <2>. QED
    BY <1>t, <2>2, <2>4, <2>5, <2>6, <2>7, InEmpty DEF OpsOK
<1>5. ASSUME NEW c \in Conns, FlushEnd(c) PROVE OpsOK'
  <2>1. PICK more \in Seq(Op) : more = AsksForAnswer(c) /\ \A o \in In(more) : o.op = "createAnswer"
    <3>1. PICK o \in Op : o = [op |-> "createAnswer"]
      BY DEF Op
    <3>2. <<o>> \in Seq(Op) /\ In(<<o>>) = {o} /\ <<>> \in Seq(Op) /\ In(<<>>) = {}
      BY InOne, InEmpty
    <3>3. PICK yes \in Seq(Op) : yes = <<o>> /\ In(yes) = {o}
      BY <3>2
    <3>4. PICK none \in Seq(Op) : none = <<>> /\ In(none) = {}
      BY <3>2
    <3>5. AsksForAnswer(c) = yes \/ AsksForAnswer(c) = none
      BY <3>1, <3>3, <3>4 DEF AsksForAnswer
    <3>6. o.op = "createAnswer"
      BY <3>1
    <3>. QED
      BY <3>3, <3>4, <3>5, <3>6
  <2>2. /\ ops' \in [Conns -> Seq(Op)]
        /\ \A x \in Conns \ {c} : ops'[x] = ops[x]
        /\ In(ops'[c]) \subseteq In(ops[c]) \cup In(more)
    BY <1>5, <1>t, <2>1, MoreOps DEF FlushEnd
  <2>. QED
    BY <1>5, <1>t, <2>1, <2>2 DEF FlushEnd, OpsOK, sdp, dc
<1>6. ASSUME NEW c \in Conns, FlushPending(c) PROVE OpsOK'
  BY <1>6, <1>t DEF FlushPending, OpsOK, sdp, dc
<1>7. ASSUME NEW c \in Conns,
             ReceiveNotice(c) \/ ReceiveCandidate(c) \/ QueueCandidate(c)
             \/ (\E k \in Keys : Connect(c, k) \/ ConnectToPeerIP(c, k)) \/ OnSend(c)
             \/ Quit(c) \/ GenerateCandidate(c) \/ ServerHandles(c) \/ ServerCloses(c)
      PROVE  UNCHANGED <<ops, completion, sdp, channels>>
  BY <1>7 DEF ReceiveNotice, ReceiveCandidate, QueueCandidate, Connect, ConnectToPeerIP,
     OnSend, Quit, GenerateCandidate, ServerHandles, ServerCloses, dc
<1>8. PeerJoinedTimer \/ Opens \/ (\E ch \in Channel : ChannelLost(ch)) \/ UNCHANGED vars
        => UNCHANGED <<ops, completion, sdp, channels>>
  BY DEF PeerJoinedTimer, Opens, DidOpenDataChannel, ChannelLost, vars, dc
<1>9. UNCHANGED <<ops, completion, sdp, channels>> => OpsOK'
  BY <1>t DEF sdp, OpsOK
<1>. QED
  BY <1>1, <1>2, <1>3, <1>4, <1>5, <1>6, <1>7, <1>8, <1>9
     DEF Next, ServerStep, SocketStep, RtcStep, OnSelectPeerIP

\* No app makes more channels than MaxOffers, and each is numbered.
LEMMA ChannelsStep == TInv /\ [Next]_vars => ChannelsOK'
<1>. SUFFICES ASSUME TInv, [Next]_vars PROVE ChannelsOK'
  OBVIOUS
<1>t. ChannelsOK /\ MaxOffers \in Nat /\ MaxCandidates \in Nat
  BY BoundsAssumption DEF TInv
<1>1. ASSUME NEW c \in Conns, ReceivePeerJoined(c) PROVE ChannelsOK'
  <2>1. CASE client[c].isOfferer
    <3>1. channels[c] + 1 \in 0..MaxOffers /\ channels[c] + 1 \in Nr
      BY <1>1, <1>t, <2>1 DEF ReceivePeerJoined, ChannelsOK, Nr
    <3>2. [by |-> c, n |-> channels[c] + 1] \in Channel
      BY <3>1 DEF Channel
    <3>. QED
      BY <1>1, <1>t, <2>1, <3>1, <3>2 DEF ReceivePeerJoined, ChannelsOK
  <2>2. CASE ~client[c].isOfferer
    BY <1>1, <1>t, <2>2 DEF ReceivePeerJoined, ChannelsOK
  <2>. QED
    BY <2>1, <2>2
<1>2. ASSUME NEW a \in Conns, NEW b \in Conns, NEW ch \in Channel, DidOpenDataChannel(a, b, ch)
      PROVE  ChannelsOK'
  <2>1. dataChannel' \in [Conns -> Channel \cup {None}]
    BY <1>2, <1>t DEF DidOpenDataChannel, TakesChannel, ChannelsOK
  <2>2. opened' \subseteq Channel /\ UNCHANGED channels
    BY <1>2, <1>t DEF DidOpenDataChannel, ChannelsOK
  <2>. QED
    BY <1>t, <2>1, <2>2 DEF ChannelsOK
<1>3. ASSUME NEW ch \in Channel, ChannelLost(ch) PROVE ChannelsOK'
  BY <1>3, <1>t DEF ChannelLost, ChannelsOK
<1>4. ASSUME NEW c \in Conns,
             ReceiveNotice(c) \/ ReceiveDescription(c) \/ ReceiveCandidate(c) \/ QueueCandidate(c)
             \/ RtcStep(c) \/ (\E k \in Keys : Connect(c, k) \/ ConnectToPeerIP(c, k)) \/ OnSend(c)
             \/ Quit(c) \/ GenerateCandidate(c) \/ ServerHandles(c) \/ ServerCloses(c)
      PROVE  UNCHANGED dc
  BY <1>4 DEF ReceiveNotice, ReceiveDescription, ReceiveCandidate, QueueCandidate, RtcStep,
     CreateOffer, CreateAnswer, SetLocalDescription, SetRemoteDescription, FlushPending, FlushEnd,
     Connect, ConnectToPeerIP, OnSend, Quit, GenerateCandidate, ServerHandles, ServerCloses
<1>5. PeerJoinedTimer \/ UNCHANGED vars => UNCHANGED dc
  BY DEF PeerJoinedTimer, vars
<1>6. UNCHANGED dc => ChannelsOK'
  BY <1>t DEF dc, ChannelsOK
<1>. QED
  BY <1>1, <1>2, <1>3, <1>4, <1>5, <1>6
     DEF Next, ServerStep, SocketStep, OnSelectPeerIP, Opens

\* The peer picked is an address, and a send is made by and to connections.
LEMMA UiStep == TInv /\ [Next]_vars => UiOK'
<1>. SUFFICES ASSUME TInv, [Next]_vars PROVE UiOK'
  OBVIOUS
<1>t. UiOK
  BY DEF TInv
<1>1. ASSUME NEW c \in Conns, NEW k \in Keys, ConnectToPeerIP(c, k) PROVE UiOK'
  BY <1>1, <1>t DEF ConnectToPeerIP, UiOK
<1>2. ASSUME NEW c \in Conns, OnSend(c) PROVE UiOK'
  <2>1. pendingPeerIP[c] \in Keys
    BY <1>2, <1>t DEF OnSend, UiOK
  <2>. QED
    BY <1>1, <1>2, <2>1 DEF OnSend
<1>3. ASSUME NEW a \in Conns, NEW b \in Conns, NEW ch \in Channel, DidOpenDataChannel(a, b, ch)
      PROVE  UiOK'
  <2>. DEFINE told == {c \in {a, b} : pendingPeerIP[c] # None /\ dataChannel'[c] = ch}
              New(c) == [by |-> c, to |-> IF c = a THEN b ELSE a, pick |-> pendingPeerIP[c]]
  <2>1. \A c \in told : c \in Conns /\ pendingPeerIP[c] \in Keys
    BY <1>t DEF UiOK
  <2>2. \A c \in told : New(c) \in [by : Conns, to : Conns, pick : Keys]
    BY <2>1
  <2>3. autoSent' = autoSent \cup {New(c) : c \in told}
    BY <1>3 DEF DidOpenDataChannel
  <2>4. pendingPeerIP' = [c \in Conns |-> IF c \in told THEN None ELSE pendingPeerIP[c]]
    BY <1>3 DEF DidOpenDataChannel
  <2>. HIDE DEF told, New
  <2>5. autoSent' \subseteq [by : Conns, to : Conns, pick : Keys]
    BY <1>t, <2>2, <2>3 DEF UiOK
  <2>. QED
    BY <1>t, <2>4, <2>5 DEF UiOK
<1>4. ASSUME NEW c \in Conns,
             SocketStep(c) \/ RtcStep(c) \/ (\E k \in Keys : Connect(c, k))
             \/ Quit(c) \/ GenerateCandidate(c) \/ ServerHandles(c) \/ ServerCloses(c)
      PROVE  UNCHANGED ui
  BY <1>4 DEF SocketStep, ReceiveNotice, ReceivePeerJoined, ReceiveDescription, ReceiveCandidate,
     QueueCandidate, RtcStep, CreateOffer, CreateAnswer, SetLocalDescription,
     SetRemoteDescription, FlushPending, FlushEnd, Connect, Quit, GenerateCandidate,
     ServerHandles, ServerCloses
<1>5. PeerJoinedTimer \/ (\E ch \in Channel : ChannelLost(ch)) \/ UNCHANGED vars => UNCHANGED ui
  BY DEF PeerJoinedTimer, ChannelLost, vars
<1>6. UNCHANGED ui => UiOK'
  BY <1>t DEF ui, UiOK
<1>. QED
  BY <1>1, <1>2, <1>3, <1>4, <1>5, <1>6 DEF Next, ServerStep, OnSelectPeerIP, Opens

\* The bounds hold.
LEMMA CountersStep == TInv /\ [Next]_vars => CountersOK'
<1>. SUFFICES ASSUME TInv, [Next]_vars PROVE CountersOK'
  OBVIOUS
<1>t. CountersOK /\ MaxCandidates \in Nat /\ MaxLeaves \in Nat
  BY BoundsAssumption DEF TInv
<1>1. ASSUME NEW c \in Conns, GenerateCandidate(c) PROVE CountersOK'
  BY <1>1, <1>t DEF GenerateCandidate, CountersOK, ui
<1>2. ASSUME NEW c \in Conns, Quit(c) PROVE CountersOK'
  BY <1>2, <1>t DEF Quit, CountersOK, ui
<1>3. ASSUME NEW c \in Conns, OnSend(c) \/ \E k \in Keys : ConnectToPeerIP(c, k) PROVE CountersOK'
  BY <1>3, <1>t DEF OnSend, ConnectToPeerIP, CountersOK
<1>4. ASSUME NEW c \in Conns,
             SocketStep(c) \/ RtcStep(c) \/ (\E k \in Keys : Connect(c, k))
             \/ ServerHandles(c) \/ ServerCloses(c)
      PROVE  UNCHANGED <<gathered, calls, leaves>>
  BY <1>4 DEF SocketStep, ReceiveNotice, ReceivePeerJoined, ReceiveDescription, ReceiveCandidate,
     QueueCandidate, RtcStep, CreateOffer, CreateAnswer, SetLocalDescription,
     SetRemoteDescription, FlushPending, FlushEnd, Connect, ServerHandles, ServerCloses, ui
<1>5. PeerJoinedTimer \/ Opens \/ (\E ch \in Channel : ChannelLost(ch)) \/ UNCHANGED vars
        => UNCHANGED <<gathered, calls, leaves>>
  BY DEF PeerJoinedTimer, Opens, DidOpenDataChannel, ChannelLost, vars, ui
<1>6. UNCHANGED <<gathered, calls, leaves>> => CountersOK'
  BY <1>t DEF CountersOK
<1>. QED
  BY <1>1, <1>2, <1>3, <1>4, <1>5, <1>6 DEF Next, ServerStep, OnSelectPeerIP

\* The types, and the server's invariant, hold at the start.
LEMMA TypesInit == Init => TInv /\ W!IInv
<1>. SUFFICES ASSUME Init PROVE TInv /\ W!IInv
  OBVIOUS
<1>1. W!TypeOK /\ W!RegistryConsistent /\ W!PairingSymmetric
  BY NoneAssumption, BoundsAssumption, SameStates, W!TypeInit, W!InvInit DEF Init
<1>2. S!TypeOK
  BY <1>1, SameStates
<1>3. UpOK /\ IceOK /\ UiOK
  BY DEF Init, UpOK, IceOK, UiOK
<1>4. OpsOK
  BY InEmpty DEF Init, OpsOK
<1>5. ChannelsOK /\ CountersOK
  BY BoundsAssumption DEF Init, ChannelsOK, CountersOK
<1>. QED
  BY <1>1, <1>2, <1>3, <1>4, <1>5 DEF TInv, W!IInv

\* They are inductive together.
LEMMA TypesStep == TInv /\ W!IInv /\ [Next]_vars => TInv' /\ W!IInv'
<1>1. TInv /\ W!IInv /\ [Next]_vars => W!IInv' /\ (S!TypeOK)'
  BY ServerKept, SameTypes DEF TInv, W!IInv
<1>. QED
  BY <1>1, UpStep, IceStep, OpsStep, ChannelsStep, UiStep, CountersStep DEF TInv

\* The types are right in every state, and with them the invariants of the server.
LEMMA TypesHold == Spec => [](TInv /\ W!IInv)
  BY TypesInit, TypesStep, PTL DEF Spec

\* Every field of the negotiation keeps its type, whatever the order of the socket's
\* messages, the completion handlers, the quits and the lost channels: an answer is only
\* made when there is an offer to answer, and no description is numbered beyond the
\* channels that were made.
THEOREM NegotiationTypes == Spec => []TypeOK
<1>1. TInv => TypeOK
  <2>. SUFFICES ASSUME TInv PROVE TypeOK
    OBVIOUS
  <2>1. S!TypeOK /\ UpOK /\ IceOK /\ OpsOK /\ ChannelsOK /\ UiOK /\ CountersOK
    BY DEF TInv
  <2>2. channels \in [Conns -> Nat] /\ gathered \in [Conns -> Nat] /\ leaves \in Nat
    BY <2>1, BoundsAssumption DEF ChannelsOK, CountersOK
  <2>3. up \in [Conns -> Seq(Sdp \cup Candidate \cup [kind : {"pair_request"}, target : Keys])]
    BY <2>1 DEF UpOK, Upward
  <2>. QED
    BY <2>1, <2>2, <2>3, Zenon DEF IceOK, OpsOK, ChannelsOK, UiOK, CountersOK, TypeOK
<1>. QED
  BY <1>1, TypesHold, PTL

\* The composition implements the server: what the apps put on their sockets, and when
\* they read, connect and quit, is what SignalingServer allows any client.
THEOREM NegotiationUsesServer == Spec => S!Spec
<1>1. Init => S!Init
  BY DEF Init
<1>2. TInv /\ [Next]_vars => [S!Next]_(S!vars)
  BY ServerStepInside DEF TInv
<1>. QED
  BY <1>1, <1>2, TypesHold, PTL DEF Spec, S!Spec

\* So what is proved of the server holds while apps negotiate over it: partners agree on
\* the session, a description or a candidate reaches its receiver inside the session
\* with its sender, and of two partners one is told to offer.
THEOREM SessionsInside ==
    Spec => [](S!PairingSymmetric /\ S!SessionAgreement /\ S!NoCrossTalk /\ S!RolesComplementary)
<1>1. W!Spec => []W!PairingSymmetric
  BY NoneAssumption, BoundsAssumption, W!PairingSound
<1>2. W!Spec => []W!SessionAgreement
  BY NoneAssumption, BoundsAssumption, W!SessionsAgree
<1>3. W!Spec => []W!NoCrossTalk
  BY NoneAssumption, BoundsAssumption, W!NothingCrosses
<1>4. W!Spec => []W!RolesComplementary
  BY NoneAssumption, BoundsAssumption, W!RolesDiffer
<1>5. S!Spec => W!Spec
  BY SameStates, SameNext, PTL DEF S!Spec, W!Spec
<1>6. W!PairingSymmetric => S!PairingSymmetric
  BY SameStates
<1>7. W!SessionAgreement => S!SessionAgreement
  BY DEF W!SessionAgreement, S!SessionAgreement, W!SessionAfter, S!SessionAfter
<1>8. W!NoCrossTalk => S!NoCrossTalk
  BY DEF W!NoCrossTalk, S!NoCrossTalk, W!SessionAfter, S!SessionAfter
<1>9. W!RolesComplementary => S!RolesComplementary
  BY DEF W!RolesComplementary, S!RolesComplementary, W!FinalRole, S!FinalRole
<1>. QED
  BY <1>1, <1>2, <1>3, <1>4, <1>5, <1>6, <1>7, <1>8, <1>9, NegotiationUsesServer, PTL
-----------------------------------------------------------------------------
(* Until an app quits: what may happen to the wire of an app, to its       *)
(* pairing and to the timers.                                              *)

Calm == TInv /\ W!IInv /\ leaves = 0 /\ \A c \in Conns : readyState[c] \in {"NEW", "OPEN"}

\* Why the message m is sent to x.
Reason(x, m) ==
    \/ m.type \in {"peers", "error"}
    \/ m.type = "role" /\ pairPartner[x] = None /\ pairPartner'[x] # None
    \/ m.type = "peer_joined" /\ timers # <<>> /\ x = Head(timers)[1] /\ timers' = Tail(timers)
    \/ /\ m.type = "signal"
       /\ \E z \in Conns : /\ pairPartner[z] = x /\ up[z] # <<>>
                            /\ m.payload = Head(up[z]) /\ m.payload.kind # "pair_request"

WireEvent(x) ==
    \/ wire'[x] = wire[x]
    \/ wire[x] # <<>> /\ wire'[x] = Tail(wire[x])
    \/ \E m \in S!Msg : wire'[x] = Append(wire[x], m) /\ Reason(x, m)

\* ws.send appends to one wire at most.
LEMMA SentEvent ==
    ASSUME NEW w \in [Conns -> Seq(S!Msg)], NEW c \in Conns, NEW m \in S!Msg, NEW x \in Conns
    PROVE  \/ S!Sent(w, c, m)[x] = w[x]
           \/ x = c /\ S!Sent(w, c, m)[x] = Append(w[x], m)
  BY DEF S!Sent

\* The messages of the server, and the broadcasts, have the types of messages.
LEMMA MessagesTyped ==
    ASSUME S!TypeOK, NEW c \in Conns, NEW t \in Conns
    PROVE  /\ \A r \in {"target_not_found", "busy"} : S!ErrorMsg(r) \in S!Msg
           /\ S!OffererMsg(c, t) \in S!Msg /\ S!AnswererMsg(t, c) \in S!Msg
           /\ S!PeerJoinedMsg(clientIP[c]) \in S!Msg
           /\ \A p \in Sdp \cup Candidate : S!SignalMsg(c, p) \in S!Msg
<1>1. \A r \in {"target_not_found", "busy"} : S!ErrorMsg(r) \in S!Msg
  BY DEF S!ErrorMsg, S!Msg
<1>2. clientIP[c] \in S!KeysOrNone /\ clientIP[t] \in S!KeysOrNone /\ None \in S!KeysOrNone
  BY DEF S!TypeOK, S!KeysOrNone
<1>3. /\ S!OffererMsg(c, t) \in [type : {"role"}, role : {"offerer", "answerer"},
                selfIP : S!KeysOrNone, peerIP : S!KeysOrNone, with : Conns]
      /\ S!AnswererMsg(t, c) \in [type : {"role"}, role : {"offerer", "answerer"},
                selfIP : S!KeysOrNone, peerIP : S!KeysOrNone, with : Conns]
  BY <1>2 DEF S!OffererMsg, S!AnswererMsg
<1>4. S!PeerJoinedMsg(clientIP[c]) \in [type : {"peer_joined"}, peerIP : S!KeysOrNone]
  BY <1>2 DEF S!PeerJoinedMsg
<1>5. \A p \in Sdp \cup Candidate :
        S!SignalMsg(c, p) \in [type : {"signal"}, payload : Sdp \cup Candidate, from : Conns]
  BY DEF S!SignalMsg
<1>. QED
  BY <1>1, <1>3, <1>4, <1>5 DEF S!Msg

\* Until an app quits, the wire of an app changes by at most one message, which is read
\* from its front or sent for one of the reasons.
LEMMA WireEvents ==
    ASSUME Calm, [Next]_vars, leaves' = 0, NEW x \in Conns
    PROVE  WireEvent(x)
<1>t. S!TypeOK /\ wire \in [Conns -> Seq(S!Msg)] /\ wire[x] \in Seq(S!Msg)
  BY DEF Calm, TInv, S!TypeOK
<1>s. ASSUME NEW c \in Conns, NEW m \in S!Msg, wire' = S!Sent(wire, c, m) \/ wire' = wire,
             Reason(c, m)
      PROVE  WireEvent(x)
  BY <1>s, <1>t, SentEvent DEF WireEvent
<1>1. ASSUME NEW c \in Conns, NEW k \in Keys, Connect(c, k) PROVE WireEvent(x)
  <2>1. wire' = S!BroadcastPeerLists(wire, clientsByIP', readyState')
    BY <1>1 DEF Connect, S!Connect
  <2>0. S!PeerListFor(x, clientsByIP', readyState') \in SUBSET Keys
    BY DEF S!PeerListFor
  <2>p. \A ks \in SUBSET Keys : S!PeersMsg(ks) \in S!Msg /\ S!PeersMsg(ks).type = "peers"
    BY DEF S!PeersMsg, S!Msg
  <2>2. PICK m \in S!Msg : m = S!PeersMsg(S!PeerListFor(x, clientsByIP', readyState'))
                            /\ m.type = "peers"
    BY <2>0, <2>p
  <2>. QED
    BY <1>t, <2>1, <2>2 DEF S!BroadcastPeerLists, WireEvent, Reason
<1>2. ASSUME NEW c \in Conns, ServerHandles(c) PROVE WireEvent(x)
  <2>1. PICK h \in Upward : h = Head(up[c]) /\ up[c] # <<>>
    BY <1>2 DEF ServerHandles, Calm, TInv, UpOK
  <2>2. CASE h.kind # "pair_request"
    <3>1. h \in Sdp \cup Candidate /\ S!Relay(c, h)
      BY <1>2, <2>1, <2>2 DEF ServerHandles, Upward
    <3>2. CASE pairPartner[c] = None
      BY <1>t, <3>1, <3>2 DEF S!Relay, WireEvent
    <3>3. CASE pairPartner[c] # None
      <4>1. PICK y \in Conns : y = pairPartner[c]
        BY <1>t, <3>3 DEF S!TypeOK, S!ConnsOrNone
      <4>2. PICK m \in S!Msg : m = S!SignalMsg(c, h)
        BY <1>t, <3>1, MessagesTyped
      <4>3. wire' = S!Sent(wire, y, m)
        BY <3>1, <3>3, <4>1, <4>2 DEF S!Relay
      <4>4. Reason(y, m)
        BY <2>1, <2>2, <4>1, <4>2 DEF Reason, S!SignalMsg
      <4>. QED
        BY <1>s, <4>3, <4>4
    <3>. QED
      BY <3>2, <3>3
  <2>3. CASE h.kind = "pair_request"
    <3>1. PICK t \in Keys : S!PairRequest(c, t)
      BY <1>2, <2>1, <2>3 DEF ServerHandles, Upward, Sdp, Candidate
    <3>2. CASE S!PairTargetNotFound(c, t) \/ S!PairBusy(c, t)
      <4>1. PICK r \in {"target_not_found", "busy"} : wire' = S!Sent(wire, c, S!ErrorMsg(r))
        BY <3>2 DEF S!PairTargetNotFound, S!PairBusy
      <4>2. PICK m \in S!Msg : m = S!ErrorMsg(r)
        BY <1>t, MessagesTyped
      <4>3. Reason(c, m)
        BY <4>2 DEF Reason, S!ErrorMsg
      <4>. QED
        BY <1>s, <4>1, <4>2, <4>3
    <3>3. CASE S!Pair(c, t)
      <4>1. PICK y \in Conns : y = S!TargetOf(t) /\ y # c
        BY <1>t, <3>3, NoneAssumption DEF S!Pair, S!TypeOK, S!ConnsOrNone, S!TargetOf
      <4>2. PICK m \in S!Msg : m = S!OffererMsg(c, y) /\ m.type = "role"
        BY <1>t, MessagesTyped DEF S!OffererMsg
      <4>3. PICK n \in S!Msg : n = S!AnswererMsg(y, c) /\ n.type = "role"
        BY <1>t, MessagesTyped DEF S!AnswererMsg
      <4>4. wire' = S!Sent(S!Sent(wire, c, m), y, n)
        BY <3>3, <4>1, <4>2, <4>3 DEF S!Pair
      <4>5. /\ pairPartner[c] = None /\ pairPartner[y] = None
            /\ pairPartner'[c] = y /\ pairPartner'[y] = c
        BY <1>t, <3>3, <4>1 DEF S!Pair, S!BothFree, S!TypeOK
      <4>6. wire'[x] = wire[x] \/ (x = c /\ wire'[x] = Append(wire[x], m))
                              \/ (x = y /\ wire'[x] = Append(wire[x], n))
        <5>0. S!Sent(wire, c, m) \in [Conns -> Seq(S!Msg)]
          BY <1>t DEF S!Sent
        <5>1. PICK w \in [Conns -> Seq(S!Msg)] : w = S!Sent(wire, c, m)
          BY <5>0
        <5>2. w[x] = wire[x] \/ (x = c /\ w[x] = Append(wire[x], m))
          BY <1>t, <5>1 DEF S!Sent
        <5>3. wire'[x] = w[x] \/ (x = y /\ wire'[x] = Append(w[x], n))
          BY <4>4, <5>1, SentEvent
        <5>. QED
          BY <4>1, <5>2, <5>3
      <4>7. Reason(c, m) /\ Reason(y, n)
        BY <4>2, <4>3, <4>5, NoneAssumption DEF Reason
      <4>. QED
        BY <4>6, <4>7 DEF WireEvent
    <3>. QED
      BY <3>1, <3>2, <3>3 DEF S!PairRequest
  <2>. QED
    BY <2>2, <2>3
<1>3. CASE PeerJoinedTimer
  <2>1. timers # <<>> /\ timers' = Tail(timers)
        /\ wire' = S!Sent(wire, Head(timers)[1], S!PeerJoinedMsg(clientIP[Head(timers)[2]]))
    BY <1>3 DEF PeerJoinedTimer, S!PeerJoinedTimer
  <2>2. Head(timers) \in Conns \X Conns
    BY <1>t, <2>1 DEF S!TypeOK
  <2>3. PICK c \in Conns, y \in Conns : c = Head(timers)[1] /\ y = Head(timers)[2]
    BY <2>2
  <2>4. PICK m \in S!Msg : m = S!PeerJoinedMsg(clientIP[y]) /\ m.type = "peer_joined"
    BY <1>t, MessagesTyped DEF S!PeerJoinedMsg
  <2>5. Reason(c, m)
    BY <2>1, <2>3, <2>4 DEF Reason
  <2>. QED
    BY <1>s, <2>1, <2>3, <2>4, <2>5
<1>4. ASSUME NEW c \in Conns, Quit(c) \/ ServerCloses(c) PROVE FALSE
  BY <1>4 DEF Calm, Quit, ServerCloses, S!Close
<1>5. ASSUME NEW c \in Conns, ReceiveNotice(c) \/ ReceivePeerJoined(c) \/ ReceiveDescription(c)
                              \/ ReceiveCandidate(c)
      PROVE  WireEvent(x)
  BY <1>5, <1>t DEF ReceiveNotice, ReceivePeerJoined, ReceiveDescription, ReceiveCandidate, Receive,
     S!Deliver, WireEvent
<1>6. ASSUME NEW c \in Conns, RtcStep(c) \/ GenerateCandidate(c) \/ OnSend(c) \/ QueueCandidate(c)
             \/ \E k \in Keys : OnSelectPeerIP(c, k)
      PROVE  UNCHANGED wire
  BY <1>6 DEF RtcStep, GenerateCandidate, OnSend, OnSelectPeerIP, ConnectToPeerIP, CreateOffer,
     CreateAnswer, SetLocalDescription, SetRemoteDescription, FlushPending, FlushEnd,
     QueueCandidate, sig
<1>7. Opens \/ (\E ch \in Channel : ChannelLost(ch)) \/ UNCHANGED vars => UNCHANGED wire
  BY DEF Opens, DidOpenDataChannel, ChannelLost, vars, sig
<1>8. UNCHANGED wire => WireEvent(x)
  BY DEF WireEvent
<1>. QED
  BY <1>1, <1>2, <1>3, <1>4, <1>5, <1>6, <1>7, <1>8 DEF Next, ServerStep, SocketStep

\* A partner stays until an app quits, and nobody gets a second one.
LEMMA PartnerEvents ==
    ASSUME Calm, [Next]_vars, leaves' = 0
    PROVE  \/ UNCHANGED pairPartner
           \/ \E c \in Conns, t \in Keys : ServerHandles(c) /\ S!Pair(c, t)
<1>1. ASSUME NEW c \in Conns, NEW k \in Keys, Connect(c, k) PROVE UNCHANGED pairPartner
  <2>1. readyState[c] = "NEW"
    BY <1>1 DEF Connect, S!Connect
  <2>2. pairPartner[c] = None
    BY <2>1 DEF Calm, W!IInv, W!PairingSymmetric, W!Attached
  <2>. QED
    BY <1>1, <2>2 DEF Connect, S!Connect, Calm, TInv, S!TypeOK
<1>2. ASSUME NEW c \in Conns, ServerHandles(c)
      PROVE  UNCHANGED pairPartner \/ \E t \in Keys : S!Pair(c, t)
  <2>1. PICK h \in Upward : h = Head(up[c])
    BY <1>2 DEF ServerHandles, Calm, TInv, UpOK
  <2>2. CASE h.kind # "pair_request"
    BY <1>2, <2>1, <2>2 DEF ServerHandles, S!Relay, S!server
  <2>3. CASE h.kind = "pair_request"
    <3>1. PICK t \in Keys : S!PairRequest(c, t)
      BY <1>2, <2>1, <2>3 DEF ServerHandles, Upward, Sdp, Candidate
    <3>. QED
      BY <3>1 DEF S!PairRequest, S!PairTargetNotFound, S!PairBusy, S!server
  <2>. QED
    BY <2>2, <2>3
<1>3. PeerJoinedTimer => UNCHANGED pairPartner
  BY DEF PeerJoinedTimer, S!PeerJoinedTimer
<1>4. ASSUME NEW c \in Conns, Quit(c) \/ ServerCloses(c) PROVE FALSE
  BY <1>4 DEF Calm, Quit, ServerCloses, S!Close
<1>5. ASSUME NEW c \in Conns, SocketStep(c) PROVE UNCHANGED pairPartner
  BY <1>5 DEF SocketStep, ReceiveNotice, ReceivePeerJoined, ReceiveDescription, ReceiveCandidate,
     QueueCandidate, Receive, S!Deliver, S!server, sig
<1>6. ASSUME NEW c \in Conns, RtcStep(c) \/ GenerateCandidate(c) \/ OnSend(c)
             \/ \E k \in Keys : OnSelectPeerIP(c, k)
      PROVE  UNCHANGED pairPartner
  BY <1>6 DEF RtcStep, GenerateCandidate, OnSend, OnSelectPeerIP, ConnectToPeerIP, CreateOffer,
     CreateAnswer, SetLocalDescription, SetRemoteDescription, FlushPending, FlushEnd, sig
<1>7. Opens \/ (\E ch \in Channel : ChannelLost(ch)) \/ UNCHANGED vars => UNCHANGED pairPartner
  BY DEF Opens, DidOpenDataChannel, ChannelLost, vars, sig
<1>. QED
  BY <1>1, <1>2, <1>3, <1>4, <1>5, <1>6, <1>7 DEF Next, ServerStep

\* What pairing two connections does to the server.
LEMMA PairEvent ==
    ASSUME Calm, NEW c \in Conns, NEW t \in Keys, ServerHandles(c), S!Pair(c, t)
    PROVE  \E y \in Conns \ {c} :
             /\ pairPartner[c] = None /\ pairPartner[y] = None
             /\ pairPartner' = [pairPartner EXCEPT ![c] = y, ![y] = c]
             /\ timers' = Append(timers, <<c, y>>)
             /\ wire' = S!Sent(S!Sent(wire, c, S!OffererMsg(c, y)), y, S!AnswererMsg(y, c))
             /\ UNCHANGED <<client, ice, ops, completion, sdp, channels>>
<1>1. PICK y \in Conns : y = S!TargetOf(t) /\ y # c
  BY NoneAssumption DEF S!Pair, Calm, TInv, S!TypeOK, S!ConnsOrNone, S!TargetOf
<1>. QED
  BY <1>1 DEF S!Pair, S!BothFree, ServerHandles, dc

\* Nobody is the partner of two.
LEMMA OnePartner ==
    ASSUME Calm, NEW x \in Conns, NEW y \in Conns, NEW z \in Conns,
           pairPartner[x] = y, pairPartner[z] = x
    PROVE  z = y
<1>1. pairPartner[pairPartner[z]] = z
  BY NoneAssumption DEF Calm, W!IInv, W!PairingSymmetric
<1>. QED
  BY <1>1

\* A partnership outlives every step.
LEMMA PartnerKept ==
    ASSUME Calm, [Next]_vars, leaves' = 0, NEW x \in Conns, NEW y \in Conns, pairPartner[x] = y
    PROVE  pairPartner'[x] = y
<1>1. ASSUME NEW c \in Conns, NEW t \in Keys, ServerHandles(c), S!Pair(c, t)
      PROVE  pairPartner'[x] = pairPartner[x]
  <2>1. PICK z \in Conns : /\ pairPartner[c] = None /\ pairPartner[z] = None
                           /\ pairPartner' = [pairPartner EXCEPT ![c] = z, ![z] = c]
    BY <1>1, PairEvent
  <2>2. x # c /\ x # z
    BY <2>1, NoneAssumption
  <2>. QED
    BY <2>1, <2>2 DEF Calm, TInv, S!TypeOK
<1>. QED
  BY <1>1, PartnerEvents
-----------------------------------------------------------------------------
(* Each part of a side is kept.                                            *)

\* What is under way from an app to the server grows by a request, by the description
\* that has just been set, or by a candidate of its own.
LEMMA UpEvents ==
    ASSUME TInv, [Next]_vars, NEW x \in Conns
    PROVE  \/ In(up'[x]) \subseteq In(up[x])
           \/ \E m : /\ In(up'[x]) = In(up[x]) \cup {m}
                     /\ \/ m.kind = "pair_request"
                        \/ CandidateBy(x, m) /\ localDescription[x] # None
                        \/ /\ ops[x] # <<>> /\ Head(ops[x]).op = "setLocal"
                           /\ m = Head(ops[x]).sdp
<1>. DEFINE Event == \/ In(up'[x]) \subseteq In(up[x])
                     \/ \E m : /\ In(up'[x]) = In(up[x]) \cup {m}
                               /\ \/ m.kind = "pair_request"
                                  \/ CandidateBy(x, m) /\ localDescription[x] # None
                                  \/ /\ ops[x] # <<>> /\ Head(ops[x]).op = "setLocal"
                                     /\ m = Head(ops[x]).sdp
<1>. SUFFICES Event
  OBVIOUS
<1>t. up \in [Conns -> Seq(Upward)] /\ up[x] \in Seq(Upward)
  BY DEF TInv, UpOK
<1>u. up'[x] = up[x] => Event
  OBVIOUS
<1>s. ASSUME NEW c \in Conns, NEW m, SendSignaling(c, m)
      PROVE  up'[x] = up[x] \/ (x = c /\ In(up'[x]) = In(up[x]) \cup {m})
  BY <1>s, <1>t, InAppend DEF SendSignaling
<1>1. ASSUME NEW c \in Conns, ServerHandles(c) PROVE Event
  <2>1. up'[x] = up[x] \/ (up[x] # <<>> /\ up'[x] = Tail(up[x]))
    BY <1>1, <1>t DEF ServerHandles
  <2>2. In(up'[x]) \subseteq In(up[x])
    BY <1>t, <2>1, InSeq
  <2>. QED
    BY <2>2
<1>2. ASSUME NEW c \in Conns, ServerCloses(c) PROVE Event
  <2>1. up'[x] = up[x] \/ up'[x] = <<>>
    BY <1>2, <1>t DEF ServerCloses
  <2>2. In(up'[x]) \subseteq In(up[x])
    BY <2>1, InEmpty
  <2>. QED
    BY <2>2
<1>3. ASSUME NEW c \in Conns, NEW k, ConnectToPeerIP(c, k) PROVE Event
  <2>1. SendSignaling(c, PairRequestMsg(k)) /\ PairRequestMsg(k).kind = "pair_request"
    BY <1>3 DEF ConnectToPeerIP, PairRequestMsg
  <2>. QED
    BY <1>s, <1>u, <2>1
<1>4. ASSUME NEW c \in Conns, SetLocalDescription(c) PROVE Event
  <2>1. ops[c] # <<>> /\ Head(ops[c]).op = "setLocal"
    BY <1>4 DEF SetLocalDescription, NextOp
  <2>2. UNCHANGED up \/ SendSignaling(c, Head(ops[c]).sdp)
    BY <1>4 DEF SetLocalDescription
  <2>. QED
    BY <1>s, <1>u, <2>1, <2>2
<1>5. ASSUME NEW c \in Conns, GenerateCandidate(c) PROVE Event
  <2>1. PICK m : SendSignaling(c, m) /\ CandidateBy(c, m) /\ localDescription[c] # None
    BY <1>5 DEF GenerateCandidate, CandidateBy
  <2>. QED
    BY <1>s, <1>u, <2>1
<1>6. ASSUME NEW c \in Conns,
             SocketStep(c) \/ (\E k \in Keys : Connect(c, k)) \/ Quit(c) \/ CreateOffer(c)
             \/ CreateAnswer(c) \/ SetRemoteDescription(c) \/ FlushPending(c) \/ FlushEnd(c)
      PROVE  UNCHANGED up
  BY <1>6 DEF SocketStep, Connect, Quit, CreateOffer, CreateAnswer, SetRemoteDescription,
     FlushPending, FlushEnd, ReceiveNotice, ReceivePeerJoined, ReceiveDescription,
     ReceiveCandidate, QueueCandidate
<1>7. PeerJoinedTimer \/ Opens \/ (\E ch \in Channel : ChannelLost(ch)) \/ UNCHANGED vars
        => UNCHANGED up
  BY DEF PeerJoinedTimer, Opens, DidOpenDataChannel, ChannelLost, vars
<1>. HIDE DEF Event
<1>. QED
  BY <1>u, <1>1, <1>2, <1>3, <1>4, <1>5, <1>6, <1>7
     DEF Next, ServerStep, RtcStep, OnSelectPeerIP, OnSend

\* What x sends is its one description, or a candidate of its own.
LEMMA UpSideStep ==
    ASSUME TInv, [Next]_vars, NEW x \in Conns, NEW d, NEW e, UpSide(x, d), OpsSide(x, d, e)
    PROVE  UpSide(x, d)'
<1>1. ops[x] # <<>> => Head(ops[x]) \in In(ops[x])
  BY InSeq DEF TInv, OpsOK
<1>2. CASE In(up'[x]) \subseteq In(up[x])
  BY <1>2 DEF UpSide
<1>3. ASSUME NEW m, In(up'[x]) = In(up[x]) \cup {m},
             \/ m.kind = "pair_request"
             \/ CandidateBy(x, m)
             \/ ops[x] # <<>> /\ Head(ops[x]).op = "setLocal" /\ m = Head(ops[x]).sdp
      PROVE  UpSide(x, d)'
  BY <1>1, <1>3 DEF UpSide, OpsSide
<1>. QED
  BY <1>2, <1>3, UpEvents

\* What is sent to x is of its partner.
LEMMA WireSideStep ==
    ASSUME Calm, [Next]_vars, leaves' = 0, NEW x \in Conns, NEW y \in Conns, NEW e,
           pairPartner[x] = y, WireSide(x, y, e), UpSide(y, e)
    PROVE  WireSide(x, y, e)'
<1>t. wire[x] \in Seq(S!Msg)
  BY DEF Calm, TInv, S!TypeOK
<1>1. CASE wire'[x] = wire[x]
  BY <1>1 DEF WireSide
<1>2. CASE wire[x] # <<>> /\ wire'[x] = Tail(wire[x])
  <2>1. In(wire'[x]) \subseteq In(wire[x])
    BY <1>2, <1>t, InSeq
  <2>. QED
    BY <2>1 DEF WireSide
<1>3. ASSUME NEW m \in S!Msg, wire'[x] = Append(wire[x], m), Reason(x, m)
      PROVE  WireSide(x, y, e)'
  <2>1. In(wire'[x]) = In(wire[x]) \cup {m}
    BY <1>3, <1>t, InAppend
  <2>2. m.type = "signal" => m.payload = e \/ CandidateBy(y, m.payload)
    <3>. SUFFICES ASSUME m.type = "signal" PROVE m.payload = e \/ CandidateBy(y, m.payload)
      OBVIOUS
    <3>1. PICK z \in Conns : /\ pairPartner[z] = x /\ up[z] # <<>>
                             /\ m.payload = Head(up[z]) /\ m.payload.kind # "pair_request"
      BY <1>3 DEF Reason
    <3>2. z = y
      BY <3>1, OnePartner
    <3>3. Head(up[y]) \in In(up[y])
      BY <3>1, <3>2, InSeq DEF Calm, TInv, UpOK
    <3>. QED
      BY <3>1, <3>2, <3>3 DEF UpSide
  <2>. QED
    BY <2>1, <2>2 DEF WireSide
<1>. QED
  BY <1>1, <1>2, <1>3, WireEvents DEF WireEvent

\* Why the operation o is asked of the peer connection of x.
Asked(x, o) ==
    \/ o.op = "createOffer" /\ client[x].isOfferer
    \/ o.op = "createAnswer"
    \/ /\ o.op = "setRemote" /\ wire[x] # <<>> /\ o.sdp = Message(x).payload
       /\ Signal(x, "offer") \/ Signal(x, "answer")
    \/ /\ o = SetLocal(x, "offer", channels[x])
       /\ ops[x] # <<>> /\ Head(ops[x]).op = "createOffer"
    \/ o = SetLocal(x, "answer", remoteDescription[x].n) /\ signalingState[x] = "have-remote-offer"

\* The operations waiting at an app grow by one at most, and for one of these reasons.
LEMMA OpsEvents ==
    ASSUME TInv, [Next]_vars, NEW x \in Conns
    PROVE  \/ In(ops'[x]) \subseteq In(ops[x])
           \/ \E o \in Op : In(ops'[x]) \subseteq In(ops[x]) \cup {o} /\ Asked(x, o)
<1>. DEFINE Event == \/ In(ops'[x]) \subseteq In(ops[x])
                     \/ \E o \in Op : In(ops'[x]) \subseteq In(ops[x]) \cup {o} /\ Asked(x, o)
<1>. SUFFICES Event
  OBVIOUS
<1>t. OpsOK
  BY DEF TInv
<1>u. ops'[x] = ops[x] => Event
  OBVIOUS
<1>a. ASSUME NEW c \in Conns, NEW o \in Op, ops' = [ops EXCEPT ![c] = Append(@, o)], Asked(c, o)
      PROVE  Event
  BY <1>a, <1>t, <1>u, AskOps
<1>o. ASSUME NEW c \in Conns, NEW o \in Op, Then(c, <<o>>), ops[c] # <<>>, Asked(c, o)
      PROVE  Event
  <2>0. <<o>> \in Seq(Op)
    OBVIOUS
  <2>1. PICK more \in Seq(Op) : more = <<o>>
    BY <2>0
  <2>2. In(more) = {o}
    BY <2>1, InOne
  <2>3. (x # c => ops'[x] = ops[x]) /\ In(ops'[c]) \subseteq In(ops[c]) \cup In(more)
    BY <1>o, <1>t, <2>1, ThenOps
  <2>. QED
    BY <1>o, <1>u, <2>2, <2>3
<1>e. ASSUME NEW c \in Conns, Then(c, <<>>), ops[c] # <<>>
      PROVE  Event
  <2>0. <<>> \in Seq(Op)
    OBVIOUS
  <2>1. PICK more \in Seq(Op) : more = <<>>
    BY <2>0
  <2>2. In(more) = {}
    BY <2>1, InEmpty
  <2>3. (x # c => ops'[x] = ops[x]) /\ In(ops'[c]) \subseteq In(ops[c]) \cup In(more)
    BY <1>e, <1>t, <2>1, ThenOps
  <2>. QED
    BY <1>u, <2>2, <2>3
<1>. HIDE DEF Event
<1>1. ASSUME NEW c \in Conns, ReceivePeerJoined(c) PROVE Event
  <2>1. PICK o \in Op : o = [op |-> "createOffer"]
    BY DEF Op
  <2>2. client[c].isOfferer => Asked(c, o)
    BY <2>1 DEF Asked
  <2>. QED
    BY <1>1, <1>a, <1>u, <2>1, <2>2 DEF ReceivePeerJoined
<1>2. ASSUME NEW c \in Conns, ReceiveDescription(c) PROVE Event
  <2>1. wire[c] # <<>> /\ (Signal(c, "offer") \/ Signal(c, "answer"))
    BY <1>2 DEF ReceiveDescription, Receive, S!Deliver
  <2>2. Message(c).payload \in Sdp
    BY <2>1, Received DEF TInv, Candidate, Signal
  <2>3. PICK o \in Op : o = [op |-> "setRemote", sdp |-> Message(c).payload]
    BY <2>2 DEF Op
  <2>4. Asked(c, o)
    BY <2>1, <2>3 DEF Asked
  <2>. QED
    BY <1>2, <1>a, <2>3, <2>4 DEF ReceiveDescription
<1>3. ASSUME NEW c \in Conns, CreateOffer(c) PROVE Event
  <2>1. ops[c] # <<>> /\ Head(ops[c]).op = "createOffer"
    BY <1>3 DEF CreateOffer, NextOp
  <2>2. channels[c] > 0
    BY <1>t, <2>1, InSeq DEF OpsOK
  <2>3. PICK o \in Op : o = SetLocal(c, "offer", channels[c])
    BY <2>2, MadeType
  <2>4. Asked(c, o)
    BY <2>1, <2>3 DEF Asked
  <2>. QED
    BY <1>3, <1>o, <2>1, <2>3, <2>4 DEF CreateOffer
<1>4. ASSUME NEW c \in Conns, CreateAnswer(c) PROVE Event
  <2>1. ops[c] # <<>>
    BY <1>4 DEF CreateAnswer, NextOp
  <2>2. CASE signalingState[c] = "have-remote-offer"
    <3>1. PICK o \in Op : o = SetLocal(c, "answer", remoteDescription[c].n)
      BY <2>2, MadeType
    <3>2. Asked(c, o)
      BY <2>2, <3>1 DEF Asked
    <3>. QED
      BY <1>4, <1>o, <2>1, <2>2, <3>1, <3>2 DEF CreateAnswer
  <2>3. CASE signalingState[c] # "have-remote-offer"
    BY <1>4, <1>e, <2>1, <2>3 DEF CreateAnswer
  <2>. QED
    BY <2>2, <2>3
<1>5. ASSUME NEW c \in Conns, SetLocalDescription(c) \/ SetRemoteDescription(c) PROVE Event
  BY <1>5, <1>e DEF SetLocalDescription, SetRemoteDescription, NextOp
<1>6. ASSUME NEW c \in Conns, FlushEnd(c) PROVE Event
  <2>1. PICK o \in Op : o = [op |-> "createAnswer"]
    BY DEF Op
  <2>2. Asked(c, o)
    BY <2>1 DEF Asked
  <2>0. <<>> \in Seq(Op) /\ <<o>> \in Seq(Op) /\ In(<<>>) = {} /\ In(<<o>>) = {o}
    BY InEmpty, InOne
  <2>3. PICK more \in Seq(Op) : more = AsksForAnswer(c) /\ In(more) \subseteq {o}
    BY <2>0, <2>1 DEF AsksForAnswer
  <2>4. (x # c => ops'[x] = ops[x]) /\ In(ops'[c]) \subseteq In(ops[c]) \cup In(more)
    BY <1>6, <1>t, <2>3, MoreOps DEF FlushEnd
  <2>. QED
    BY <1>u, <2>2, <2>3, <2>4 DEF Event
<1>7. ASSUME NEW c \in Conns,
             ReceiveNotice(c) \/ ReceiveCandidate(c) \/ QueueCandidate(c) \/ FlushPending(c)
             \/ (\E k \in Keys : Connect(c, k) \/ ConnectToPeerIP(c, k)) \/ OnSend(c)
             \/ Quit(c) \/ GenerateCandidate(c) \/ ServerHandles(c) \/ ServerCloses(c)
      PROVE  UNCHANGED ops
  BY <1>7 DEF ReceiveNotice, ReceiveCandidate, QueueCandidate, FlushPending, Connect,
     ConnectToPeerIP, OnSend, Quit, GenerateCandidate, ServerHandles, ServerCloses
<1>8. PeerJoinedTimer \/ Opens \/ (\E ch \in Channel : ChannelLost(ch)) \/ UNCHANGED vars
        => UNCHANGED ops
  BY DEF PeerJoinedTimer, Opens, DidOpenDataChannel, ChannelLost, vars
<1>. QED
  BY <1>u, <1>1, <1>2, <1>3, <1>4, <1>5, <1>6, <1>7, <1>8
     DEF Next, ServerStep, SocketStep, RtcStep, OnSelectPeerIP

\* The two roles of x in its session with y.
Leads(x, y, d, e) == d = TheOffer(x) /\ e = TheAnswer(y) /\ Leader(x)
Follows(x, y, d, e) == d = TheAnswer(x) /\ e = TheOffer(y) /\ Follower(x)

\* A description x makes is the one of its role.
LEMMA OpsSideStep ==
    ASSUME TInv, [Next]_vars, NEW x \in Conns, NEW y \in Conns, NEW d, NEW e,
           OpsSide(x, d, e), WireSide(x, y, e), SdpSide(x, d, e),
           Leads(x, y, d, e) \/ Follows(x, y, d, e)
    PROVE  OpsSide(x, d, e)'
<1>1. CASE In(ops'[x]) \subseteq In(ops[x])
  BY <1>1 DEF OpsSide
<1>2. ASSUME NEW o \in Op, In(ops'[x]) \subseteq In(ops[x]) \cup {o}, Asked(x, o)
      PROVE  OpsSide(x, d, e)'
  <2>1. (o.op = "setLocal" => o.sdp = d) /\ (o.op = "setRemote" => o.sdp = e)
    <3>1. CASE o.op = "setRemote" /\ wire[x] # <<>> /\ o.sdp = Message(x).payload
               /\ (Signal(x, "offer") \/ Signal(x, "answer"))
      <4>1. Message(x) \in In(wire[x])
        BY <3>1, InSeq DEF Message, TInv, S!TypeOK
      <4>2. Message(x).type = "signal" /\ Message(x).payload.kind # "candidate"
        BY <3>1 DEF Signal
      <4>. QED
        BY <3>1, <4>1, <4>2 DEF WireSide, CandidateBy
    <3>2. CASE o = SetLocal(x, "offer", channels[x]) /\ ops[x] # <<>>
               /\ Head(ops[x]).op = "createOffer"
      <4>1. Head(ops[x]) \in In(ops[x])
        BY <3>2, InSeq DEF TInv, OpsOK
      <4>2. d = TheOffer(x) /\ channels[x] <= 1
        BY <3>2, <4>1 DEF Leads, Follows, Follower, Leader
      <4>3. channels[x] \in Nat /\ channels[x] > 0
        BY <3>2, <4>1, BoundsAssumption DEF TInv, OpsOK, ChannelsOK
      <4>4. channels[x] = 1
        BY <4>2, <4>3
      <4>. QED
        BY <3>2, <4>2, <4>4 DEF SetLocal, TheOffer
    <3>3. CASE o = SetLocal(x, "answer", remoteDescription[x].n)
               /\ signalingState[x] = "have-remote-offer"
      <4>1. remoteDescription[x] = e /\ e.kind = "offer"
        BY <3>3 DEF TInv, OpsOK, SdpSide
      <4>2. d = TheAnswer(x) /\ e = TheOffer(y)
        BY <4>1 DEF Leads, Follows, TheAnswer
      <4>. QED
        BY <3>3, <4>1, <4>2 DEF SetLocal, TheOffer, TheAnswer
    <3>. QED
      BY <1>2, <3>1, <3>2, <3>3 DEF Asked
  <2>. QED
    BY <1>2, <2>1 DEF OpsSide
<1>. QED
  BY <1>1, <1>2, OpsEvents

\* The descriptions in place at x are its own and its partner's, and it is stable with a
\* remote description only once it has a local one.
LEMMA SdpSideStep ==
    ASSUME TInv, [Next]_vars, NEW x \in Conns, NEW d, NEW e, OpsSide(x, d, e), SdpSide(x, d, e)
    PROVE  SdpSide(x, d, e)'
<1>t. OpsOK
  BY DEF TInv
<1>u. (/\ localDescription'[x] = localDescription[x] /\ remoteDescription'[x] = remoteDescription[x]
       /\ signalingState'[x] = signalingState[x]) => SdpSide(x, d, e)'
  BY DEF SdpSide
<1>h. ASSUME NEW c \in Conns, SetLocalDescription(c) \/ SetRemoteDescription(c)
      PROVE  Head(ops[c]) \in In(ops[c]) /\ Head(ops[c]).sdp \in Sdp
  <2>1. ops[c] # <<>> /\ Head(ops[c]).op \in {"setLocal", "setRemote"}
    BY <1>h DEF SetLocalDescription, SetRemoteDescription, NextOp
  <2>2. Head(ops[c]) \in In(ops[c]) /\ Head(ops[c]) \in Op
    BY <1>t, <2>1, InSeq DEF OpsOK
  <2>. QED
    BY <2>1, <2>2 DEF Op
<1>1. ASSUME NEW c \in Conns, SetLocalDescription(c) PROVE SdpSide(x, d, e)'
  <2>1. CASE c # x
    BY <1>1, <1>t, <1>u, <2>1 DEF SetLocalDescription, OpsOK
  <2>2. CASE c = x
    <3>1. Head(ops[x]).op = "setLocal" /\ Head(ops[x]).sdp = d /\ d # None
      BY <1>1, <1>h, <2>2, NoneAssumption DEF SetLocalDescription, NextOp, OpsSide
    <3>2. remoteDescription'[x] = remoteDescription[x]
      BY <1>1 DEF SetLocalDescription
    <3>3. CASE signalingState[x] \in LocalAllowed(d.kind)
      <4>1. localDescription'[x] = d
        BY <1>1, <1>t, <2>2, <3>1, <3>3 DEF SetLocalDescription, OpsOK
      <4>. QED
        BY <3>1, <3>2, <4>1 DEF SdpSide
    <3>4. CASE signalingState[x] \notin LocalAllowed(d.kind)
      BY <1>1, <1>u, <2>2, <3>1, <3>4 DEF SetLocalDescription
    <3>. QED
      BY <3>3, <3>4
  <2>. QED
    BY <2>1, <2>2
<1>2. ASSUME NEW c \in Conns, SetRemoteDescription(c) PROVE SdpSide(x, d, e)'
  <2>1. CASE c # x
    BY <1>2, <1>t, <1>u, <2>1 DEF SetRemoteDescription, OpsOK
  <2>2. CASE c = x
    <3>1. Head(ops[x]).op = "setRemote" /\ Head(ops[x]).sdp = e /\ e # None /\ e \in Sdp
      BY <1>2, <1>h, <2>2, NoneAssumption DEF SetRemoteDescription, NextOp, OpsSide
    <3>2. localDescription'[x] = localDescription[x]
      BY <1>2 DEF SetRemoteDescription
    <3>3. CASE signalingState[x] \in RemoteAllowed(e.kind)
      <4>1. remoteDescription'[x] = e
        BY <1>2, <1>t, <2>2, <3>1, <3>3 DEF SetRemoteDescription, OpsOK
      <4>2. signalingState'[x] = IF e.kind = "offer" THEN "have-remote-offer" ELSE "stable"
        BY <1>2, <1>t, <2>2, <3>1, <3>3 DEF SetRemoteDescription, OpsOK
      <4>3. e.kind # "offer" => localDescription[x] # None
        BY <3>3 DEF RemoteAllowed, SdpSide
      <4>. QED
        BY <3>1, <3>2, <4>1, <4>2, <4>3 DEF SdpSide
    <3>4. CASE signalingState[x] \notin RemoteAllowed(e.kind)
      BY <1>2, <1>u, <2>2, <3>1, <3>4 DEF SetRemoteDescription
    <3>. QED
      BY <3>3, <3>4
  <2>. QED
    BY <2>1, <2>2
<1>3. ASSUME NEW c \in Conns,
             SocketStep(c) \/ CreateOffer(c) \/ CreateAnswer(c) \/ FlushPending(c) \/ FlushEnd(c)
             \/ (\E k \in Keys : Connect(c, k) \/ ConnectToPeerIP(c, k)) \/ OnSend(c)
             \/ Quit(c) \/ GenerateCandidate(c) \/ ServerHandles(c) \/ ServerCloses(c)
      PROVE  UNCHANGED sdp
  BY <1>3 DEF SocketStep, ReceiveNotice, ReceivePeerJoined, ReceiveDescription, ReceiveCandidate,
     QueueCandidate, CreateOffer, CreateAnswer, FlushPending, FlushEnd, Connect,
     ConnectToPeerIP, OnSend, Quit, GenerateCandidate, ServerHandles, ServerCloses
<1>4. PeerJoinedTimer \/ Opens \/ (\E ch \in Channel : ChannelLost(ch)) \/ UNCHANGED vars
        => UNCHANGED sdp
  BY DEF PeerJoinedTimer, Opens, DidOpenDataChannel, ChannelLost, vars
<1>5. UNCHANGED sdp => SdpSide(x, d, e)'
  BY <1>u DEF sdp
<1>. QED
  BY <1>1, <1>2, <1>3, <1>4, <1>5 DEF Next, ServerStep, RtcStep, OnSelectPeerIP

\* A candidate is given to the peer connection of x, or put off, with the description
\* that is there or will be: its sender's.
LEMMA IceSideStep ==
    ASSUME TInv, [Next]_vars, NEW x \in Conns, NEW y \in Conns, NEW d, NEW e,
           e.by = y, e.kind # "candidate",
           OpsSide(x, d, e), WireSide(x, y, e), SdpSide(x, d, e), IceSide(x, y)
    PROVE  IceSide(x, y)'
<1>t. OpsOK /\ IceOK
  BY DEF TInv
<1>u. (/\ hasRemoteDescription'[x] = hasRemoteDescription[x] /\ completion'[x] = completion[x]
       /\ remoteDescription'[x] = remoteDescription[x] /\ queueing'[x] = queueing[x]
       /\ pendingCandidates'[x] = pendingCandidates[x] /\ early'[x] = early[x]) => IceSide(x, y)'
  BY DEF IceSide
<1>e. ASSUME NEW cands, remoteDescription[x] # None, \A m \in cands : m.by = y,
             AddIceCandidates(x, cands)
      PROVE  early'[x] = {}
  <2>1. remoteDescription[x] = e
    BY <1>e DEF SdpSide
  <2>2. {m \in cands : remoteDescription[x] = None \/ remoteDescription[x].by # m.by} = {}
    BY <1>e, <2>1
  <2>. QED
    BY <1>e, <1>t, <2>2 DEF AddIceCandidates, IceOK, IceSide
<1>1. ASSUME NEW c \in Conns, ReceiveCandidate(c) PROVE IceSide(x, y)'
  <2>1. CASE c # x
    <3>1. early'[x] = early[x] /\ queueing'[x] = queueing[x]
      BY <1>1, <1>t, <2>1 DEF ReceiveCandidate, AddIceCandidates, IceOK
    <3>. QED
      BY <1>1, <1>u, <3>1 DEF ReceiveCandidate, sdp
  <2>2. CASE c = x
    <3>1. wire[x] # <<>> /\ Signal(x, "candidate")
      BY <1>1, <2>2 DEF ReceiveCandidate, Receive, S!Deliver
    <3>2. Message(x) \in In(wire[x])
      BY <3>1, InSeq DEF Message, TInv, S!TypeOK
    <3>3. Message(x).payload.by = y
      BY <3>1, <3>2 DEF Signal, WireSide, CandidateBy
    <3>4. UNCHANGED <<hasRemoteDescription, pendingCandidates, completion, remoteDescription>>
      BY <1>1 DEF ReceiveCandidate, sdp
    <3>5. CASE MayAdd(x)
      <4>1. AddIceCandidates(x, {Message(x).payload}) /\ UNCHANGED queueing
        BY <1>1, <2>2, <3>5 DEF ReceiveCandidate
      <4>2. remoteDescription[x] # None
        BY <3>5 DEF MayAdd, IceSide
      <4>3. \A m \in {Message(x).payload} : m.by = y
        BY <3>3
      <4>4. early'[x] = {}
        BY <1>e, <4>1, <4>2, <4>3
      <4>. QED
        BY <3>4, <4>1, <4>4 DEF IceSide
    <3>6. CASE ~MayAdd(x)
      <4>1. queueing'[x] = Message(x).payload /\ UNCHANGED early
        BY <1>1, <1>t, <2>2, <3>6 DEF ReceiveCandidate, IceOK
      <4>. QED
        BY <3>3, <3>4, <4>1 DEF IceSide
    <3>. QED
      BY <3>5, <3>6
  <2>. QED
    BY <2>1, <2>2
<1>2. ASSUME NEW c \in Conns, QueueCandidate(c) PROVE IceSide(x, y)'
  <2>1. CASE c # x
    BY <1>2, <1>t, <1>u, <2>1 DEF QueueCandidate, IceOK, sdp
  <2>2. CASE c = x
    <3>1. queueing[x].by = y
      BY <1>2, <2>2 DEF QueueCandidate, IceSide
    <3>2. pendingCandidates'[x] = Append(pendingCandidates[x], queueing[x])
          /\ pendingCandidates[x] \in Seq(Candidate)
      BY <1>2, <1>t, <2>2 DEF QueueCandidate, IceOK
    <3>3. In(pendingCandidates'[x]) = In(pendingCandidates[x]) \cup {queueing[x]}
      BY <3>2, InAppend
    <3>4. queueing'[x] = None
      BY <1>2, <1>t, <2>2 DEF QueueCandidate, IceOK
    <3>5. UNCHANGED <<hasRemoteDescription, completion, remoteDescription, early>>
      BY <1>2 DEF QueueCandidate, sdp
    <3>. QED
      BY <3>1, <3>3, <3>4, <3>5 DEF IceSide
  <2>. QED
    BY <2>1, <2>2
<1>3. ASSUME NEW c \in Conns, SetRemoteDescription(c) PROVE IceSide(x, y)'
  <2>1. UNCHANGED ice
    BY <1>3 DEF SetRemoteDescription
  <2>2. CASE remoteDescription'[x] = remoteDescription[x] /\ completion'[x] = completion[x]
    BY <1>u, <2>1, <2>2 DEF ice
  <2>3. CASE ~(remoteDescription'[x] = remoteDescription[x] /\ completion'[x] = completion[x])
    <3>1. ops[c] # <<>> /\ Head(ops[c]).op = "setRemote"
      BY <1>3 DEF SetRemoteDescription, NextOp
    <3>2. Head(ops[c]) \in Op
      BY <1>t, <3>1 DEF OpsOK
    <3>3. Head(ops[c]).sdp \in Sdp
      BY <3>1, <3>2 DEF Op
    <3>4. remoteDescription'[x] = Head(ops[c]).sdp
      BY <1>3, <1>t, <2>3 DEF SetRemoteDescription, OpsOK
    <3>5. remoteDescription'[x] # None
      BY <3>3, <3>4, NoneAssumption
    <3>. QED
      BY <2>1, <3>5 DEF IceSide, ice
  <2>. QED
    BY <2>2, <2>3
<1>4. ASSUME NEW c \in Conns, FlushPending(c) PROVE IceSide(x, y)'
  <2>1. CASE c # x
    BY <1>4, <1>t, <1>u, <2>1 DEF FlushPending, AddIceCandidates, IceOK, OpsOK, sdp
  <2>2. CASE c = x
    <3>1. remoteDescription[x] # None
      BY <1>4, <2>2 DEF FlushPending, IceSide
    <3>2. AddIceCandidates(x, In(pendingCandidates[x]))
      BY <1>4, <2>2 DEF FlushPending, In
    <3>3. \A m \in In(pendingCandidates[x]) : m.by = y
      BY DEF IceSide
    <3>4. early'[x] = {}
      BY <1>e, <3>1, <3>2, <3>3
    <3>. QED
      BY <1>4, <3>1, <3>4 DEF FlushPending, IceSide, sdp
  <2>. QED
    BY <2>1, <2>2
<1>5. ASSUME NEW c \in Conns, FlushEnd(c) PROVE IceSide(x, y)'
  <2>1. CASE c # x
    BY <1>5, <1>t, <1>u, <2>1 DEF FlushEnd, IceOK, OpsOK, sdp
  <2>2. CASE c = x
    <3>1. pendingCandidates'[x] = <<>> /\ completion'[x] = "idle"
      BY <1>5, <1>t, <2>2 DEF FlushEnd, IceOK, OpsOK
    <3>2. In(pendingCandidates'[x]) = {}
      BY <3>1, InEmpty
    <3>3. UNCHANGED <<hasRemoteDescription, remoteDescription, queueing, early>>
      BY <1>5 DEF FlushEnd, sdp
    <3>. QED
      BY <3>1, <3>2, <3>3 DEF IceSide
  <2>. QED
    BY <2>1, <2>2
<1>6. ASSUME NEW c \in Conns,
             ReceiveNotice(c) \/ ReceivePeerJoined(c) \/ ReceiveDescription(c) \/ CreateOffer(c)
             \/ CreateAnswer(c) \/ SetLocalDescription(c)
             \/ (\E k \in Keys : Connect(c, k) \/ ConnectToPeerIP(c, k)) \/ OnSend(c)
             \/ Quit(c) \/ GenerateCandidate(c) \/ ServerHandles(c) \/ ServerCloses(c)
      PROVE  UNCHANGED <<ice, completion, remoteDescription>>
  BY <1>6 DEF ReceiveNotice, ReceivePeerJoined, ReceiveDescription, CreateOffer, CreateAnswer,
     SetLocalDescription, Connect, ConnectToPeerIP, OnSend, Quit, GenerateCandidate,
     ServerHandles, ServerCloses, sdp
<1>7. PeerJoinedTimer \/ Opens \/ (\E ch \in Channel : ChannelLost(ch)) \/ UNCHANGED vars
        => UNCHANGED <<ice, completion, remoteDescription>>
  BY DEF PeerJoinedTimer, Opens, DidOpenDataChannel, ChannelLost, vars, sdp
<1>8. UNCHANGED <<ice, completion, remoteDescription>> => IceSide(x, y)'
  BY <1>u DEF ice
<1>. QED
  BY <1>1, <1>2, <1>3, <1>4, <1>5, <1>6, <1>7, <1>8
     DEF Next, ServerStep, SocketStep, RtcStep, OnSelectPeerIP
-----------------------------------------------------------------------------
(* The leader is told once, the follower never.                            *)

\* An announcement is new only when a peer_joined is sent.
LEMMA AnnouncedGrows ==
    ASSUME NEW a \in Conns, NEW m, wire[a] \in Seq(S!Msg), wire'[a] = Append(wire[a], m)
    PROVE  Announced(a)' = Announced(a) \cup
                             (IF m.type = "peer_joined" THEN {Len(wire[a]) + 1} ELSE {})
<1>1. Len(wire'[a]) = Len(wire[a]) + 1 /\ wire'[a][Len(wire[a]) + 1] = m
  OBVIOUS
<1>2. \A i \in 1..Len(wire[a]) : wire'[a][i] = wire[a][i]
  OBVIOUS
<1>3. \A i : i \in 1..(Len(wire[a]) + 1) <=> i \in 1..Len(wire[a]) \/ i = Len(wire[a]) + 1
  OBVIOUS
<1>. QED
  BY <1>1, <1>2, <1>3 DEF Announced

\* Reading a message moves the announcements up by one.
LEMMA AnnouncedTaken ==
    ASSUME NEW a \in Conns, wire[a] \in Seq(S!Msg), wire[a] # <<>>, wire'[a] = Tail(wire[a])
    PROVE  /\ \A i \in Announced(a)' : i \in Nat /\ i > 0 /\ i + 1 \in Announced(a)
           /\ Message(a).type = "peer_joined" => 1 \in Announced(a)
<1>1. \A i \in 1..Len(wire'[a]) : i + 1 \in 1..Len(wire[a]) /\ wire'[a][i] = wire[a][i + 1]
  OBVIOUS
<1>2. 1 \in 1..Len(wire[a]) /\ Head(wire[a]) = wire[a][1]
  OBVIOUS
<1>. QED
  BY <1>1, <1>2 DEF Announced, Message

\* A timer that fires moves the others up by one.
LEMMA ArmedFired ==
    ASSUME NEW a \in Conns, timers \in Seq(Conns \X Conns), timers # <<>>, timers' = Tail(timers)
    PROVE  /\ \A i \in Armed(a)' : i \in Nat /\ i > 0 /\ i + 1 \in Armed(a)
           /\ Head(timers)[1] = a => 1 \in Armed(a)
<1>1. \A i \in 1..Len(timers') : i + 1 \in 1..Len(timers) /\ timers'[i] = timers[i + 1]
  OBVIOUS
<1>2. 1 \in 1..Len(timers) /\ Head(timers) = timers[1]
  OBVIOUS
<1>. QED
  BY <1>1, <1>2 DEF Armed

\* A timer that is set is the last.
LEMMA ArmedSet ==
    ASSUME NEW a \in Conns, timers \in Seq(Conns \X Conns), NEW c \in Conns, NEW y \in Conns,
           timers' = Append(timers, <<c, y>>)
    PROVE  Armed(a)' = Armed(a) \cup (IF c = a THEN {Len(timers) + 1} ELSE {})
<1>1. Len(timers') = Len(timers) + 1 /\ timers'[Len(timers) + 1][1] = c
  OBVIOUS
<1>2. \A i \in 1..Len(timers) : timers'[i] = timers[i]
  OBVIOUS
<1>3. \A i : i \in 1..(Len(timers) + 1) <=> i \in 1..Len(timers) \/ i = Len(timers) + 1
  OBVIOUS
<1>. QED
  BY <1>1, <1>2, <1>3 DEF Armed

\* A timer is set for two apps that have just become partners, and fires once.
LEMMA TimerEvents ==
    ASSUME Calm, [Next]_vars, leaves' = 0
    PROVE  \/ timers' = timers
           \/ PeerJoinedTimer
           \/ \E c, y \in Conns : /\ timers' = Append(timers, <<c, y>>)
                                  /\ pairPartner[c] = None /\ pairPartner'[c] = y
<1>1. ASSUME NEW c \in Conns, ServerHandles(c)
      PROVE  timers' = timers \/ \E t \in Keys : S!Pair(c, t)
  <2>1. PICK h \in Upward : h = Head(up[c])
    BY <1>1 DEF ServerHandles, Calm, TInv, UpOK
  <2>2. CASE h.kind # "pair_request"
    BY <1>1, <2>1, <2>2 DEF ServerHandles, S!Relay, S!server
  <2>3. CASE h.kind = "pair_request"
    <3>1. PICK t \in Keys : S!PairRequest(c, t)
      BY <1>1, <2>1, <2>3 DEF ServerHandles, Upward, Sdp, Candidate
    <3>. QED
      BY <3>1 DEF S!PairRequest, S!PairTargetNotFound, S!PairBusy, S!server
  <2>. QED
    BY <2>2, <2>3
<1>2. ASSUME NEW c \in Conns, NEW t \in Keys, ServerHandles(c), S!Pair(c, t)
      PROVE  \E y \in Conns : /\ timers' = Append(timers, <<c, y>>)
                              /\ pairPartner[c] = None /\ pairPartner'[c] = y
  <2>1. PICK y \in Conns \ {c} :
             /\ pairPartner[c] = None
             /\ pairPartner' = [pairPartner EXCEPT ![c] = y, ![y] = c]
             /\ timers' = Append(timers, <<c, y>>)
    BY <1>2, PairEvent
  <2>2. pairPartner'[c] = y
    BY <2>1 DEF Calm, TInv, S!TypeOK
  <2>. QED
    BY <2>1, <2>2
<1>4. ASSUME NEW c \in Conns, Quit(c) \/ ServerCloses(c) \/ (\E k \in Keys : Connect(c, k))
      PROVE  UNCHANGED timers
  BY <1>4 DEF Connect, Quit, ServerCloses, S!Close, S!BeginClose, S!Connect
<1>5. ASSUME NEW c \in Conns, SocketStep(c) PROVE UNCHANGED timers
  BY <1>5 DEF SocketStep, ReceiveNotice, ReceivePeerJoined, ReceiveDescription, ReceiveCandidate,
     QueueCandidate, Receive, S!Deliver, S!server, sig
<1>6. ASSUME NEW c \in Conns, RtcStep(c) \/ GenerateCandidate(c) \/ OnSend(c)
             \/ \E k \in Keys : OnSelectPeerIP(c, k)
      PROVE  UNCHANGED timers
  BY <1>6 DEF RtcStep, GenerateCandidate, OnSend, OnSelectPeerIP, ConnectToPeerIP, CreateOffer,
     CreateAnswer, SetLocalDescription, SetRemoteDescription, FlushPending, FlushEnd, sig
<1>7. Opens \/ (\E ch \in Channel : ChannelLost(ch)) \/ UNCHANGED vars => UNCHANGED timers
  BY DEF Opens, DidOpenDataChannel, ChannelLost, vars, sig
<1>. QED
  BY <1>1, <1>2, <1>4, <1>5, <1>6, <1>7 DEF Next, ServerStep

\* A channel is made by an app that is told of its peer, and only then.
LEMMA ChannelEvents ==
    ASSUME TInv, [Next]_vars, NEW x \in Conns
    PROVE  \/ channels'[x] = channels[x]
           \/ /\ ReceivePeerJoined(x) /\ client[x].isOfferer /\ channels'[x] = channels[x] + 1
<1>t. channels \in [Conns -> 0..MaxOffers]
  BY DEF TInv, ChannelsOK
<1>1. ASSUME NEW c \in Conns, ReceivePeerJoined(c)
      PROVE  \/ channels'[x] = channels[x]
             \/ c = x /\ client[x].isOfferer /\ channels'[x] = channels[x] + 1
  BY <1>1, <1>t DEF ReceivePeerJoined
<1>2. ASSUME NEW c \in Conns,
             ReceiveNotice(c) \/ ReceiveDescription(c) \/ ReceiveCandidate(c) \/ QueueCandidate(c)
             \/ RtcStep(c) \/ (\E k \in Keys : Connect(c, k) \/ ConnectToPeerIP(c, k)) \/ OnSend(c)
             \/ Quit(c) \/ GenerateCandidate(c) \/ ServerHandles(c) \/ ServerCloses(c)
      PROVE  UNCHANGED channels
  BY <1>2 DEF ReceiveNotice, ReceiveDescription, ReceiveCandidate, QueueCandidate, RtcStep,
     CreateOffer, CreateAnswer, SetLocalDescription, SetRemoteDescription, FlushPending, FlushEnd,
     Connect, ConnectToPeerIP, OnSend, Quit, GenerateCandidate, ServerHandles, ServerCloses, dc
<1>3. PeerJoinedTimer \/ Opens \/ (\E ch \in Channel : ChannelLost(ch)) \/ UNCHANGED vars
        => UNCHANGED channels
  BY DEF PeerJoinedTimer, Opens, DidOpenDataChannel, ChannelLost, vars, dc
<1>. QED
  BY <1>1, <1>2, <1>3 DEF Next, ServerStep, SocketStep, OnSelectPeerIP

\* The timer, the announcement and the channel of a leader follow each other: there is
\* never more than one of them.
LEMMA LeaderStep ==
    ASSUME Calm, [Next]_vars, leaves' = 0, NEW a \in Conns, NEW b \in Conns,
           pairPartner[a] = b, Leader(a)
    PROVE  Leader(a)'
<1>t. /\ wire[a] \in Seq(S!Msg) /\ timers \in Seq(Conns \X Conns)
      /\ channels[a] \in Nat /\ TInv
  BY BoundsAssumption DEF Calm, TInv, S!TypeOK, ChannelsOK
<1>1. CASE PeerJoinedTimer
  <2>1. timers # <<>> /\ timers' = Tail(timers)
    BY <1>1 DEF PeerJoinedTimer, S!PeerJoinedTimer
  <2>2. channels'[a] = channels[a]
    BY <1>1 DEF PeerJoinedTimer, dc
  <2>3. CASE Head(timers)[1] = a
    <3>1. 1 \in Armed(a) /\ \A i \in Armed(a)' : i \in Nat /\ i > 0 /\ i + 1 \in Armed(a)
      BY <1>t, <2>1, <2>3, ArmedFired
    <3>2. Armed(a)' = {} /\ Announced(a) = {} /\ channels[a] = 0
      <4>1. \A i \in Armed(a)' : i + 1 = 1
        BY <3>1 DEF Leader
      <4>2. Armed(a)' = {}
        BY <3>1, <4>1
      <4>. QED
        BY <3>1, <4>2 DEF Leader
    <3>3. wire'[a] = wire[a] \/ \E m : wire'[a] = Append(wire[a], m)
      BY <1>1, <2>3 DEF PeerJoinedTimer, S!PeerJoinedTimer, S!Sent, Calm, TInv, S!TypeOK
    <3>4. Announced(a)' \subseteq {Len(wire[a]) + 1}
      <4>1. CASE wire'[a] = wire[a]
        BY <3>2, <4>1 DEF Announced
      <4>2. ASSUME NEW m, wire'[a] = Append(wire[a], m)
            PROVE  Announced(a)' \subseteq {Len(wire[a]) + 1}
        BY <1>t, <3>2, <4>2, AnnouncedGrows
      <4>. QED
        BY <3>3, <4>1, <4>2
    <3>. QED
      BY <2>2, <3>2, <3>4 DEF Leader
  <2>4. CASE Head(timers)[1] # a
    <3>1. wire'[a] = wire[a]
      BY <1>1, <2>4 DEF PeerJoinedTimer, S!PeerJoinedTimer, S!Sent, Calm, TInv, S!TypeOK
    <3>2. \A i \in Armed(a)' : i \in Nat /\ i > 0 /\ i + 1 \in Armed(a)
      BY <1>t, <2>1, ArmedFired
    <3>3. \A i, j \in Armed(a)' : i = j
      BY <3>2 DEF Leader
    <3>4. Announced(a)' = Announced(a)
      BY <3>1 DEF Announced
    <3>. QED
      BY <2>2, <3>2, <3>3, <3>4 DEF Leader
  <2>. QED
    BY <2>3, <2>4
<1>2. CASE ReceivePeerJoined(a)
  <2>1. wire[a] # <<>> /\ wire'[a] = Tail(wire[a]) /\ Message(a).type = "peer_joined"
        /\ UNCHANGED timers
    BY <1>2 DEF ReceivePeerJoined, Receive, S!Deliver, S!server, Calm, TInv, S!TypeOK
  <2>2. 1 \in Announced(a) /\ \A i \in Announced(a)' : i \in Nat /\ i > 0 /\ i + 1 \in Announced(a)
    BY <1>t, <2>1, AnnouncedTaken
  <2>3. \A i \in Announced(a)' : i + 1 = 1
    BY <2>2 DEF Leader
  <2>4. Announced(a)' = {}
    BY <2>2, <2>3
  <2>5. Armed(a)' = {} /\ channels[a] = 0
    BY <2>1, <2>2 DEF Leader, Armed
  <2>6. channels'[a] <= 1
    BY <1>t, <2>5, ChannelEvents
  <2>. QED
    BY <2>4, <2>5, <2>6 DEF Leader
<1>3. CASE ~PeerJoinedTimer /\ ~ReceivePeerJoined(a)
  <2>1. channels'[a] = channels[a]
    BY <1>3, <1>t, ChannelEvents
  <2>2. timers' = timers \/ \E c, y \in Conns : c # a /\ timers' = Append(timers, <<c, y>>)
    BY <1>3, TimerEvents, NoneAssumption
  <2>3. Armed(a)' = Armed(a)
    <3>1. CASE timers' = timers
      BY <3>1 DEF Armed
    <3>2. ASSUME NEW c \in Conns, NEW y \in Conns, c # a, timers' = Append(timers, <<c, y>>)
          PROVE  Armed(a)' = Armed(a)
      <4>1. Armed(a)' = Armed(a) \cup (IF c = a THEN {Len(timers) + 1} ELSE {})
        BY <1>t, <3>2, ArmedSet
      <4>. QED
        BY <3>2, <4>1
    <3>. QED
      BY <2>2, <3>1, <3>2
  <2>4. ~(timers # <<>> /\ timers' = Tail(timers))
    <3>1. timers # <<>> => Len(Tail(timers)) # Len(timers)
      BY <1>t
    <3>2. \A c, y \in Conns : Len(Append(timers, <<c, y>>)) = Len(timers) + 1
      BY <1>t
    <3>3. timers # <<>> => Len(Tail(timers)) = Len(timers) - 1 /\ Len(timers) \in Nat
      BY <1>t
    <3>. QED
      BY <2>2, <3>1, <3>2, <3>3
  <2>5. /\ \A i, j \in Announced(a)' : i = j
        /\ Announced(a) = {} => Announced(a)' = {}
    <3>1. CASE wire'[a] = wire[a]
      BY <3>1 DEF Announced, Leader
    <3>2. CASE wire[a] # <<>> /\ wire'[a] = Tail(wire[a])
      <4>1. \A i \in Announced(a)' : i \in Nat /\ i > 0 /\ i + 1 \in Announced(a)
        BY <1>t, <3>2, AnnouncedTaken
      <4>. QED
        BY <4>1 DEF Leader
    <3>3. ASSUME NEW m \in S!Msg, wire'[a] = Append(wire[a], m), Reason(a, m)
          PROVE  Announced(a)' = Announced(a)
      <4>1. m.type # "peer_joined"
        BY <2>4, <3>3 DEF Reason
      <4>. QED
        BY <1>t, <3>3, <4>1, AnnouncedGrows
    <3>. QED
      BY <3>1, <3>2, <3>3, WireEvents DEF WireEvent, Leader
  <2>. QED
    BY <2>1, <2>3, <2>5 DEF Leader
<1>. QED
  BY <1>1, <1>2, <1>3

\* An app takes its role from the server's messages, and from nothing else.
LEMMA ClientEvents ==
    ASSUME Calm, [Next]_vars, leaves' = 0, NEW x \in Conns
    PROVE  \/ client'[x].isOfferer = client[x].isOfferer
           \/ /\ wire[x] # <<>> /\ Message(x).type = "role"
              /\ client'[x].isOfferer = (Message(x).role = "offerer")
<1>t. client \in [Conns -> S!Client]
  BY DEF Calm, TInv, S!TypeOK
<1>1. ASSUME NEW c \in Conns, Receive(c)
      PROVE  \/ client'[x].isOfferer = client[x].isOfferer
             \/ /\ wire[x] # <<>> /\ Message(x).type = "role"
                /\ client'[x].isOfferer = (Message(x).role = "offerer")
  <2>1. wire[c] # <<>> /\ client' = [client EXCEPT ![c] = S!ReceiveSignal(@, Message(c))]
    BY <1>1 DEF Receive, S!Deliver, Message
  <2>2. CASE c # x
    BY <1>t, <2>1, <2>2
  <2>3. CASE c = x
    <3>1. client'[x] = S!ReceiveSignal(client[x], Message(x))
      BY <1>t, <2>1, <2>3
    <3>2. client'[x].isOfferer = IF Message(x).type = "role" THEN Message(x).role = "offerer"
                                                              ELSE client[x].isOfferer
      BY <3>1 DEF S!ReceiveSignal
    <3>. QED
      BY <2>1, <2>3, <3>2
  <2>. QED
    BY <2>2, <2>3
<1>2. ASSUME NEW c \in Conns, SocketStep(c) PROVE Receive(c) \/ UNCHANGED client
  BY <1>2 DEF SocketStep, ReceiveNotice, ReceivePeerJoined, ReceiveDescription, ReceiveCandidate,
     QueueCandidate, sig
<1>3. ASSUME NEW c \in Conns, ServerHandles(c) \/ \E k \in Keys : Connect(c, k)
      PROVE  UNCHANGED client
  BY <1>3 DEF ServerHandles, Connect, S!Connect, S!Relay, S!PairRequest, S!PairTargetNotFound,
     S!PairBusy, S!Pair
<1>4. ASSUME NEW c \in Conns, Quit(c) \/ ServerCloses(c) PROVE FALSE
  BY <1>4 DEF Calm, Quit, ServerCloses, S!Close
<1>6. ASSUME NEW c \in Conns, RtcStep(c) \/ GenerateCandidate(c) \/ OnSend(c)
             \/ \E k \in Keys : OnSelectPeerIP(c, k)
      PROVE  UNCHANGED client
  BY <1>6 DEF RtcStep, GenerateCandidate, OnSend, OnSelectPeerIP, ConnectToPeerIP, CreateOffer,
     CreateAnswer, SetLocalDescription, SetRemoteDescription, FlushPending, FlushEnd, sig
<1>7. PeerJoinedTimer \/ Opens \/ (\E ch \in Channel : ChannelLost(ch)) \/ UNCHANGED vars
        => UNCHANGED client
  BY DEF PeerJoinedTimer, S!PeerJoinedTimer, Opens, DidOpenDataChannel, ChannelLost, vars, sig
<1>. QED
  BY <1>1, <1>2, <1>3, <1>4, <1>6, <1>7 DEF Next, ServerStep

\* A follower has read, and is sent, no role but answerer, so it asks for no offer.
LEMMA FollowerStep ==
    ASSUME Calm, [Next]_vars, leaves' = 0, NEW b \in Conns, NEW a \in Conns,
           pairPartner[b] = a, Follower(b)
    PROVE  Follower(b)'
<1>t. wire[b] \in Seq(S!Msg) /\ TInv
  BY DEF Calm, TInv, S!TypeOK
<1>h. wire[b] # <<>> => Message(b) \in In(wire[b])
  BY <1>t, InSeq DEF Message
<1>1. \A m \in In(wire'[b]) : m.type = "role" => m.role = "answerer"
  <2>1. CASE wire'[b] = wire[b]
    BY <2>1 DEF Follower
  <2>2. CASE wire[b] # <<>> /\ wire'[b] = Tail(wire[b])
    <3>1. In(wire'[b]) \subseteq In(wire[b])
      BY <1>t, <2>2, InSeq
    <3>. QED
      BY <3>1 DEF Follower
  <2>3. ASSUME NEW m \in S!Msg, wire'[b] = Append(wire[b], m), Reason(b, m)
        PROVE  \A n \in In(wire'[b]) : n.type = "role" => n.role = "answerer"
    <3>1. In(wire'[b]) = In(wire[b]) \cup {m}
      BY <1>t, <2>3, InAppend
    <3>2. m.type # "role"
      BY <2>3, NoneAssumption DEF Reason
    <3>. QED
      BY <3>1, <3>2 DEF Follower
  <2>. QED
    BY <2>1, <2>2, <2>3, WireEvents DEF WireEvent
<1>2. ~client'[b].isOfferer
  BY <1>h, ClientEvents DEF Follower
<1>3. \A o \in In(ops'[b]) : o.op # "createOffer"
  <2>1. CASE In(ops'[b]) \subseteq In(ops[b])
    BY <2>1 DEF Follower
  <2>2. ASSUME NEW o \in Op, In(ops'[b]) \subseteq In(ops[b]) \cup {o}, Asked(b, o)
        PROVE  \A n \in In(ops'[b]) : n.op # "createOffer"
    <3>1. o.op # "createOffer"
      BY <2>2 DEF Asked, SetLocal, Follower
    <3>. QED
      BY <2>2, <3>1 DEF Follower
  <2>. QED
    BY <1>t, <2>1, <2>2, OpsEvents
<1>. QED
  BY <1>1, <1>2, <1>3 DEF Follower

\* One side of a session is kept by every step.
LEMMA SideStep ==
    ASSUME Calm, [Next]_vars, leaves' = 0, NEW x \in Conns, NEW y \in Conns, NEW d, NEW e,
           Side(x, y, d, e), Side(y, x, e, d), Leads(x, y, d, e) \/ Follows(x, y, d, e)
    PROVE  Side(x, y, d, e)'
<1>1. TInv
  BY DEF Calm
<1>2. e.by = y /\ e.kind # "candidate"
  BY DEF Leads, Follows, TheOffer, TheAnswer
<1>3. pairPartner'[x] = y
  BY PartnerKept DEF Side
<1>4. UpSide(x, d)'
  BY <1>1, UpSideStep DEF Side
<1>5. WireSide(x, y, e)'
  BY WireSideStep DEF Side
<1>6. OpsSide(x, d, e)'
  BY <1>1, OpsSideStep DEF Side
<1>7. SdpSide(x, d, e)'
  BY <1>1, SdpSideStep DEF Side
<1>8. IceSide(x, y)'
  BY <1>1, <1>2, IceSideStep DEF Side
<1>. QED
  BY <1>3, <1>4, <1>5, <1>6, <1>7, <1>8 DEF Side

\* A session is kept by every step.
LEMMA LeadKept ==
    ASSUME Calm, [Next]_vars, leaves' = 0, NEW a \in Conns, NEW b \in Conns, Lead(a, b)
    PROVE  Lead(a, b)'
<1>1. PICK d, e : d = TheOffer(a) /\ e = TheAnswer(b)
  OBVIOUS
<1>2. Side(a, b, d, e) /\ Side(b, a, e, d) /\ Leads(a, b, d, e) /\ Follows(b, a, e, d)
  BY <1>1 DEF Lead, Leads, Follows
<1>3. Side(a, b, d, e)' /\ Side(b, a, e, d)'
  BY <1>2, SideStep
<1>4. Leader(a)' /\ Follower(b)'
  BY LeaderStep, FollowerStep DEF Lead, Side
<1>5. Side(a, b, TheOffer(a), TheAnswer(b))' /\ Side(b, a, TheAnswer(b), TheOffer(a))'
  BY <1>1, <1>3 DEF TheOffer, TheAnswer
<1>. QED
  BY <1>4, <1>5 DEF Lead
-----------------------------------------------------------------------------
(* Sessions begin between apps that have not begun to negotiate.           *)

\* The peer connection of an app that has not begun is left alone.
LEMMA FreeIdle ==
    ASSUME Calm, [Next]_vars, leaves' = 0, NEW c \in Conns, Free(c)
    PROVE  /\ ops'[c] = <<>> /\ completion'[c] = "idle" /\ signalingState'[c] = "stable"
           /\ localDescription'[c] = None /\ remoteDescription'[c] = None
           /\ ~hasRemoteDescription'[c] /\ channels'[c] = 0
           /\ pendingCandidates'[c] = <<>> /\ queueing'[c] = None /\ early'[c] = {}
<1>. DEFINE Idle == /\ ops'[c] = <<>> /\ completion'[c] = "idle" /\ signalingState'[c] = "stable"
                    /\ localDescription'[c] = None /\ remoteDescription'[c] = None
                    /\ ~hasRemoteDescription'[c] /\ channels'[c] = 0
                    /\ pendingCandidates'[c] = <<>> /\ queueing'[c] = None /\ early'[c] = {}
<1>. SUFFICES Idle
  OBVIOUS
<1>t. IceOK /\ OpsOK /\ ChannelsOK /\ wire[c] \in Seq(S!Msg)
  BY DEF Calm, TInv, S!TypeOK
<1>u. (/\ ops'[c] = ops[c] /\ completion'[c] = completion[c] /\ signalingState'[c] = signalingState[c]
       /\ localDescription'[c] = localDescription[c] /\ remoteDescription'[c] = remoteDescription[c]
       /\ hasRemoteDescription'[c] = hasRemoteDescription[c] /\ channels'[c] = channels[c]
       /\ pendingCandidates'[c] = pendingCandidates[c] /\ queueing'[c] = queueing[c]
       /\ early'[c] = early[c]) => Idle
  BY DEF Free
<1>. HIDE DEF Idle
<1>1. ReceivePeerJoined(c) \/ ReceiveDescription(c) \/ ReceiveCandidate(c) => FALSE
  <2>. SUFFICES ASSUME ReceivePeerJoined(c) \/ ReceiveDescription(c) \/ ReceiveCandidate(c)
                PROVE  FALSE
    OBVIOUS
  <2>1. wire[c] # <<>> /\ Message(c).type \in {"peer_joined", "signal"}
    BY DEF ReceivePeerJoined, ReceiveDescription, ReceiveCandidate, Receive, S!Deliver, Signal
  <2>2. Message(c) \in In(wire[c])
    BY <1>t, <2>1, InSeq DEF Message
  <2>. QED
    BY <2>1, <2>2 DEF Free
<1>2. QueueCandidate(c) \/ RtcStep(c) => FALSE
  BY DEF QueueCandidate, RtcStep, CreateOffer, CreateAnswer, SetLocalDescription,
     SetRemoteDescription, FlushPending, FlushEnd, NextOp, Free
<1>3. ASSUME NEW x \in Conns, x # c, SocketStep(x) PROVE Idle
  <2>1. CASE ReceivePeerJoined(x)
    BY <1>3, <1>t, <1>u, <2>1 DEF ReceivePeerJoined, OpsOK, ChannelsOK, ice, sdp
  <2>2. CASE ReceiveDescription(x)
    BY <1>3, <1>t, <1>u, <2>2 DEF ReceiveDescription, OpsOK, ice, sdp, dc
  <2>3. CASE ReceiveCandidate(x)
    BY <1>3, <1>t, <1>u, <2>3 DEF ReceiveCandidate, AddIceCandidates, IceOK, sdp, dc
  <2>4. CASE QueueCandidate(x)
    BY <1>3, <1>t, <1>u, <2>4 DEF QueueCandidate, IceOK, sdp, dc
  <2>5. CASE ReceiveNotice(x)
    BY <1>u, <2>5 DEF ReceiveNotice, ice, sdp, dc
  <2>. QED
    BY <1>3, <2>1, <2>2, <2>3, <2>4, <2>5 DEF SocketStep
<1>4. ASSUME NEW x \in Conns, x # c, RtcStep(x) PROVE Idle
  <2>1. CASE CreateOffer(x) \/ CreateAnswer(x)
    BY <1>4, <1>t, <1>u, <2>1 DEF CreateOffer, CreateAnswer, Then, OpsOK, ice, sdp, dc
  <2>2. CASE SetLocalDescription(x) \/ SetRemoteDescription(x)
    BY <1>4, <1>t, <1>u, <2>2 DEF SetLocalDescription, SetRemoteDescription, Then, OpsOK, ice, dc
  <2>3. CASE FlushPending(x)
    BY <1>4, <1>t, <1>u, <2>3 DEF FlushPending, AddIceCandidates, IceOK, OpsOK, sdp, dc
  <2>4. CASE FlushEnd(x)
    BY <1>4, <1>t, <1>u, <2>4 DEF FlushEnd, IceOK, OpsOK, sdp, dc
  <2>. QED
    BY <1>4, <2>1, <2>2, <2>3, <2>4 DEF RtcStep
<1>5. ASSUME NEW x \in Conns,
             ReceiveNotice(x) \/ (\E k \in Keys : Connect(x, k) \/ ConnectToPeerIP(x, k))
             \/ OnSend(x) \/ Quit(x) \/ GenerateCandidate(x) \/ ServerHandles(x)
             \/ ServerCloses(x)
      PROVE  UNCHANGED <<ice, ops, completion, sdp, channels>>
  BY <1>5 DEF ReceiveNotice, Connect, ConnectToPeerIP, OnSend, Quit, GenerateCandidate,
     ServerHandles, ServerCloses, dc
<1>6. PeerJoinedTimer \/ Opens \/ (\E ch \in Channel : ChannelLost(ch)) \/ UNCHANGED vars
        => UNCHANGED <<ice, ops, completion, sdp, channels>>
  BY DEF PeerJoinedTimer, Opens, DidOpenDataChannel, ChannelLost, vars, dc
<1>7. UNCHANGED <<ice, ops, completion, sdp, channels>> => Idle
  BY <1>u DEF ice, sdp
<1>8. SocketStep(c) => ReceiveNotice(c)
  BY <1>1, <1>2 DEF SocketStep
<1>. QED
  BY <1>2, <1>3, <1>4, <1>5, <1>6, <1>7, <1>8 DEF Next, ServerStep, OnSelectPeerIP

\* An app stays as it was until it gets a partner.
LEMMA FreeKept ==
    ASSUME Calm, [Next]_vars, leaves' = 0, NEW c \in Conns, Free(c), pairPartner[c] = None,
           pairPartner'[c] = None
    PROVE  Free(c)'
<1>t. /\ wire[c] \in Seq(S!Msg) /\ timers \in Seq(Conns \X Conns) /\ TInv
  BY DEF Calm, TInv, S!TypeOK
<1>1. \A m \in In(up'[c]) : m.kind = "pair_request"
  BY <1>t, UpEvents DEF Free
<1>2. \A m \in In(wire'[c]) : m.type \notin {"role", "peer_joined", "signal"}
  <2>1. CASE wire'[c] = wire[c]
    BY <2>1 DEF Free
  <2>2. CASE wire[c] # <<>> /\ wire'[c] = Tail(wire[c])
    <3>1. In(wire'[c]) \subseteq In(wire[c])
      BY <1>t, <2>2, InSeq
    <3>. QED
      BY <3>1 DEF Free
  <2>3. ASSUME NEW m \in S!Msg, wire'[c] = Append(wire[c], m), Reason(c, m)
        PROVE  \A n \in In(wire'[c]) : n.type \notin {"role", "peer_joined", "signal"}
    <3>1. In(wire'[c]) = In(wire[c]) \cup {m}
      BY <1>t, <2>3, InAppend
    <3>2. ~(timers # <<>> /\ c = Head(timers)[1] /\ timers' = Tail(timers))
      BY <1>t, ArmedFired DEF Free
    <3>3. \A z \in Conns : pairPartner[z] # c
      BY NoneAssumption DEF Calm, W!IInv, W!PairingSymmetric
    <3>4. m.type \notin {"role", "peer_joined", "signal"}
      BY <2>3, <3>2, <3>3 DEF Reason
    <3>. QED
      BY <3>1, <3>4 DEF Free
  <2>. QED
    BY <2>1, <2>2, <2>3, WireEvents DEF WireEvent
<1>3. ~client'[c].isOfferer
  <2>1. wire[c] # <<>> => Message(c) \in In(wire[c])
    BY <1>t, InSeq DEF Message
  <2>. QED
    BY <2>1, ClientEvents DEF Free
<1>4. Armed(c)' = {}
  <2>1. CASE timers' = timers
    BY <2>1 DEF Free, Armed
  <2>2. CASE PeerJoinedTimer
    <3>1. timers # <<>> /\ timers' = Tail(timers)
      BY <2>2 DEF PeerJoinedTimer, S!PeerJoinedTimer
    <3>. QED
      BY <1>t, <3>1, ArmedFired DEF Free
  <2>3. ASSUME NEW x \in Conns, NEW y \in Conns, timers' = Append(timers, <<x, y>>),
               pairPartner'[x] = y
        PROVE  Armed(c)' = {}
    <3>1. x # c
      BY <2>3, NoneAssumption
    <3>2. Armed(c)' = Armed(c) \cup (IF x = c THEN {Len(timers) + 1} ELSE {})
      BY <1>t, <2>3, ArmedSet
    <3>. QED
      BY <3>1, <3>2 DEF Free
  <2>. QED
    BY <2>1, <2>2, <2>3, TimerEvents
<1>. QED
  BY <1>1, <1>2, <1>3, <1>4, FreeIdle DEF Free

\* What a side looks like before its first message.
LEMMA FreshSide ==
    ASSUME Calm, [Next]_vars, leaves' = 0, NEW x \in Conns, NEW y \in Conns, NEW d, NEW e,
           Free(x), pairPartner'[x] = y, \A m \in In(wire'[x]) : m.type # "signal"
    PROVE  Side(x, y, d, e)'
<1>1. \A m \in In(up'[x]) : m.kind = "pair_request"
  BY UpEvents DEF Free, Calm
<1>2. UpSide(x, d)' /\ WireSide(x, y, e)'
  BY <1>1 DEF UpSide, WireSide
<1>3. /\ ops'[x] = <<>> /\ completion'[x] = "idle" /\ signalingState'[x] = "stable"
      /\ localDescription'[x] = None /\ remoteDescription'[x] = None
      /\ ~hasRemoteDescription'[x]
      /\ pendingCandidates'[x] = <<>> /\ queueing'[x] = None /\ early'[x] = {}
  BY FreeIdle
<1>4. OpsSide(x, d, e)' /\ SdpSide(x, d, e)' /\ IceSide(x, y)'
  BY <1>3, InEmpty DEF OpsSide, SdpSide, IceSide
<1>. QED
  BY <1>2, <1>4 DEF Side

\* An accepted pair_request begins a session, which the requester leads.
LEMMA PairLeads ==
    ASSUME Calm, [Next]_vars, leaves' = 0, NEW c \in Conns, NEW t \in Keys, ServerHandles(c),
           S!Pair(c, t), \A x \in Conns : pairPartner[x] = None => Free(x)
    PROVE  \E y \in Conns \ {c} : /\ pairPartner' = [pairPartner EXCEPT ![c] = y, ![y] = c]
                                  /\ Lead(c, y)'
<1>1. PICK y \in Conns \ {c} :
         /\ pairPartner[c] = None /\ pairPartner[y] = None
         /\ pairPartner' = [pairPartner EXCEPT ![c] = y, ![y] = c]
         /\ timers' = Append(timers, <<c, y>>)
         /\ wire' = S!Sent(S!Sent(wire, c, S!OffererMsg(c, y)), y, S!AnswererMsg(y, c))
         /\ UNCHANGED <<client, ice, ops, completion, sdp, channels>>
  BY PairEvent
<1>t. /\ wire \in [Conns -> Seq(S!Msg)] /\ timers \in Seq(Conns \X Conns) /\ S!TypeOK
      /\ pairPartner \in [Conns -> Conns \cup {None}]
  BY DEF Calm, TInv, S!TypeOK, S!ConnsOrNone
<1>2. Free(c) /\ Free(y) /\ pairPartner'[c] = y /\ pairPartner'[y] = c
  BY <1>1, <1>t
<1>3. PICK m \in S!Msg : m = S!OffererMsg(c, y) /\ m.type = "role"
  BY <1>t, MessagesTyped DEF S!OffererMsg
<1>4. PICK n \in S!Msg : n = S!AnswererMsg(y, c) /\ n.type = "role" /\ n.role = "answerer"
  BY <1>t, MessagesTyped DEF S!AnswererMsg
<1>5. /\ wire'[c] = wire[c] \/ wire'[c] = Append(wire[c], m)
      /\ wire'[y] = wire[y] \/ wire'[y] = Append(wire[y], n)
  BY <1>1, <1>t, <1>3, <1>4 DEF S!Sent
<1>6. In(wire'[c]) \subseteq In(wire[c]) \cup {m} /\ In(wire'[y]) \subseteq In(wire[y]) \cup {n}
  BY <1>5, <1>t, InAppend
<1>7. \A d, e : Side(c, y, d, e)' /\ Side(y, c, d, e)'
  <2>1. \A z \in In(wire'[c]) \cup In(wire'[y]) : z.type # "signal"
    BY <1>2, <1>3, <1>4, <1>6 DEF Free
  <2>. QED
    BY <1>2, <2>1, FreshSide
<1>8. Leader(c)'
  <2>1. Armed(c)' = {Len(timers) + 1}
    <3>1. Armed(c)' = Armed(c) \cup (IF c = c THEN {Len(timers) + 1} ELSE {})
      BY <1>1, <1>t, ArmedSet
    <3>. QED
      BY <1>2, <3>1 DEF Free
  <2>2. Announced(c) = {}
    BY <1>2 DEF Free, Announced, In
  <2>3. Announced(c)' = {}
    <3>1. CASE wire'[c] = wire[c]
      BY <2>2, <3>1 DEF Announced
    <3>2. CASE wire'[c] = Append(wire[c], m)
      <4>1. Announced(c)' = Announced(c) \cup
                             (IF m.type = "peer_joined" THEN {Len(wire[c]) + 1} ELSE {})
        BY <1>t, <3>2, AnnouncedGrows
      <4>. QED
        BY <1>3, <2>2, <4>1
    <3>. QED
      BY <1>5, <3>1, <3>2
  <2>4. channels'[c] = 0
    BY <1>1, <1>2 DEF Free
  <2>. QED
    BY <2>1, <2>3, <2>4 DEF Leader
<1>9. Follower(y)'
  <2>1. \A z \in In(wire'[y]) : z.type = "role" => z.role = "answerer"
    BY <1>2, <1>4, <1>6 DEF Free
  <2>2. ~client'[y].isOfferer /\ ops'[y] = <<>>
    BY <1>1, <1>2 DEF Free
  <2>. QED
    BY <2>1, <2>2, InEmpty DEF Follower
<1>10. Lead(c, y)'
  <2>1. PICK d, e : d = TheOffer(c) /\ e = TheAnswer(y)
    OBVIOUS
  <2>2. Side(c, y, d, e)' /\ Side(y, c, e, d)'
    BY <1>7
  <2>3. Side(c, y, TheOffer(c), TheAnswer(y))' /\ Side(y, c, TheAnswer(y), TheOffer(c))'
    BY <2>1, <2>2 DEF TheOffer, TheAnswer
  <2>. QED
    BY <1>8, <1>9, <2>3 DEF Lead
<1>. QED
  BY <1>1, <1>10

\* No socket closes before an app quits.
LEMMA OpenKept ==
    ASSUME Calm, [Next]_vars, leaves' = 0, NEW x \in Conns
    PROVE  readyState'[x] \in {"NEW", "OPEN"}
<1>t. readyState \in [Conns -> {"NEW", "OPEN", "CLOSING", "CLOSED"}]
  BY DEF Calm, TInv, S!TypeOK
<1>1. ASSUME NEW c \in Conns, NEW k \in Keys, Connect(c, k) PROVE readyState'[x] \in {"NEW", "OPEN"}
  BY <1>1, <1>t DEF Connect, S!Connect, Calm
<1>2. ASSUME NEW c \in Conns, Quit(c) \/ ServerCloses(c) PROVE FALSE
  BY <1>2 DEF Calm, Quit, ServerCloses, S!Close
<1>3. ASSUME NEW c \in Conns, SocketStep(c) \/ ServerHandles(c) PROVE UNCHANGED readyState
  BY <1>3 DEF SocketStep, ReceiveNotice, ReceivePeerJoined, ReceiveDescription, ReceiveCandidate,
     QueueCandidate, Receive, S!Deliver, S!server, sig, ServerHandles, S!Relay, S!PairRequest,
     S!PairTargetNotFound, S!PairBusy, S!Pair
<1>4. ASSUME NEW c \in Conns, RtcStep(c) \/ GenerateCandidate(c) \/ OnSend(c)
             \/ \E k \in Keys : OnSelectPeerIP(c, k)
      PROVE  UNCHANGED readyState
  BY <1>4 DEF RtcStep, GenerateCandidate, OnSend, OnSelectPeerIP, ConnectToPeerIP, CreateOffer,
     CreateAnswer, SetLocalDescription, SetRemoteDescription, FlushPending, FlushEnd, sig
<1>5. PeerJoinedTimer \/ Opens \/ (\E ch \in Channel : ChannelLost(ch)) \/ UNCHANGED vars
        => UNCHANGED readyState
  BY DEF PeerJoinedTimer, S!PeerJoinedTimer, Opens, DidOpenDataChannel, ChannelLost, vars, sig
<1>6. UNCHANGED readyState => readyState'[x] \in {"NEW", "OPEN"}
  BY DEF Calm
<1>. QED
  BY <1>1, <1>2, <1>3, <1>4, <1>5, <1>6 DEF Next, ServerStep

\* The number of apps that have quit never falls.
LEMMA LeavesKept == TInv /\ [Next]_vars /\ leaves' = 0 => leaves = 0
<1>. SUFFICES ASSUME TInv, [Next]_vars, leaves' = 0 PROVE leaves = 0
  OBVIOUS
<1>t. leaves \in Nat
  BY BoundsAssumption DEF TInv, CountersOK
<1>1. ASSUME NEW c \in Conns, Quit(c) PROVE FALSE
  BY <1>1, <1>t DEF Quit
<1>2. ASSUME NEW c \in Conns,
             SocketStep(c) \/ RtcStep(c) \/ (\E k \in Keys : Connect(c, k) \/ ConnectToPeerIP(c, k))
             \/ OnSend(c) \/ GenerateCandidate(c) \/ ServerHandles(c) \/ ServerCloses(c)
      PROVE  UNCHANGED leaves
  BY <1>2 DEF SocketStep, ReceiveNotice, ReceivePeerJoined, ReceiveDescription, ReceiveCandidate,
     QueueCandidate, RtcStep, CreateOffer, CreateAnswer, SetLocalDescription,
     SetRemoteDescription, FlushPending, FlushEnd, Connect, ConnectToPeerIP, OnSend,
     GenerateCandidate, ServerHandles, ServerCloses
<1>3. PeerJoinedTimer \/ Opens \/ (\E ch \in Channel : ChannelLost(ch)) \/ UNCHANGED vars
        => UNCHANGED leaves
  BY DEF PeerJoinedTimer, Opens, DidOpenDataChannel, ChannelLost, vars
<1>. QED
  BY <1>1, <1>2, <1>3 DEF Next, ServerStep, OnSelectPeerIP

\* PInv is inductive relative to the types and the server's invariant.
LEMMA SessionsStep == TInv /\ W!IInv /\ PInv /\ [Next]_vars => PInv'
<1>. SUFFICES ASSUME TInv, W!IInv, PInv, [Next]_vars, leaves' = 0
              PROVE  /\ \A c \in Conns : readyState'[c] \in {"NEW", "OPEN"}
                     /\ \A c \in Conns : pairPartner'[c] = None => Free(c)'
                     /\ \A a, b \in Conns : pairPartner'[a] = b => Lead(a, b)' \/ Lead(b, a)'
  BY Zenon DEF PInv
<1>c. Calm /\ leaves = 0
  BY LeavesKept DEF Calm, PInv
<1>t. pairPartner \in [Conns -> Conns \cup {None}]
  BY DEF TInv, S!TypeOK, S!ConnsOrNone
<1>f. \A c \in Conns : pairPartner[c] = None => Free(c)
  BY <1>c DEF PInv
<1>1. \A c \in Conns : readyState'[c] \in {"NEW", "OPEN"}
  BY <1>c, OpenKept
<1>2. ASSUME NEW c \in Conns, pairPartner'[c] = None PROVE Free(c)'
  <2>1. pairPartner[c] = None
    BY <1>2, <1>c, <1>t, PartnerKept, NoneAssumption
  <2>. QED
    BY <1>2, <1>c, <1>f, <2>1, FreeKept
<1>3. ASSUME NEW a \in Conns, NEW b \in Conns, pairPartner'[a] = b
      PROVE  Lead(a, b)' \/ Lead(b, a)'
  <2>1. CASE pairPartner[a] = b
    <3>1. Lead(a, b) \/ Lead(b, a)
      BY <1>c, <2>1 DEF PInv
    <3>. QED
      BY <1>c, <3>1, LeadKept
  <2>2. CASE pairPartner[a] # b
    <3>1. PICK c \in Conns, t \in Keys : ServerHandles(c) /\ S!Pair(c, t)
      BY <1>3, <1>c, <2>2, PartnerEvents
    <3>2. PICK y \in Conns \ {c} : /\ pairPartner' = [pairPartner EXCEPT ![c] = y, ![y] = c]
                                   /\ Lead(c, y)'
      BY <1>c, <1>f, <3>1, PairLeads
    <3>3. (a = c /\ b = y) \/ (a = y /\ b = c)
      BY <1>3, <1>t, <2>2, <3>2
    <3>. QED
      BY <3>2, <3>3
  <2>. QED
    BY <2>1, <2>2
<1>. QED
  BY <1>1, <1>2, <1>3

\* At the start nobody has begun to negotiate.
LEMMA SessionsInit == Init => PInv
<1>. SUFFICES ASSUME Init PROVE PInv
  OBVIOUS
<1>1. S!Init
  BY DEF Init
<1>2. \A c \in Conns : readyState[c] = "NEW" /\ pairPartner[c] = None /\ wire[c] = <<>>
                       /\ ~client[c].isOfferer /\ timers = <<>>
  BY <1>1 DEF S!Init, S!NewClient
<1>3. \A c \in Conns : Armed(c) = {}
  <2>1. Len(timers) = 0
    BY <1>1 DEF S!Init
  <2>. QED
    BY <2>1 DEF Armed
<1>4. \A c \in Conns : Free(c)
  BY <1>2, <1>3, InEmpty DEF Free, Init
<1>. QED
  BY <1>2, <1>4, NoneAssumption DEF PInv

\* The invariant, in every state.
LEMMA SessionsHold == Spec => [](TInv /\ W!IInv /\ PInv)
  BY TypesInit, TypesStep, SessionsInit, SessionsStep, PTL DEF Spec
-----------------------------------------------------------------------------
(* What follows for the candidates and the descriptions.                   *)

\* Until an app quits, no candidate is given to a peer connection without its
\* description, in any order of the two threads of receiveSignal and of the completion
\* handler, and for any number of apps, candidates and calls.
THEOREM CandidatesWait == Spec => [](leaves = 0 => NoEarlyCandidate)
<1>1. TInv /\ PInv => (leaves = 0 => NoEarlyCandidate)
  <2>. SUFFICES ASSUME TInv, PInv, leaves = 0, NEW c \in Conns PROVE early[c] = {}
    BY DEF NoEarlyCandidate
  <2>1. CASE pairPartner[c] = None
    BY <2>1 DEF PInv, Free
  <2>2. CASE pairPartner[c] # None
    <3>1. PICK b \in Conns : pairPartner[c] = b
      BY <2>2 DEF TInv, S!TypeOK, S!ConnsOrNone
    <3>2. Lead(c, b) \/ Lead(b, c)
      BY <3>1 DEF PInv
    <3>. QED
      BY <3>2 DEF Lead, Side, IceSide
  <2>. QED
    BY <2>1, <2>2
<1>. QED
  BY <1>1, SessionsHold, PTL

\* Until an app quits, two partners with nothing left to do hold each other's
\* description: the answer one has is the answer the other made to its only offer.
THEOREM DescriptionsMatch == Spec => [](leaves = 0 => DescriptionsAgree)
<1>1. TInv /\ PInv => (leaves = 0 => DescriptionsAgree)
  <2>. SUFFICES ASSUME TInv, PInv, leaves = 0, NEW a \in Conns, NEW b \in Conns,
                       pairPartner[a] = b, Settled(a), Settled(b)
                PROVE  remoteDescription[a] = localDescription[b]
    BY DEF DescriptionsAgree
  <2>1. Lead(a, b) \/ Lead(b, a)
    BY DEF PInv
  <2>2. PICK d, e : Side(a, b, d, e) /\ Side(b, a, e, d)
    BY <2>1 DEF Lead
  <2>3. remoteDescription[a] = e
    BY <2>2 DEF Side, SdpSide, Settled
  <2>4. localDescription[b] = e
    BY <2>2 DEF Side, SdpSide, Settled
  <2>. QED
    BY <2>3, <2>4
<1>. QED
  BY <1>1, SessionsHold, PTL
=============================================================================
