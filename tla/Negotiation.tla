---------------------------- MODULE Negotiation ----------------------------
(***************************************************************************)
(* How two apps get from a pair_request to an open data channel: the       *)
(* negotiation of RTCClient.m, composed with SignalingServer, through      *)
(* which its offers, answers and candidates travel.                        *)
(*                                                                         *)
(* In each app the WebSocket's delegate queue runs receiveSignal, one      *)
(* message at a time, while WebRTC runs the operations asked of the peer   *)
(* connection, and their completion handlers, on a thread of its own.  The *)
(* two meet in hasRemoteDescription and pendingCandidates, without a lock: *)
(* the candidate branch tests the one and then appends to the other, the   *)
(* completion handler sets the one, goes through the other and empties it. *)
(* Both are cut between those steps.                                       *)
(*                                                                         *)
(* The peer connection is external: it runs its operations in order, and   *)
(* refuses a description in the wrong signaling state (implicit rollback   *)
(* is off).  There is one for the life of an app.  Of the container, the   *)
(* choice of a peer and the send that follows the opening are here.        *)
(* list_peers is left out: it changes nothing the negotiation reads.       *)
(***************************************************************************)
EXTENDS Naturals, Sequences

CONSTANTS Conns, Keys, None, MaxRequests,     \* as in SignalingServer
          Callers,         \* the connections whose user picks a peer
          MaxCalls,        \* bound: calls made by all users
          MaxCandidates,   \* bound: candidates gathered by one app
          MaxOffers,       \* bound: offers made by one app
          MaxLeaves        \* bound: apps that quit

VARIABLES
    readyState, clientIP, pairPartner, clientsByIP, timers, wire, client, requests,
    up,                    \* sent by each app and not yet handled by the server
    \* RTCClient
    hasRemoteDescription, pendingCandidates,
    dataChannel,           \* None, or the channel RTCClient uses
    pendingPeerIP,         \* of the container: the peer picked, None iff not pendingAutoSend
    queueing,              \* None, or the candidate the socket's queue is about to append
    \* the peer connection
    ops,                   \* operations asked for and not yet run
    completion,            \* the handler of setRemoteDescription: idle, due or flushed
    signalingState, localDescription, remoteDescription,
    iceCandidates,         \* the remote candidates it was given
    gathered,              \* how many local candidates it has reported
    channels,              \* how many data channels it was asked to create
    opened,                \* the channels that are open
    \* history and bounds
    early,                 \* candidates given to it without their description
    autoSent,              \* sends made by the container: who, to whom, the peer picked
    calls, leaves

sig == <<readyState, clientIP, pairPartner, clientsByIP, timers, wire, client, requests>>
ice == <<hasRemoteDescription, pendingCandidates, queueing, iceCandidates, early>>
sdp == <<signalingState, localDescription, remoteDescription>>
dc  == <<dataChannel, channels, opened>>

ui  == <<pendingPeerIP, autoSent, calls>>

vars == <<sig, up, ice, ops, completion, sdp, gathered, dc, ui, leaves>>
-----------------------------------------------------------------------------
Nr == 1..(MaxOffers + MaxCandidates)
Sdp == [kind : {"offer", "answer"}, by : Conns, n : Nr]
Candidate == [kind : {"candidate"}, by : Conns, n : Nr]
PairRequestMsg(k) == [kind |-> "pair_request", target |-> k]
Channel == [by : Conns, n : Nr]

S == INSTANCE SignalingServer WITH Payloads <- Sdp \cup Candidate

ASSUME NoneAssumption ==
    /\ None \notin Conns /\ None \notin Keys
    /\ None \notin Sdp /\ None \notin Candidate /\ None \notin Channel
ASSUME BoundsAssumption == {MaxRequests, MaxCalls, MaxCandidates, MaxOffers, MaxLeaves} \subseteq Nat

Op == [op : {"createOffer", "createAnswer"}] \cup [op : {"setLocal", "setRemote"}, sdp : Sdp]

TypeOK ==
    /\ S!TypeOK
    /\ up \in [Conns -> Seq(Sdp \cup Candidate \cup [kind : {"pair_request"}, target : Keys])]
    /\ hasRemoteDescription \in [Conns -> BOOLEAN]
    /\ pendingCandidates \in [Conns -> Seq(Candidate)]
    /\ dataChannel \in [Conns -> Channel \cup {None}]
    /\ queueing \in [Conns -> Candidate \cup {None}]
    /\ ops \in [Conns -> Seq(Op)]
    /\ completion \in [Conns -> {"idle", "due", "flushed"}]
    /\ signalingState \in [Conns -> {"stable", "have-local-offer", "have-remote-offer"}]
    /\ localDescription \in [Conns -> Sdp \cup {None}]
    /\ remoteDescription \in [Conns -> Sdp \cup {None}]
    /\ iceCandidates \in [Conns -> SUBSET Candidate] /\ early \in [Conns -> SUBSET Candidate]
    /\ gathered \in [Conns -> Nat] /\ channels \in [Conns -> Nat]
    /\ opened \subseteq Channel
    /\ pendingPeerIP \in [Conns -> Keys \cup {None}]
    /\ autoSent \subseteq [by : Conns, to : Conns, pick : Keys]
    /\ calls \in Nat /\ leaves \in Nat

Init ==
    /\ S!Init
    /\ up = [c \in Conns |-> <<>>]
    /\ hasRemoteDescription = [c \in Conns |-> FALSE]
    /\ pendingCandidates = [c \in Conns |-> <<>>]
    /\ dataChannel = [c \in Conns |-> None]
    /\ queueing = [c \in Conns |-> None]
    /\ ops = [c \in Conns |-> <<>>]
    /\ completion = [c \in Conns |-> "idle"]
    /\ signalingState = [c \in Conns |-> "stable"]
    /\ localDescription = [c \in Conns |-> None]
    /\ remoteDescription = [c \in Conns |-> None]
    /\ iceCandidates = [c \in Conns |-> {}] /\ early = [c \in Conns |-> {}]
    /\ gathered = [c \in Conns |-> 0] /\ channels = [c \in Conns |-> 0]
    /\ opened = {}
    /\ pendingPeerIP = [c \in Conns |-> None] /\ autoSent = {}
    /\ calls = 0 /\ leaves = 0
-----------------------------------------------------------------------------
(* The server, fed from the apps' sockets.                                 *)

Running(c) == readyState[c] = "OPEN"

Connect(c, k) ==
    /\ S!Connect(c, k)
    /\ UNCHANGED <<up, ice, ops, completion, sdp, gathered, dc, ui, leaves>>

ServerHandles(c) ==
    /\ up[c] # <<>>
    /\ up' = [up EXCEPT ![c] = Tail(@)]
    /\ IF Head(up[c]).kind = "pair_request" THEN S!PairRequest(c, Head(up[c]).target)
                                            ELSE S!Relay(c, Head(up[c]))
    /\ UNCHANGED <<ice, ops, completion, sdp, gathered, dc, ui, leaves>>

PeerJoinedTimer ==
    /\ S!PeerJoinedTimer
    /\ UNCHANGED <<up, ice, ops, completion, sdp, gathered, dc, ui, leaves>>

\* An app quits and its socket closes.  Nothing tells the peer's channel.
Quit(c) ==
    /\ leaves < MaxLeaves
    /\ S!BeginClose(c)
    /\ leaves' = leaves + 1
    /\ UNCHANGED <<up, ice, ops, completion, sdp, gathered, dc, ui>>

ServerCloses(c) ==
    /\ S!Close(c)
    /\ up' = [up EXCEPT ![c] = <<>>]
    /\ UNCHANGED <<ice, ops, completion, sdp, gathered, dc, ui, leaves>>
-----------------------------------------------------------------------------
(* The socket's side of RTCClient.                                         *)

IsDataChannelOpen(c) == dataChannel[c] \in opened

SendSignaling(c, m) == up' = [up EXCEPT ![c] = Append(@, m)]

\* connectToPeerIP, on behalf of the container, which remembers the pick.
ConnectToPeerIP(c, k) ==
    /\ Running(c)
    /\ ~IsDataChannelOpen(c)
    /\ c \in Callers /\ calls < MaxCalls
    /\ SendSignaling(c, PairRequestMsg(k))
    /\ pendingPeerIP' = [pendingPeerIP EXCEPT ![c] = k]
    /\ calls' = calls + 1
    /\ UNCHANGED <<sig, ice, ops, completion, sdp, gathered, dc, autoSent, leaves>>

\* The user picks a peer of the list, other than the one being connected to.
OnSelectPeerIP(c, k) ==
    /\ k \in client[c].onlinePeers \ {pendingPeerIP[c]}
    /\ ConnectToPeerIP(c, k)

\* The send button while no channel is open: the pending peer is tried again.
OnSend(c) ==
    /\ pendingPeerIP[c] # None
    /\ ConnectToPeerIP(c, pendingPeerIP[c])

\* receiveSignal is called for the next message when it is done with the last.
Receive(c) == queueing[c] = None /\ S!Deliver(c)

Message(c) == Head(wire[c])
Signal(c, kind) == Message(c).type = "signal" /\ Message(c).payload.kind = kind

\* role, peer_left, error and peers.
ReceiveNotice(c) ==
    /\ Receive(c)
    /\ Message(c).type \notin {"peer_joined", "signal"}
    /\ UNCHANGED <<up, ice, ops, completion, sdp, gathered, dc, ui, leaves>>

\* peer_joined: an offerer creates a channel, which it will use from now on, and
\* asks for an offer.
ReceivePeerJoined(c) ==
    /\ Receive(c)
    /\ Message(c).type = "peer_joined"
    /\ IF client[c].isOfferer
       THEN /\ channels[c] < MaxOffers
            /\ channels' = [channels EXCEPT ![c] = @ + 1]
            /\ dataChannel' = [dataChannel EXCEPT ![c] = [by |-> c, n |-> channels[c] + 1]]
            /\ ops' = [ops EXCEPT ![c] = Append(@, [op |-> "createOffer"])]
       ELSE UNCHANGED <<channels, dataChannel, ops>>
    /\ UNCHANGED <<up, ice, completion, sdp, gathered, opened, ui, leaves>>

\* offer, answer: the rest happens in completion handlers.
ReceiveDescription(c) ==
    /\ Receive(c)
    /\ Signal(c, "offer") \/ Signal(c, "answer")
    /\ ops' = [ops EXCEPT ![c] = Append(@, [op |-> "setRemote", sdp |-> Message(c).payload])]
    /\ UNCHANGED <<up, ice, completion, sdp, gathered, dc, ui, leaves>>

\* addIceCandidate, for the candidates cands at once.
AddIceCandidates(c, cands) ==
    /\ iceCandidates' = [iceCandidates EXCEPT ![c] = @ \cup cands]
    /\ early' = [early EXCEPT ![c] = @ \cup
           {x \in cands : remoteDescription[c] = None \/ remoteDescription[c].by # x.by}]

NeverWaits(c) == TRUE              \* mutant: a candidate is added as it comes

MayAdd(c) == hasRemoteDescription[c]

\* candidate, up to the test of hasRemoteDescription: added, or to be queued.
ReceiveCandidate(c) ==
    /\ Receive(c)
    /\ Signal(c, "candidate")
    /\ IF MayAdd(c)
       THEN AddIceCandidates(c, {Message(c).payload}) /\ UNCHANGED queueing
       ELSE /\ queueing' = [queueing EXCEPT ![c] = Message(c).payload]
            /\ UNCHANGED <<iceCandidates, early>>
    /\ UNCHANGED <<up, hasRemoteDescription, pendingCandidates, ops, completion, sdp, gathered,
                   dc, ui, leaves>>

\* candidate, the rest: appended to pendingCandidates.
QueueCandidate(c) ==
    /\ Running(c)
    /\ queueing[c] # None
    /\ pendingCandidates' = [pendingCandidates EXCEPT ![c] = Append(@, queueing[c])]
    /\ queueing' = [queueing EXCEPT ![c] = None]
    /\ UNCHANGED <<sig, up, hasRemoteDescription, iceCandidates, early, ops, completion, sdp,
                   gathered, dc, ui, leaves>>
-----------------------------------------------------------------------------
(* The peer connection and the completion handlers, on WebRTC's thread.    *)

\* The thread is free for the next operation, which is op.
NextOp(c, op) ==
    /\ Running(c)
    /\ completion[c] = "idle"
    /\ ops[c] # <<>>
    /\ Head(ops[c]).op = op

Then(c, more) == ops' = [ops EXCEPT ![c] = Tail(@) \o more]

SetLocalPranswer(by, kind, n) ==   \* mutant: every description is a pranswer
    [op |-> "setLocal", sdp |-> [kind |-> "pranswer", by |-> by, n |-> n]]

SetLocal(by, kind, n) ==
    [op |-> "setLocal", sdp |-> [kind |-> kind, by |-> by, n |-> n]]

\* offerForConstraints; its handler goes on to setLocalDescription.  The offers
\* of one app are told apart by the number of channels it has.
CreateOffer(c) ==
    /\ NextOp(c, "createOffer")
    /\ Then(c, <<SetLocal(c, "offer", channels[c])>>)
    /\ UNCHANGED <<sig, up, ice, completion, sdp, gathered, dc, ui, leaves>>

\* answerForConstraints, refused unless there is an offer to answer.
CreateAnswer(c) ==
    /\ NextOp(c, "createAnswer")
    /\ Then(c, IF signalingState[c] = "have-remote-offer"
               THEN <<SetLocal(c, "answer", remoteDescription[c].n)>> ELSE <<>>)
    /\ UNCHANGED <<sig, up, ice, completion, sdp, gathered, dc, ui, leaves>>

\* The states in which a description may be set.
LocalAllowed(kind) ==
    IF kind = "offer" THEN {"stable", "have-local-offer"} ELSE {"have-remote-offer"}
RemoteAllowed(kind) ==
    IF kind = "offer" THEN {"stable", "have-remote-offer"} ELSE {"have-local-offer"}

\* setLocalDescription; its handler sends the description to the peer.
SetLocalDescription(c) ==
    LET d == Head(ops[c]).sdp IN
    /\ NextOp(c, "setLocal")
    /\ Then(c, <<>>)
    /\ IF signalingState[c] \in LocalAllowed(d.kind)
       THEN /\ localDescription' = [localDescription EXCEPT ![c] = d]
            /\ signalingState' = [signalingState EXCEPT ![c] =
                   IF d.kind = "offer" THEN "have-local-offer" ELSE "stable"]
            /\ SendSignaling(c, d)
       ELSE UNCHANGED <<localDescription, signalingState, up>>
    /\ UNCHANGED <<sig, ice, completion, remoteDescription, gathered, dc, ui, leaves>>

\* setRemoteDescription: refused in the wrong state, else its handler is due.
SetRemoteDescription(c) ==
    LET d == Head(ops[c]).sdp IN
    /\ NextOp(c, "setRemote")
    /\ Then(c, <<>>)
    /\ IF signalingState[c] \in RemoteAllowed(d.kind)
       THEN /\ remoteDescription' = [remoteDescription EXCEPT ![c] = d]
            /\ signalingState' = [signalingState EXCEPT ![c] =
                   IF d.kind = "offer" THEN "have-remote-offer" ELSE "stable"]
            /\ completion' = [completion EXCEPT ![c] = "due"]
       ELSE UNCHANGED <<remoteDescription, signalingState, completion>>
    /\ UNCHANGED <<sig, up, ice, localDescription, gathered, dc, ui, leaves>>

\* Its handler: the flag is set and the pending candidates are gone through.
FlushPending(c) ==
    /\ Running(c)
    /\ completion[c] = "due"
    /\ completion' = [completion EXCEPT ![c] = "flushed"]
    /\ hasRemoteDescription' = [hasRemoteDescription EXCEPT ![c] = TRUE]
    /\ AddIceCandidates(c, {pendingCandidates[c][i] : i \in 1..Len(pendingCandidates[c])})
    /\ UNCHANGED <<sig, up, pendingCandidates, queueing, ops, sdp, gathered, dc, ui, leaves>>

AsksForNothing(c) == <<>>          \* mutant: the handler of an offer ends with the flush

\* What the handler asks for next: an answer to an offer.
AsksForAnswer(c) ==
    IF remoteDescription[c].kind = "offer" THEN <<[op |-> "createAnswer"]>> ELSE <<>>

\* The rest of the handler: removeAllObjects, and the answer is asked for.
FlushEnd(c) ==
    /\ Running(c)
    /\ completion[c] = "flushed"
    /\ completion' = [completion EXCEPT ![c] = "idle"]
    /\ pendingCandidates' = [pendingCandidates EXCEPT ![c] = <<>>]
    /\ ops' = [ops EXCEPT ![c] = @ \o AsksForAnswer(c)]
    /\ UNCHANGED <<sig, up, hasRemoteDescription, queueing, iceCandidates, early, sdp, gathered,
                   dc, ui, leaves>>

\* didGenerateIceCandidate: gathering starts with the local description.
GenerateCandidate(c) ==
    /\ Running(c)
    /\ localDescription[c] # None
    /\ gathered[c] < MaxCandidates
    /\ gathered' = [gathered EXCEPT ![c] = @ + 1]
    /\ SendSignaling(c, [kind |-> "candidate", by |-> c, n |-> gathered[c] + 1])
    /\ UNCHANGED <<sig, ice, ops, completion, sdp, dc, ui, leaves>>

\* The two peer connections have found each other: a's offer and b's answer to
\* it are in place, and one of them knows a candidate of the other.
Connected(a, b) ==
    /\ Running(a) /\ Running(b)
    /\ localDescription[a] # None /\ remoteDescription[b] = localDescription[a]
    /\ localDescription[b] # None /\ remoteDescription[a] = localDescription[b]
    /\ \/ \E x \in iceCandidates[a] : x.by = b
       \/ \E x \in iceCandidates[b] : x.by = a

\* didOpenDataChannel: taken unless an open channel is in use.
TakesChannel(b, ch) ==
    [dataChannel EXCEPT ![b] = IF IsDataChannelOpen(b) THEN @ ELSE ch]

\* A channel of a opens at both ends (streams are not ordered among each other).
\* dataChannelStateDidChange makes the pending send at an end where one is open.
DidOpenDataChannel(a, b, ch) ==
    /\ Connected(a, b)
    /\ ch.by = a /\ ch.n <= channels[a] /\ ch \notin opened
    /\ opened' = opened \cup {ch}
    /\ dataChannel' = TakesChannel(b, ch)
    /\ LET told == {c \in {a, b} : pendingPeerIP[c] # None /\ dataChannel'[c] = ch} IN
       /\ pendingPeerIP' = [c \in Conns |-> IF c \in told THEN None ELSE pendingPeerIP[c]]
       /\ autoSent' = autoSent \cup {[by |-> c, to |-> IF c = a THEN b ELSE a,
                                      pick |-> pendingPeerIP[c]] : c \in told}
    /\ UNCHANGED <<sig, up, ice, ops, completion, sdp, gathered, channels, calls, leaves>>

\* SCTP gives up on an app that has quit.
ChannelLost(ch) ==
    /\ \E c \in Conns : ~Running(c) /\ (ch.by = c \/ dataChannel[c] = ch)
    /\ ch \in opened
    /\ opened' = opened \ {ch}
    /\ UNCHANGED <<sig, up, ice, ops, completion, sdp, gathered, dataChannel, channels, ui, leaves>>
-----------------------------------------------------------------------------
ServerStep == PeerJoinedTimer \/ \E c \in Conns : ServerHandles(c) \/ ServerCloses(c)

SocketStep(c) ==
    \/ ReceiveNotice(c) \/ ReceivePeerJoined(c) \/ ReceiveDescription(c)
    \/ ReceiveCandidate(c) \/ QueueCandidate(c)

RtcStep(c) ==
    \/ CreateOffer(c) \/ CreateAnswer(c)
    \/ SetLocalDescription(c) \/ SetRemoteDescription(c)
    \/ FlushPending(c) \/ FlushEnd(c)

Opens == \E a, b \in Conns, ch \in Channel : a # b /\ DidOpenDataChannel(a, b, ch)

Next ==
    \/ ServerStep
    \/ \E c \in Conns :
        \/ \E k \in Keys : Connect(c, k) \/ OnSelectPeerIP(c, k)
        \/ OnSend(c) \/ Quit(c)
        \/ SocketStep(c) \/ RtcStep(c) \/ GenerateCandidate(c)
    \/ Opens
    \/ \E ch \in Channel : ChannelLost(ch)

Spec == Init /\ [][Next]_vars

\* Each thread keeps going, the server handles what it is sent, and WebRTC
\* gathers and connects.  Users are free not to act.
FairSpec ==
    /\ Spec
    /\ WF_vars(ServerStep) /\ WF_vars(Opens)
    /\ \A c \in Conns :
        WF_vars(SocketStep(c)) /\ WF_vars(RtcStep(c)) /\ WF_vars(GenerateCandidate(c))
-----------------------------------------------------------------------------
(* Properties.                                                             *)

\* A candidate is only given to a peer connection that has the description it
\* belongs to ("`addIceCandidate` 的前提是本端已经有对应的 `RemoteDescription`",
\* webrtc-architecture-talk.md 252): hasRemoteDescription is set after, and
\* tested before.  Claimed only while no app quits: nothing resets the flag when
\* a partner leaves, so after a quit and a new pairing it is false.
NoEarlyCandidate == \A c \in Conns : early[c] = {}

Settled(c) ==
    Running(c) /\ signalingState[c] = "stable" /\ completion[c] = "idle" /\ ops[c] = <<>>
        /\ remoteDescription[c] # None

\* Two partners with nothing left to do hold each other's description: neither
\* answered an offer of somebody else (receiveSignal looks at no sender).  Claimed
\* only while no app quits: a pair made after a quit may begin with descriptions
\* of the partner that left, and it is false.
DescriptionsAgree ==
    \A a, b \in Conns :
        /\ a # b /\ pairPartner[a] = b
        /\ Settled(a) /\ Settled(b)
        /\ up[a] = <<>> /\ up[b] = <<>> /\ wire[a] = <<>> /\ wire[b] = <<>>
        => remoteDescription[a] = localDescription[b]

\* When every channel made has opened, two partners use the same one, so that
\* what one sends the other's delegate gets (RTCClient.m 271: the label makes both
\* ends use the same channel).
ChannelsAgree ==
    \A a, b \in Conns :
        /\ a # b /\ Running(a) /\ Running(b) /\ pairPartner[a] = b
        /\ \A x \in {a, b}, n \in 1..MaxOffers : n <= channels[x] => [by |-> x, n |-> n] \in opened
        /\ IsDataChannelOpen(a) /\ IsDataChannelOpen(b)
        => dataChannel[a] = dataChannel[b]

\* Candidates are not lost to the order of events: when nothing is left to do
\* for an app with a remote description, it was given every candidate its
\* partner sent ("不丢候选路径", webrtc-architecture-talk.md 255).
NoCandidateLost ==
    \A c \in Conns :
        /\ Settled(c) /\ queueing[c] = None /\ wire[c] = <<>>
        => \A d \in Conns \ {c} : pairPartner[d] = c /\ up[d] = <<>> =>
              \A n \in 1..gathered[d] :
                  [kind |-> "candidate", by |-> d, n |-> n] \in iceCandidates[c]

\* The file is sent to the peer the user picked for it (container 266: "Select a
\* peer from the Nearby list; if a file is selected, auto-send when the
\* DataChannel opens").
AutoSendReachesPick == \A s \in autoSent : clientIP[s.to] = s.pick

\* A pairing leads to a finished negotiation unless an app quits: the offer is
\* answered, and enough candidates survive the pool for the channel to open.
NegotiationCompletes ==
    \A a, b \in Conns :
        a # b /\ pairPartner[a] = b
            ~> \/ ~Running(a) \/ ~Running(b)
               \/ Settled(a) /\ Settled(b) /\ IsDataChannelOpen(a)
=============================================================================
