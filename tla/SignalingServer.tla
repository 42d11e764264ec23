-------------------------- MODULE SignalingServer --------------------------
(***************************************************************************)
(* signaling-server.js: the WebSocket rendezvous of the file sender.       *)
(*                                                                         *)
(* Every handler of the server runs to completion on Node's event loop, so *)
(* each is one action.  What interleaves is what the loop dispatches: the  *)
(* connections, messages and closes of many sockets, the 200 ms timers of  *)
(* pair_request, and the delivery of what was sent.  A socket spends time  *)
(* in CLOSING, between the peer's close and the 'close' event: it is still *)
(* registered and may still be paired, messages it had buffered are still  *)
(* handed to the server, and what the server sends to it is dropped.       *)
(*                                                                         *)
(* SDP and ICE payloads are opaque to the server: an offer, an answer or a *)
(* candidate is a "signal" with a payload.  Fields named `with' and `from' of a    *)
(* message, and `session' of a client, are history: no code reads them.    *)
(***************************************************************************)
EXTENDS Naturals, Sequences

CONSTANTS Conns,         \* the connections that may ever be made
          Keys,          \* the addresses (addr:port, or addr alone) they come from
          Payloads,      \* the offers, answers and candidates the clients exchange
          None,          \* JavaScript's null / undefined
          MaxRequests    \* bound: messages the clients send in one behaviour

ASSUME NoneAssumption == None \notin Conns /\ None \notin Keys
ASSUME BoundAssumption == MaxRequests \in Nat

VARIABLES
    readyState,    \* ws.readyState; NEW before the connection is made
    clientIP,      \* ws._clientIP
    pairPartner,   \* ws._pairPartner
    clientsByIP,   \* the Map from an address to the socket registered under it
    timers,        \* pending setTimeout callbacks, all of 200 ms: they fire in order
    wire,          \* what was sent to each connection and not yet received
    client,        \* the part of RTCClient that receiveSignal sets from these messages
    requests       \* messages sent by clients so far

server == <<readyState, clientIP, pairPartner, clientsByIP, timers>>
vars == <<readyState, clientIP, pairPartner, clientsByIP, timers, wire, client, requests>>

KeysOrNone == Keys \cup {None}
ConnsOrNone == Conns \cup {None}
-----------------------------------------------------------------------------
(* Messages from the server to a client.                                   *)

PeersMsg(ks)        == [type |-> "peers", peers |-> ks]
ErrorMsg(r)         == [type |-> "error", reason |-> r]
PeerJoinedMsg(k)    == [type |-> "peer_joined", peerIP |-> k]
PeerLeftMsg         == [type |-> "peer_left"]
SignalMsg(c, p)     == [type |-> "signal", payload |-> p, from |-> c]

MisspeltOffererMsg(c, t) ==        \* mutant: a role no client knows
    [type |-> "role", role |-> "caller", selfIP |-> clientIP[c], peerIP |-> None, with |-> t]
OffererMsg(c, t)    == [type |-> "role", role |-> "offerer", selfIP |-> clientIP[c],
                        peerIP |-> None, with |-> t]

SecondOffererMsg(t, c) ==          \* mutant: the target is told to offer as well
    [type |-> "role", role |-> "offerer", selfIP |-> clientIP[t],
     peerIP |-> clientIP[c], with |-> c]
AnswererMsg(t, c)   == [type |-> "role", role |-> "answerer", selfIP |-> clientIP[t],
                        peerIP |-> clientIP[c], with |-> c]

Msg == [type : {"peers"}, peers : SUBSET Keys]
  \cup [type : {"error"}, reason : {"target_not_found", "busy"}]
  \cup [type : {"peer_joined"}, peerIP : KeysOrNone]
  \cup [type : {"peer_left"}]
  \cup [type : {"signal"}, payload : Payloads, from : Conns]
  \cup [type : {"role"}, role : {"offerer", "answerer"}, selfIP : KeysOrNone,
        peerIP : KeysOrNone, with : Conns]

Client == [isOfferer : BOOLEAN, selfIP : KeysOrNone, peerIP : KeysOrNone,
           onlinePeers : SUBSET Keys, session : ConnsOrNone]

NewClient == [isOfferer |-> FALSE, selfIP |-> None, peerIP |-> None,
              onlinePeers |-> {}, session |-> None]

TypeOK ==
    /\ readyState \in [Conns -> {"NEW", "OPEN", "CLOSING", "CLOSED"}]
    /\ clientIP \in [Conns -> KeysOrNone]
    /\ pairPartner \in [Conns -> ConnsOrNone]
    /\ clientsByIP \in [Keys -> ConnsOrNone]
    /\ timers \in Seq(Conns \X Conns)
    /\ wire \in [Conns -> Seq(Msg)]
    /\ client \in [Conns -> Client]
    /\ requests \in Nat
-----------------------------------------------------------------------------
Init ==
    /\ readyState = [c \in Conns |-> "NEW"]
    /\ clientIP = [c \in Conns |-> None]
    /\ pairPartner = [c \in Conns |-> None]
    /\ clientsByIP = [k \in Keys |-> None]
    /\ timers = <<>>
    /\ wire = [c \in Conns |-> <<>>]
    /\ client = [c \in Conns |-> NewClient]
    /\ requests = 0

\* ws.send: without effect unless the socket is OPEN.
Sent(w, c, m) == IF readyState[c] = "OPEN" THEN [w EXCEPT ![c] = Append(@, m)] ELSE w

\* buildPeerListFor, against a given Map and given socket states.
PeerListFor(c, map, rs) ==
    {k \in Keys : map[k] \notin {None, c} /\ rs[map[k]] = "OPEN"}

Registered(c, map) == \E k \in Keys : map[k] = c

\* mutant: a paired socket is not told
BroadcastToIdle(w, map, rs) ==
    [c \in Conns |-> IF Registered(c, map) /\ rs[c] = "OPEN" /\ pairPartner[c] = None
                     THEN Append(w[c], PeersMsg(PeerListFor(c, map, rs)))
                     ELSE w[c]]

\* broadcastPeerLists: the current list goes to every registered OPEN socket.
BroadcastPeerLists(w, map, rs) ==
    [c \in Conns |-> IF Registered(c, map) /\ rs[c] = "OPEN"
                     THEN Append(w[c], PeersMsg(PeerListFor(c, map, rs)))
                     ELSE w[c]]
-----------------------------------------------------------------------------
(* A new connection.  Its key is addr:port, or addr (even 'unknown') alone *)
(* when the port is not known, so it may replace an older registration.    *)
Connect(c, k) ==
    /\ readyState[c] = "NEW"
    /\ readyState' = [readyState EXCEPT ![c] = "OPEN"]
    /\ clientIP' = [clientIP EXCEPT ![c] = k]
    /\ pairPartner' = [pairPartner EXCEPT ![c] = None]
    /\ clientsByIP' = [clientsByIP EXCEPT ![k] = c]
    /\ wire' = BroadcastPeerLists(wire, clientsByIP', readyState')
    /\ UNCHANGED <<timers, client, requests>>

\* A message of c reaches its handler: c is OPEN, or CLOSING with input buffered.
Request(c) ==
    /\ readyState[c] \in {"OPEN", "CLOSING"}
    /\ requests < MaxRequests
    /\ requests' = requests + 1

\* mutant: the target's own partner is not looked at
RequesterFree(c, target) == pairPartner[c] = None

\* Neither is paired: no second pair_request, no third party.
BothFree(c, target) == pairPartner[c] = None /\ pairPartner[target] = None

TargetOf(t) == IF t = None THEN None ELSE clientsByIP[t]

PairTargetNotFound(c, t) ==
    /\ Request(c)
    /\ TargetOf(t) \in {None, c}
    /\ wire' = Sent(wire, c, ErrorMsg("target_not_found"))
    /\ UNCHANGED <<server, client>>

PairBusy(c, t) ==
    /\ Request(c)
    /\ TargetOf(t) \notin {None, c}
    /\ ~BothFree(c, TargetOf(t))
    /\ wire' = Sent(wire, c, ErrorMsg("busy"))
    /\ UNCHANGED <<server, client>>

\* mutant: no timer is armed while one of c is pending
PairOneTimer(c, t) ==
    LET target == TargetOf(t) IN
    /\ Request(c)
    /\ target \notin {None, c}
    /\ BothFree(c, target)
    /\ pairPartner' = [pairPartner EXCEPT ![c] = target, ![target] = c]
    /\ wire' = Sent(Sent(wire, c, OffererMsg(c, target)), target, AnswererMsg(target, c))
    /\ timers' = IF \E i \in 1..Len(timers) : timers[i][1] = c THEN timers
                 ELSE Append(timers, <<c, target>>)
    /\ UNCHANGED <<readyState, clientIP, clientsByIP, client>>

\* Both partners are set, both roles sent, and the timer of peer_joined armed.
\* That the target is still OPEN is not checked.
Pair(c, t) ==
    LET target == TargetOf(t) IN
    /\ Request(c)
    /\ target \notin {None, c}
    /\ BothFree(c, target)
    /\ pairPartner' = [pairPartner EXCEPT ![c] = target, ![target] = c]
    /\ wire' = Sent(Sent(wire, c, OffererMsg(c, target)), target, AnswererMsg(target, c))
    /\ timers' = Append(timers, <<c, target>>)
    /\ UNCHANGED <<readyState, clientIP, clientsByIP, client>>

PairRequest(c, t) == PairTargetNotFound(c, t) \/ PairBusy(c, t) \/ Pair(c, t)

\* mutant: the two sockets are swapped in the callback
PeerJoinedTimerSwapped ==
    /\ timers # <<>>
    /\ LET c == Head(timers)[1]
           target == Head(timers)[2]
       IN  wire' = Sent(wire, target, PeerJoinedMsg(clientIP[c]))
    /\ timers' = Tail(timers)
    /\ UNCHANGED <<readyState, clientIP, pairPartner, clientsByIP, client, requests>>

\* The callback of setTimeout: only the readyState of the offerer is looked at.
PeerJoinedTimer ==
    /\ timers # <<>>
    /\ LET c == Head(timers)[1]
           target == Head(timers)[2]
       IN  wire' = Sent(wire, c, PeerJoinedMsg(clientIP[target]))
    /\ timers' = Tail(timers)
    /\ UNCHANGED <<readyState, clientIP, pairPartner, clientsByIP, client, requests>>

ListPeers(c) ==
    /\ Request(c)
    /\ wire' = Sent(wire, c, PeersMsg(PeerListFor(c, clientsByIP, readyState)))
    /\ UNCHANGED <<server, client>>

\* Any other message goes to the partner, if it is OPEN; a client's own
\* peer_left, or a message with no partner to take it, is dropped.
Relay(c, p) ==
    /\ Request(c)
    /\ wire' = IF pairPartner[c] = None \/ p \notin Payloads THEN wire
               ELSE Sent(wire, pairPartner[c], SignalMsg(c, p))
    /\ UNCHANGED <<server, client>>

\* The client or its connection goes away: the socket is CLOSING until its
\* 'close' event, and what was under way to the client is lost.
BeginClose(c) ==
    /\ readyState[c] = "OPEN"
    /\ readyState' = [readyState EXCEPT ![c] = "CLOSING"]
    /\ wire' = [wire EXCEPT ![c] = <<>>]
    /\ client' = [client EXCEPT ![c] = NewClient]
    /\ UNCHANGED <<clientIP, pairPartner, clientsByIP, timers, requests>>

NeverReleases(c) == FALSE          \* mutant: the partner is left as it is

\* Whether the 'close' of c frees and tells its partner.
ReleasesPartner(c) == pairPartner[c] # None /\ readyState[pairPartner[c]] = "OPEN"

KeepsEntry(c) == clientsByIP       \* mutant: no delete

DeletesKey(c) ==                   \* mutant: deletes whatever is under the key of c
    [k \in Keys |-> IF k = clientIP[c] THEN None ELSE clientsByIP[k]]

\* The Map after the 'close' of c: the entry goes only if it is still c's.
Unregistered(c) ==
    [k \in Keys |-> IF k = clientIP[c] /\ clientsByIP[k] = c THEN None ELSE clientsByIP[k]]

NoNotice(w, c) == w                \* mutant: no peer_left

PeerLeftNotice(w, c) ==
    IF ReleasesPartner(c) THEN Sent(w, pairPartner[c], PeerLeftMsg) ELSE w

\* The 'close' event: unpair, unregister, tell an OPEN partner, broadcast.
Close(c) ==
    /\ readyState[c] = "CLOSING"
    /\ readyState' = [readyState EXCEPT ![c] = "CLOSED"]
    /\ pairPartner' = [x \in Conns |->
                         IF x = c \/ (ReleasesPartner(c) /\ x = pairPartner[c])
                         THEN None ELSE pairPartner[x]]
    /\ clientsByIP' = Unregistered(c)
    /\ wire' = BroadcastPeerLists(PeerLeftNotice(wire, c), clientsByIP', readyState')
    /\ UNCHANGED <<clientIP, timers, client, requests>>

\* RTCClient's receiveSignal, as far as the server's own messages set state.
ReceiveSignal(cl, m) ==
    [isOfferer   |-> IF m.type = "role" THEN m.role = "offerer" ELSE cl.isOfferer,
     selfIP      |-> IF m.type = "role" THEN m.selfIP ELSE cl.selfIP,
     peerIP      |-> IF \/ m.type = "peer_joined"
                        \/ m.type = "role" /\ m.peerIP # None
                     THEN m.peerIP ELSE cl.peerIP,
     onlinePeers |-> IF m.type = "peers" THEN m.peers ELSE cl.onlinePeers,
     session     |-> IF m.type = "role" THEN m.with
                     ELSE IF m.type = "peer_left" THEN None ELSE cl.session]

Deliver(c) ==
    /\ readyState[c] = "OPEN"
    /\ wire[c] # <<>>
    /\ wire' = [wire EXCEPT ![c] = Tail(@)]
    /\ client' = [client EXCEPT ![c] = ReceiveSignal(@, Head(wire[c]))]
    /\ UNCHANGED <<server, requests>>
-----------------------------------------------------------------------------
Next ==
    \/ PeerJoinedTimer
    \/ \E c \in Conns :
        \/ \E k \in Keys : Connect(c, k)
        \/ \E t \in KeysOrNone : PairRequest(c, t)
        \/ ListPeers(c)
        \/ \E p \in Payloads \cup {"peer_left"} : Relay(c, p)
        \/ BeginClose(c)
        \/ Close(c)
        \/ Deliver(c)

Spec == Init /\ [][Next]_vars

\* The event loop runs due timers, 'close' follows CLOSING (ws destroys the
\* socket after its close timeout), and TCP delivers to a client that reads on.
Fairness ==
    /\ WF_vars(PeerJoinedTimer)
    /\ \A c \in Conns : WF_vars(Close(c)) /\ WF_vars(Deliver(c))

FairSpec == Spec /\ Fairness
-----------------------------------------------------------------------------
(* The Matchmaking service this implements.                                *)

Attached(c) == readyState[c] \in {"OPEN", "CLOSING"}

Online == {c \in Conns : Attached(c)}

Pairs == {{a, pairPartner[a]} : a \in {x \in Conns :
             pairPartner[x] \in Conns /\ pairPartner[pairPartner[x]] = x}}

Service == INSTANCE Matchmaking WITH online <- Online, pairs <- Pairs

\* The server implements Matchmaking: an accepted pair_request matches two
\* attached idle connections, a 'close' event ends exactly the leaver's
\* pair, and no other handler touches a pairing.
ImplementsService == Service!Spec
-----------------------------------------------------------------------------
(* Safety.                                                                 *)

\* The Map only names attached sockets, each under its own key: the target of
\* a pair_request (line 53) is never a socket whose 'close' has run, though
\* keys are reused and the delete of line 111 is conditional.
RegistryConsistent ==
    \A k \in Keys : clientsByIP[k] # None =>
        Attached(clientsByIP[k]) /\ clientIP[clientsByIP[k]] = k

\* Partners agree.  Closing both ends in any order may leave a CLOSING socket
\* pointing at a CLOSED one (line 115 skips it), never an OPEN one.
PairingSymmetric ==
    \A c \in Conns : pairPartner[c] # None =>
        /\ pairPartner[c] # c
        /\ Attached(c)
        /\ \/ pairPartner[pairPartner[c]] = c /\ Attached(pairPartner[c])
           \/ readyState[c] = "CLOSING" /\ readyState[pairPartner[c]] = "CLOSED"

\* The session a client is in when it has read the first n messages of its
\* wire: set by role, ended by peer_left.
SessionAfter(c, n) ==
    LET marks == {i \in 1..n : wire[c][i].type \in {"role", "peer_left"}} IN
    IF marks = {} THEN client[c].session
    ELSE LET m == wire[c][CHOOSE i \in marks : \A j \in marks : j <= i]
         IN  IF m.type = "role" THEN m.with ELSE None

\* What an OPEN client will believe once it has read everything sent to it is
\* what the server believes: its session partner is its _pairPartner.
SessionAgreement ==
    \A c \in Conns : readyState[c] = "OPEN" =>
        SessionAfter(c, Len(wire[c])) = pairPartner[c]

\* A relayed message reaches its receiver inside the session with its sender:
\* after the role that opened it, before the peer_left that ends it, across
\* re-pairings ("relay signaling messages only between a paired
\* offerer/answerer", line 5).
NoCrossTalk ==
    \A c \in Conns : \A i \in 1..Len(wire[c]) :
        wire[c][i].type = "signal" => SessionAfter(c, i - 1) = wire[c][i].from

\* The role an OPEN client plays once it has read everything sent to it.
FinalRole(c) ==
    LET roles == {i \in 1..Len(wire[c]) : wire[c][i].type = "role"} IN
    IF roles = {} THEN client[c].isOfferer
    ELSE wire[c][CHOOSE i \in roles : \A j \in roles : j <= i].role = "offerer"

\* Two OPEN partners never both create an offer, and never both wait for one.
RolesComplementary ==
    \A a, b \in Conns :
        /\ readyState[a] = "OPEN" /\ readyState[b] = "OPEN"
        /\ pairPartner[a] = b
        => FinalRole(a) = ~FinalRole(b)

\* The last peer list sent to c.
LatestList(c) ==
    LET lists == {i \in 1..Len(wire[c]) : wire[c][i].type = "peers"} IN
    IF lists = {} THEN client[c].onlinePeers
    ELSE wire[c][CHOOSE i \in lists : \A j \in lists : j <= i].peers

\* A registered client's list is never out of date: it has every other OPEN
\* registered client, and nobody who has unregistered.
PeerListCurrent ==
    \A c \in Conns :
        readyState[c] = "OPEN" /\ Registered(c, clientsByIP) =>
            /\ PeerListFor(c, clientsByIP, readyState) \subseteq LatestList(c)
            /\ LatestList(c) \subseteq {k \in Keys : clientsByIP[k] \notin {None, c}}

\* A registered client stays discoverable until its own 'close' or until a new
\* connection takes its key: the 'close' of an older holder of the key does not
\* unregister it (line 111).
RegistrationStable ==
    [][\A k \in Keys : clientsByIP[k] # None /\ clientsByIP'[k] = None =>
        readyState'[clientsByIP[k]] = "CLOSED"]_vars

\* The peer address c will hold once its pending timers have fired and it has
\* read everything sent to it.
FinalAddress(c) ==
    LET due == {i \in 1..Len(timers) : timers[i][1] = c}
        named == {i \in 1..Len(wire[c]) : \/ wire[c][i].type = "peer_joined"
                                          \/ wire[c][i].type = "role" /\ wire[c][i].peerIP # None}
    IN  IF due # {} THEN clientIP[timers[CHOOSE i \in due : \A j \in due : j <= i][2]]
        ELSE IF named # {} THEN wire[c][CHOOSE i \in named : \A j \in named : j <= i].peerIP
        ELSE client[c].peerIP

\* The peer_joined of an earlier pairing, which its timer sends whatever happened
\* in those 200 ms, never has the last word with an offerer: whatever is still
\* pending or on the wire, an OPEN offerer ends up with its partner's address.
OffererLearnsPartner ==
    \A c \in Conns :
        readyState[c] = "OPEN" /\ pairPartner[c] # None /\ FinalRole(c)
            => FinalAddress(c) = clientIP[pairPartner[c]]
-----------------------------------------------------------------------------
(* Liveness.                                                               *)

\* Two OPEN sockets are partners.
Together(a, b) ==
    readyState[a] = "OPEN" /\ readyState[b] = "OPEN" /\ pairPartner[a] = b

\* The offerer of a pair that lasts comes to know its peer's address, by the
\* peer_joined that starts the negotiation, and keeps to it.
PairingAnnounced ==
    \A a, b \in Conns :
        <>[](Together(a, b) /\ client[a].isOfferer) => <>[](client[a].peerIP = clientIP[b])

\* Nobody stays busy with a partner that is going away.
LeaverReleasesPartner ==
    \A a, b \in Conns :
        (pairPartner[a] = b /\ readyState[b] # "OPEN") ~> (pairPartner[a] # b)
=============================================================================
