---------------------------- MODULE Matchmaking ----------------------------
(***************************************************************************)
(* What the signaling server promises its clients: connections come and    *)
(* go, and two idle connections can be matched into an exclusive pair that *)
(* lasts until one of the two leaves.  Nothing is said here of addresses,  *)
(* messages, timers or sockets; SignalingServer.tla implements this        *)
(* specification.                                                          *)
(***************************************************************************)
CONSTANT Conns      \* the connections that may ever be made

VARIABLES online,   \* the connections now attached to the server
          pairs     \* the matched pairs, each a two-element set

vars == <<online, pairs>>

Init == online = {} /\ pairs = {}

Idle(c) == c \in online /\ \A p \in pairs : c \notin p

Join(c) ==
    /\ c \notin online
    /\ online' = online \cup {c}
    /\ UNCHANGED pairs

Match(a, b) ==
    /\ a # b
    /\ Idle(a) /\ Idle(b)
    /\ pairs' = pairs \cup {{a, b}}
    /\ UNCHANGED online

Leave(c) ==
    /\ c \in online
    /\ online' = online \ {c}
    /\ pairs' = {p \in pairs : c \notin p}

Next ==
    \/ \E c \in Conns : Join(c) \/ Leave(c)
    \/ \E a, b \in Conns : Match(a, b)

Spec == Init /\ [][Next]_vars
-----------------------------------------------------------------------------
\* A connection is never in two pairs, a pair has two members, and both of
\* them are attached: the one-to-one tunnel of signaling-server.js:49.
Exclusive ==
    /\ \A p \in pairs : p \subseteq online /\ \E a, b \in p : a # b /\ p = {a, b}
    /\ \A p, q \in pairs : p # q => p \cap q = {}
=============================================================================
