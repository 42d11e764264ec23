-------------------------- MODULE MatchmakingProofs --------------------------
(***************************************************************************)
(* Exclusive is inductive by itself: a match adds a pair of two idle       *)
(* connections, disjoint from every other, and a leave removes every pair  *)
(* the leaver is in.                                                       *)
(***************************************************************************)
EXTENDS Matchmaking, TLAPS

\* In the service the signaling server provides, a connection is never in two
\* pairs, and a pair never outlives either of its members.
THEOREM MatchesAreExclusive == Spec => []Exclusive
  <1>1. Init => Exclusive
    BY DEF Init, Exclusive
  <1>2. Exclusive /\ [Next]_vars => Exclusive'
    <2>. SUFFICES ASSUME Exclusive, [Next]_vars PROVE Exclusive'
      OBVIOUS
    <2>1. ASSUME NEW c \in Conns, Join(c) PROVE Exclusive'
      BY <2>1 DEF Join, Exclusive
    <2>2. ASSUME NEW c \in Conns, Leave(c) PROVE Exclusive'
      BY <2>2 DEF Leave, Exclusive
    <2>3. ASSUME NEW a \in Conns, NEW b \in Conns, Match(a, b) PROVE Exclusive'
      <3>1. ASSUME NEW p \in pairs' PROVE p \subseteq online' /\ \E x, y \in p : x # y /\ p = {x, y}
        BY <2>3 DEF Match, Idle, Exclusive
      <3>2. ASSUME NEW p \in pairs', NEW q \in pairs', p # q PROVE p \cap q = {}
        BY <2>3, <3>2 DEF Match, Idle, Exclusive
      <3>. QED
        BY <3>1, <3>2 DEF Exclusive
    <2>4. CASE UNCHANGED vars
      BY <2>4 DEF vars, Exclusive
    <2>. QED
      BY <2>1, <2>2, <2>3, <2>4 DEF Next
  <1>. QED
    BY <1>1, <1>2, PTL DEF Spec
=============================================================================
