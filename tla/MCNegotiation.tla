---------------------------- MODULE MCNegotiation ----------------------------
(***************************************************************************)
(* Negotiation for TLC.  Addresses are interchangeable, and so are the     *)
(* apps whose users only answer.                                           *)
(***************************************************************************)
EXTENDS Negotiation, TLC

Symmetry == {f @@ g : f \in Permutations(Keys), g \in Permutations(Conns \ Callers)}
=============================================================================
