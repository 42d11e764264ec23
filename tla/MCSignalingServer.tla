------------------------- MODULE MCSignalingServer -------------------------
(***************************************************************************)
(* SignalingServer on a small instance.                                    *)
(***************************************************************************)
EXTENDS SignalingServer, TLC

Symmetry == Permutations(Conns) \cup Permutations(Keys)
=============================================================================
