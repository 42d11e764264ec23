----------------------------- MODULE MCSendPage -----------------------------
(***************************************************************************)
(* SendPage on a small instance: the devices are alike.                    *)
(***************************************************************************)
EXTENDS SendPage, TLC

Symmetry == Permutations(Keys)
=============================================================================
