--------------------------- MODULE MCFileTransfer ---------------------------
(***************************************************************************)
(* FileTransfer on small instances.                                        *)
(***************************************************************************)
EXTENDS FileTransfer, TLC

\* The two apps are alike when both send.
Symmetry == Permutations(Peers)
=============================================================================
