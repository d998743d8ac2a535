-------------------------- MODULE MCTabletLog ---------------------------
(* Instances of TabletLog for TLC.                                         *)
EXTENDS TabletLog, TLC

RowSymmetry == Permutations(Rows)
=============================================================================
