---------------------------- MODULE MCSpiIcm20608 ----------------------------
(***************************************************************************)
(* SpiIcm20608 for TLC: open files are alike.                              *)
(***************************************************************************)
EXTENDS SpiIcm20608, TLC

Symmetry == Permutations(Readers)
=============================================================================
