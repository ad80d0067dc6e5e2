------------------------------ MODULE MCImx6d ------------------------------
(***************************************************************************)
(* Instances of the daemon for TLC.                                        *)
(***************************************************************************)
EXTENDS Imx6d, TLC

CONSTANTS ap3216c, icm20608, w1, w2, w3, w4

BothTasks == {ap3216c, icm20608}
ThreeWorkers == {w1, w2, w3}
FourWorkers == {w1, w2, w3, w4}
WorkerSymmetry == Permutations(Workers)
NoneStuck == {}
ApStuck == {ap3216c}
=============================================================================
