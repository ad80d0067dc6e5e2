-------------------------- MODULE MCMovingAverage --------------------------
(***************************************************************************)
(* The filter with a window of three for TLC: eight samples fill the ring  *)
(* and wrap it twice.                                                      *)
(***************************************************************************)
EXTENDS MovingAverage

SomeSamples == {-1, 4, 16}
=============================================================================
