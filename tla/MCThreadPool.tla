---------------------------- MODULE MCThreadPool ----------------------------
(***************************************************************************)
(* Instances of the thread pool for TLC.  Every thread may submit: Main    *)
(* between create and destroy, and a worker from within a task function,   *)
(* which is the only way a submit can meet the shutdown.                   *)
(***************************************************************************)
EXTENDS ThreadPool

CONSTANTS n1, n2, n3, main

ThreeNodes == {n1, n2, n3}
MainAndWorkers == {main} \cup 1 .. N
=============================================================================
