----------------------------- MODULE MCThreadPool -----------------------------
(***************************************************************************)
(* The threads of the pool for TLC.                                        *)
(***************************************************************************)
EXTENDS ThreadPool

CONSTANTS w1, w2, w3

ThreeWorkers == {w1, w2, w3}
==============================================================================
