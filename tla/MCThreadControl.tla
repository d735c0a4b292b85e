--------------------------- MODULE MCThreadControl ---------------------------
(***************************************************************************)
(* A leader and up to two more threads; the bounds are in the configs.     *)
(***************************************************************************)
EXTENDS ThreadControl

AllRequests == {"checkpoint", "restore", "diff"}
Restores    == {"restore", "diff"}
==============================================================================
