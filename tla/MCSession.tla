------------------------------ MODULE MCSession ------------------------------
(***************************************************************************)
(* The calls a function makes in each of the runs of Session.              *)
(***************************************************************************)
EXTENDS Session

QuietCalls  == {"nop.me", "diff.me", "dump_stats.me", "detach.it", "cont.it", "other"}
SerialCalls == {"nop.me", "save_for.me", "give_back.me", "other", "exit"}
==============================================================================
