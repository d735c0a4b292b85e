------------------------------ MODULE MCReadMaps ------------------------------
(***************************************************************************)
(* ReadMaps for TLC: files of up to four lines, read in one to four        *)
(* pieces, and two workers.                                                *)
(***************************************************************************)
EXTENDS ReadMaps
===============================================================================
