----------------------------- MODULE MCJsonWriter -----------------------------
(***************************************************************************)
(* JsonWriter for TLC: buffers in which a text of some calls just fits or  *)
(* not, a stack as deep as the statistics need, and the statistics in full *)
(* size, with the shortest and the longest numbers.                        *)
(***************************************************************************)
EXTENDS JsonWriter

\* The statistics of xstats.h have these sizes.
ASSUME StatsAssumption == Fits
===============================================================================
