--------------------------- MODULE MCSyscallInjector ---------------------------
(***************************************************************************)
(* The calls for TLC.                                                      *)
(***************************************************************************)
EXTENDS SyscallInjector

CONSTANTS mmap, brk

TwoCalls == {mmap, brk}
================================================================================
