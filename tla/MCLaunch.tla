-------------------------------- MODULE MCLaunch --------------------------------
(***************************************************************************)
(* Launch for TLC: both launchers, from a shell that may have left          *)
(* descriptors open, by root or a user, setuid and setgid or not.          *)
(***************************************************************************)
EXTENDS Launch

BothPrograms == {"groundhog", "faasafe"}
=================================================================================
