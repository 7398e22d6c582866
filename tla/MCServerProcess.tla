--------------------------- MODULE MCServerProcess ---------------------------
(* Small instances of ServerProcess for TLC.                                   *)
EXTENDS ServerProcess
==============================================================================
