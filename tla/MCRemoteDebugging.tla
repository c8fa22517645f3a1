--------------------------- MODULE MCRemoteDebugging ---------------------------
(* Instances of RemoteDebugging for TLC. *)
EXTENDS RemoteDebugging, TLC
===============================================================================
