--------------------------- MODULE MCAuthConnections ---------------------------
(* Instances of AuthConnections for TLC. *)
EXTENDS AuthConnections, TLC

Calls == Permutations(Call)
===============================================================================
