------------------------------ MODULE MCSsoToken ------------------------------
(* Instances of SsoToken for TLC. *)
EXTENDS SsoToken, TLC

CONSTANTS p1, p2, t1, t2, t3

\* Two processes with a task each; or one process with all tasks.
HomeApart == (t1 :> p1) @@ (t2 :> p2)
HomeTogether == [t \in Task |-> p1]

Tasks == Permutations(Task)
=============================================================================
