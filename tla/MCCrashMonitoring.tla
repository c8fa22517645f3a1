--------------------------- MODULE MCCrashMonitoring ---------------------------
(* Instances of CrashMonitoring for TLC. *)
EXTENDS CrashMonitoring, TLC

Instances == Permutations(Inst)

Failure == \E i \in Inst : BeatFails(i) \/ CheckFails(i) \/ DeleteFails(i)
Unmonitored == {i \in Inst : Alive(i) /\ start[i] = "done" /\ beatTimer[i] = None}
Shut == {i \in Inst : life[i] \in {"closing", "closed"}}

\* Instances close and files fail, or the machine sleeps and instances crash.
OneKindOfFault ==
    /\ sleeps > 0 => ~Failure /\ Shut' = {}
    /\ sleeps' > sleeps => Unmonitored \cup undeleted \cup Shut = {}
=============================================================================
