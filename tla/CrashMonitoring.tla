---------------------------- MODULE CrashMonitoring ----------------------------
(***************************************************************************)
(* Crash monitoring (shared/crashMonitoring.ts): every running instance of *)
(* the extension keeps a heartbeat file in a directory all instances share *)
(* and checks the files of the others; a file whose heartbeat is           *)
(* CheckInterval old is deleted and reported as a crash.                   *)
(*                                                                         *)
(* An instance is one extension host.  Its session id is fresh (the global *)
(* amzn_sessionId of telemetry/util.ts), so it names the file.  start() is *)
(* not awaited by activate(), and neither interval is awaited by anybody:  *)
(* heartbeat, check and shutdown of an instance interleave at every file   *)
(* operation.                                                              *)
(*                                                                         *)
(* Times are kept as ages (now - t), capped where the code's comparisons   *)
(* can no longer tell them apart, and timers as what remains of them.  The *)
(* unit of time is coarser than any file operation: retries are cut off    *)
(* after 15 seconds, an interval is ten minutes or more, so time passes    *)
(* (Tick) when nothing is due or under way, except when the machine sleeps.*)
(***************************************************************************)
EXTENDS Integers

CONSTANTS Inst,           \* extension instances
          None,           \* undefined; no file
          Empty,          \* a file that was opened with 'w' and not yet written
          CheckInterval,  \* crashCheckInterval
          Naps,           \* how long the machine may sleep
          MaxSleeps,      \* bound on how often it does
          Flaky,          \* file operations may fail
          Ends            \* how processes end: some of "shutdown", "crash", "reboot"

ASSUME IntervalAssumption == CheckInterval \in Nat /\ CheckInterval >= 2
ASSUME SleepAssumption    == Naps \subseteq Nat /\ MaxSleeps \in Nat
ASSUME FlakyAssumption    == Flaky \in BOOLEAN
ASSUME EndsAssumption     == Ends \subseteq {"shutdown", "crash", "reboot"}
ASSUME NoneAssumption     == /\ None \notin Inst /\ None \notin Int
                             /\ Empty \notin Int /\ Empty # None

VARIABLES
    osKnown,      \* globalState lastOsStartTime is that of this OS session
    file,         \* file[i]: None, Empty or the age of the heartbeat in i's file
    life,         \* life[i]: what became of the process
    start,        \* start[i]: where instance() and start() are
    beat,         \* beat[i]: where sendHeartbeat() is
    beatAge,      \* beatAge[i]: age of the "now" it captured
    beatTimer,    \* beatTimer[i]: until the next heartbeat; None: no interval
    check,        \* check[i]: where tryCheckCrash() is
    checkTimer,   \* checkTimer[i]: until the next check; None: no interval
    seen,         \* seen[i][j]: age of the heartbeat of j that i read, or None
    culprit,      \* culprit[i]: whose crash i is handling
    lag,          \* lag[i]: age of TimeLag.lastExecution
    del,          \* del[i]: where the deletion of i's own file is
    reported,     \* history: instances reported as crashed (session_end metric)
    lost,         \* history: crashes that left nothing to report them from
    undeleted,    \* history: instances that failed to delete their file
    sleeps        \* history: times the machine slept

tasks  == <<start, beat, beatAge, beatTimer, check, checkTimer, seen, culprit,
            lag, del>>
ghosts == <<lost, undeleted, sleeps>>
vars   == <<osKnown, file, life, tasks, reported, ghosts>>

HeartbeatInterval == CheckInterval \div 2

MaxAge == CheckInterval + 1
Age    == 0..MaxAge
Life   == {"off", "on", "closing", "closed", "crashed"}

TypeOK ==
    /\ osKnown \in BOOLEAN
    /\ file \in [Inst -> Age \cup {None, Empty}]
    /\ life \in [Inst -> Life]
    /\ start \in [Inst -> {"off", "newOs", "clearing", "beat", "check", "done"}]
    /\ beat \in [Inst -> {"none", "open", "write", "verify"}]
    /\ beatAge \in [Inst -> Age]
    /\ beatTimer \in [Inst -> (0..HeartbeatInterval) \cup {None}]
    /\ check \in [Inst -> {"none", "list", "scan", "truncate", "remove", "emit"}]
    /\ checkTimer \in [Inst -> (0..CheckInterval) \cup {None}]
    /\ seen \in [Inst -> [Inst -> Age \cup {None}]]
    /\ culprit \in [Inst -> Inst \cup {None}]
    /\ lag \in [Inst -> Age]
    /\ del \in [Inst -> {"none", "truncate", "remove"}]
    /\ reported \subseteq Inst
    /\ lost \subseteq Inst
    /\ undeleted \subseteq Inst
    /\ sleeps \in 0..MaxSleeps

Nothing == [j \in Inst |-> None]

Init ==
    /\ osKnown = FALSE
    /\ file = Nothing
    /\ life = [i \in Inst |-> "off"]
    /\ start = [i \in Inst |-> "off"]
    /\ beat = [i \in Inst |-> "none"]
    /\ beatAge = [i \in Inst |-> 0]
    /\ beatTimer = Nothing
    /\ check = [i \in Inst |-> "none"]
    /\ checkTimer = Nothing
    /\ seen = [i \in Inst |-> Nothing]
    /\ culprit = Nothing
    /\ lag = [i \in Inst |-> 0]
    /\ del = [i \in Inst |-> "none"]
    /\ reported = {}
    /\ lost = {}
    /\ undeleted = {}
    /\ sleeps = 0

-----------------------------------------------------------------------------
(* Helpers *)

Alive(i) == life[i] \in {"on", "closing"}

\* isExtHeartbeat(): a heartbeat can be read from the file of i.
HasHeartbeat(i) == file[i] \in Age

StoppedEarly(age) == age >= HeartbeatInterval
IsStoppedHeartbeats(age) == age >= CheckInterval

Older(age, k) == IF age + k > MaxAge THEN MaxAge ELSE age + k
Nearer(timer, k) == IF timer = None THEN None
                    ELSE IF timer < k THEN 0 ELSE timer - k

Begin(f, i, x) == f' = [f EXCEPT ![i] = x]

\* sendHeartbeat() captures the time first.
SendHeartbeat(i) == Begin(beat, i, "open") /\ Begin(beatAge, i, 0)

\* Both intervals are cleared and the own file is going to be deleted:
\* cleanup(), of the checker and of the heartbeat.
Cleanup(i) ==
    /\ Begin(beatTimer, i, None)
    /\ Begin(checkTimer, i, None)
    /\ Begin(del, i, "truncate")

\* The processes in S end: their tasks and intervals are gone.
Gone(S) ==
    /\ start' = [i \in Inst |-> IF i \in S THEN "off" ELSE start[i]]
    /\ beat' = [i \in Inst |-> IF i \in S THEN "none" ELSE beat[i]]
    /\ beatTimer' = [i \in Inst |-> IF i \in S THEN None ELSE beatTimer[i]]
    /\ check' = [i \in Inst |-> IF i \in S THEN "none" ELSE check[i]]
    /\ checkTimer' = [i \in Inst |-> IF i \in S THEN None ELSE checkTimer[i]]
    /\ seen' = [i \in Inst |-> IF i \in S THEN Nothing ELSE seen[i]]
    /\ culprit' = [i \in Inst |-> IF i \in S THEN None ELSE culprit[i]]
    /\ del' = [i \in Inst |-> IF i \in S THEN "none" ELSE del[i]]
    /\ UNCHANGED <<beatAge, lag>>

\* i has emptied the file of a crashed instance and not yet reported it.
Handling(i) == check[i] \in {"remove", "emit"}
HandledBy(S) == {culprit[i] : i \in {j \in S : Handling(j)}}

-----------------------------------------------------------------------------
(* CrashMonitoring.instance() and start() *)

\* The extension is activated; isNewOsSession() reads its globalState.
Create(i) ==
    /\ life[i] = "off"
    /\ Begin(life, i, "on")
    /\ \/ /\ osKnown
          /\ Begin(start, i, "beat")
          /\ SendHeartbeat(i)
       \/ /\ ~osKnown
          /\ Begin(start, i, "newOs")
          /\ UNCHANGED <<beat, beatAge>>
    /\ UNCHANGED <<osKnown, file, beatTimer, check, checkTimer, seen, culprit, lag,
                   del, reported, ghosts>>

\* ... and returns true once it has stored the start time.
IsNewOsSession(i) ==
    /\ start[i] = "newOs"
    /\ osKnown' = TRUE
    /\ Begin(start, i, "clearing")
    /\ UNCHANGED <<file, life, beat, beatAge, beatTimer, check, checkTimer, seen,
                   culprit, lag, del, reported, ghosts>>

ClearState(i) ==
    /\ start[i] = "clearing"
    /\ file' = Nothing
    /\ lost' = lost \cup {j \in Inst : life[j] = "crashed"}
    /\ Begin(start, i, "beat")
    /\ SendHeartbeat(i)
    /\ UNCHANGED <<osKnown, life, beatTimer, check, checkTimer, seen, culprit, lag,
                   del, reported, undeleted, sleeps>>

-----------------------------------------------------------------------------
(* sendHeartbeat() *)

BeatTimer(i) ==
    /\ beatTimer[i] = 0
    /\ beat[i] = "none"
    /\ SendHeartbeat(i)
    /\ Begin(beatTimer, i, HeartbeatInterval)
    /\ UNCHANGED <<osKnown, file, life, start, check, checkTimer, seen, culprit,
                   lag, del, reported, ghosts>>

BeatOpen(i) ==
    /\ beat[i] = "open"
    /\ Begin(file, i, Empty)
    /\ Begin(beat, i, "write")
    /\ UNCHANGED <<osKnown, life, start, beatAge, beatTimer, check, checkTimer,
                   seen, culprit, lag, del, reported, ghosts>>

\* A file that was removed meanwhile stays removed.
BeatWrite(i) ==
    /\ beat[i] = "write"
    /\ Begin(file, i, IF file[i] = None THEN None ELSE beatAge[i])
    /\ Begin(beat, i, "verify")
    /\ UNCHANGED <<osKnown, life, start, beatAge, beatTimer, check, checkTimer,
                   seen, culprit, lag, del, reported, ghosts>>

\* The write is read back.  After the first heartbeat start() sets the interval
\* and goes on to the initial check, whatever happened to the extension since.
BeatVerified(i) ==
    /\ beat[i] = "verify"
    /\ file[i] = beatAge[i]
    /\ Begin(beat, i, "none")
    /\ \/ /\ start[i] = "beat"
          /\ Begin(start, i, "check")
          /\ Begin(beatTimer, i, HeartbeatInterval)
          /\ Begin(check, i, "list")
       \/ /\ start[i] # "beat"
          /\ UNCHANGED <<start, beatTimer, check>>
    /\ UNCHANGED <<osKnown, file, life, beatAge, checkTimer, seen, culprit, lag,
                   del, reported, ghosts>>

\* Somebody emptied or removed the file: try again with the same time.
BeatRetry(i) ==
    /\ beat[i] = "verify"
    /\ file[i] # beatAge[i]
    /\ Begin(beat, i, "open")
    /\ UNCHANGED <<osKnown, file, life, start, beatAge, beatTimer, check,
                   checkTimer, seen, culprit, lag, del, reported, ghosts>>

\* Every attempt failed: stop monitoring this instance.  (The handler of the
\* interval clears the interval of the checker last; its two deletions are one.)
BeatFails(i) ==
    /\ Flaky
    /\ beat[i] # "none"
    /\ Begin(beat, i, "none")
    /\ Begin(start, i, IF start[i] = "beat" THEN "done" ELSE start[i])
    /\ Cleanup(i)
    /\ UNCHANGED <<osKnown, file, life, beatAge, check, seen, culprit, lag,
                   reported, ghosts>>

-----------------------------------------------------------------------------
(* tryCheckCrash() *)

LagWithoutBuffer(i) == lag[i] >= CheckInterval
DidLag(i) == lag[i] > CheckInterval

CheckTimer(i) ==
    /\ checkTimer[i] = 0
    /\ check[i] = "none"
    /\ Begin(checkTimer, i, CheckInterval)
    /\ \/ DidLag(i) /\ Begin(lag, i, 0) /\ UNCHANGED check
       \/ ~DidLag(i) /\ Begin(check, i, "list") /\ UNCHANGED lag
    /\ UNCHANGED <<osKnown, file, life, start, beat, beatAge, beatTimer, seen,
                   culprit, del, reported, ghosts>>

GetAllFiles(i) ==
    /\ check[i] = "list"
    /\ Begin(seen, i, file)
    /\ Begin(check, i, "scan")
    /\ UNCHANGED <<osKnown, file, life, start, beat, beatAge, beatTimer,
                   checkTimer, culprit, lag, del, reported, ghosts>>
\* getAllExts(): a missing, empty or torn file is skipped.
GetAllExts(i) ==
    /\ check[i] = "list"
    /\ Begin(seen, i, [j \in Inst |-> IF HasHeartbeat(j) THEN file[j] ELSE None])
    /\ Begin(check, i, "scan")
    /\ UNCHANGED <<osKnown, file, life, start, beat, beatAge, beatTimer,
                   checkTimer, culprit, lag, del, reported, ghosts>>

StillRunning(i, j) ==
    /\ check[i] = "scan"
    /\ seen[i][j] # None
    /\ ~IsStoppedHeartbeats(seen[i][j])
    /\ seen' = [seen EXCEPT ![i][j] = None]
    /\ UNCHANGED <<osKnown, file, life, start, beat, beatAge, beatTimer, check,
                   checkTimer, culprit, lag, del, reported, ghosts>>

DidCrash(i, j) ==
    /\ check[i] = "scan"
    /\ seen[i][j] # None
    /\ IsStoppedHeartbeats(seen[i][j])
    /\ seen' = [seen EXCEPT ![i][j] = None]
    /\ Begin(culprit, i, j)
    /\ Begin(check, i, "truncate")
    /\ UNCHANGED <<osKnown, file, life, start, beat, beatAge, beatTimer,
                   checkTimer, lag, del, reported, ghosts>>

\* handleCrashedExt(): empty the file, remove it, then report.
TruncateCrashed(i) ==
    /\ check[i] = "truncate"
    /\ Begin(file, culprit[i], Empty)
    /\ Begin(check, i, "remove")
    /\ UNCHANGED <<osKnown, life, start, beat, beatAge, beatTimer, checkTimer,
                   seen, culprit, lag, del, reported, ghosts>>

RemoveCrashedDir(i) ==
    /\ check[i] = "remove"
    /\ file' = Nothing
    /\ Begin(check, i, "emit")
    /\ UNCHANGED <<osKnown, life, start, beat, beatAge, beatTimer, checkTimer,
                   seen, culprit, lag, del, reported, ghosts>>
RemoveCrashed(i) ==
    /\ check[i] = "remove"
    /\ Begin(file, culprit[i], None)
    /\ Begin(check, i, "emit")
    /\ UNCHANGED <<osKnown, life, start, beat, beatAge, beatTimer, checkTimer,
                   seen, culprit, lag, del, reported, ghosts>>

EmitIfLast(i) ==
    /\ check[i] = "emit"
    /\ reported' = IF \E j \in Inst \ {i} : culprit[j] = culprit[i]
                   THEN reported ELSE reported \cup {culprit[i]}
    /\ Begin(culprit, i, None)
    /\ Begin(check, i, "scan")
    /\ UNCHANGED <<osKnown, file, life, start, beat, beatAge, beatTimer,
                   checkTimer, seen, lag, del, ghosts>>
EmitSessionEnd(i) ==
    /\ check[i] = "emit"
    /\ reported' = reported \cup {culprit[i]}
    /\ Begin(culprit, i, None)
    /\ Begin(check, i, "scan")
    /\ UNCHANGED <<osKnown, file, life, start, beat, beatAge, beatTimer,
                   checkTimer, seen, lag, del, ghosts>>

\* After the initial check start() sets the interval.
CheckDone(i) ==
    /\ check[i] = "scan"
    /\ seen[i] = Nothing
    /\ Begin(check, i, "none")
    /\ Begin(lag, i, 0)
    /\ \/ /\ start[i] = "check"
          /\ Begin(start, i, "done")
          /\ Begin(checkTimer, i, CheckInterval)
       \/ /\ start[i] # "check"
          /\ UNCHANGED <<start, checkTimer>>
    /\ UNCHANGED <<osKnown, file, life, beat, beatAge, beatTimer, seen, culprit,
                   del, reported, ghosts>>

CheckFails(i) ==
    /\ Flaky
    /\ check[i] \in {"list", "truncate", "remove"}
    /\ Begin(check, i, "none")
    /\ Begin(seen, i, Nothing)
    /\ Begin(culprit, i, None)
    /\ Begin(start, i, "done")
    /\ Cleanup(i)
    /\ lost' = lost \cup HandledBy({i})
    /\ UNCHANGED <<osKnown, file, life, beat, beatAge, lag, reported, undeleted,
                   sleeps>>

-----------------------------------------------------------------------------
(* shutdown(), indicateGracefulShutdown() and the end of the process *)

\* deactivate(), which activate() precedes; start() may still be running.
Shutdown(i) ==
    /\ "shutdown" \in Ends
    /\ life[i] = "on"
    /\ start[i] \notin {"newOs", "clearing"}
    /\ Begin(life, i, "closing")
    /\ Cleanup(i)
    /\ UNCHANGED <<osKnown, file, start, beat, beatAge, check, seen, culprit, lag,
                   reported, ghosts>>

TruncateOwn(i) ==
    /\ del[i] = "truncate"
    /\ Begin(file, i, Empty)
    /\ Begin(del, i, "remove")
    /\ UNCHANGED <<osKnown, life, start, beat, beatAge, beatTimer, check,
                   checkTimer, seen, culprit, lag, reported, ghosts>>

RemoveAll(i) ==
    /\ del[i] = "remove"
    /\ file' = Nothing
    /\ Begin(del, i, "none")
    /\ UNCHANGED <<osKnown, life, start, beat, beatAge, beatTimer, check,
                   checkTimer, seen, culprit, lag, reported, ghosts>>
RemoveOwn(i) ==
    /\ del[i] = "remove"
    /\ Begin(file, i, None)
    /\ Begin(del, i, "none")
    /\ UNCHANGED <<osKnown, life, start, beat, beatAge, beatTimer, check,
                   checkTimer, seen, culprit, lag, reported, ghosts>>

DeleteFails(i) ==
    /\ Flaky
    /\ del[i] # "none"
    /\ Begin(del, i, "none")
    /\ undeleted' = undeleted \cup {i}
    /\ UNCHANGED <<osKnown, file, life, start, beat, beatAge, beatTimer, check,
                   checkTimer, seen, culprit, lag, reported, lost, sleeps>>

Exit(i) ==
    /\ life[i] = "closing"
    /\ del[i] = "none"
    /\ Begin(life, i, "closed")
    /\ Gone({i})
    /\ lost' = lost \cup HandledBy({i})
    /\ UNCHANGED <<osKnown, file, reported, undeleted, sleeps>>

\* The extension host dies, or is killed while it deactivates.
Crash(i) ==
    /\ "crash" \in Ends
    /\ Alive(i)
    /\ Begin(life, i, "crashed")
    /\ Gone({i})
    /\ lost' = lost \cup HandledBy({i}) \cup {j \in {i} : ~HasHeartbeat(j)}
    /\ UNCHANGED <<osKnown, file, reported, undeleted, sleeps>>

\* The machine goes down.
Reboot ==
    LET down == {i \in Inst : Alive(i)} IN
    /\ "reboot" \in Ends
    /\ down # {}
    /\ life' = [i \in Inst |-> IF i \in down THEN "crashed" ELSE life[i]]
    /\ Gone(down)
    /\ osKnown' = FALSE
    /\ lost' = lost \cup HandledBy(down) \cup {i \in down : ~HasHeartbeat(i)}
    /\ UNCHANGED <<file, reported, undeleted, sleeps>>

-----------------------------------------------------------------------------
(* Time *)

Elapse(k) ==
    /\ file' = [i \in Inst |-> IF HasHeartbeat(i) THEN Older(file[i], k) ELSE file[i]]
    /\ beatAge' = [i \in Inst |-> IF beat[i] = "none" THEN 0 ELSE Older(beatAge[i], k)]
    /\ lag' = [i \in Inst |-> IF checkTimer[i] = None THEN 0 ELSE Older(lag[i], k)]
    /\ seen' = [i \in Inst |-> [j \in Inst |->
                   IF seen[i][j] = None THEN None ELSE Older(seen[i][j], k)]]
    /\ beatTimer' = [i \in Inst |-> Nearer(beatTimer[i], k)]
    /\ checkTimer' = [i \in Inst |-> Nearer(checkTimer[i], k)]
    /\ UNCHANGED <<osKnown, life, start, beat, check, culprit, del, reported, lost,
                   undeleted>>

\* Nothing is due or under way in i.
Idle(i) ==
    /\ life[i] # "closing"
    /\ start[i] \in {"off", "done"}
    /\ beat[i] = "none" /\ check[i] = "none" /\ del[i] = "none"
    /\ beatTimer[i] # 0 /\ checkTimer[i] # 0

Tick == (\A i \in Inst : Idle(i)) /\ Elapse(1) /\ UNCHANGED sleeps

\* While the machine sleeps nothing runs; what came due runs when it wakes.
Sleep ==
    /\ sleeps < MaxSleeps
    /\ sleeps' = sleeps + 1
    /\ \E k \in Naps : Elapse(k)

-----------------------------------------------------------------------------

Starting(i) == IsNewOsSession(i) \/ ClearState(i)

Beating(i) ==
    \/ BeatTimer(i) \/ BeatOpen(i) \/ BeatWrite(i) \/ BeatVerified(i)
    \/ BeatRetry(i) \/ BeatFails(i)

Checking(i) ==
    \/ CheckTimer(i) \/ GetAllExts(i) \/ TruncateCrashed(i) \/ RemoveCrashed(i)
    \/ EmitSessionEnd(i) \/ CheckDone(i) \/ CheckFails(i)
    \/ \E j \in Inst : StillRunning(i, j) \/ DidCrash(i, j)

Deleting(i) == TruncateOwn(i) \/ RemoveOwn(i) \/ DeleteFails(i)

Ending(i) == Shutdown(i) \/ Exit(i) \/ Crash(i)

Next ==
    \/ \E i \in Inst : Create(i) \/ Starting(i) \/ Beating(i) \/ Checking(i)
                       \/ Deleting(i) \/ Ending(i)
    \/ Reboot \/ Tick \/ Sleep

Spec == Init /\ [][Next]_vars

\* The event loop of a running instance runs what is due, file operations end,
\* and time passes.  Nobody has to open or close an editor.
Fairness ==
    /\ WF_vars(Tick)
    /\ \A i \in Inst :
          /\ WF_vars(Starting(i)) /\ WF_vars(Beating(i)) /\ WF_vars(Checking(i))
          /\ WF_vars(Deleting(i)) /\ WF_vars(Exit(i))

FairSpec == Spec /\ Fairness

-----------------------------------------------------------------------------
(* Properties *)

\* The new reports of a step, each of a process that still runs.
FalselyReported == {i \in reported' \ reported : life[i] = "on"}

\* While the machine does not sleep, no check ever takes a running instance that
\* sends heartbeats for a crashed one, whatever it read and however long ago: only
\* one that stopped sending them, as the disk failed, can be reported.
NoFalseCrash ==
    [][sleeps = 0 => \A i \in FalselyReported : Flaky /\ beatTimer[i] = None]_vars

\* "Skip 1 crash check interval to allow for a new heartbeat to be sent": the
\* check on the interval does not take another instance that slept for a crashed
\* one.
SleepIsNoCrash ==
    [][\A i \in Inst :
         start[i] = "done" /\ check[i] = "emit" /\ check'[i] = "scan"
         /\ culprit[i] # i => culprit[i] \notin FalselyReported]_vars

\* "Cleanup everything to prevent false crash report": an instance that cannot
\* send heartbeats is only reported if it could not delete its file either.
CleanupPreventsFalseCrash == [][sleeps = 0 => FalselyReported \subseteq undeleted]_vars

\* "Impossible to report on": an instance that shut down gracefully is never
\* reported as crashed.
GracefulIsNoCrash == \A i \in reported : life[i] # "closed"

\* Every crash stays reportable until it is reported: its heartbeat is in the
\* file, or a living checker that took the file away has yet to emit the report.
\* (lost has the crashes outside: no heartbeat at the time, a restart of the
\* machine, a checker that died holding it.)
CrashNotForgotten ==
    \A i \in Inst : life[i] = "crashed" =>
        \/ i \in reported \cup lost
        \/ HasHeartbeat(i)
        \/ \E j \in Inst : Alive(j) /\ Handling(j) /\ culprit[j] = i

\* "true if this is the First call to this function across all extension
\* instances since the OS was last restarted".
FirstCallOnly ==
    [][\A i \in Inst : start[i] = "newOs" /\ start'[i] = "clearing" => ~osKnown]_vars

\* A crash that left a heartbeat is reported in the end, unless nobody is there
\* to do so.
CrashReported ==
    \A i \in Inst :
        life[i] = "crashed" /\ i \notin lost
            ~> \/ i \in reported \cup lost
               \/ \A j \in Inst : life[j] # "on"
=============================================================================
