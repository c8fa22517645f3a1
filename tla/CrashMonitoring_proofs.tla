------------------------ MODULE CrashMonitoring_proofs ------------------------
(* Proofs about CrashMonitoring, for every set of instances and every interval. *)
EXTENDS CrashMonitoring, TLAPS

-----------------------------------------------------------------------------
(* Type correctness *)

\* Only a living process has tasks and intervals, and a check that found a crash
\* knows whose.
Tasks ==
    \A i \in Inst :
        /\ ~Alive(i) => /\ beat[i] = "none" /\ beatTimer[i] = None
                        /\ check[i] = "none" /\ checkTimer[i] = None
                        /\ del[i] = "none" /\ start[i] = "off"
        /\ check[i] \in {"truncate", "remove", "emit"} => culprit[i] # None
        /\ check[i] = "none" => seen[i] = Nothing

TypeInv == TypeOK /\ Tasks

\* Ages and intervals.
LEMMA Times ==
    /\ HeartbeatInterval \in Nat /\ 0 < HeartbeatInterval
    /\ HeartbeatInterval < CheckInterval /\ CheckInterval \in Nat
    /\ MaxAge = CheckInterval + 1 /\ Age = 0..MaxAge
BY IntervalAssumption DEF HeartbeatInterval, MaxAge, Age

\* Where the actions set ages and timers.
LEMMA Resets ==
    /\ 0 \in Age
    /\ HeartbeatInterval \in (0..HeartbeatInterval) \cup {None}
    /\ CheckInterval \in (0..CheckInterval) \cup {None}
    /\ HeartbeatInterval # None /\ CheckInterval # None /\ 0 # None
    /\ None \notin Age /\ Empty \notin Age
BY Times, NoneAssumption

\* Time passing keeps ages and timers in their ranges.
LEMMA ElapseTypes ==
    ASSUME NEW k \in Nat
    PROVE  /\ \A age \in Age : Older(age, k) \in Age
           /\ \A t \in (0..HeartbeatInterval) \cup {None} :
                 Nearer(t, k) \in (0..HeartbeatInterval) \cup {None}
           /\ \A t \in (0..CheckInterval) \cup {None} :
                 Nearer(t, k) \in (0..CheckInterval) \cup {None}
BY Times, NoneAssumption DEF Older, Nearer

\* Processes that end leave nothing running behind.
LEMMA GoneType ==
    ASSUME TypeInv, NEW S \in SUBSET Inst, Gone(S), life' \in [Inst -> Life],
           \A i \in Inst : i \notin S => life'[i] = life[i],
           file' = file, osKnown' \in BOOLEAN, reported' = reported,
           lost' \subseteq Inst, undeleted' = undeleted, sleeps' = sleeps
    PROVE  TypeInv'
<1> USE DEF TypeInv, TypeOK, Gone
<1>1. TypeOK'
  BY DEF Nothing
<1>2. Tasks'
  BY DEF Tasks, Alive
<1> QED BY <1>1, <1>2

\* What a dying process held is a set of instances.
LEMMA HandledType == ASSUME TypeInv, NEW S \in SUBSET Inst PROVE HandledBy(S) \subseteq Inst
BY DEF TypeInv, TypeOK, Tasks, HandledBy, Handling

\* Starting and sending heartbeats keep the types.
LEMMA BeatType ==
    ASSUME TypeInv, NEW i \in Inst, Create(i) \/ Starting(i) \/ Beating(i)
    PROVE  TypeInv'
<1> USE DEF TypeInv, TypeOK, Begin, SendHeartbeat, Cleanup, ghosts
<1>0. 0 \in Age
  BY Times
<1>1. CASE Create(i)
  <2>1. life' \in [Inst -> Life]
    BY <1>1 DEF Create, Life
  <2>2. /\ start' \in [Inst -> {"off", "newOs", "clearing", "beat", "check", "done"}]
        /\ beat' \in [Inst -> {"none", "open", "write", "verify"}]
        /\ beatAge' \in [Inst -> Age]
    <3>1. CASE osKnown
      <4>1. /\ start' = [start EXCEPT ![i] = "beat"]
            /\ beat' = [beat EXCEPT ![i] = "open"]
            /\ beatAge' = [beatAge EXCEPT ![i] = 0]
        BY <1>1, <3>1 DEF Create
      <4> QED BY <1>0, <4>1
    <3>2. CASE ~osKnown
      BY <1>0, <1>1, <3>2 DEF Create
    <3> QED BY <3>1, <3>2
  <2>3. TypeOK'
    BY <1>1, <2>1, <2>2 DEF Create
  <2> QED BY <1>1, <2>3 DEF Create, Tasks, Alive
<1>2. CASE IsNewOsSession(i)
  BY <1>2 DEF IsNewOsSession, Tasks, Alive
<1>3. CASE ClearState(i)
  <2>1. TypeOK'
    BY <1>0, <1>3 DEF ClearState, Nothing
  <2> QED BY <1>3, <2>1 DEF ClearState, Tasks, Alive
<1>4. CASE BeatTimer(i)
  <2>1. TypeOK'
    BY <1>0, <1>4, Resets DEF BeatTimer
  <2> QED BY <1>4, <2>1, Resets DEF BeatTimer, Tasks, Alive
<1>5. CASE BeatOpen(i)
  BY <1>5 DEF BeatOpen, Tasks, Alive
<1>6. CASE BeatWrite(i)
  BY <1>6 DEF BeatWrite, Tasks, Alive
<1>7. CASE BeatVerified(i)
  <2>1. /\ start' \in [Inst -> {"off", "newOs", "clearing", "beat", "check", "done"}]
        /\ beatTimer' \in [Inst -> (0..HeartbeatInterval) \cup {None}]
        /\ check' \in [Inst -> {"none", "list", "scan", "truncate", "remove", "emit"}]
    <3>1. CASE start[i] = "beat"
      <4>1. /\ start' = [start EXCEPT ![i] = "check"]
            /\ beatTimer' = [beatTimer EXCEPT ![i] = HeartbeatInterval]
            /\ check' = [check EXCEPT ![i] = "list"]
        BY <1>7, <3>1 DEF BeatVerified
      <4> QED BY <4>1, Resets
    <3>2. CASE start[i] # "beat"
      BY <1>7, <3>2 DEF BeatVerified
    <3> QED BY <3>1, <3>2
  <2>2. TypeOK'
    BY <1>7, <2>1 DEF BeatVerified
  <2> QED BY <1>7, <2>2 DEF BeatVerified, Tasks, Alive
<1>8. CASE BeatRetry(i)
  BY <1>8 DEF BeatRetry, Tasks, Alive
<1>9. CASE BeatFails(i)
  BY <1>9 DEF BeatFails, Tasks, Alive
<1> QED BY <1>1, <1>2, <1>3, <1>4, <1>5, <1>6, <1>7, <1>8, <1>9 DEF Starting, Beating

\* Checking for crashes keeps the types.
LEMMA CheckType == ASSUME TypeInv, NEW i \in Inst, Checking(i) PROVE TypeInv'
<1> USE DEF TypeInv, TypeOK, Begin, Cleanup, ghosts
<1>1. CASE CheckTimer(i)
  <2>1. TypeOK'
    BY <1>1, Resets DEF CheckTimer
  <2> QED BY <1>1, <2>1, Resets DEF CheckTimer, Tasks, Alive
<1>2. CASE GetAllExts(i)
  <2>1. [j \in Inst |-> IF HasHeartbeat(j) THEN file[j] ELSE None]
           \in [Inst -> Age \cup {None}]
    BY DEF HasHeartbeat
  <2>2. TypeOK'
    BY <1>2, <2>1 DEF GetAllExts
  <2> QED BY <1>2, <2>2 DEF GetAllExts, Tasks, Alive
<1>3. ASSUME NEW j \in Inst, StillRunning(i, j) PROVE TypeInv'
  BY <1>3 DEF StillRunning, Tasks, Alive
<1>4. ASSUME NEW j \in Inst, DidCrash(i, j) PROVE TypeInv'
  <2>1. TypeOK'
    BY <1>4 DEF DidCrash
  <2> QED BY <1>4, <2>1, NoneAssumption DEF DidCrash, Tasks, Alive
<1>5. CASE TruncateCrashed(i)
  BY <1>5 DEF TruncateCrashed, Tasks, Alive
<1>6. CASE RemoveCrashed(i)
  BY <1>6 DEF RemoveCrashed, Tasks, Alive
<1>7. CASE EmitSessionEnd(i)
  BY <1>7 DEF EmitSessionEnd, Tasks, Alive
<1>8. CASE CheckDone(i)
  <2>1. TypeOK'
    BY SMTT(30), <1>8, Resets DEF CheckDone
  <2> QED BY <1>8, <2>1 DEF CheckDone, Tasks, Alive
<1>9. CASE CheckFails(i)
  <2>1. HandledBy({i}) \subseteq Inst
    BY HandledType
  <2>2. TypeOK'
    BY <1>9, <2>1 DEF CheckFails, Nothing
  <2>3. Alive(i)
    BY <1>9 DEF CheckFails, Tasks
  <2>4. ASSUME NEW j \in Inst, j # i
        PROVE  /\ UNCHANGED <<life[j], beat[j], beatTimer[j], check[j], checkTimer[j],
                              del[j], start[j], culprit[j], seen[j]>>
    BY <1>9, <2>4 DEF CheckFails
  <2>5. life' = life /\ check'[i] = "none" /\ seen'[i] = Nothing
    BY <1>9 DEF CheckFails
  <2> QED BY <2>2, <2>3, <2>4, <2>5 DEF Tasks, Alive, Nothing
<1> QED BY <1>1, <1>2, <1>3, <1>4, <1>5, <1>6, <1>7, <1>8, <1>9 DEF Checking

\* Shutting down, dying and sleeping keep the types.
LEMMA EndType ==
    ASSUME TypeInv, NEW i \in Inst, Deleting(i) \/ Ending(i) PROVE TypeInv'
<1> USE DEF TypeInv, TypeOK, Begin, Cleanup, ghosts
<1>1. CASE Shutdown(i)
  BY <1>1 DEF Shutdown, Life, Tasks, Alive
<1>2. CASE TruncateOwn(i) \/ RemoveOwn(i) \/ DeleteFails(i)
  BY <1>2 DEF TruncateOwn, RemoveOwn, DeleteFails, Tasks, Alive
<1>3. CASE Exit(i)
  <2>1. HandledBy({i}) \subseteq Inst
    BY HandledType
  <2> QED BY <1>3, <2>1, GoneType DEF Exit, Life
<1>4. CASE Crash(i)
  <2>1. HandledBy({i}) \subseteq Inst
    BY HandledType
  <2> QED BY <1>4, <2>1, GoneType DEF Crash, Life
<1> QED BY <1>1, <1>2, <1>3, <1>4 DEF Deleting, Ending

\* So does the machine.
LEMMA MachineType == ASSUME TypeInv, Reboot \/ Tick \/ Sleep PROVE TypeInv'
<1> USE DEF TypeInv, TypeOK
<1>1. CASE Reboot
  <2> DEFINE down == {i \in Inst : Alive(i)}
  <2>1. HandledBy(down) \subseteq Inst
    BY HandledType
  <2>2. Gone(down) /\ life' = [i \in Inst |-> IF i \in down THEN "crashed" ELSE life[i]]
    BY <1>1 DEF Reboot
  <2>3. life' \in [Inst -> Life]
    BY <2>2 DEF Life
  <2> QED BY <1>1, <2>1, <2>2, <2>3, GoneType DEF Reboot
<1>2. ASSUME NEW k \in Nat, Elapse(k), sleeps' \in 0..MaxSleeps PROVE TypeInv'
  <2>1. 0 \in Age /\ None \notin Age /\ Empty \notin Age
    BY Times, NoneAssumption
  <2>2. file' \in [Inst -> Age \cup {None, Empty}]
    BY <1>2, ElapseTypes DEF Elapse, HasHeartbeat
  <2>a. beatAge' \in [Inst -> Age] /\ lag' \in [Inst -> Age]
    BY <1>2, <2>1, ElapseTypes DEF Elapse
  <2>b. seen' \in [Inst -> [Inst -> Age \cup {None}]]
    BY <1>2, ElapseTypes DEF Elapse
  <2>c. /\ beatTimer' \in [Inst -> (0..HeartbeatInterval) \cup {None}]
        /\ checkTimer' \in [Inst -> (0..CheckInterval) \cup {None}]
    BY <1>2, ElapseTypes DEF Elapse
  <2>d. UNCHANGED <<osKnown, life, start, beat, check, culprit, del, reported, lost,
                    undeleted>>
    BY <1>2 DEF Elapse
  <2>e. TypeOK'
    BY <1>2, <2>2, <2>a, <2>b, <2>c, <2>d
  <2>3. \A i \in Inst : check[i] = "none" => seen'[i] = Nothing
    BY <1>2 DEF Elapse, Tasks, Nothing
  <2>4. \A i \in Inst :
           /\ beatTimer[i] = None => beatTimer'[i] = None
           /\ checkTimer[i] = None => checkTimer'[i] = None
    BY <1>2 DEF Elapse, Nearer
  <2>5. Tasks'
    <3> HIDE DEF TypeInv, TypeOK
    <3>1. SUFFICES ASSUME NEW i \in Inst
          PROVE  /\ ~Alive(i)' => /\ beat'[i] = "none" /\ beatTimer'[i] = None
                                  /\ check'[i] = "none" /\ checkTimer'[i] = None
                                  /\ del'[i] = "none" /\ start'[i] = "off"
                 /\ check'[i] \in {"truncate", "remove", "emit"} => culprit'[i] # None
                 /\ check'[i] = "none" => seen'[i] = Nothing
      BY DEF Tasks, Nothing
    <3>2. /\ Alive(i)' <=> Alive(i)
          /\ beat' = beat /\ check' = check /\ del' = del
          /\ start' = start /\ culprit' = culprit
      BY <2>d DEF Alive
    <3>3. /\ ~Alive(i) => /\ beat[i] = "none" /\ beatTimer[i] = None
                          /\ check[i] = "none" /\ checkTimer[i] = None
                          /\ del[i] = "none" /\ start[i] = "off"
          /\ check[i] \in {"truncate", "remove", "emit"} => culprit[i] # None
      BY DEF TypeInv, Tasks
    <3>4. ~Alive(i) => beatTimer'[i] = None /\ checkTimer'[i] = None
      BY <2>4, <3>3
    <3>5. check'[i] = "none" => seen'[i] = Nothing
      BY <2>3, <3>2
    <3> QED BY <3>2, <3>3, <3>4, <3>5
  <2> QED BY <2>5, <2>e
<1>3. CASE Tick
  BY <1>2, <1>3 DEF Tick
<1>4. CASE Sleep
  BY <1>2, <1>4, SleepAssumption DEF Sleep
<1> QED BY <1>1, <1>3, <1>4

\* Every step keeps the types.
LEMMA TypeStep == TypeInv /\ [Next]_vars => TypeInv'
<1>1. TypeInv /\ UNCHANGED vars => TypeInv'
  BY DEF TypeInv, TypeOK, Tasks, Alive, Nothing, vars, tasks, ghosts
<1> QED BY <1>1, BeatType, CheckType, EndType, MachineType DEF Next

\* They hold before any editor is opened.
LEMMA TypeInit == Init => TypeInv
<1> SUFFICES ASSUME Init PROVE TypeOK /\ Tasks
  BY DEF TypeInv
<1>1. Tasks
  BY NoneAssumption DEF Init, Tasks, Alive, Nothing
<1>2. TypeOK
  <2>1. Nothing \in [Inst -> Age \cup {None}] /\ 0 \in 0..MaxSleeps
    BY SleepAssumption DEF Nothing
  <2>2. /\ Nothing \in [Inst -> Age \cup {None, Empty}]
        /\ Nothing \in [Inst -> (0..HeartbeatInterval) \cup {None}]
        /\ Nothing \in [Inst -> (0..CheckInterval) \cup {None}]
        /\ Nothing \in [Inst -> Inst \cup {None}]
    BY DEF Nothing
  <2>3. [i \in Inst |-> 0] \in [Inst -> Age]
    BY Resets
  <2> QED BY <2>1, <2>2, <2>3 DEF Init, TypeOK, Life
<1> QED BY <1>1, <1>2

\* Files hold a heartbeat or nothing, ages and timers stay in their ranges: the
\* abstraction of time covers every value the code compares.
THEOREM TypeCorrect == Spec => []TypeOK
<1>1. TypeInv => TypeOK
  BY DEF TypeInv
<1> QED BY <1>1, TypeInit, TypeStep, PTL DEF Spec

-----------------------------------------------------------------------------
(* No crash is forgotten *)

\* The first check comes after the first heartbeat.
Ordered ==
    \A i \in Inst : start[i] \in {"off", "newOs", "clearing", "beat"}
                       => check[i] = "none" /\ checkTimer[i] = None

\* i is reported, or can still be: its heartbeat is there, or somebody has it.
Reportable(i) ==
    \/ i \in reported \cup lost
    \/ HasHeartbeat(i)
    \/ \E j \in Inst : Alive(j) /\ Handling(j) /\ culprit[j] = i

ReportInv == TypeInv /\ Ordered /\ CrashNotForgotten

\* A step keeps c reportable if it keeps the heartbeat of c and whoever holds it.
LEMMA StaysReportable ==
    ASSUME NEW c \in Inst, Reportable(c),
           HasHeartbeat(c) => HasHeartbeat(c)',
           reported \cup lost \subseteq reported' \cup lost',
           \A j \in Inst : Alive(j) /\ Handling(j) /\ culprit[j] = c =>
               \/ c \in reported' \cup lost'
               \/ Alive(j)' /\ Handling(j)' /\ culprit'[j] = c
    PROVE  Reportable(c)'
BY DEF Reportable

\* A step of starting or of the heartbeat keeps the order.
LEMMA OrderedStep == TypeInv /\ Ordered /\ [Next]_vars => Ordered'
<1> SUFFICES ASSUME TypeInv, Ordered, [Next]_vars PROVE Ordered'
  OBVIOUS
<1> USE DEF Begin, Cleanup, SendHeartbeat, ghosts
<1>0. TypeOK /\ Tasks
  BY DEF TypeInv
<1>1. ASSUME NEW i \in Inst, Create(i) \/ Starting(i) PROVE Ordered'
  BY <1>0, <1>1 DEF Create, Starting, IsNewOsSession, ClearState, Ordered, Tasks,
                    Alive, TypeOK
<1>2. ASSUME NEW i \in Inst, Beating(i) PROVE Ordered'
  <2>1. CASE BeatTimer(i) \/ BeatOpen(i) \/ BeatWrite(i) \/ BeatRetry(i) \/ BeatFails(i)
    BY <1>0, <2>1 DEF BeatTimer, BeatOpen, BeatWrite, BeatRetry, BeatFails, Ordered,
                      TypeOK
  <2>2. CASE BeatVerified(i)
    BY <1>0, <2>2 DEF BeatVerified, Ordered, TypeOK
  <2> QED BY <1>2, <2>1, <2>2 DEF Beating
<1>3. ASSUME NEW i \in Inst, Checking(i) PROVE Ordered'
  <2>1. CASE CheckTimer(i)
    BY <1>0, <2>1, Resets DEF CheckTimer, Ordered, TypeOK
  <2>2. CASE GetAllExts(i) \/ TruncateCrashed(i) \/ RemoveCrashed(i) \/ EmitSessionEnd(i)
             \/ \E j \in Inst : StillRunning(i, j) \/ DidCrash(i, j)
    BY <1>0, <2>2 DEF GetAllExts, TruncateCrashed, RemoveCrashed, EmitSessionEnd,
                      StillRunning, DidCrash, Ordered, TypeOK
  <2>3. CASE CheckDone(i) \/ CheckFails(i)
    BY <1>0, <2>3 DEF CheckDone, CheckFails, Ordered, TypeOK
  <2> QED BY <1>3, <2>1, <2>2, <2>3 DEF Checking
<1>4. ASSUME NEW i \in Inst, Deleting(i) \/ Ending(i) PROVE Ordered'
  BY <1>0, <1>4 DEF Deleting, Ending, TruncateOwn, RemoveOwn, DeleteFails, Shutdown,
                    Exit, Crash, Gone, Ordered, TypeOK
<1>5. CASE Reboot
  BY <1>0, <1>5 DEF Reboot, Gone, Ordered, TypeOK
<1>6. CASE Tick \/ Sleep
  BY <1>0, <1>6 DEF Tick, Sleep, Elapse, Nearer, Ordered, TypeOK
<1>7. CASE UNCHANGED vars
  BY <1>7 DEF Ordered, vars, tasks
<1> QED BY <1>1, <1>2, <1>3, <1>4, <1>5, <1>6, <1>7 DEF Next

\* No step makes a crash that could be reported unreportable.
LEMMA ReportStep == ReportInv /\ [Next]_vars => CrashNotForgotten'
<1> SUFFICES ASSUME ReportInv, [Next]_vars,
                    NEW c \in Inst, life'[c] = "crashed"
             PROVE  Reportable(c)'
  BY DEF CrashNotForgotten, Reportable
<1> USE DEF Begin, Cleanup, SendHeartbeat, ghosts
<1>0. TypeOK /\ Tasks /\ Ordered
  BY DEF ReportInv, TypeInv
<1>a. life[c] = "crashed" => Reportable(c) /\ ~Alive(c)
  BY DEF ReportInv, CrashNotForgotten, Reportable, Alive
<1>1. ASSUME NEW i \in Inst, Create(i) PROVE Reportable(c)'
  <2>1. life[c] = "crashed"
    BY <1>0, <1>1 DEF Create, TypeOK
  <2> QED BY <1>0, <1>1, <1>a, <2>1, StaysReportable
          DEF Create, TypeOK, HasHeartbeat, Alive, Handling
<1>2. ASSUME NEW i \in Inst, Starting(i) PROVE Reportable(c)'
  <2>1. CASE IsNewOsSession(i)
    BY <1>a, <2>1, StaysReportable DEF IsNewOsSession, HasHeartbeat, Alive, Handling
  <2>2. CASE ClearState(i)
    BY <2>2 DEF ClearState, Reportable
  <2> QED BY <1>2, <2>1, <2>2 DEF Starting
<1>3. ASSUME NEW i \in Inst, Beating(i) PROVE Reportable(c)'
  <2>1. UNCHANGED <<life, culprit, reported, lost>> /\ Alive(i)
    BY <1>0, <1>3, Resets
    DEF Beating, BeatTimer, BeatOpen, BeatWrite, BeatVerified, BeatRetry, BeatFails, Tasks
  <2>2. Reportable(c) /\ c # i
    BY <1>a, <2>1
  <2>3. file'[c] = file[c]
    BY <1>0, <1>3, <2>2 DEF Beating, BeatTimer, BeatOpen, BeatWrite, BeatVerified,
                            BeatRetry, BeatFails, TypeOK
  <2>4. \A j \in Inst : Handling(j) => Handling(j)'
    BY <1>0, <1>3 DEF Beating, BeatTimer, BeatOpen, BeatWrite, BeatVerified, BeatRetry,
                      BeatFails, Handling, Ordered, TypeOK
  <2> QED BY <2>1, <2>2, <2>3, <2>4, StaysReportable DEF HasHeartbeat, Alive
<1>4. ASSUME NEW i \in Inst, Checking(i) PROVE Reportable(c)'
  <2>1. /\ UNCHANGED life /\ Reportable(c) /\ Alive(i)
    BY <1>0, <1>4, <1>a, Resets
    DEF Checking, CheckTimer, GetAllExts, StillRunning, DidCrash, TruncateCrashed,
        RemoveCrashed, EmitSessionEnd, CheckDone, CheckFails, Tasks
  <2>2. CASE CheckTimer(i) \/ GetAllExts(i) \/ CheckDone(i)
             \/ \E j \in Inst : StillRunning(i, j) \/ DidCrash(i, j)
    <3>1. UNCHANGED <<file, reported, lost>> /\ ~Handling(i)
      BY <2>2 DEF CheckTimer, GetAllExts, StillRunning, DidCrash, CheckDone, Handling
    <3>2. \A j \in Inst \ {i} : check'[j] = check[j] /\ culprit'[j] = culprit[j]
      BY <1>0, <2>2
      DEF CheckTimer, GetAllExts, StillRunning, DidCrash, CheckDone, TypeOK
    <3> QED BY <2>1, <3>1, <3>2, StaysReportable DEF HasHeartbeat, Alive, Handling
  <2>3. CASE TruncateCrashed(i) \/ RemoveCrashed(i)
    <3>1. /\ UNCHANGED <<reported, culprit, lost>>
          /\ Handling(i)' /\ \A j \in Inst : Handling(j) => Handling(j)'
      BY <1>0, <2>3 DEF TruncateCrashed, RemoveCrashed, Handling, TypeOK
    <3>2. CASE culprit[i] = c
      BY <2>1, <3>1, <3>2 DEF Reportable, Alive
    <3>3. CASE culprit[i] # c
      <4>1. file'[c] = file[c]
        BY <1>0, <2>3, <3>3 DEF TruncateCrashed, RemoveCrashed, TypeOK
      <4> QED BY <2>1, <3>1, <4>1, StaysReportable DEF HasHeartbeat, Alive
    <3> QED BY <3>2, <3>3
  <2>4. CASE EmitSessionEnd(i)
    <3>1. reported' = reported \cup {culprit[i]} /\ UNCHANGED <<file, lost>>
      BY <2>4 DEF EmitSessionEnd
    <3>2. \A j \in Inst \ {i} : check'[j] = check[j] /\ culprit'[j] = culprit[j]
      BY <1>0, <2>4 DEF EmitSessionEnd, TypeOK
    <3> QED BY <2>1, <3>1, <3>2, StaysReportable DEF HasHeartbeat, Alive, Handling
  <2>5. CASE CheckFails(i)
    <3>1. /\ UNCHANGED <<file, reported>> /\ lost' = lost \cup HandledBy({i})
          /\ \A j \in Inst \ {i} : check'[j] = check[j] /\ culprit'[j] = culprit[j]
      BY <1>0, <2>5 DEF CheckFails, TypeOK
    <3>2. Handling(i) => culprit[i] \in lost'
      BY <3>1 DEF HandledBy
    <3> QED BY <2>1, <3>1, <3>2, StaysReportable DEF HasHeartbeat, Alive, Handling
  <2> QED BY <1>4, <2>2, <2>3, <2>4, <2>5 DEF Checking
<1>5. ASSUME NEW i \in Inst, Deleting(i) \/ Shutdown(i) PROVE Reportable(c)'
  <2>1. /\ UNCHANGED <<check, culprit, reported, lost>> /\ Alive(i)
        /\ \A j \in Inst : Alive(j) => Alive(j)'
    BY <1>0, <1>5 DEF Deleting, TruncateOwn, RemoveOwn, DeleteFails, Shutdown, Tasks,
                      Alive, TypeOK
  <2>2. life[c] = "crashed"
    BY <1>0, <1>5 DEF Deleting, TruncateOwn, RemoveOwn, DeleteFails, Shutdown, TypeOK
  <2>3. Reportable(c) /\ c # i
    BY <1>a, <2>1, <2>2
  <2>4. file'[c] = file[c]
    BY <1>0, <1>5, <2>3 DEF Deleting, TruncateOwn, RemoveOwn, DeleteFails, Shutdown,
                            TypeOK
  <2> QED BY <2>1, <2>3, <2>4, StaysReportable DEF HasHeartbeat, Handling
<1>6. ASSUME NEW S \in SUBSET Inst, Gone(S), file' = file, reported' = reported,
             lost \cup HandledBy(S) \subseteq lost',
             life[c] = "crashed" \/ HasHeartbeat(c) \/ c \in lost',
             \A j \in Inst \ S : life'[j] = life[j]
      PROVE  Reportable(c)'
  <2>1. Reportable(c) \/ c \in lost'
    BY <1>6, <1>a DEF Reportable
  <2>2. \A j \in S : Handling(j) => culprit[j] \in lost'
    BY <1>6 DEF HandledBy
  <2>3. \A j \in Inst \ S : check'[j] = check[j] /\ culprit'[j] = culprit[j]
    BY <1>0, <1>6 DEF Gone, TypeOK
  <2>4. CASE c \in lost'
    BY <2>4 DEF Reportable
  <2>5. CASE Reportable(c)
    BY <1>6, <2>2, <2>3, <2>5, StaysReportable DEF HasHeartbeat, Alive, Handling
  <2> QED BY <2>1, <2>4, <2>5
<1>7. ASSUME NEW i \in Inst, Exit(i) PROVE Reportable(c)'
  <2>1. life[c] = "crashed" /\ \A j \in Inst \ {i} : life'[j] = life[j]
    BY <1>0, <1>7 DEF Exit, TypeOK
  <2> QED BY <1>6, <1>7, <2>1 DEF Exit
<1>8. ASSUME NEW i \in Inst, Crash(i) PROVE Reportable(c)'
  <2>1. \A j \in Inst \ {i} : life'[j] = life[j]
    BY <1>0, <1>8 DEF Crash, TypeOK
  <2>2. life[c] = "crashed" \/ HasHeartbeat(c) \/ c \in lost'
    BY <1>8, <2>1 DEF Crash
  <2> QED BY <1>6, <1>8, <2>1, <2>2 DEF Crash
<1>9. CASE Reboot
  <2> DEFINE down == {i \in Inst : Alive(i)}
  <2>1. /\ Gone(down) /\ UNCHANGED <<file, reported>>
        /\ lost' = lost \cup HandledBy(down) \cup {i \in down : ~HasHeartbeat(i)}
        /\ \A j \in Inst \ down : life'[j] = life[j]
    BY <1>9 DEF Reboot
  <2>2. life[c] = "crashed" \/ HasHeartbeat(c) \/ c \in lost'
    BY <2>1
  <2> HIDE DEF down
  <2>3. down \in SUBSET Inst
    BY DEF down
  <2> QED BY <1>6, <2>1, <2>2, <2>3
<1>10. CASE Tick \/ Sleep
  <2>1. PICK k \in Nat : Elapse(k)
    BY <1>10, SleepAssumption DEF Tick, Sleep
  <2>2. UNCHANGED <<life, check, culprit, reported, lost>>
    BY <2>1 DEF Elapse
  <2>3. HasHeartbeat(c) => HasHeartbeat(c)'
    BY <2>1, ElapseTypes DEF Elapse, HasHeartbeat
  <2> QED BY <1>a, <2>2, <2>3, StaysReportable DEF Alive, Handling
<1>11. CASE UNCHANGED vars
  BY <1>a, <1>11 DEF vars, tasks, Reportable, HasHeartbeat, Alive, Handling
<1> QED BY <1>1, <1>2, <1>3, <1>4, <1>5, <1>7, <1>8, <1>9, <1>10, <1>11
        DEF Next, Ending

\* A crash can be reported until it is: no order of checks, deletions and
\* shutdowns of the others loses it.
THEOREM CrashesAreKept == Spec => []CrashNotForgotten
<1>1. Init => ReportInv
  BY TypeInit DEF Init, ReportInv, Ordered, CrashNotForgotten, Nothing
<1>2. ReportInv /\ [Next]_vars => ReportInv'
  BY TypeStep, OrderedStep, ReportStep DEF ReportInv
<1>3. ReportInv => CrashNotForgotten
  BY DEF ReportInv
<1> QED BY <1>1, <1>2, <1>3, PTL DEF Spec

-----------------------------------------------------------------------------
(* No running instance is reported *)

\* i runs without sending heartbeats, after the disk failed.
Silent(i) == Flaky /\ beatTimer[i] = None /\ start[i] # "beat"

\* i has not yet come to its first heartbeat, so nobody can have read one.
Unborn(i) == life[i] = "off" \/ start[i] \in {"newOs", "clearing"}

\* The heartbeat in the file of i is not older than what has passed of the
\* interval, or i is about to replace it.
Current(i) ==
    HasHeartbeat(i) =>
        /\ file[i] <= HeartbeatInterval
        /\ \/ beat[i] # "none" /\ start[i] # "beat"
           \/ IF beatTimer[i] = None THEN file[i] = 0
              ELSE file[i] + beatTimer[i] <= HeartbeatInterval

Newborn ==
    \A i \in Inst : Unborn(i) =>
        /\ file[i] = None
        /\ beat[i] = "none" /\ beatTimer[i] = None /\ del[i] = "none"
        /\ \A j \in Inst : seen[j][i] = None /\ culprit[j] # i

\* Heartbeats are written at the time they carry.
Prompt == \A i \in Inst : beat[i] # "none" => beatAge[i] = 0

\* A running instance is sending its first heartbeat or has set the interval.
Sending ==
    \A i \in Inst : life[i] = "on" =>
        /\ start[i] # "off"
        /\ start[i] = "beat" => beatTimer[i] = None /\ beat[i] # "none"
        /\ ~Flaky /\ start[i] \in {"check", "done"} => beatTimer[i] # None

\* Neither the file of an instance that sends heartbeats nor what others have
\* read of it looks like a crash.
Believed ==
    \A i \in Inst : life[i] = "on" /\ ~Silent(i) =>
        /\ Current(i)
        /\ \A j \in Inst : /\ seen[j][i] # None => seen[j][i] <= HeartbeatInterval
                           /\ check[j] \in {"truncate", "remove", "emit"}
                                 => culprit[j] # i

Punctual == Newborn /\ Prompt /\ Sending /\ Believed

PunctualInv == TypeInv /\ Ordered /\ (sleeps = 0 => Punctual)

\* What the type of each variable says of one instance.
LEMMA AgeFacts ==
    ASSUME TypeInv, NEW i \in Inst
    PROVE  /\ HasHeartbeat(i) => file[i] \in Nat
           /\ beatTimer[i] # None => beatTimer[i] \in Nat
           /\ ~HasHeartbeat(i) <=> file[i] \in {None, Empty}
BY Times, NoneAssumption DEF TypeInv, TypeOK, HasHeartbeat

\* Starting and the heartbeat: what is written is written at once.
LEMMA BeatPunctual ==
    ASSUME TypeInv, Ordered, Punctual, NEW i \in Inst,
           Create(i) \/ Starting(i) \/ Beating(i)
    PROVE  Punctual'
<1> USE DEF Begin, SendHeartbeat, ghosts
<1>0. TypeOK /\ Tasks /\ Newborn /\ Prompt /\ Sending /\ Believed
  BY DEF TypeInv, Punctual
<1>a. 0 # None /\ HeartbeatInterval # None /\ HeartbeatInterval \in Nat
  BY Resets, Times
<1>1. CASE Create(i)
  <2>1. Newborn' /\ Prompt' /\ Sending'
    BY <1>0, <1>1 DEF Create, Newborn, Prompt, Sending, Unborn, Tasks, Alive, TypeOK
  <2>2. Unborn(i)
    BY <1>1 DEF Create, Unborn
  <2>3. Believed'
    BY <1>0, <1>1, <2>2, Resets
    DEF Create, Newborn, Believed, Silent, Current, HasHeartbeat, TypeOK
  <2> QED BY <2>1, <2>3 DEF Punctual
<1>2. CASE IsNewOsSession(i)
  BY <1>0, <1>2 DEF IsNewOsSession, Punctual, Newborn, Prompt, Sending, Believed, Unborn,
                    Silent, Current, HasHeartbeat, TypeOK
<1>3. CASE ClearState(i)
  <2>2. Unborn(i)
    BY <1>3 DEF ClearState, Unborn
  <2>0. /\ UNCHANGED <<life, beatTimer, check, seen, culprit, del>>
        /\ file' = Nothing
        /\ start'[i] = "beat" /\ beat'[i] = "open" /\ beatAge'[i] = 0
        /\ \A j \in Inst \ {i} : UNCHANGED <<start[j], beat[j], beatAge[j]>>
        /\ life[i] # "off"
    BY <1>0, <1>3 DEF ClearState, Tasks, Alive, TypeOK
  <2>4. Newborn' /\ Prompt'
    BY <1>0, <2>0 DEF Newborn, Prompt, Unborn, Nothing
  <2>5. Sending'
    BY <1>0, <2>0, <2>2 DEF Newborn, Sending
  <2>1. Newborn' /\ Prompt' /\ Sending'
    BY <2>4, <2>5
  <2>3. Believed'
    BY <1>0, <1>3, <2>2, Resets
    DEF ClearState, Newborn, Believed, Silent, Current, HasHeartbeat, Nothing, TypeOK
  <2> QED BY <2>1, <2>3 DEF Punctual
<1>4. CASE BeatTimer(i)
  <2>0. Alive(i) /\ ~Unborn(i) /\ (life[i] = "on" => start[i] # "beat")
    BY <1>0, <1>a, <1>4 DEF BeatTimer, Newborn, Sending, Tasks
  <2>1. Newborn' /\ Prompt'
    BY <1>0, <1>4, <2>0 DEF BeatTimer, Newborn, Prompt, Unborn, TypeOK
  <2>2. Sending'
    BY <1>0, <1>a, <1>4, <2>0 DEF BeatTimer, Sending, TypeOK
  <2>3. Believed'
    BY <1>0, <1>a, <1>4, <2>0 DEF BeatTimer, Believed, Silent, Current, HasHeartbeat, TypeOK
  <2> QED BY <2>1, <2>2, <2>3 DEF Punctual
<1>5. CASE BeatOpen(i) \/ BeatWrite(i) \/ BeatRetry(i)
  <2>0. beat[i] # "none" /\ beatAge[i] = 0 /\ ~Unborn(i)
    BY <1>0, <1>5 DEF BeatOpen, BeatWrite, BeatRetry, Newborn, Prompt
  <2>1. /\ UNCHANGED <<life, start, beatAge, beatTimer, check, seen, culprit, del>>
        /\ beat'[i] # "none"
        /\ file'[i] \in {file[i], 0, None, Empty}
        /\ \A j \in Inst \ {i} : beat'[j] = beat[j] /\ file'[j] = file[j]
    BY <1>0, <1>5, <2>0 DEF BeatOpen, BeatWrite, BeatRetry, TypeOK
  <2>2. Newborn' /\ Prompt' /\ Sending'
    BY <1>0, <2>0, <2>1 DEF Newborn, Prompt, Sending, Unborn
  <2>3. ASSUME life[i] = "on", ~Silent(i) PROVE Current(i)'
    BY <1>0, <1>a, <2>0, <2>1, <2>3, Resets
    DEF Believed, Current, HasHeartbeat, Sending
  <2>4. \A j \in Inst : Silent(j)' <=> Silent(j)
    BY <2>1 DEF Silent
  <2>5. \A j \in Inst \ {i} : Current(j) => Current(j)'
    BY <2>1 DEF Current, HasHeartbeat
  <2>6. Believed'
    BY <1>0, <2>1, <2>3, <2>4, <2>5 DEF Believed
  <2> QED BY <2>2, <2>6 DEF Punctual
<1>6. CASE BeatVerified(i)
  <2>0. beatAge[i] = 0 /\ file[i] = 0 /\ ~Unborn(i)
    BY <1>0, <1>6 DEF BeatVerified, Newborn, Prompt
  <2>1. Newborn' /\ Prompt' /\ Sending'
    BY <1>0, <1>a, <1>6, <2>0
    DEF BeatVerified, Newborn, Prompt, Sending, Unborn, TypeOK
  <2>2. Current(i)'
    <3>1. file'[i] = 0 /\ (beatTimer'[i] \in 0..HeartbeatInterval \/ beatTimer'[i] = None)
      BY <1>0, <1>a, <1>6, <2>0 DEF BeatVerified, TypeOK
    <3> QED BY <1>a, <3>1 DEF Current
  <2>3. \A j \in Inst \ {i} : Current(j)' <=> Current(j)
    BY <1>0, <1>6 DEF BeatVerified, Current, HasHeartbeat, TypeOK
  <2>4. \A j \in Inst : Silent(j) => Silent(j)'
    BY <1>0, <1>6 DEF BeatVerified, Silent, TypeOK
  <2>5. /\ UNCHANGED <<life, seen, culprit>>
        /\ \A j \in Inst : check'[j] \in {check[j], "list"}
    BY <1>0, <1>6 DEF BeatVerified, TypeOK
  <2>6. Believed'
    BY <1>0, <2>2, <2>3, <2>4, <2>5 DEF Believed
  <2> QED BY <2>1, <2>6 DEF Punctual
<1>7. CASE BeatFails(i)
  <2>0. ~Unborn(i) /\ Silent(i)' /\ Flaky
    BY <1>0, <1>7 DEF BeatFails, Newborn, Silent, Cleanup, TypeOK
  <2>1. Newborn' /\ Prompt' /\ Sending'
    BY <1>0, <1>7, <2>0
    DEF BeatFails, Cleanup, Newborn, Prompt, Sending, Unborn, TypeOK
  <2>2. /\ \A j \in Inst \ {i} : (Current(j)' <=> Current(j)) /\ (Silent(j)' <=> Silent(j))
        /\ UNCHANGED <<life, seen, check, culprit>>
    BY <1>0, <1>7 DEF BeatFails, Cleanup, Current, Silent, HasHeartbeat, TypeOK
  <2>3. Believed'
    BY <1>0, <2>0, <2>2 DEF Believed
  <2> QED BY <2>1, <2>3 DEF Punctual
<1> QED BY <1>1, <1>2, <1>3, <1>4, <1>5, <1>6, <1>7 DEF Starting, Beating

\* The checks: what they read is as young as the interval.
LEMMA CheckPunctual ==
    ASSUME TypeInv, Ordered, Punctual, NEW i \in Inst, Checking(i) PROVE Punctual'
<1> USE DEF Begin, Cleanup, ghosts
<1>0. TypeOK /\ Tasks /\ Newborn /\ Prompt /\ Sending /\ Believed
  BY DEF TypeInv, Punctual
<1>1. CASE CheckTimer(i) \/ GetAllExts(i) \/ EmitSessionEnd(i) \/ CheckDone(i)
           \/ \E j \in Inst : StillRunning(i, j) \/ DidCrash(i, j)
  <2>0. /\ UNCHANGED <<life, file, beat, beatAge, beatTimer, del>>
        /\ start' = start \/ (start[i] = "check" /\ start' = [start EXCEPT ![i] = "done"])
    BY <1>1 DEF CheckTimer, GetAllExts, EmitSessionEnd, CheckDone, StillRunning, DidCrash
  <2>a. \A c \in Inst : /\ Unborn(c)' <=> Unborn(c)
                        /\ Silent(c)' <=> Silent(c)
                        /\ Current(c)' <=> Current(c)
    BY <1>0, <2>0 DEF Unborn, Silent, Current, HasHeartbeat, TypeOK
  <2>b. \A c, j \in Inst : \/ seen'[j][c] \in {seen[j][c], None}
                           \/ seen'[j][c] = file[c] /\ HasHeartbeat(c)
    <3>1. CASE GetAllExts(i)
      BY <1>0, <3>1 DEF GetAllExts, TypeOK
    <3>2. CASE ~GetAllExts(i)
      BY <1>0, <1>1, <3>2 DEF CheckTimer, EmitSessionEnd, CheckDone, StillRunning,
                              DidCrash, TypeOK
    <3> QED BY <3>1, <3>2
  <2>c. \A c, j \in Inst :
           \/ culprit'[j] = None
           \/ culprit'[j] = culprit[j]
              /\ (check'[j] \in {"truncate", "remove", "emit"} => check'[j] = check[j])
           \/ culprit'[j] # c
           \/ seen[j][c] # None /\ IsStoppedHeartbeats(seen[j][c])
    BY <1>0, <1>1 DEF CheckTimer, GetAllExts, EmitSessionEnd, CheckDone, StillRunning,
                      DidCrash, TypeOK
  <2>1. Newborn'
    BY <1>0, <2>0, <2>a, <2>b, <2>c, NoneAssumption, Resets DEF Newborn, HasHeartbeat
  <2>2. Prompt' /\ Sending'
    BY <1>0, <2>0 DEF Prompt, Sending, TypeOK
  <2>3. ASSUME NEW c \in Inst, life'[c] = "on", ~Silent(c)', NEW j \in Inst
        PROVE  /\ Current(c)'
               /\ seen'[j][c] # None => seen'[j][c] <= HeartbeatInterval
               /\ check'[j] \in {"truncate", "remove", "emit"} => culprit'[j] # c
    <3>1. /\ Current(c)
          /\ seen[j][c] # None => seen[j][c] <= HeartbeatInterval
          /\ check[j] \in {"truncate", "remove", "emit"} => culprit[j] # c
      BY <1>0, <2>0, <2>a, <2>3 DEF Believed
    <3>2. seen'[j][c] # None => seen'[j][c] <= HeartbeatInterval
      BY <2>b, <3>1 DEF Current
    <3>3. ~(seen[j][c] # None /\ IsStoppedHeartbeats(seen[j][c]))
      BY <1>0, <3>1, Times DEF IsStoppedHeartbeats, TypeOK
    <3>4. check'[j] \in {"truncate", "remove", "emit"} => culprit'[j] # c
      BY <2>c, <3>1, <3>3, NoneAssumption
    <3> QED BY <2>a, <3>1, <3>2, <3>4
  <2>4. Believed'
    BY <2>3 DEF Believed
  <2> QED BY <2>1, <2>2, <2>4 DEF Punctual
<1>2. CASE TruncateCrashed(i) \/ RemoveCrashed(i)
  <2>0. /\ UNCHANGED <<life, start, beat, beatAge, beatTimer, del, seen, culprit>>
        /\ check[i] \in {"truncate", "remove"} /\ check'[i] \in {"remove", "emit"}
        /\ \A j \in Inst \ {i} : check'[j] = check[j]
        /\ \A c \in Inst : file'[c] = file[c] \/ (file'[c] \in {None, Empty} /\ c = culprit[i])
    BY <1>0, <1>2 DEF TruncateCrashed, RemoveCrashed, TypeOK
  <2>1. Newborn' /\ Prompt' /\ Sending'
    BY <1>0, <2>0 DEF Newborn, Prompt, Sending, Unborn
  <2>2. \A c \in Inst : (Silent(c)' <=> Silent(c)) /\ (Current(c) => Current(c)')
    BY <2>0, Resets DEF Silent, Current, HasHeartbeat
  <2>3. Believed'
    BY <1>0, <2>0, <2>2 DEF Believed
  <2> QED BY <2>1, <2>3 DEF Punctual
<1>3. CASE CheckFails(i)
  <2>0. ~Unborn(i) /\ Flaky /\ Silent(i)'
    BY <1>0, <1>3 DEF CheckFails, Unborn, Ordered, Tasks, Silent, Alive, TypeOK
  <2>1. Newborn' /\ Prompt' /\ Sending'
    BY <1>0, <1>3, <2>0, NoneAssumption
    DEF CheckFails, Newborn, Prompt, Sending, Unborn, Nothing, TypeOK
  <2>2. /\ \A j \in Inst \ {i} : /\ Current(j)' <=> Current(j)
                                 /\ Silent(j)' <=> Silent(j)
                                 /\ UNCHANGED <<seen[j], check[j], culprit[j]>>
        /\ life' = life /\ seen'[i] = Nothing /\ check'[i] = "none"
    BY <1>0, <1>3 DEF CheckFails, Current, Silent, HasHeartbeat, TypeOK
  <2>3. Believed'
    BY <1>0, <2>0, <2>2 DEF Believed, Nothing
  <2> QED BY <2>1, <2>3 DEF Punctual
<1> QED BY <1>1, <1>2, <1>3 DEF Checking

\* Instances that end take nothing of the others with them.
LEMMA EndPunctual ==
    ASSUME TypeInv, Ordered, Punctual,
           Reboot \/ \E i \in Inst : Deleting(i) \/ Ending(i)
    PROVE  Punctual'
<1> USE DEF Begin, Cleanup, ghosts
<1>0. TypeOK /\ Tasks /\ Newborn /\ Prompt /\ Sending /\ Believed
  BY DEF TypeInv, Punctual
<1>1. ASSUME NEW i \in Inst, Deleting(i) PROVE Punctual'
  <2>0. /\ UNCHANGED <<life, start, beat, beatAge, beatTimer, seen, culprit, check>>
        /\ del[i] # "none" /\ \A j \in Inst \ {i} : del'[j] = del[j]
        /\ \A c \in Inst : file'[c] = file[c] \/ (file'[c] \in {None, Empty} /\ c = i)
    BY <1>0, <1>1 DEF Deleting, TruncateOwn, RemoveOwn, DeleteFails, TypeOK
  <2>1. Newborn' /\ Prompt' /\ Sending'
    BY <1>0, <2>0 DEF Newborn, Prompt, Sending, Unborn
  <2>2. \A c \in Inst : (Silent(c)' <=> Silent(c)) /\ (Current(c) => Current(c)')
    BY <2>0, Resets DEF Silent, Current, HasHeartbeat
  <2>3. Believed'
    BY <1>0, <2>0, <2>2 DEF Believed
  <2> QED BY <2>1, <2>3 DEF Punctual
<1>2. ASSUME NEW i \in Inst, Shutdown(i) PROVE Punctual'
  <2>0. /\ ~Unborn(i) /\ life'[i] = "closing"
        /\ UNCHANGED <<file, start, beat, beatAge, seen, culprit, check>>
        /\ \A j \in Inst \ {i} : UNCHANGED <<life[j], beatTimer[j], del[j]>>
    BY <1>0, <1>2 DEF Shutdown, Unborn, TypeOK
  <2>1. Newborn' /\ Prompt' /\ Sending'
    BY <1>0, <2>0 DEF Newborn, Prompt, Sending, Unborn
  <2>2. \A j \in Inst \ {i} : (Current(j)' <=> Current(j)) /\ (Silent(j)' <=> Silent(j))
    BY <2>0 DEF Current, Silent, HasHeartbeat
  <2>3. Believed'
    BY <1>0, <2>0, <2>2 DEF Believed
  <2> QED BY <2>1, <2>3 DEF Punctual
<1>3. ASSUME NEW S \in SUBSET Inst, Gone(S), file' = file,
             \A j \in S : life'[j] \notin {"on", "off"},
             \A j \in Inst \ S : life'[j] = life[j]
      PROVE  Punctual'
  <2>0. /\ beatAge' = beatAge
        /\ \A j \in S : /\ start'[j] = "off" /\ beat'[j] = "none" /\ check'[j] = "none"
                        /\ seen'[j] = Nothing /\ culprit'[j] = None
        /\ \A j \in Inst \ S :
              UNCHANGED <<start[j], beat[j], beatTimer[j], check[j], seen[j], culprit[j],
                          del[j]>>
    BY <1>0, <1>3 DEF Gone, TypeOK
  <2>1. Newborn' /\ Prompt' /\ Sending'
    BY <1>0, <1>3, <2>0, NoneAssumption DEF Newborn, Prompt, Sending, Unborn, Nothing
  <2>2. \A j \in Inst \ S : (Current(j)' <=> Current(j)) /\ (Silent(j)' <=> Silent(j))
    BY <1>3, <2>0 DEF Current, Silent, HasHeartbeat
  <2>3. Believed'
    BY <1>0, <1>3, <2>0, <2>2 DEF Believed, Nothing
  <2> QED BY <2>1, <2>3 DEF Punctual
<1>4. ASSUME NEW i \in Inst, Exit(i) \/ Crash(i) PROVE Punctual'
  <2>1. /\ Gone({i}) /\ file' = file /\ life'[i] \notin {"on", "off"}
        /\ \A j \in Inst \ {i} : life'[j] = life[j]
    BY <1>0, <1>4 DEF Exit, Crash, TypeOK
  <2> QED BY <1>3, <2>1
<1>5. CASE Reboot
  <2> DEFINE down == {i \in Inst : Alive(i)}
  <2>1. /\ Gone(down) /\ file' = file /\ \A j \in down : life'[j] = "crashed"
        /\ \A j \in Inst \ down : life'[j] = life[j]
    BY <1>5 DEF Reboot
  <2> QED BY <1>3, <2>1
<1> QED BY <1>1, <1>2, <1>4, <1>5 DEF Ending

\* Time passes only up to the next heartbeat.
LEMMA TickPunctual == ASSUME TypeInv, Ordered, Punctual, Tick PROVE Punctual'
<1>0. TypeOK /\ Tasks /\ Newborn /\ Prompt /\ Sending /\ Believed
  BY DEF TypeInv, Punctual
<1>1. /\ \A i \in Inst : Idle(i)
      /\ Elapse(1)
  BY DEF Tick
<1>2. /\ UNCHANGED <<life, start, beat, check, culprit, del>>
      /\ \A i \in Inst : beat[i] = "none" /\ check[i] = "none"
  BY <1>1 DEF Elapse, Idle
<1>3. seen' = seen
  BY <1>0, <1>1, <1>2 DEF Tasks, Nothing, Elapse, TypeOK
<1>4. \A i \in Inst : (beatTimer[i] = None <=> beatTimer'[i] = None)
  BY <1>0, <1>1, NoneAssumption, Times DEF Elapse, Nearer, TypeOK
<1>5. Newborn' /\ Prompt' /\ Sending'
  <2>1. \A i \in Inst : file[i] = None => file'[i] = None
    BY <1>1, Resets DEF Elapse, HasHeartbeat
  <2> QED BY <1>0, <1>2, <1>3, <1>4, <2>1 DEF Newborn, Prompt, Sending, Unborn
<1>6. ASSUME NEW i \in Inst, life[i] = "on", ~Silent(i) PROVE Current(i)'
  <2>1. beatTimer[i] \in 1..HeartbeatInterval
    <3>1. start[i] = "done" /\ beatTimer[i] # 0
      BY <1>0, <1>1, <1>6 DEF Idle, Sending
    <3>2. beatTimer[i] # None
      BY <1>0, <1>6, <3>1 DEF Silent, Sending
    <3> QED BY <1>0, <3>1, <3>2, Times DEF TypeOK
  <2>2. HasHeartbeat(i) => file[i] \in Nat /\ file[i] + beatTimer[i] <= HeartbeatInterval
    BY <1>0, <1>2, <1>6, <2>1, AgeFacts, Resets DEF Believed, Current
  <2>3. HasHeartbeat(i)' => HasHeartbeat(i) /\ file'[i] = file[i] + 1
    BY <1>1, <2>1, <2>2, Times DEF Elapse, HasHeartbeat, Older
  <2>4. beatTimer'[i] = beatTimer[i] - 1
    BY <1>1, <2>1, NoneAssumption, Times DEF Elapse, Nearer
  <2> QED BY <2>1, <2>2, <2>3, <2>4, Times, NoneAssumption DEF Current
<1>7. Believed'
  BY <1>0, <1>2, <1>3, <1>4, <1>6 DEF Believed, Silent
<1> QED BY <1>5, <1>7 DEF Punctual

\* While the machine does not sleep, heartbeats are punctual.
LEMMA PunctualStep == PunctualInv /\ [Next]_vars => PunctualInv'
<1> SUFFICES ASSUME PunctualInv, [Next]_vars, sleeps' = 0 PROVE Punctual'
  BY TypeStep, OrderedStep DEF PunctualInv
<1>1. TypeInv /\ Ordered
  BY DEF PunctualInv
<1>2. sleeps = 0 /\ ~Sleep
  <2>1. sleeps \in Nat
    BY <1>1, SleepAssumption DEF TypeInv, TypeOK
  <2>2. ~Sleep
    BY <2>1 DEF Sleep
  <2>3. sleeps' = sleeps
    BY ZenonT(60), <2>2 DEF Next, Create, Starting, IsNewOsSession, ClearState, Beating, BeatTimer,
                BeatOpen, BeatWrite, BeatVerified, BeatRetry, BeatFails, Checking,
                CheckTimer, GetAllExts, TruncateCrashed, RemoveCrashed, EmitSessionEnd,
                CheckDone, CheckFails, StillRunning, DidCrash, Deleting, TruncateOwn,
                RemoveOwn, DeleteFails, Ending, Shutdown, Exit, Crash, Reboot, Tick,
                vars, ghosts
  <2> QED BY <2>2, <2>3
<1>3. Punctual
  BY <1>2 DEF PunctualInv
<1>4. CASE UNCHANGED vars
  BY <1>3, <1>4 DEF Punctual, Newborn, Prompt, Sending, Believed, Unborn, Silent,
                    Current, HasHeartbeat, vars, tasks
<1> QED BY <1>1, <1>2, <1>3, <1>4, BeatPunctual, CheckPunctual, EndPunctual, TickPunctual
        DEF Next

\* A running instance that sends heartbeats is never reported as crashed, whatever
\* the checkers of the others read and however long they take to act on it.
THEOREM NoFalseReports == Spec => NoFalseCrash
<1>1. Init => PunctualInv
  <2>1. ASSUME Init PROVE Punctual /\ Ordered
    BY <2>1, NoneAssumption DEF Init, Punctual, Newborn, Prompt, Sending, Believed,
                                Nothing, Ordered
  <2> QED BY <2>1, TypeInit DEF PunctualInv
<1>2. PunctualInv /\ [Next]_vars =>
         [sleeps = 0 => \A i \in FalselyReported : Flaky /\ beatTimer[i] = None]_vars
  <2> SUFFICES ASSUME PunctualInv, Next, sleeps = 0, NEW c \in Inst,
                      c \in reported' \ reported, life[c] = "on"
               PROVE  Flaky /\ beatTimer[c] = None
    <3>1. PunctualInv /\ Next => reported' \subseteq Inst
      BY TypeStep DEF PunctualInv, TypeInv, TypeOK
    <3> QED BY <3>1 DEF FalselyReported
  <2>1. PICK j \in Inst : EmitSessionEnd(j)
    BY ZenonT(60) DEF Next, Create, Starting, IsNewOsSession, ClearState, Beating, BeatTimer,
           BeatOpen, BeatWrite, BeatVerified, BeatRetry, BeatFails, Checking,
           CheckTimer, GetAllExts, TruncateCrashed, RemoveCrashed, CheckDone,
           CheckFails, StillRunning, DidCrash, Deleting, TruncateOwn, RemoveOwn,
           DeleteFails, Ending, Shutdown, Exit, Crash, Reboot, Tick, Sleep, Elapse,
           ghosts
  <2>2. check[j] = "emit" /\ culprit[j] = c
    BY <2>1 DEF EmitSessionEnd
  <2> QED BY <2>2 DEF PunctualInv, Punctual, Believed, Silent
<1> QED BY <1>1, <1>2, PunctualStep, PTL DEF Spec, NoFalseCrash
=============================================================================
