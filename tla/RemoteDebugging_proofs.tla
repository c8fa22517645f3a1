------------------------ MODULE RemoteDebugging_proofs ------------------------
(* Proofs about RemoteDebugging, for any functions, panels and bounds.     *)
EXTENDS RemoteDebugging, FiniteSetTheorems, TLAPS

-------------------------------------------------------------------------------
(* Type correctness                                                        *)

Holding ==
    {"compare", "ask", "revert", "forget", "record", "tunnel", "proxy", "updates",
     "end", "delete", "check", "restore", "clear"}

\* What a caller has read, and whom it works for, where it needs that.
Placed ==
    \A a \in Caller :
        /\ goal[a] # None => a \in Panel
        /\ at[a] \in Starting => goal[a] # None
        /\ at[a] \in Holding => held[a] # None
        /\ at[a] \in {"tunnel", "proxy", "updates"} => using[a] # None
        /\ goal[a] # None /\ at[a] \in Reverting \cup Starting => debugger # None

\* A deployment that has succeeded is some deployment.
Deployed == \A p \in Panel : deploy[p] = "ok" => job[p] # None

\* Every start between its registration and its end has a listener, and the
\* stored one is another.
Registered(f) == {p \in Panel : at[p] = "updates" /\ goal[p].fn = f}

Stored(f) == IF f \in disposables THEN 1 ELSE 0

Listened == \A f \in Func : listening[f] >= Cardinality(Registered(f)) + Stored(f)

TypeInv == TypeOK /\ Placed /\ Deployed /\ Listened

Counts == [starts : 0 .. MaxStarts, fails : 0 .. MaxFails, crashes : 0 .. MaxCrashes]

\* The types, part by part.
StoreOK ==
    /\ fn \in [Func -> Config] /\ versions \subseteq Version
    /\ snapshot \in Snapshot \cup {None}
ControllerOK ==
    /\ isDebugging \in BOOLEAN /\ debugger \in Panel \cup {None}
    /\ qualifier \in Version \cup {None}
    /\ listening \in [Func -> Nat] /\ disposables \subseteq Func
ClientOK == localProxy \in BOOLEAN /\ session \in Func \cup {None}
CallsOK ==
    /\ at \in [Caller -> {"idle"} \cup Reverting \cup Starting \cup Stopping]
    /\ held \in [Caller -> Snapshot \cup {None}]
    /\ goal \in [Caller -> Goal \cup {None}]
    /\ using \in [Caller -> Panel \cup {None}]
DeploymentOK ==
    /\ tunnel \in [Panel -> BOOLEAN]
    /\ deploy \in [Panel -> Outcome \cup {None}]
    /\ job \in [Panel -> Job \cup {None}]
GhostsOK ==
    /\ waived \subseteq Func /\ cleared \in BOOLEAN
    /\ stray \subseteq Version /\ wrong \in BOOLEAN

\* The bounds count up to themselves.
LEMMA CountType ==
    ASSUME TypeOK
    PROVE  /\ Fail \/ Works => count' \in Counts
           /\ count.starts < MaxStarts => [count EXCEPT !.starts = @ + 1] \in Counts
           /\ count.crashes < MaxCrashes => [count EXCEPT !.crashes = @ + 1] \in Counts
<1>1. count \in Counts /\ MaxStarts \in Nat /\ MaxFails \in Nat /\ MaxCrashes \in Nat
  BY BoundAssumption DEF TypeOK, Counts
<1> QED BY <1>1 DEF Fail, Works, Counts

LEMMA TypeParts ==
    /\ TypeOK <=> /\ StoreOK /\ ControllerOK /\ ClientOK /\ CallsOK /\ DeploymentOK
                  /\ count \in Counts /\ GhostsOK
    /\ TypeOK' <=> /\ StoreOK' /\ ControllerOK' /\ ClientOK' /\ CallsOK' /\ DeploymentOK'
                   /\ count' \in Counts /\ GhostsOK'
BY DEF TypeOK, StoreOK, ControllerOK, ClientOK, CallsOK, DeploymentOK, GhostsOK, Counts

LEMMA RegisteredType ==
    \A f \in Func : IsFiniteSet(Registered(f)) /\ Cardinality(Registered(f)) \in Nat
<1> SUFFICES ASSUME NEW f \in Func
             PROVE  IsFiniteSet(Registered(f)) /\ Cardinality(Registered(f)) \in Nat
  OBVIOUS
<1>1. Registered(f) \subseteq Panel
  BY DEF Registered
<1> QED BY <1>1, CallerAssumption, FS_Subset, FS_CardinalityType

\* Nobody enters or leaves the wait for the deployment.
LEMMA ListenedSame ==
    ASSUME Listened, UNCHANGED <<listening, disposables>>,
           \A p \in Panel : at'[p] = "updates" <=> at[p] = "updates",
           \A p \in Panel : at[p] = "updates" => goal'[p] = goal[p]
    PROVE  Listened'
<1>1. \A f \in Func : Registered(f)' = Registered(f)
  BY DEF Registered
<1> QED BY <1>1 DEF Listened, Stored

\* The stored listeners are disposed of, and nobody begins to wait.
LEMMA ListenedCleaned ==
    ASSUME TypeOK, Listened,
           \A f \in Func : listening'[f] = listening[f] - Stored(f),
           disposables' = {},
           \A p \in Panel : at'[p] = "updates" <=> at[p] = "updates",
           \A p \in Panel : at[p] = "updates" => goal'[p] = goal[p]
    PROVE  Listened' /\ \A f \in Func : listening'[f] \in Nat
<1>1. \A f \in Func : Registered(f)' = Registered(f)
  BY DEF Registered
<1>2. \A f \in Func : listening[f] \in Nat
  BY DEF TypeOK
<1>3. \A f \in Func : /\ Cardinality(Registered(f)) \in Nat /\ Stored(f) \in Nat
                      /\ listening[f] >= Cardinality(Registered(f)) + Stored(f)
  BY RegisteredType DEF Listened, Stored
<1>4. \A f \in Func : Stored(f)' = 0
  BY DEF Stored
<1> QED BY <1>1, <1>2, <1>3, <1>4 DEF Listened

LEMMA CallerType ==
    /\ \A p \in Panel : p \in Caller /\ p # Activation /\ p # None
    /\ \A e \in Ending : e \in Caller /\ e \notin Panel
    /\ Activation \in Caller
    /\ \A f \in Func : f # None
    /\ \A s \in Snapshot : s # None /\ s.fn \in Func /\ s.config \in Config
    /\ \A g \in Goal : g # None /\ g.fn \in Func /\ g.no \in 1 .. MaxStarts /\ g.publish \in BOOLEAN
    /\ \A v \in Version : v # None /\ v.fn \in Func /\ v.no \in 1 .. MaxStarts
    /\ \A j \in Job : j # None /\ j.goal \in Goal /\ j.config \in Config
    /\ "ok" # None /\ "pending" # None /\ "failed" # None
BY CallerAssumption DEF Caller, Snapshot, Goal, Version, Job, Outcome

\* A step of a deployment is a deployment.
LEMMA StageType ==
    \A j \in Job, x \in {"update", "wait", "publish", "revert", "done"} :
        [j EXCEPT !.stage = x] \in Job /\ [j EXCEPT !.stage = x] # None
<1>1. \A j \in Job, x \in {"update", "wait", "publish", "revert", "done"} :
        [j EXCEPT !.stage = x] \in Job
  BY DEF Job
<1> QED BY <1>1, CallerType

-------------------------------------------------------------------------------
LEMMA TypeDebugPreCheck ==
    ASSUME TypeInv, NEW p \in Panel, DebugPreCheck(p)
    PROVE  TypeInv'
<1> USE CallerType DEF TypeInv, DebugPreCheck
<1>1. StoreOK'
  BY DEF StoreOK, TypeOK, Placed, Holding, Starting, Config, Works, Fail, Keep, Goto, service,
     Stage, Resolve
<1>2. ControllerOK' /\ ClientOK'
  BY DEF ControllerOK, ClientOK, TypeOK, controller, client
<1>3. CallsOK'
  BY DEF CallsOK, TypeOK, Reverting, Starting, Stopping, Goto, Keep, calls, Snapshot
<1>4. DeploymentOK'
  BY DEF DeploymentOK, TypeOK, Placed, Starting, deployment, Stage, Resolve, Job, Outcome
<1>5. count' \in Counts
  BY CountType DEF Works, TypeOK, Counts
<1>6. GhostsOK'
  BY DEF GhostsOK, TypeOK, Placed, Holding, ghosts
<1>7. Placed'
  BY DEF Placed, Holding, TypeOK, Reverting, Starting, Stopping, Goto, Keep, calls, controller
<1>8. Deployed'
  BY DEF Deployed, TypeOK, deployment, Stage, Resolve
<1>9. Listened'
  BY ListenedSame DEF TypeOK, Goto, Keep, controller, calls
<1> QED BY <1>1, <1>2, <1>3, <1>4, <1>5, <1>6, <1>7, <1>8, <1>9, TypeParts

LEMMA TypeRevertFunction ==
    ASSUME TypeInv, NEW a \in Caller, RevertFunction(a)
    PROVE  TypeInv'
<1> USE CallerType DEF TypeInv, RevertFunction
<1>1. StoreOK'
  BY DEF StoreOK, TypeOK, Placed, Holding, Starting, Config, Works, Fail, Keep, Goto, service,
     Stage, Resolve
<1>2. ControllerOK' /\ ClientOK'
  BY DEF ControllerOK, ClientOK, TypeOK, controller, client
<1>3. CallsOK'
  BY DEF CallsOK, TypeOK, Reverting, Starting, Stopping, Goto, Keep, calls, Snapshot
<1>4. DeploymentOK'
  BY DEF DeploymentOK, TypeOK, Placed, Starting, deployment, Stage, Resolve, Job, Outcome
<1>5. count' \in Counts
  BY CountType DEF Works, TypeOK, Counts
<1>6. GhostsOK'
  BY DEF GhostsOK, TypeOK, Placed, Holding, ghosts
<1>7. Placed'
  BY DEF Placed, Holding, TypeOK, Reverting, Starting, Stopping, Goto, Keep, calls, controller
<1>8. Deployed'
  BY DEF Deployed, TypeOK, deployment, Stage, Resolve
<1>9. Listened'
  BY ListenedSame DEF TypeOK, Goto, Keep, controller, calls
<1> QED BY <1>1, <1>2, <1>3, <1>4, <1>5, <1>6, <1>7, <1>8, <1>9, TypeParts

LEMMA TypeClearSnapshot ==
    ASSUME TypeInv, ClearSnapshot
    PROVE  TypeInv'
<1> USE CallerType DEF TypeInv, ClearSnapshot
<1>1. StoreOK'
  BY DEF StoreOK, TypeOK, Placed, Holding, Starting, Config, Works, Fail, Keep, Goto, service,
     Stage, Resolve
<1>2. ControllerOK' /\ ClientOK'
  BY DEF ControllerOK, ClientOK, TypeOK, controller, client
<1>3. CallsOK'
  BY DEF CallsOK, TypeOK, Reverting, Starting, Stopping, Goto, Keep, calls, Snapshot
<1>4. DeploymentOK'
  BY DEF DeploymentOK, TypeOK, Placed, Starting, deployment, Stage, Resolve, Job, Outcome
<1>5. count' \in Counts
  BY CountType DEF Works, TypeOK, Counts
<1>6. GhostsOK'
  BY DEF GhostsOK, TypeOK, Placed, Holding, ghosts
<1>7. Placed'
  BY DEF Placed, Holding, TypeOK, Reverting, Starting, Stopping, Goto, Keep, calls, controller
<1>8. Deployed'
  BY DEF Deployed, TypeOK, deployment, Stage, Resolve
<1>9. Listened'
  BY ListenedSame DEF TypeOK, Goto, Keep, controller, calls
<1> QED BY <1>1, <1>2, <1>3, <1>4, <1>5, <1>6, <1>7, <1>8, <1>9, TypeParts

LEMMA TypeDescribeFunction ==
    ASSUME TypeInv, NEW p \in Panel, DescribeFunction(p)
    PROVE  TypeInv'
<1> USE CallerType DEF TypeInv, DescribeFunction
<1>1. StoreOK'
  BY DEF StoreOK, TypeOK, Placed, Holding, Starting, Config, Works, Fail, Keep, Goto, service,
     Stage, Resolve
<1>2. ControllerOK' /\ ClientOK'
  BY DEF ControllerOK, ClientOK, TypeOK, controller, client
<1>3. CallsOK'
  BY DEF CallsOK, TypeOK, Reverting, Starting, Stopping, Goto, Keep, calls, Snapshot, Placed,
     Config
<1>4. DeploymentOK'
  BY DEF DeploymentOK, TypeOK, Placed, Starting, deployment, Stage, Resolve, Job, Outcome
<1>5. count' \in Counts
  BY CountType DEF Works, TypeOK, Counts
<1>6. GhostsOK'
  BY DEF GhostsOK, TypeOK, Placed, Holding, ghosts
<1>7. Placed'
  <2>1. goal[p] \in Goal /\ [fn |-> goal[p].fn, config |-> fn[goal[p].fn]] \in Snapshot
    BY DEF TypeOK, Placed, Starting, Snapshot
  <2> QED
    BY <2>1 DEF Placed, Holding, TypeOK, Reverting, Starting, Stopping, Goto, Keep, calls,
       controller
<1>8. Deployed'
  BY DEF Deployed, TypeOK, deployment, Stage, Resolve
<1>9. Listened'
  BY ListenedSame DEF TypeOK, Goto, Keep, controller, calls
<1> QED BY <1>1, <1>2, <1>3, <1>4, <1>5, <1>6, <1>7, <1>8, <1>9, TypeParts

LEMMA TypeRecordSnapshot ==
    ASSUME TypeInv, NEW p \in Panel, RecordSnapshot(p)
    PROVE  TypeInv'
<1> USE CallerType DEF TypeInv, RecordSnapshot
<1>1. StoreOK'
  BY DEF StoreOK, TypeOK, Placed, Holding, Starting, Config, Works, Fail, Keep, Goto, service,
     Stage, Resolve
<1>2. ControllerOK' /\ ClientOK'
  BY DEF ControllerOK, ClientOK, TypeOK, controller, client
<1>3. CallsOK'
  BY DEF CallsOK, TypeOK, Reverting, Starting, Stopping, Goto, Keep, calls, Snapshot
<1>4. DeploymentOK'
  BY DEF DeploymentOK, TypeOK, Placed, Starting, deployment, Stage, Resolve, Job, Outcome
<1>5. count' \in Counts
  BY CountType DEF Works, TypeOK, Counts
<1>6. GhostsOK'
  BY DEF GhostsOK, TypeOK, Placed, Holding, ghosts
<1>7. Placed'
  BY DEF Placed, Holding, TypeOK, Reverting, Starting, Stopping, Goto, Keep, calls, controller
<1>8. Deployed'
  BY DEF Deployed, TypeOK, deployment, Stage, Resolve
<1>9. Listened'
  BY ListenedSame DEF TypeOK, Goto, Keep, controller, calls
<1> QED BY <1>1, <1>2, <1>3, <1>4, <1>5, <1>6, <1>7, <1>8, <1>9, TypeParts

LEMMA TypeSetup ==
    ASSUME TypeInv, NEW p \in Panel, Setup(p)
    PROVE  TypeInv'
<1> USE CallerType DEF TypeInv, Setup
<1>1. StoreOK'
  BY DEF StoreOK, TypeOK, Placed, Holding, Starting, Config, Works, Fail, Keep, Goto, service,
     Stage, Resolve
<1>2. ControllerOK' /\ ClientOK'
  BY DEF ControllerOK, ClientOK, TypeOK, controller, client
<1>3. CallsOK'
  BY DEF CallsOK, TypeOK, Reverting, Starting, Stopping, Goto, Keep, calls, Snapshot
<1>4. DeploymentOK'
  <2>1. goal[p] \in Goal /\ held[p] \in Snapshot /\ using[p] \in Panel
    BY DEF TypeOK, Placed, Holding, Starting
  <2>2. [stage |-> "update", goal |-> goal[p], config |-> held[p].config] \in Job
    BY <2>1 DEF Job
  <2> QED
    <3>1. CASE UNCHANGED deployment
      BY <3>1 DEF DeploymentOK, TypeOK, deployment
    <3>2. CASE ~UNCHANGED deployment
      <4>1. tunnel' \in [Panel -> BOOLEAN] /\ deploy' \in [Panel -> Outcome \cup {None}]
        BY <3>2 DEF TypeOK, Outcome
      <4>2. job' = [job EXCEPT ![using[p]] =
                       [stage |-> "update", goal |-> goal[p], config |-> held[p].config]]
        BY <3>2
      <4>3. job' \in [Panel -> Job \cup {None}]
        BY <2>1, <2>2, <4>2 DEF TypeOK
      <4> QED BY <4>1, <4>3 DEF DeploymentOK
    <3> QED BY <3>1, <3>2
<1>5. count' \in Counts
  BY CountType DEF Works, TypeOK, Counts
<1>6. GhostsOK'
  BY DEF GhostsOK, TypeOK, Placed, Holding, ghosts
<1>7. Placed'
  BY DEF Placed, Holding, TypeOK, Reverting, Starting, Stopping, Goto, Keep, calls, controller
<1>8. Deployed'
  BY DEF Deployed, TypeOK, deployment, Stage, Resolve
<1>9. Listened'
  BY ListenedSame DEF TypeOK, Goto, Keep, controller, calls
<1> QED BY <1>1, <1>2, <1>3, <1>4, <1>5, <1>6, <1>7, <1>8, <1>9, TypeParts

LEMMA TypeUpdateFunction ==
    ASSUME TypeInv, NEW p \in Panel, UpdateFunction(p)
    PROVE  TypeInv'
<1> USE CallerType DEF TypeInv, UpdateFunction
<1>1. StoreOK'
  BY DEF StoreOK, TypeOK, Placed, Holding, Starting, Config, Works, Fail, Keep, Goto, service,
     Stage, Resolve
<1>2. ControllerOK' /\ ClientOK'
  BY DEF ControllerOK, ClientOK, TypeOK, controller, client
<1>3. CallsOK'
  BY DEF CallsOK, TypeOK, Reverting, Starting, Stopping, Goto, Keep, calls, Snapshot
<1>4. DeploymentOK'
  BY DEF DeploymentOK, TypeOK, Placed, Starting, deployment, Stage, Resolve, Job, Outcome
<1>5. count' \in Counts
  BY CountType DEF Works, TypeOK, Counts
<1>6. GhostsOK'
  BY DEF GhostsOK, TypeOK, Placed, Holding, ghosts
<1>7. Placed'
  BY DEF Placed, Holding, TypeOK, Reverting, Starting, Stopping, Goto, Keep, calls, controller
<1>8. Deployed'
  <2>1. job[p] \in Job
    BY DEF TypeOK
  <2>2. job'[p] # None
    BY ZenonT(60), <2>1, StageType DEF TypeOK, Stage
  <2>3. \A q \in Panel : q # p => job'[q] = job[q] /\ deploy'[q] = deploy[q]
    BY DEF TypeOK, Stage, Resolve
  <2> QED
    BY <2>2, <2>3 DEF Deployed
<1>9. Listened'
  BY ListenedSame DEF TypeOK, Goto, Keep, controller, calls
<1> QED BY <1>1, <1>2, <1>3, <1>4, <1>5, <1>6, <1>7, <1>8, <1>9, TypeParts

LEMMA TypeAwaitUpdate ==
    ASSUME TypeInv, NEW p \in Panel, AwaitUpdate(p)
    PROVE  TypeInv'
<1> USE CallerType DEF TypeInv, AwaitUpdate
<1>1. StoreOK'
  BY DEF StoreOK, TypeOK, Placed, Holding, Starting, Config, Works, Fail, Keep, Goto, service,
     Stage, Resolve
<1>2. ControllerOK' /\ ClientOK'
  BY DEF ControllerOK, ClientOK, TypeOK, controller, client
<1>3. CallsOK'
  BY DEF CallsOK, TypeOK, Reverting, Starting, Stopping, Goto, Keep, calls, Snapshot
<1>4. DeploymentOK'
  BY DEF DeploymentOK, TypeOK, Placed, Starting, deployment, Stage, Resolve, Job, Outcome
<1>5. count' \in Counts
  BY CountType DEF Works, TypeOK, Counts
<1>6. GhostsOK'
  BY DEF GhostsOK, TypeOK, Placed, Holding, ghosts
<1>7. Placed'
  BY DEF Placed, Holding, TypeOK, Reverting, Starting, Stopping, Goto, Keep, calls, controller
<1>8. Deployed'
  <2>1. job[p] \in Job
    BY DEF TypeOK
  <2>2. job'[p] # None
    BY <2>1, StageType DEF TypeOK, Stage
  <2>3. \A q \in Panel : q # p => job'[q] = job[q] /\ deploy'[q] = deploy[q]
    BY DEF TypeOK, Stage, Resolve
  <2> QED
    BY <2>2, <2>3 DEF Deployed
<1>9. Listened'
  BY ListenedSame DEF TypeOK, Goto, Keep, controller, calls
<1> QED BY <1>1, <1>2, <1>3, <1>4, <1>5, <1>6, <1>7, <1>8, <1>9, TypeParts

LEMMA TypePublishVersion ==
    ASSUME TypeInv, NEW p \in Panel, PublishVersion(p)
    PROVE  TypeInv'
<1> USE CallerType DEF TypeInv, PublishVersion
<1>1. StoreOK'
  BY DEF StoreOK, TypeOK, Placed, Holding, Starting, Config, Works, Fail, Keep, Goto, service,
     Stage, Resolve, Version
<1>2. ControllerOK' /\ ClientOK'
  BY DEF ControllerOK, ClientOK, TypeOK, controller, client
<1>3. CallsOK'
  BY DEF CallsOK, TypeOK, Reverting, Starting, Stopping, Goto, Keep, calls, Snapshot
<1>4. DeploymentOK'
  BY SMTT(30) DEF DeploymentOK, TypeOK, Placed, Starting, deployment, Stage, Resolve, Job, Outcome
<1>5. count' \in Counts
  BY CountType DEF Works, TypeOK, Counts
<1>6. GhostsOK'
  BY DEF GhostsOK, TypeOK, Placed, Holding, ghosts
<1>7. Placed'
  BY DEF Placed, Holding, TypeOK, Reverting, Starting, Stopping, Goto, Keep, calls, controller
<1>8. Deployed'
  <2>1. job[p] \in Job
    BY DEF TypeOK
  <2>2. job'[p] # None
    BY <2>1, StageType DEF TypeOK, Stage
  <2>3. \A q \in Panel : q # p => job'[q] = job[q] /\ deploy'[q] = deploy[q]
    BY DEF TypeOK, Stage, Resolve
  <2> QED
    BY <2>2, <2>3 DEF Deployed
<1>9. Listened'
  BY ListenedSame DEF TypeOK, Goto, Keep, controller, calls
<1> QED BY <1>1, <1>2, <1>3, <1>4, <1>5, <1>6, <1>7, <1>8, <1>9, TypeParts

LEMMA TypeRevertAfterPublish ==
    ASSUME TypeInv, NEW p \in Panel, RevertAfterPublish(p)
    PROVE  TypeInv'
<1> USE CallerType DEF TypeInv, RevertAfterPublish
<1>1. StoreOK'
  BY DEF StoreOK, TypeOK, Placed, Holding, Starting, Config, Works, Fail, Keep, Goto, service,
     Stage, Resolve
<1>2. ControllerOK' /\ ClientOK'
  BY DEF ControllerOK, ClientOK, TypeOK, controller, client
<1>3. CallsOK'
  BY DEF CallsOK, TypeOK, Reverting, Starting, Stopping, Goto, Keep, calls, Snapshot
<1>4. DeploymentOK'
  BY DEF DeploymentOK, TypeOK, Placed, Starting, deployment, Stage, Resolve, Job, Outcome
<1>5. count' \in Counts
  BY CountType DEF Works, TypeOK, Counts
<1>6. GhostsOK'
  BY DEF GhostsOK, TypeOK, Placed, Holding, ghosts
<1>7. Placed'
  BY DEF Placed, Holding, TypeOK, Reverting, Starting, Stopping, Goto, Keep, calls, controller
<1>8. Deployed'
  <2>1. job[p] \in Job
    BY DEF TypeOK
  <2>2. job'[p] # None
    BY <2>1, StageType DEF TypeOK, Stage
  <2>3. \A q \in Panel : q # p => job'[q] = job[q] /\ deploy'[q] = deploy[q]
    BY DEF TypeOK, Stage, Resolve
  <2> QED
    BY <2>2, <2>3 DEF Deployed
<1>9. Listened'
  BY ListenedSame DEF TypeOK, Goto, Keep, controller, calls
<1> QED BY <1>1, <1>2, <1>3, <1>4, <1>5, <1>6, <1>7, <1>8, <1>9, TypeParts

LEMMA TypeStopDebugging ==
    ASSUME TypeInv, NEW p \in Panel, StopDebugging(p)
    PROVE  TypeInv'
<1> USE CallerType DEF TypeInv, StopDebugging
<1>1. StoreOK'
  BY DEF StoreOK, TypeOK, Placed, Holding, Starting, Config, Works, Fail, Keep, Goto, service,
     Stage, Resolve
<1>2. ControllerOK' /\ ClientOK'
  BY DEF ControllerOK, ClientOK, TypeOK, controller, client
<1>3. CallsOK'
  BY DEF CallsOK, TypeOK, Reverting, Starting, Stopping, Goto, Keep, calls, Snapshot
<1>4. DeploymentOK'
  BY DEF DeploymentOK, TypeOK, Placed, Starting, deployment, Stage, Resolve, Job, Outcome
<1>5. count' \in Counts
  BY CountType DEF Works, TypeOK, Counts
<1>6. GhostsOK'
  BY DEF GhostsOK, TypeOK, Placed, Holding, ghosts
<1>7. Placed'
  BY DEF Placed, Holding, TypeOK, Reverting, Starting, Stopping, Goto, Keep, calls, controller
<1>8. Deployed'
  BY DEF Deployed, TypeOK, deployment, Stage, Resolve
<1>9. Listened'
  BY ListenedSame DEF TypeOK, Goto, Keep, controller, calls
<1> QED BY <1>1, <1>2, <1>3, <1>4, <1>5, <1>6, <1>7, <1>8, <1>9, TypeParts

LEMMA TypeDeleteDebugVersion ==
    ASSUME TypeInv, NEW a \in Caller, DeleteDebugVersion(a)
    PROVE  TypeInv'
<1> USE CallerType DEF TypeInv, DeleteDebugVersion
<1>1. StoreOK'
  BY DEF StoreOK, TypeOK, Placed, Holding, Starting, Config, Works, Fail, Keep, Goto, service,
     Stage, Resolve
<1>2. ControllerOK' /\ ClientOK'
  BY DEF ControllerOK, ClientOK, TypeOK, controller, client
<1>3. CallsOK'
  BY DEF CallsOK, TypeOK, Reverting, Starting, Stopping, Goto, Keep, calls, Snapshot
<1>4. DeploymentOK'
  BY DEF DeploymentOK, TypeOK, Placed, Starting, deployment, Stage, Resolve, Job, Outcome
<1>5. count' \in Counts
  BY CountType DEF Works, TypeOK, Counts
<1>6. GhostsOK'
  BY DEF GhostsOK, TypeOK, Placed, Holding, ghosts
<1>7. Placed'
  BY DEF Placed, Holding, TypeOK, Reverting, Starting, Stopping, Goto, Keep, calls, controller
<1>8. Deployed'
  BY DEF Deployed, TypeOK, deployment, Stage, Resolve
<1>9. Listened'
  BY ListenedSame DEF TypeOK, Goto, Keep, controller, calls
<1> QED BY <1>1, <1>2, <1>3, <1>4, <1>5, <1>6, <1>7, <1>8, <1>9, TypeParts

LEMMA TypeCheckFunction ==
    ASSUME TypeInv, NEW a \in Caller, CheckFunction(a)
    PROVE  TypeInv'
<1> USE CallerType DEF TypeInv, CheckFunction
<1>1. StoreOK'
  BY DEF StoreOK, TypeOK, Placed, Holding, Starting, Config, Works, Fail, Keep, Goto, service,
     Stage, Resolve
<1>2. ControllerOK' /\ ClientOK'
  BY DEF ControllerOK, ClientOK, TypeOK, controller, client
<1>3. CallsOK'
  BY DEF CallsOK, TypeOK, Reverting, Starting, Stopping, Goto, Keep, calls, Snapshot
<1>4. DeploymentOK'
  BY DEF DeploymentOK, TypeOK, Placed, Starting, deployment, Stage, Resolve, Job, Outcome
<1>5. count' \in Counts
  BY CountType DEF Works, TypeOK, Counts
<1>6. GhostsOK'
  BY DEF GhostsOK, TypeOK, Placed, Holding, ghosts
<1>7. Placed'
  BY DEF Placed, Holding, TypeOK, Reverting, Starting, Stopping, Goto, Keep, calls, controller
<1>8. Deployed'
  BY DEF Deployed, TypeOK, deployment, Stage, Resolve
<1>9. Listened'
  BY ListenedSame DEF TypeOK, Goto, Keep, controller, calls
<1> QED BY <1>1, <1>2, <1>3, <1>4, <1>5, <1>6, <1>7, <1>8, <1>9, TypeParts

LEMMA TypeRestoreFunction ==
    ASSUME TypeInv, NEW a \in Caller, RestoreFunction(a)
    PROVE  TypeInv'
<1> USE CallerType DEF TypeInv, RestoreFunction
<1>1. StoreOK'
  BY DEF StoreOK, TypeOK, Placed, Holding, Starting, Config, Works, Fail, Keep, Goto, service,
     Stage, Resolve
<1>2. ControllerOK' /\ ClientOK'
  BY DEF ControllerOK, ClientOK, TypeOK, controller, client
<1>3. CallsOK'
  BY DEF CallsOK, TypeOK, Reverting, Starting, Stopping, Goto, Keep, calls, Snapshot
<1>4. DeploymentOK'
  BY DEF DeploymentOK, TypeOK, Placed, Starting, deployment, Stage, Resolve, Job, Outcome
<1>5. count' \in Counts
  BY CountType DEF Works, TypeOK, Counts
<1>6. GhostsOK'
  BY DEF GhostsOK, TypeOK, Placed, Holding, ghosts
<1>7. Placed'
  BY DEF Placed, Holding, TypeOK, Reverting, Starting, Stopping, Goto, Keep, calls, controller
<1>8. Deployed'
  BY DEF Deployed, TypeOK, deployment, Stage, Resolve
<1>9. Listened'
  BY ListenedSame DEF TypeOK, Goto, Keep, controller, calls
<1> QED BY <1>1, <1>2, <1>3, <1>4, <1>5, <1>6, <1>7, <1>8, <1>9, TypeParts

LEMMA TypeFinishStop ==
    ASSUME TypeInv, NEW a \in Caller, FinishStop(a)
    PROVE  TypeInv'
<1> USE CallerType DEF TypeInv, FinishStop
<1>1. StoreOK'
  BY DEF StoreOK, TypeOK, Placed, Holding, Starting, Config, Works, Fail, Keep, Goto, service,
     Stage, Resolve
<1>2. ControllerOK' /\ ClientOK'
  BY DEF ControllerOK, ClientOK, TypeOK, controller, client
<1>3. CallsOK'
  BY DEF CallsOK, TypeOK, Reverting, Starting, Stopping, Goto, Keep, calls, Snapshot
<1>4. DeploymentOK'
  BY DEF DeploymentOK, TypeOK, Placed, Starting, deployment, Stage, Resolve, Job, Outcome
<1>5. count' \in Counts
  BY CountType DEF Works, TypeOK, Counts
<1>6. GhostsOK'
  BY DEF GhostsOK, TypeOK, Placed, Holding, ghosts
<1>7. Placed'
  BY DEF Placed, Holding, TypeOK, Reverting, Starting, Stopping, Goto, Keep, calls, controller
<1>8. Deployed'
  BY DEF Deployed, TypeOK, deployment, Stage, Resolve
<1>9. Listened'
  BY ListenedSame DEF TypeOK, Goto, Keep, controller, calls
<1> QED BY <1>1, <1>2, <1>3, <1>4, <1>5, <1>6, <1>7, <1>8, <1>9, TypeParts

LEMMA TypeEnsure ==
    ASSUME TypeInv, EnsureCleanState
    PROVE  /\ isDebugging' \in BOOLEAN /\ qualifier' \in Version \cup {None}
           /\ listening' \in [Func -> Nat] /\ disposables' \subseteq Func
<1>1. \A f \in Func : listening[f] - Stored(f) \in Nat
  <2> SUFFICES ASSUME NEW f \in Func
               PROVE  listening[f] - Stored(f) \in Nat
    OBVIOUS
  <2>1. /\ listening[f] \in Nat /\ Cardinality(Registered(f)) \in Nat /\ Stored(f) \in Nat
        /\ listening[f] >= Cardinality(Registered(f)) + Stored(f)
    BY RegisteredType DEF TypeInv, TypeOK, Listened, Stored
  <2> QED BY <2>1
<1>2. listening' = [f \in Func |-> listening[f] - Stored(f)]
  BY DEF EnsureCleanState, Stored
<1> QED BY <1>1, <1>2 DEF EnsureCleanState

\* What it leaves to its caller.
LEMMA TypeReverted ==
    ASSUME TypeInv, NEW a \in Caller, Reverted(a),
           at[a] \in Reverting, UNCHANGED <<debugger, goal, using>>
    PROVE  /\ CallsOK' /\ ControllerOK' /\ Placed' /\ Listened'
<1> USE CallerType DEF TypeInv
<1>1. CallsOK'
  BY DEF Reverted, CallsOK, TypeOK, Reverting, Starting, Stopping, Goto, Keep
<1>2. ControllerOK'
  BY TypeEnsure DEF Reverted, ControllerOK, TypeOK
<1>3. Placed'
  BY DEF Reverted, Placed, Holding, TypeOK, Reverting, Starting, Stopping, Goto, Keep
<1>4. \A p \in Panel : at'[p] = "updates" <=> at[p] = "updates"
  BY DEF Reverted, TypeOK, Goto, Reverting
<1>9. \A p \in Panel : at[p] = "updates" => goal'[p] = goal[p]
  OBVIOUS
<1>5. ASSUME UNCHANGED <<listening, disposables>> PROVE Listened'
  <2>1. Listened
    OBVIOUS
  <2> QED
    BY ONLY <1>4, <1>5, <1>9, <2>1, ListenedSame
<1>6. ASSUME EnsureCleanState PROVE Listened'
  <2>1. \A f \in Func : listening'[f] = listening[f] - Stored(f)
    BY <1>6 DEF EnsureCleanState, Stored
  <2>2. TypeOK /\ Listened /\ disposables' = {}
    BY <1>6 DEF EnsureCleanState
  <2> QED
    BY ONLY <1>4, <1>9, <2>1, <2>2, ListenedCleaned
<1>7. UNCHANGED <<listening, disposables>> \/ EnsureCleanState
  BY DEF Reverted
<1> QED BY <1>1, <1>2, <1>3, <1>5, <1>6, <1>7

LEMMA TypeGetLambdaSnapshot ==
    ASSUME TypeInv, NEW a \in Caller, GetLambdaSnapshot(a)
    PROVE  TypeInv'
<1> USE CallerType DEF TypeInv, GetLambdaSnapshot
<1>1. StoreOK'
  BY DEF StoreOK, TypeOK, service
<1>2. ClientOK' /\ DeploymentOK' /\ Deployed'
  BY DEF ClientOK, DeploymentOK, Deployed, TypeOK, client, deployment
<1>3. count' \in Counts
  BY CountType DEF Works, TypeOK, Counts
<1>4. GhostsOK'
  BY DEF GhostsOK, TypeOK, Placed, Holding, ghosts
<1>5. CASE Reverted(a)
  <2>1. CallsOK' /\ ControllerOK' /\ Placed' /\ Listened'
    BY <1>5, TypeReverted DEF Reverting
  <2> QED BY <1>1, <1>2, <1>3, <1>4, <2>1, TypeParts
<1>6. CASE ~Reverted(a)
  <2>1. CallsOK'
    BY <1>6 DEF CallsOK, TypeOK, Reverting, Goto, Keep
  <2>2. ControllerOK'
    BY <1>6 DEF ControllerOK, TypeOK
  <2>3. Placed'
    BY <1>6 DEF Placed, Holding, TypeOK, Reverting, Starting, Goto, Keep
  <2>4. Listened'
    BY <1>6, ListenedSame DEF TypeOK, Goto
  <2> QED BY <1>1, <1>2, <1>3, <1>4, <2>1, <2>2, <2>3, <2>4, TypeParts
<1> QED BY <1>5, <1>6

LEMMA TypeCompareConfig ==
    ASSUME TypeInv, NEW a \in Caller, CompareConfig(a)
    PROVE  TypeInv'
<1> USE CallerType DEF TypeInv, CompareConfig
<1>1. StoreOK'
  BY DEF StoreOK, TypeOK, service
<1>2. ClientOK' /\ DeploymentOK' /\ Deployed'
  BY DEF ClientOK, DeploymentOK, Deployed, TypeOK, client, deployment
<1>3. count' \in Counts
  BY CountType DEF Works, TypeOK, Counts
<1>4. GhostsOK'
  BY DEF GhostsOK, TypeOK, Placed, Holding, ghosts
<1>5. CASE Reverted(a)
  <2>1. CallsOK' /\ ControllerOK' /\ Placed' /\ Listened'
    BY <1>5, TypeReverted DEF Reverting
  <2> QED BY <1>1, <1>2, <1>3, <1>4, <2>1, TypeParts
<1>6. CASE ~Reverted(a)
  <2>1. CallsOK'
    BY <1>6 DEF CallsOK, TypeOK, Reverting, Goto, Keep
  <2>2. ControllerOK'
    BY <1>6 DEF ControllerOK, TypeOK
  <2>3. Placed'
    BY <1>6 DEF Placed, Holding, TypeOK, Reverting, Starting, Goto, Keep
  <2>4. Listened'
    BY <1>6, ListenedSame DEF TypeOK, Goto
  <2> QED BY <1>1, <1>2, <1>3, <1>4, <2>1, <2>2, <2>3, <2>4, TypeParts
<1> QED BY <1>5, <1>6

LEMMA TypeAnswer ==
    ASSUME TypeInv, NEW a \in Caller, Answer(a)
    PROVE  TypeInv'
<1> USE CallerType DEF TypeInv, Answer
<1>1. StoreOK'
  BY DEF StoreOK, TypeOK, service
<1>2. ClientOK' /\ DeploymentOK' /\ Deployed'
  BY DEF ClientOK, DeploymentOK, Deployed, TypeOK, client, deployment
<1>3. count' \in Counts
  BY CountType DEF Works, TypeOK, Counts
<1>4. GhostsOK'
  BY DEF GhostsOK, TypeOK, Placed, Holding, ghosts
<1>5. CASE Reverted(a)
  <2>1. CallsOK' /\ ControllerOK' /\ Placed' /\ Listened'
    BY <1>5, TypeReverted DEF Reverting
  <2> QED BY <1>1, <1>2, <1>3, <1>4, <2>1, TypeParts
<1>6. CASE ~Reverted(a)
  <2>1. CallsOK'
    BY <1>6 DEF CallsOK, TypeOK, Reverting, Goto, Keep
  <2>2. ControllerOK'
    BY <1>6 DEF ControllerOK, TypeOK
  <2>3. Placed'
    BY <1>6 DEF Placed, Holding, TypeOK, Reverting, Starting, Goto, Keep
  <2>4. Listened'
    BY <1>6, ListenedSame DEF TypeOK, Goto
  <2> QED BY <1>1, <1>2, <1>3, <1>4, <2>1, <2>2, <2>3, <2>4, TypeParts
<1> QED BY <1>5, <1>6

LEMMA TypeForgetSnapshot ==
    ASSUME TypeInv, NEW a \in Caller, ForgetSnapshot(a)
    PROVE  TypeInv'
<1> USE CallerType DEF TypeInv, ForgetSnapshot
<1>1. StoreOK'
  BY DEF StoreOK, TypeOK, service
<1>2. ClientOK' /\ DeploymentOK' /\ Deployed'
  BY DEF ClientOK, DeploymentOK, Deployed, TypeOK, client, deployment
<1>3. count' \in Counts
  BY CountType DEF Works, TypeOK, Counts
<1>4. GhostsOK'
  BY DEF GhostsOK, TypeOK, Placed, Holding, ghosts
<1>5. CallsOK' /\ ControllerOK' /\ Placed' /\ Listened'
  BY TypeReverted DEF Reverting
<1> QED BY <1>1, <1>2, <1>3, <1>4, <1>5, TypeParts

LEMMA TypeStartDebugging ==
    ASSUME TypeInv, NEW p \in Panel, NEW f \in Func, NEW publish \in BOOLEAN,
           StartDebugging(p, f, publish)
    PROVE  TypeInv'
<1> USE CallerType DEF TypeInv, StartDebugging
<1>1. StoreOK' /\ ClientOK' /\ GhostsOK'
  BY DEF StoreOK, ClientOK, GhostsOK, TypeOK, service, client, ghosts
<1>2. count' \in Counts
  BY CountType
<1>3. [fn |-> f, no |-> count.starts + 1, publish |-> publish] \in Goal
  <2>1. count.starts \in 0 .. MaxStarts /\ MaxStarts \in Nat /\ count.starts < MaxStarts
    BY BoundAssumption DEF TypeOK
  <2> QED BY <2>1 DEF Goal
<1>4. CallsOK'
  BY SMTT(30), <1>3 DEF CallsOK, TypeOK, Reverting, Goto
<1>5. ControllerOK'
  BY TypeEnsure DEF ControllerOK, TypeOK
<1>6. DeploymentOK'
  BY DEF DeploymentOK, TypeOK
<1>7. Placed'
  BY <1>3 DEF Placed, Holding, TypeOK, Reverting, Starting, Stopping, Goto
<1>8. Deployed'
  BY DEF Deployed, TypeOK
<1>9. Listened'
  <2>1. \A q \in Panel : at'[q] = "updates" <=> at[q] = "updates"
    BY DEF TypeOK, Goto
  <2>2. \A q \in Panel : at[q] = "updates" => goal'[q] = goal[q]
    BY DEF TypeOK
  <2>3. TypeOK /\ Listened
    OBVIOUS
  <2>4. ASSUME UNCHANGED <<listening, disposables>> PROVE Listened'
    BY ONLY <2>1, <2>2, <2>3, <2>4, ListenedSame
  <2>5. ASSUME EnsureCleanState PROVE Listened'
    <3>1. (\A g \in Func : listening'[g] = listening[g] - Stored(g)) /\ disposables' = {}
      BY <2>5 DEF EnsureCleanState, Stored
    <3> QED
      BY ONLY <2>1, <2>2, <2>3, <3>1, ListenedCleaned
  <2> QED BY <2>4, <2>5
<1> QED BY <1>1, <1>2, <1>4, <1>5, <1>6, <1>7, <1>8, <1>9, TypeParts

\* A start begins to wait: one more listener, one more panel.
LEMMA TypeWaitForSetup ==
    ASSUME TypeInv, NEW p \in Panel, WaitForSetup(p)
    PROVE  TypeInv'
<1> USE CallerType DEF TypeInv, WaitForSetup
<1>0. goal[p] \in Goal /\ goal[p].fn \in Func /\ debugger \in Panel
  BY DEF TypeOK, Placed, Starting
<1>1. StoreOK' /\ GhostsOK'
  BY DEF StoreOK, GhostsOK, TypeOK, service, ghosts
<1>2. ClientOK'
  <2>1. session' \in {None, session, goal[p].fn} /\ localProxy' \in {TRUE, FALSE, localProxy}
    BY DEF client
  <2> QED BY <1>0, <2>1 DEF ClientOK, TypeOK
<1>3. CallsOK'
  BY <1>0 DEF CallsOK, TypeOK, Starting, Stopping, Goto
<1>4. ControllerOK'
  BY <1>0 DEF ControllerOK, TypeOK
<1>5. DeploymentOK' /\ Deployed'
  BY DEF DeploymentOK, Deployed, TypeOK, deployment
<1>6. count' \in Counts
  BY CountType DEF Works, TypeOK, Counts
<1>7. Placed'
  BY <1>0 DEF Placed, Holding, TypeOK, Reverting, Starting, Stopping, Goto
<1>8. Listened'
  <2>1. CASE at' = [at EXCEPT ![p] = "stop"]
    <3>1. at[p] = "proxy" /\ at'[p] = "stop"
      BY <2>1 DEF TypeOK
    <3>2. UNCHANGED <<listening, disposables, goal>>
      BY <3>1 DEF Goto, TypeOK
    <3>3. (\A q \in Panel : at'[q] = "updates" <=> at[q] = "updates") /\ Listened
      BY <2>1, <3>1 DEF TypeOK
    <3>4. \A q \in Panel : at[q] = "updates" => goal'[q] = goal[q]
      BY <3>2
    <3> QED
      BY ONLY <3>2, <3>3, <3>4, ListenedSame
  <2>2. CASE at' = [at EXCEPT ![p] = "updates"]
    <3>1. listening' = [listening EXCEPT ![goal[p].fn] = @ + 1] /\ UNCHANGED <<goal, disposables>>
      BY <2>2 DEF Goto, TypeOK
    <3> SUFFICES ASSUME NEW f \in Func
                 PROVE  listening'[f] >= Cardinality(Registered(f)') + Stored(f)'
      BY DEF Listened
    <3>2. /\ listening[f] \in Nat /\ Cardinality(Registered(f)) \in Nat /\ Stored(f) \in Nat
          /\ listening[f] >= Cardinality(Registered(f)) + Stored(f)
          /\ Stored(f)' = Stored(f) /\ IsFiniteSet(Registered(f))
      BY <3>1, RegisteredType DEF TypeOK, Listened, Stored
    <3>3. CASE goal[p].fn = f
      <4>1. Registered(f)' = Registered(f) \cup {p} /\ p \notin Registered(f)
        BY <2>2, <3>1, <3>3 DEF Registered, TypeOK
      <4>2. Cardinality(Registered(f)') = Cardinality(Registered(f)) + 1
        BY <3>2, <4>1, FS_AddElement
      <4>3. listening'[f] = listening[f] + 1
        BY <3>1, <3>3 DEF TypeOK
      <4> QED BY <3>2, <4>2, <4>3
    <3>4. CASE goal[p].fn # f
      <4>1. Registered(f)' = Registered(f) /\ listening'[f] = listening[f]
        BY <2>2, <3>1, <3>4 DEF Registered, TypeOK
      <4> QED BY <3>2, <4>1
    <3> QED BY <3>3, <3>4
  <2> QED BY <2>1, <2>2 DEF Goto
<1> QED BY <1>1, <1>2, <1>3, <1>4, <1>5, <1>6, <1>7, <1>8, TypeParts

\* It ends: its listener is the one that is stored, or is not.
LEMMA TypeWaitForFunctionUpdates ==
    ASSUME TypeInv, NEW p \in Panel, WaitForFunctionUpdates(p)
    PROVE  TypeInv'
<1> USE CallerType DEF TypeInv, WaitForFunctionUpdates
<1>0. goal[p] \in Goal /\ goal[p].fn \in Func /\ using[p] \in Panel
  BY DEF TypeOK, Placed, Starting
<1>1. StoreOK' /\ ClientOK' /\ DeploymentOK' /\ Deployed' /\ count' \in Counts /\ GhostsOK'
  BY DEF StoreOK, ClientOK, DeploymentOK, Deployed, Counts, GhostsOK, TypeOK, service, client,
         deployment, ghosts
<1>2. CallsOK'
  BY DEF CallsOK, TypeOK, Stopping, Goto
<1>3. ControllerOK'
  <2>1. deploy[using[p]] = "ok" => job[using[p]] \in Job
    BY <1>0 DEF Deployed, TypeOK
  <2>2. \A j \in Job : [fn |-> j.goal.fn, no |-> j.goal.no] \in Version
    BY DEF Version
  <2> QED BY <1>0, <2>1, <2>2 DEF ControllerOK, TypeOK
<1>4. Placed'
  BY DEF Placed, Holding, TypeOK, Reverting, Starting, Stopping, Goto
<1>5. Listened'
  <2> SUFFICES ASSUME NEW f \in Func
               PROVE  listening'[f] >= Cardinality(Registered(f)') + Stored(f)'
    BY DEF Listened
  <2>1. /\ listening[f] \in Nat /\ Cardinality(Registered(f)) \in Nat /\ Stored(f) \in {0, 1}
        /\ listening[f] >= Cardinality(Registered(f)) + Stored(f)
        /\ listening' = listening /\ IsFiniteSet(Registered(f))
    BY RegisteredType DEF TypeOK, Listened, Stored
  <2>2. /\ UNCHANGED goal /\ Stored(f)' \in {0, 1}
        /\ at' = [at EXCEPT ![p] = "stop"] \/ at' = [at EXCEPT ![p] = "idle"]
    BY DEF Goto, Stored
  <2>3. CASE goal[p].fn = f
    <3>1. Registered(f)' = Registered(f) \ {p} /\ p \in Registered(f)
      BY <2>2, <2>3 DEF Registered, TypeOK
    <3>2. Cardinality(Registered(f)') = Cardinality(Registered(f)) - 1
      BY <2>1, <3>1, FS_RemoveElement
    <3>3. Stored(f)' <= Stored(f) + 1
      BY <2>1, <2>2
    <3> QED BY <2>1, <2>2, <3>2, <3>3
  <2>4. CASE goal[p].fn # f
    <3>1. Registered(f)' = Registered(f)
      BY <2>2, <2>4 DEF Registered, TypeOK
    <3>2. Stored(f)' = Stored(f)
      BY <2>4 DEF Stored
    <3> QED BY <2>1, <3>1, <3>2
  <2> QED BY <2>3, <2>4
<1> QED BY <1>1, <1>2, <1>3, <1>4, <1>5, TypeParts

\* The end of a session wakes calls that were idle.
LEMMA TypeNotify ==
    ASSUME TypeInv, NEW f, NEW place \in [Caller -> {"idle"} \cup Reverting \cup Starting \cup Stopping],
           Notify(f, place),
           UNCHANGED <<held, goal, using, debugger, disposables>>, listening' = listening,
           \A a \in Caller : place[a] = at[a] \/ (at[a] = "end" /\ place[a] = "delete")
    PROVE  CallsOK' /\ Placed' /\ Listened'
<1> USE CallerType DEF TypeInv
<1>1. PICK S \in SUBSET {e \in Ending : place[e] = "idle"} :
          at' = [a \in Caller |-> IF a \in S THEN "stop" ELSE place[a]]
  BY DEF Notify
<1>2. CallsOK'
  BY <1>1 DEF CallsOK, TypeOK, Stopping
<1>3. Placed'
  <2> SUFFICES ASSUME NEW a \in Caller
               PROVE  /\ goal[a] # None => a \in Panel
                      /\ at'[a] \in Starting => goal[a] # None
                      /\ at'[a] \in Holding => held[a] # None
                      /\ at'[a] \in {"tunnel", "proxy", "updates"} => using[a] # None
                      /\ goal[a] # None /\ at'[a] \in Reverting \cup Starting => debugger # None
    BY DEF Placed
  <2>1. at'[a] = "stop" \/ at'[a] = at[a] \/ (at[a] = "end" /\ at'[a] = "delete")
    BY <1>1
  <2> QED BY <2>1 DEF Placed, Holding, Reverting, Starting
<1>4. Listened'
  <2>1. \A p \in Panel : at'[p] = "updates" <=> at[p] = "updates"
    <3> SUFFICES ASSUME NEW p \in Panel
                 PROVE  at'[p] = "updates" <=> at[p] = "updates"
      OBVIOUS
    <3>1. p \notin S
      BY <1>1
    <3> QED BY <1>1, <3>1
  <2>2. UNCHANGED <<listening, disposables>> /\ Listened
    OBVIOUS
  <2>3. \A p \in Panel : at[p] = "updates" => goal'[p] = goal[p]
    OBVIOUS
  <2> QED
    BY ONLY <2>1, <2>2, <2>3, ListenedSame
<1> QED BY <1>2, <1>3, <1>4

LEMMA TypeSessionEnds ==
    ASSUME TypeInv, SessionEnds
    PROVE  TypeInv'
<1> USE DEF TypeInv, SessionEnds
<1>1. /\ StoreOK' /\ ControllerOK' /\ ClientOK' /\ DeploymentOK' /\ Deployed'
      /\ count' \in Counts /\ GhostsOK'
  BY DEF StoreOK, ControllerOK, ClientOK, DeploymentOK, Deployed, Counts, GhostsOK, TypeOK,
         service, deployment, ghosts
<1>2. CallsOK' /\ Placed' /\ Listened'
  <2>1. at \in [Caller -> {"idle"} \cup Reverting \cup Starting \cup Stopping]
    BY DEF TypeOK
  <2> QED BY <2>1, TypeNotify
<1> QED BY <1>1, <1>2, TypeParts

LEMMA TypeEndSession ==
    ASSUME TypeInv, NEW a \in Caller, EndSession(a)
    PROVE  TypeInv'
<1> USE DEF TypeInv, EndSession
<1>1. /\ StoreOK' /\ ControllerOK' /\ ClientOK' /\ DeploymentOK' /\ Deployed'
      /\ count' \in Counts /\ GhostsOK'
  BY DEF StoreOK, ControllerOK, ClientOK, DeploymentOK, Deployed, Counts, GhostsOK, TypeOK,
         service, deployment, ghosts
<1>2. CASE session = None
  <2>1. at' = [at EXCEPT ![a] = "delete"]
    BY <1>2 DEF Goto
  <2>2. CallsOK'
    BY <2>1 DEF CallsOK, TypeOK, Stopping
  <2>3. Placed'
    BY <2>1 DEF Placed, Holding, TypeOK, Reverting, Starting
  <2>4. Listened'
    BY <2>1, ListenedSame DEF TypeOK
  <2> QED BY <1>1, <2>2, <2>3, <2>4, TypeParts
<1>3. CASE session # None
  <2> DEFINE place == [at EXCEPT ![a] = "delete"]
  <2>1. /\ place \in [Caller -> {"idle"} \cup Reverting \cup Starting \cup Stopping]
        /\ \A b \in Caller : place[b] = at[b] \/ (at[b] = "end" /\ place[b] = "delete")
    BY DEF TypeOK, Stopping
  <2>2. Notify(session, place)
    BY <1>3
  <2>3. CallsOK' /\ Placed' /\ Listened'
    BY <2>1, <2>2, TypeNotify
  <2> QED BY <1>1, <2>3, TypeParts
<1> QED BY <1>2, <1>3

LEMMA TypeBeginStop ==
    ASSUME TypeInv, NEW a \in Caller, BeginStop(a)
    PROVE  TypeInv'
<1> USE CallerType DEF TypeInv, BeginStop
<1>1. StoreOK' /\ ClientOK' /\ DeploymentOK' /\ Deployed' /\ count' \in Counts
  BY DEF StoreOK, ClientOK, DeploymentOK, Deployed, Counts, TypeOK, service, client, deployment
<1>2. GhostsOK'
  BY DEF GhostsOK, TypeOK, Untaken
<1>3. CallsOK'
  BY DEF CallsOK, TypeOK, Stopping, Goto, Keep
<1>4. Placed'
  BY DEF Placed, Holding, TypeOK, Reverting, Starting, Stopping, Goto, Keep
<1>5. ControllerOK' /\ Listened'
  <2>1. CASE UNCHANGED <<listening, disposables>>
    <3>1. ControllerOK'
      BY <2>1 DEF ControllerOK, TypeOK
    <3>2. Listened'
      BY <2>1, ListenedSame DEF TypeOK, Goto
    <3> QED BY <3>1, <3>2
  <2>2. CASE ~UNCHANGED <<listening, disposables>>
    <3>1. /\ snapshot.fn \in Func /\ disposables' = disposables \ {snapshot.fn}
          /\ listening' = [listening EXCEPT ![snapshot.fn] = @ - Stored(snapshot.fn)]
          /\ UNCHANGED isDebugging
      BY <2>2 DEF TypeOK, Stored
    <3>2. \A p \in Panel : at'[p] = "updates" <=> at[p] = "updates"
      BY DEF TypeOK, Goto
    <3>3. \A f \in Func : Registered(f)' = Registered(f)
      BY <3>2 DEF Registered
    <3>4. \A f \in Func : /\ listening[f] \in Nat /\ Cardinality(Registered(f)) \in Nat
                          /\ Stored(f) \in Nat
                          /\ listening[f] >= Cardinality(Registered(f)) + Stored(f)
      BY RegisteredType DEF TypeOK, Listened, Stored
    <3>5. \A f \in Func :
              IF f = snapshot.fn
              THEN listening'[f] = listening[f] - Stored(f) /\ Stored(f)' = 0
              ELSE listening'[f] = listening[f] /\ Stored(f)' = Stored(f)
      BY <3>1 DEF TypeOK, Stored
    <3>6. \A f \in Func : /\ listening'[f] \in Nat
                          /\ listening'[f] >= Cardinality(Registered(f)') + Stored(f)'
      BY <3>3, <3>4, <3>5
    <3>7. listening' \in [Func -> Nat]
      BY <3>1, <3>6 DEF TypeOK
    <3> QED BY <3>1, <3>6, <3>7 DEF ControllerOK, Listened, TypeOK
  <2> QED BY <2>1, <2>2
<1> QED BY <1>1, <1>2, <1>3, <1>4, <1>5, TypeParts

LEMMA TypeCrash ==
    ASSUME TypeInv, Crash
    PROVE  TypeInv'
<1> USE CallerType DEF TypeInv, Crash
<1>1. StoreOK'
  BY DEF StoreOK, TypeOK, Config
<1>2. ControllerOK' /\ ClientOK' /\ GhostsOK'
  BY DEF ControllerOK, ClientOK, GhostsOK, TypeOK
<1>3. CallsOK' /\ DeploymentOK'
  BY DEF CallsOK, DeploymentOK, Reverting
<1>4. count' \in Counts
  BY CountType
<1>5. Placed' /\ Deployed'
  BY DEF Placed, Deployed, Holding, Reverting, Starting
<1>6. Listened'
  <2>1. \A f \in Func : Registered(f)' = {} /\ Stored(f)' = 0 /\ listening'[f] = 0
    BY DEF Registered, Stored
  <2>2. Cardinality({}) = 0
    BY FS_EmptySet
  <2>3. \A f \in Func : Cardinality(Registered(f)') = 0
    BY <2>1, <2>2
  <2> QED BY <2>1, <2>3 DEF Listened
<1> QED BY <1>1, <1>2, <1>3, <1>4, <1>5, <1>6, TypeParts

LEMMA TypeInit == Init => TypeInv
<1> SUFFICES ASSUME Init PROVE TypeInv
  OBVIOUS
<1> USE CallerType DEF Init
<1>1. StoreOK /\ ControllerOK /\ ClientOK /\ CallsOK /\ DeploymentOK /\ GhostsOK
  BY DEF StoreOK, ControllerOK, ClientOK, CallsOK, DeploymentOK, GhostsOK, Config
<1>2. count \in Counts
  BY BoundAssumption DEF Counts
<1>3. Placed /\ Deployed
  BY DEF Placed, Deployed, Holding, Reverting, Starting
<1>4. Listened
  <2>1. \A f \in Func : Registered(f) = {} /\ Stored(f) = 0 /\ listening[f] = 0
    BY DEF Registered, Stored
  <2>2. Cardinality({}) = 0
    BY FS_EmptySet
  <2>3. \A f \in Func : Cardinality(Registered(f)) = 0
    BY <2>1, <2>2
  <2> QED BY <2>1, <2>3 DEF Listened
<1> QED BY <1>1, <1>2, <1>3, <1>4, TypeParts DEF TypeInv

LEMMA TypeStutter == ASSUME TypeInv, UNCHANGED vars PROVE TypeInv'
<1> USE DEF TypeInv, vars
<1>1. /\ StoreOK' /\ ControllerOK' /\ ClientOK' /\ CallsOK' /\ DeploymentOK'
      /\ count' \in Counts /\ GhostsOK'
  BY DEF StoreOK, ControllerOK, ClientOK, CallsOK, DeploymentOK, GhostsOK, Counts, TypeOK,
     service,
         controller, client, calls, deployment, ghosts
<1>2. Placed' /\ Deployed'
  BY DEF Placed, Deployed, controller, calls, deployment
<1>3. Listened'
  BY ListenedSame DEF controller, calls
<1> QED BY <1>1, <1>2, <1>3, TypeParts

LEMMA TypeStep == ASSUME TypeInv, [Next]_vars PROVE TypeInv'
<1>1. ASSUME NEW p \in Panel,
             \/ DebugPreCheck(p) \/ StopDebugging(p)
             \/ \E f \in Func, publish \in BOOLEAN : StartDebugging(p, f, publish)
             \/ Start(p) \/ Deploy(p)
      PROVE  TypeInv'
  BY <1>1, TypeDebugPreCheck, TypeStopDebugging, TypeStartDebugging, TypeDescribeFunction,
     TypeRecordSnapshot, TypeSetup, TypeWaitForSetup, TypeWaitForFunctionUpdates,
     TypeUpdateFunction, TypeAwaitUpdate, TypePublishVersion, TypeRevertAfterPublish
     DEF Start, Deploy
<1>2. ASSUME NEW a \in Caller, Revert(a) \/ Answer(a) \/ Stop(a)
      PROVE  TypeInv'
  BY <1>2, TypeGetLambdaSnapshot, TypeCompareConfig, TypeRevertFunction, TypeForgetSnapshot,
     TypeAnswer, TypeBeginStop, TypeEndSession, TypeDeleteDebugVersion, TypeCheckFunction,
     TypeRestoreFunction, TypeFinishStop
     DEF Revert, Stop
<1> QED
  BY <1>1, <1>2, TypeClearSnapshot, TypeSessionEnds, TypeCrash, TypeStutter DEF Next

\* The state keeps its types, whatever overlaps: no listener is disposed of twice.
THEOREM TypeCorrect == Spec => []TypeOK
<1>1. TypeInv => TypeOK
  BY DEF TypeInv
<1> QED BY <1>1, TypeInit, TypeStep, PTL DEF Spec

-------------------------------------------------------------------------------
(* Without overlap                                                         *)

\* A revert and a start have the window to themselves; only stops meet stops.
Alone ==
    \A a, b \in Caller : at[a] \in Reverting \cup Starting /\ b # a => at[b] = "idle"

OwnOrWaived(config, f) == config = "own" \/ f \in waived

\* A debugging configuration is never kept to be put back.
Original ==
    /\ snapshot # None => OwnOrWaived(snapshot.config, snapshot.fn)
    /\ \A a \in Caller : at[a] \in Holding => OwnOrWaived(held[a].config, held[a].fn)
    /\ \A p \in Panel : job[p] # None => OwnOrWaived(job[p].config, job[p].goal.fn)

\* A start records the function it deploys to, with its own debugger.
Recorded ==
    \A p \in Panel :
        /\ at[p] \in {"describe", "record"} => snapshot = None
        /\ at[p] \in {"record", "tunnel"} => held[p].fn = goal[p].fn
        /\ at[p] \in {"tunnel", "proxy", "updates"} =>
               snapshot # None /\ snapshot.fn = goal[p].fn /\ using[p] = p
        /\ at[p] \in Reverting \cup Starting /\ goal[p] # None => debugger = p
        /\ at[p] = "proxy" => tunnel[p]

\* A function is being updated only while a start waits for that.
Deploying ==
    \A p \in Panel :
        /\ at[p] \in {"proxy", "updates"} => job[p] # None /\ job[p].goal = goal[p]
        /\ job[p] # None /\ job[p].stage \in {"update", "wait", "publish"} =>
               deploy[p] = "pending" /\ at[p] \in {"proxy", "updates"}

\* What a revert or a stop puts back is what is recorded, or nothing is.
PuttingBack ==
    \A a \in Caller :
        /\ at[a] \in {"compare", "ask", "revert", "forget"} => held[a] = snapshot
        /\ at[a] \in {"end", "delete", "check", "restore", "clear"} => snapshot \in {None, held[a]}
        /\ at[a] \in {"forget", "clear"} => OwnOrWaived(fn[held[a].fn], held[a].fn)

\* The version to delete is one of the function that is stopped.
Qualified ==
    /\ isDebugging /\ snapshot # None /\ qualifier # None => qualifier.fn = snapshot.fn
    /\ \A a \in Caller :
           /\ at[a] \in {"end", "delete"} /\ qualifier # None => qualifier.fn = held[a].fn
           /\ at[a] \in Reverting \cup Starting /\ goal[a] # None => qualifier = None

OrderInv ==
    Alone /\ Original /\ Recorded /\ Deploying /\ PuttingBack /\ Qualified /\ Recoverable /\ ~wrong

\* A step of a deployment changes its stage only.
LEMMA StageStep ==
    ASSUME TypeOK, NEW p \in Panel, job[p] # None,
           NEW x \in {"update", "wait", "publish", "revert", "done"}, Stage(p, x)
    PROVE  /\ job'[p].stage = x /\ job'[p].goal = job[p].goal /\ job'[p].config = job[p].config
           /\ job'[p] # None
           /\ \A q \in Panel : q # p => job'[q] = job[q]
<1>1. job \in [Panel -> Job \cup {None}] /\ job[p] \in Job
  BY DEF TypeOK
<1>2. job'[p] = [job[p] EXCEPT !.stage = x] /\ \A q \in Panel : q # p => job'[q] = job[q]
  BY <1>1 DEF Stage
<1>3. job'[p] # None
  BY <1>1, <1>2, StageType
<1>4. /\ [job[p] EXCEPT !.stage = x].stage = x
      /\ [job[p] EXCEPT !.stage = x].goal = job[p].goal
      /\ [job[p] EXCEPT !.stage = x].config = job[p].config
  BY <1>1 DEF Job
<1> QED BY <1>2, <1>3, <1>4

\* Putting an own configuration back leaves nothing without its snapshot.
LEMMA PutBack ==
    ASSUME TypeOK, Recoverable, NEW g \in Func, NEW c, OwnOrWaived(c, g),
           fn' = [fn EXCEPT ![g] = c], UNCHANGED <<snapshot, waived>>
    PROVE  /\ Recoverable'
           /\ \A f \in Func : OwnOrWaived(fn[f], f) => OwnOrWaived(fn'[f], f)
<1>1. \A f \in Func : fn'[f] = IF f = g THEN c ELSE fn[f]
  BY DEF TypeOK
<1> QED BY <1>1 DEF Recoverable, OwnOrWaived

LEMMA OrderDebugPreCheck ==
    ASSUME Orderly, TypeInv, OrderInv, NEW p \in Panel, DebugPreCheck(p)
    PROVE  OrderInv'
<1> USE CallerType DEF OrderInv, DebugPreCheck, Goto, Quiet, Idle
<1>0. TypeOK /\ Placed
  BY DEF TypeInv
<1>1. Alone'
  BY <1>0 DEF Alone, TypeOK, Reverting, Starting, Stopping, calls
<1>2. Original'
  BY <1>0 DEF Original, OwnOrWaived, TypeOK, Holding, Keep, calls, deployment, ghosts
<1>3. Recorded'
  BY <1>0 DEF Recorded, Alone, TypeOK, Reverting, Starting, Stopping, Keep, calls, controller,
     deployment
<1>4. Deploying'
  BY <1>0 DEF Deploying, TypeOK, Recorded, calls, deployment
<1>5. PuttingBack'
  BY <1>0 DEF PuttingBack, OwnOrWaived, Alone, TypeOK, Reverting, Starting, Keep, calls,
     service, ghosts
<1>6. Qualified'
  BY <1>0 DEF Qualified, Alone, TypeOK, Reverting, Starting, Stopping, Keep, calls, controller
<1>7. Recoverable' /\ ~wrong'
  BY <1>0 DEF Recoverable, PuttingBack, OwnOrWaived, TypeOK, service, ghosts
<1> QED BY <1>1, <1>2, <1>3, <1>4, <1>5, <1>6, <1>7

LEMMA OrderStopDebugging ==
    ASSUME Orderly, TypeInv, OrderInv, NEW p \in Panel, StopDebugging(p)
    PROVE  OrderInv'
<1> USE CallerType DEF OrderInv, StopDebugging, Goto, Quiet, Idle
<1>0. TypeOK /\ Placed
  BY DEF TypeInv
<1>1. Alone'
  BY <1>0 DEF Alone, TypeOK, Reverting, Starting, Stopping, calls
<1>2. Original'
  BY <1>0 DEF Original, OwnOrWaived, TypeOK, Holding, Keep, calls, deployment, ghosts
<1>3. Recorded'
  BY <1>0 DEF Recorded, Alone, TypeOK, Reverting, Starting, Stopping, Keep, calls, controller,
     deployment
<1>4. Deploying'
  BY <1>0 DEF Deploying, TypeOK, Recorded, calls, deployment
<1>5. PuttingBack'
  BY <1>0 DEF PuttingBack, OwnOrWaived, Alone, TypeOK, Reverting, Starting, Keep, calls,
     service, ghosts
<1>6. Qualified'
  BY <1>0 DEF Qualified, Alone, TypeOK, Reverting, Starting, Stopping, Keep, calls, controller
<1>7. Recoverable' /\ ~wrong'
  BY <1>0 DEF Recoverable, PuttingBack, OwnOrWaived, TypeOK, service, ghosts
<1> QED BY <1>1, <1>2, <1>3, <1>4, <1>5, <1>6, <1>7

LEMMA OrderDescribeFunction ==
    ASSUME Orderly, TypeInv, OrderInv, NEW p \in Panel, DescribeFunction(p)
    PROVE  OrderInv'
<1> USE CallerType DEF OrderInv, DescribeFunction, Goto
<1>0. TypeOK /\ Placed
  BY DEF TypeInv
<1>1. Alone'
  BY <1>0 DEF Alone, TypeOK, Reverting, Starting, Stopping, calls
<1>2. Original'
  <2>1. /\ goal[p].fn \in Func /\ snapshot = None
        /\ fn[goal[p].fn] \in Config
    BY <1>0 DEF TypeOK, Placed, Starting, Recorded
  <2>2. OwnOrWaived(fn[goal[p].fn], goal[p].fn)
    BY <2>1 DEF Recoverable, OwnOrWaived, Config
  <2> QED
    BY <1>0, <2>2 DEF Original, OwnOrWaived, TypeOK, Holding, Keep, calls, deployment, ghosts
<1>3. Recorded'
  BY <1>0 DEF Recorded, Alone, TypeOK, Reverting, Starting, Stopping, Keep, calls, controller,
     deployment
<1>4. Deploying'
  BY <1>0 DEF Deploying, TypeOK, Recorded, calls, deployment
<1>5. PuttingBack'
  BY <1>0 DEF PuttingBack, OwnOrWaived, Alone, TypeOK, Reverting, Starting, Keep, calls,
     service, ghosts
<1>6. Qualified'
  BY <1>0 DEF Qualified, Alone, TypeOK, Reverting, Starting, Stopping, Keep, calls, controller
<1>7. Recoverable' /\ ~wrong'
  BY <1>0 DEF Recoverable, PuttingBack, OwnOrWaived, TypeOK, service, ghosts
<1> QED BY <1>1, <1>2, <1>3, <1>4, <1>5, <1>6, <1>7

LEMMA OrderRecordSnapshot ==
    ASSUME Orderly, TypeInv, OrderInv, NEW p \in Panel, RecordSnapshot(p)
    PROVE  OrderInv'
<1> USE CallerType DEF OrderInv, RecordSnapshot, Goto
<1>0. TypeOK /\ Placed
  BY DEF TypeInv
<1>1. Alone'
  BY <1>0 DEF Alone, TypeOK, Reverting, Starting, Stopping, calls
<1>2. Original'
  BY <1>0 DEF Original, OwnOrWaived, TypeOK, Holding, Keep, calls, deployment, ghosts
<1>3. Recorded'
  <2>1. /\ held[p] # None /\ held[p].fn = goal[p].fn /\ debugger = p /\ snapshot' = held[p]
        /\ using'[p] = p
    BY <1>0 DEF Placed, Holding, Starting, Recorded, TypeOK
  <2>2. \A q \in Panel : q # p => at[q] = "idle"
    BY DEF Alone, Starting
  <2> QED
    BY <1>0, <2>1, <2>2 DEF Recorded, TypeOK, Reverting, Starting, controller, deployment
<1>4. Deploying'
  BY <1>0 DEF Deploying, TypeOK, Recorded, calls, deployment
<1>5. PuttingBack'
  BY <1>0 DEF PuttingBack, OwnOrWaived, Alone, TypeOK, Reverting, Starting, Keep, calls,
     service, ghosts
<1>6. Qualified'
  <2>1. qualifier = None /\ qualifier' = None
    BY <1>0 DEF Qualified, Placed, Starting, controller
  <2> QED BY <2>1 DEF Qualified
<1>7. Recoverable' /\ ~wrong'
  <2>1. snapshot = None /\ UNCHANGED <<fn, waived, wrong>>
    BY DEF Recorded, service, ghosts
  <2> QED BY <2>1 DEF Recoverable
<1> QED BY <1>1, <1>2, <1>3, <1>4, <1>5, <1>6, <1>7

LEMMA OrderSetup ==
    ASSUME Orderly, TypeInv, OrderInv, NEW p \in Panel, Setup(p)
    PROVE  OrderInv'
<1> USE CallerType DEF OrderInv, Setup, Goto
<1>0. TypeOK /\ Placed
  BY DEF TypeInv
<1>1. Alone'
  BY <1>0 DEF Alone, TypeOK, Reverting, Starting, Stopping, calls
<1>2. Original'
  <2>1. /\ using[p] = p /\ held[p].fn = goal[p].fn
        /\ OwnOrWaived(held[p].config, goal[p].fn)
    BY <1>0 DEF Recorded, Original, Holding
  <2>2. \A q \in Panel : \/ job'[q] = job[q]
                         \/ job'[q].config = held[p].config /\ job'[q].goal = goal[p]
    BY <1>0, <2>1 DEF TypeOK, deployment
  <2>3. \A a \in Caller : at'[a] \in Holding => at[a] \in Holding
    BY <1>0 DEF TypeOK, Holding
  <2> QED
    BY <2>1, <2>2, <2>3 DEF Original, OwnOrWaived, ghosts
<1>3. Recorded'
  BY <1>0 DEF Recorded, Alone, TypeOK, Reverting, Starting, Stopping, Keep, calls, controller,
     deployment
<1>4. Deploying'
  <2>1. using[p] = p
    BY DEF Recorded
  <2>2. \A q \in Panel : q # p => at'[q] = at[q] /\ job'[q] = job[q] /\ deploy'[q] = deploy[q]
    BY <1>0, <2>1 DEF TypeOK, deployment
  <2>3. CASE at' = [at EXCEPT ![p] = "stop"] /\ UNCHANGED deployment
    <3>1. at'[p] = "stop" /\ job'[p] = job[p] /\ deploy'[p] = deploy[p]
      BY <1>0, <2>3 DEF TypeOK, deployment
    <3>2. ~(job[p] # None /\ job[p].stage \in {"update", "wait", "publish"})
      BY DEF Deploying
    <3> QED BY <2>2, <3>1, <3>2 DEF Deploying
  <2>4. CASE ~(at' = [at EXCEPT ![p] = "stop"] /\ UNCHANGED deployment)
    <3>1. /\ job' = [job EXCEPT ![p] =
                        [stage |-> "update", goal |-> goal[p], config |-> held[p].config]]
          /\ deploy' = [deploy EXCEPT ![p] = "pending"] /\ at' = [at EXCEPT ![p] = "proxy"]
      BY <2>1, <2>4
    <3>2. goal[p] \in Goal /\ held[p] \in Snapshot
      BY <1>0 DEF TypeOK, Placed, Holding, Starting
    <3>3. [stage |-> "update", goal |-> goal[p], config |-> held[p].config] \in Job
      BY <3>2 DEF Job
    <3>4. job'[p] # None /\ job'[p].goal = goal[p] /\ deploy'[p] = "pending" /\ at'[p] = "proxy"
      BY <1>0, <3>1, <3>3 DEF TypeOK
    <3> QED BY <2>2, <3>4 DEF Deploying
  <2> QED BY <2>3, <2>4
<1>5. PuttingBack'
  BY <1>0 DEF PuttingBack, OwnOrWaived, Alone, TypeOK, Reverting, Starting, Keep, calls,
     service, ghosts
<1>6. Qualified'
  BY <1>0 DEF Qualified, Alone, TypeOK, Reverting, Starting, Stopping, Keep, calls, controller
<1>7. Recoverable' /\ ~wrong'
  BY <1>0 DEF Recoverable, PuttingBack, OwnOrWaived, TypeOK, service, ghosts
<1> QED BY <1>1, <1>2, <1>3, <1>4, <1>5, <1>6, <1>7

LEMMA OrderWaitForSetup ==
    ASSUME Orderly, TypeInv, OrderInv, NEW p \in Panel, WaitForSetup(p)
    PROVE  OrderInv'
<1> USE CallerType DEF OrderInv, WaitForSetup, Goto
<1>0. TypeOK /\ Placed
  BY DEF TypeInv
<1>1. Alone'
  BY <1>0 DEF Alone, TypeOK, Reverting, Starting, Stopping, calls
<1>2. Original'
  BY <1>0 DEF Original, OwnOrWaived, TypeOK, Holding, Keep, calls, deployment, ghosts
<1>3. Recorded'
  <2>1. \A q \in Panel : q # p => at'[q] = at[q] /\ using'[q] = using[q]
    BY <1>0 DEF TypeOK, calls
  <2>2. debugger = p /\ tunnel[p]
    BY <1>0 DEF Recorded, Placed, Starting
  <2>3. at'[p] \in {"updates", "stop"} /\ (at'[p] = "updates" => using'[p] = p)
    BY <1>0, <2>2 DEF TypeOK
  <2> QED
    BY <1>0, <2>1, <2>2, <2>3 DEF Recorded, Placed, Reverting, Starting, deployment
<1>4. Deploying'
  <2>1. debugger = p /\ tunnel[p]
    BY <1>0 DEF Recorded, Placed, Starting
  <2>2. at'[p] = "updates" \/ (at'[p] = "stop" /\ deploy[p] # "pending")
    BY <1>0, <2>1 DEF TypeOK
  <2>3. \A q \in Panel : q # p => at'[q] = at[q]
    BY <1>0 DEF TypeOK
  <2> QED BY <2>2, <2>3 DEF Deploying, deployment
<1>5. PuttingBack'
  BY <1>0 DEF PuttingBack, OwnOrWaived, Alone, TypeOK, Reverting, Starting, Keep, calls,
     service, ghosts
<1>6. Qualified'
  BY <1>0 DEF Qualified, Alone, TypeOK, Reverting, Starting, Stopping, Keep, calls, controller
<1>7. Recoverable' /\ ~wrong'
  BY <1>0 DEF Recoverable, PuttingBack, OwnOrWaived, TypeOK, service, ghosts
<1> QED BY <1>1, <1>2, <1>3, <1>4, <1>5, <1>6, <1>7

LEMMA OrderWaitForFunctionUpdates ==
    ASSUME Orderly, TypeInv, OrderInv, NEW p \in Panel, WaitForFunctionUpdates(p)
    PROVE  OrderInv'
<1> USE CallerType DEF OrderInv, WaitForFunctionUpdates, Goto
<1>0. TypeOK /\ Placed
  BY DEF TypeInv
<1>1. Alone'
  BY <1>0 DEF Alone, TypeOK, Reverting, Starting, Stopping, calls
<1>2. Original'
  BY <1>0 DEF Original, OwnOrWaived, TypeOK, Holding, Keep, calls, deployment, ghosts
<1>3. Recorded'
  BY <1>0 DEF Recorded, Alone, TypeOK, Reverting, Starting, Stopping, Keep, calls, controller,
     deployment
<1>4. Deploying'
  BY <1>0 DEF Deploying, TypeOK, Recorded, calls, deployment
<1>5. PuttingBack'
  BY <1>0 DEF PuttingBack, OwnOrWaived, Alone, TypeOK, Reverting, Starting, Keep, calls,
     service, ghosts
<1>6. Qualified'
  <2>1. /\ using[p] = p /\ job[p] # None /\ job[p].goal = goal[p] /\ snapshot.fn = goal[p].fn
        /\ qualifier = None
    BY <1>0 DEF Recorded, Deploying, Qualified, Placed, Starting
  <2>2. qualifier' = None \/ qualifier'.fn = goal[p].fn
    BY <2>1
  <2>3. \A a \in Caller : a # p => at[a] = "idle" /\ at'[a] = "idle"
    BY <1>0 DEF Alone, Starting, TypeOK
  <2>4. at'[p] \in {"idle", "stop"}
    BY <1>0 DEF TypeOK
  <2> QED
    BY <2>1, <2>2, <2>3, <2>4 DEF Qualified, Reverting, Starting
<1>7. Recoverable' /\ ~wrong'
  BY <1>0 DEF Recoverable, PuttingBack, OwnOrWaived, TypeOK, service, ghosts
<1> QED BY <1>1, <1>2, <1>3, <1>4, <1>5, <1>6, <1>7

LEMMA OrderUpdateFunction ==
    ASSUME Orderly, TypeInv, OrderInv, NEW p \in Panel, UpdateFunction(p)
    PROVE  OrderInv'
<1> USE CallerType DEF OrderInv, UpdateFunction, Goto, Stage, Resolve
<1>0. TypeOK /\ Placed
  BY DEF TypeInv
<1>1. Alone'
  BY <1>0 DEF Alone, TypeOK, Reverting, Starting, Stopping, calls
<1>2. Original'
  <2>1. PICK x \in {"wait", "done"} : Stage(p, x)
    OBVIOUS
  <2>2. /\ job'[p].goal = job[p].goal /\ job'[p].config = job[p].config
        /\ \A q \in Panel : q # p => job'[q] = job[q]
    BY <1>0, <2>1, StageStep
  <2> QED
    BY <1>0, <2>2 DEF Original, OwnOrWaived, calls, ghosts
<1>3. Recorded'
  BY <1>0 DEF Recorded, Alone, TypeOK, Reverting, Starting, Stopping, Keep, calls, controller,
     deployment
<1>4. Deploying'
  <2>1. PICK x \in {"wait", "done"} :
          Stage(p, x) /\ (x \in {"wait", "publish"} => UNCHANGED deploy)
    OBVIOUS
  <2>2. /\ job'[p].goal = job[p].goal /\ job'[p].stage = x /\ job'[p] # None
        /\ \A q \in Panel : q # p => job'[q] = job[q]
    BY <1>0, <2>1, StageStep
  <2>3. \A q \in Panel : q # p => deploy'[q] = deploy[q]
    BY <1>0 DEF TypeOK
  <2>4. UNCHANGED <<at, goal>>
    BY DEF calls
  <2> QED
    BY <2>1, <2>2, <2>3, <2>4 DEF Deploying
<1>5. PuttingBack'
  <2>1. at[p] \in {"proxy", "updates"}
    BY DEF Deploying
  <2>2. \A a \in Caller : at'[a] \in {"idle", "proxy", "updates"}
    BY <1>0, <2>1 DEF Alone, Starting, calls
  <2> QED BY <2>2 DEF PuttingBack
<1>6. Qualified'
  BY <1>0 DEF Qualified, Alone, TypeOK, Reverting, Starting, Stopping, Keep, calls, controller
<1>7. Recoverable' /\ ~wrong'
  <2>1. /\ at[p] \in {"proxy", "updates"} /\ job[p].goal = goal[p]
        /\ snapshot # None /\ snapshot.fn = job[p].goal.fn
    BY DEF Deploying, Recorded
  <2>2. \A f \in Func : fn'[f] = fn[f] \/ f = job[p].goal.fn
    BY <1>0 DEF TypeOK
  <2> QED
    BY <2>1, <2>2 DEF Recoverable, ghosts
<1> QED BY <1>1, <1>2, <1>3, <1>4, <1>5, <1>6, <1>7

LEMMA OrderAwaitUpdate ==
    ASSUME Orderly, TypeInv, OrderInv, NEW p \in Panel, AwaitUpdate(p)
    PROVE  OrderInv'
<1> USE CallerType DEF OrderInv, AwaitUpdate, Goto, Stage, Resolve
<1>0. TypeOK /\ Placed
  BY DEF TypeInv
<1>1. Alone'
  BY <1>0 DEF Alone, TypeOK, Reverting, Starting, Stopping, calls
<1>2. Original'
  <2>1. PICK x \in {"publish", "done"} : Stage(p, x)
    OBVIOUS
  <2>2. /\ job'[p].goal = job[p].goal /\ job'[p].config = job[p].config
        /\ \A q \in Panel : q # p => job'[q] = job[q]
    BY <1>0, <2>1, StageStep
  <2> QED
    BY <1>0, <2>2 DEF Original, OwnOrWaived, calls, ghosts
<1>3. Recorded'
  BY <1>0 DEF Recorded, Alone, TypeOK, Reverting, Starting, Stopping, Keep, calls, controller,
     deployment
<1>4. Deploying'
  <2>1. PICK x \in {"publish", "done"} :
          Stage(p, x) /\ (x \in {"wait", "publish"} => UNCHANGED deploy)
    OBVIOUS
  <2>2. /\ job'[p].goal = job[p].goal /\ job'[p].stage = x /\ job'[p] # None
        /\ \A q \in Panel : q # p => job'[q] = job[q]
    BY <1>0, <2>1, StageStep
  <2>3. \A q \in Panel : q # p => deploy'[q] = deploy[q]
    BY <1>0 DEF TypeOK
  <2>4. UNCHANGED <<at, goal>>
    BY DEF calls
  <2> QED
    BY <2>1, <2>2, <2>3, <2>4 DEF Deploying
<1>5. PuttingBack'
  BY <1>0 DEF PuttingBack, OwnOrWaived, Alone, TypeOK, Reverting, Starting, Keep, calls,
     service, ghosts
<1>6. Qualified'
  BY <1>0 DEF Qualified, Alone, TypeOK, Reverting, Starting, Stopping, Keep, calls, controller
<1>7. Recoverable' /\ ~wrong'
  BY <1>0 DEF Recoverable, PuttingBack, OwnOrWaived, TypeOK, service, ghosts
<1> QED BY <1>1, <1>2, <1>3, <1>4, <1>5, <1>6, <1>7

LEMMA OrderPublishVersion ==
    ASSUME Orderly, TypeInv, OrderInv, NEW p \in Panel, PublishVersion(p)
    PROVE  OrderInv'
<1> USE CallerType DEF OrderInv, PublishVersion, Goto, Stage, Resolve
<1>0. TypeOK /\ Placed
  BY DEF TypeInv
<1>1. Alone'
  BY <1>0 DEF Alone, TypeOK, Reverting, Starting, Stopping, calls
<1>2. Original'
  <2>1. PICK x \in {"revert", "done"} : Stage(p, x)
    OBVIOUS
  <2>2. /\ job'[p].goal = job[p].goal /\ job'[p].config = job[p].config
        /\ \A q \in Panel : q # p => job'[q] = job[q]
    BY <1>0, <2>1, StageStep
  <2> QED
    BY <1>0, <2>2 DEF Original, OwnOrWaived, calls, ghosts
<1>3. Recorded'
  BY <1>0 DEF Recorded, Alone, TypeOK, Reverting, Starting, Stopping, Keep, calls, controller,
     deployment
<1>4. Deploying'
  <2>1. PICK x \in {"revert", "done"} :
          Stage(p, x) /\ (x \in {"wait", "publish"} => UNCHANGED deploy)
    OBVIOUS
  <2>2. /\ job'[p].goal = job[p].goal /\ job'[p].stage = x /\ job'[p] # None
        /\ \A q \in Panel : q # p => job'[q] = job[q]
    BY <1>0, <2>1, StageStep
  <2>3. \A q \in Panel : q # p => deploy'[q] = deploy[q]
    BY <1>0 DEF TypeOK
  <2>4. UNCHANGED <<at, goal>>
    BY DEF calls
  <2> QED
    BY <2>1, <2>2, <2>3, <2>4 DEF Deploying
<1>5. PuttingBack'
  BY <1>0 DEF PuttingBack, OwnOrWaived, Alone, TypeOK, Reverting, Starting, Keep, calls,
     service, ghosts
<1>6. Qualified'
  BY <1>0 DEF Qualified, Alone, TypeOK, Reverting, Starting, Stopping, Keep, calls, controller
<1>7. Recoverable' /\ ~wrong'
  BY <1>0 DEF Recoverable, PuttingBack, OwnOrWaived, TypeOK, service, ghosts
<1> QED BY <1>1, <1>2, <1>3, <1>4, <1>5, <1>6, <1>7

LEMMA OrderRevertAfterPublish ==
    ASSUME Orderly, TypeInv, OrderInv, NEW p \in Panel, RevertAfterPublish(p)
    PROVE  OrderInv'
<1> USE CallerType DEF OrderInv, RevertAfterPublish, Goto, Stage, Resolve
<1>0. TypeOK /\ Placed
  BY DEF TypeInv
<1>1. Alone'
  BY <1>0 DEF Alone, TypeOK, Reverting, Starting, Stopping, calls
<1>2. Original'
  BY <1>0 DEF Original, OwnOrWaived, TypeOK, Holding, Keep, calls, deployment, ghosts
<1>3. Recorded'
  BY <1>0 DEF Recorded, Alone, TypeOK, Reverting, Starting, Stopping, Keep, calls, controller,
     deployment
<1>4. Deploying'
  <2>1. PICK x \in {"done"} :
          Stage(p, x) /\ (x \in {"wait", "publish"} => UNCHANGED deploy)
    OBVIOUS
  <2>2. /\ job'[p].goal = job[p].goal /\ job'[p].stage = x /\ job'[p] # None
        /\ \A q \in Panel : q # p => job'[q] = job[q]
    BY <1>0, <2>1, StageStep
  <2>3. \A q \in Panel : q # p => deploy'[q] = deploy[q]
    BY <1>0 DEF TypeOK
  <2>4. UNCHANGED <<at, goal>>
    BY DEF calls
  <2> QED
    BY <2>1, <2>2, <2>3, <2>4 DEF Deploying
<1>5. PuttingBack'
  <2>1. /\ job[p].goal.fn \in Func /\ OwnOrWaived(job[p].config, job[p].goal.fn)
        /\ TypeOK /\ Recoverable /\ UNCHANGED <<snapshot, waived, at, held>>
    BY <1>0 DEF TypeOK, Original, calls, ghosts
  <2>2. \A f \in Func : OwnOrWaived(fn[f], f) => OwnOrWaived(fn'[f], f)
    <3>1. CASE fn' = [fn EXCEPT ![job[p].goal.fn] = job[p].config]
      BY ONLY <2>1, <3>1, PutBack
    <3>2. CASE UNCHANGED fn
      BY <3>2
    <3> QED BY <3>1, <3>2
  <2>3. \A a \in Caller : at[a] \in {"forget", "clear"} => held[a].fn \in Func
    BY <1>0 DEF TypeOK, Placed, Holding
  <2> QED
    BY <2>1, <2>2, <2>3 DEF PuttingBack, OwnOrWaived
<1>6. Qualified'
  BY <1>0 DEF Qualified, Alone, TypeOK, Reverting, Starting, Stopping, Keep, calls, controller
<1>7. Recoverable' /\ ~wrong'
  <2>1. /\ job[p].goal.fn \in Func /\ OwnOrWaived(job[p].config, job[p].goal.fn)
        /\ TypeOK /\ Recoverable /\ UNCHANGED <<snapshot, waived, wrong>>
    BY <1>0 DEF TypeOK, Original, ghosts
  <2>2. CASE fn' = [fn EXCEPT ![job[p].goal.fn] = job[p].config]
    <3>1. Recoverable'
      BY ONLY <2>1, <2>2, PutBack
    <3> QED BY <2>1, <3>1
  <2>3. CASE UNCHANGED fn
    BY <2>1, <2>3 DEF Recoverable
  <2> QED BY <2>2, <2>3
<1> QED BY <1>1, <1>2, <1>3, <1>4, <1>5, <1>6, <1>7

LEMMA OrderGetLambdaSnapshot ==
    ASSUME Orderly, TypeInv, OrderInv, NEW a \in Caller, GetLambdaSnapshot(a)
    PROVE  OrderInv'
<1> USE CallerType DEF OrderInv, GetLambdaSnapshot, Reverted, EnsureCleanState, Goto
<1>0. TypeOK /\ Placed
  BY DEF TypeInv
<1>1. Alone'
  BY <1>0 DEF Alone, TypeOK, Reverting, Starting, Stopping, calls
<1>2. Original'
  BY <1>0 DEF Original, OwnOrWaived, TypeOK, Holding, Keep, calls, deployment, ghosts
<1>3. Recorded'
  BY <1>0 DEF Recorded, Alone, TypeOK, Reverting, Starting, Stopping, Keep, calls, controller,
     deployment
<1>4. Deploying'
  BY <1>0 DEF Deploying, TypeOK, Recorded, calls, deployment
<1>5. PuttingBack'
  BY <1>0 DEF PuttingBack, OwnOrWaived, Alone, TypeOK, Reverting, Starting, Keep, calls,
     service, ghosts
<1>6. Qualified'
  BY <1>0 DEF Qualified, Alone, TypeOK, Reverting, Starting, Stopping, Keep, calls, controller
<1>7. Recoverable' /\ ~wrong'
  BY <1>0 DEF Recoverable, PuttingBack, OwnOrWaived, TypeOK, service, ghosts
<1> QED BY <1>1, <1>2, <1>3, <1>4, <1>5, <1>6, <1>7

LEMMA OrderCompareConfig ==
    ASSUME Orderly, TypeInv, OrderInv, NEW a \in Caller, CompareConfig(a)
    PROVE  OrderInv'
<1> USE CallerType DEF OrderInv, CompareConfig, Reverted, EnsureCleanState, Goto
<1>0. TypeOK /\ Placed
  BY DEF TypeInv
<1>1. Alone'
  BY <1>0 DEF Alone, TypeOK, Reverting, Starting, Stopping, calls
<1>2. Original'
  BY <1>0 DEF Original, OwnOrWaived, TypeOK, Holding, Keep, calls, deployment, ghosts
<1>3. Recorded'
  BY <1>0 DEF Recorded, Alone, TypeOK, Reverting, Starting, Stopping, Keep, calls, controller,
     deployment
<1>4. Deploying'
  BY <1>0 DEF Deploying, TypeOK, Recorded, calls, deployment
<1>5. PuttingBack'
  BY <1>0 DEF PuttingBack, OwnOrWaived, Alone, TypeOK, Reverting, Starting, Keep, calls,
     service, ghosts
<1>6. Qualified'
  BY <1>0 DEF Qualified, Alone, TypeOK, Reverting, Starting, Stopping, Keep, calls, controller
<1>7. Recoverable' /\ ~wrong'
  <2>1. held[a] = snapshot /\ held[a].fn \in Func
    BY <1>0 DEF PuttingBack, Placed, Holding, TypeOK
  <2>2. CASE snapshot' = None /\ waived' = waived \cup {held[a].fn}
    BY <2>1, <2>2 DEF Recoverable, service
  <2>3. CASE /\ fn[held[a].fn] = held[a].config
             /\ snapshot' = None /\ UNCHANGED waived
    <3>1. OwnOrWaived(fn[snapshot.fn], snapshot.fn)
      BY <2>1, <2>3 DEF Original, Holding
    <3> QED
      BY <2>1, <2>3, <3>1 DEF Recoverable, OwnOrWaived, service
  <2>4. CASE UNCHANGED <<snapshot, waived>>
    BY <2>4 DEF Recoverable, service
  <2> QED BY <2>2, <2>3, <2>4
<1> QED BY <1>1, <1>2, <1>3, <1>4, <1>5, <1>6, <1>7

LEMMA OrderRevertFunction ==
    ASSUME Orderly, TypeInv, OrderInv, NEW a \in Caller, RevertFunction(a)
    PROVE  OrderInv'
<1> USE CallerType DEF OrderInv, RevertFunction, Goto
<1>0. TypeOK /\ Placed
  BY DEF TypeInv
<1>1. Alone'
  BY <1>0 DEF Alone, TypeOK, Reverting, Starting, Stopping, calls
<1>2. Original'
  BY <1>0 DEF Original, OwnOrWaived, TypeOK, Holding, Keep, calls, deployment, ghosts
<1>3. Recorded'
  BY <1>0 DEF Recorded, Alone, TypeOK, Reverting, Starting, Stopping, Keep, calls, controller,
     deployment
<1>4. Deploying'
  BY <1>0 DEF Deploying, TypeOK, Recorded, calls, deployment
<1>5. PuttingBack'
  <2>1. /\ held[a].fn \in Func /\ OwnOrWaived(held[a].config, held[a].fn)
        /\ TypeOK /\ Recoverable /\ UNCHANGED <<snapshot, waived>>
    BY <1>0 DEF TypeOK, Original, Placed, Holding, ghosts
  <2>2. \A b \in Caller : b # a => at'[b] = at[b] /\ held'[b] = held[b]
    BY <1>0 DEF TypeOK, Keep
  <2>3. \A b \in Caller : at[b] \in {"forget", "clear"} => held[b].fn \in Func
    BY <1>0 DEF TypeOK, Placed, Holding
  <2>4. CASE fn' = [fn EXCEPT ![held[a].fn] = held[a].config] /\ at' = [at EXCEPT ![a] = "forget"]
             /\ UNCHANGED held
    <3>1. \A f \in Func : OwnOrWaived(fn[f], f) => OwnOrWaived(fn'[f], f)
      BY ONLY <2>1, <2>4, PutBack
    <3>2. at'[a] = "forget" /\ held'[a] = held[a] /\ fn'[held[a].fn] = held[a].config
      BY <1>0, <2>1, <2>4 DEF TypeOK
    <3> QED
      BY <2>1, <2>2, <2>3, <3>1, <3>2 DEF PuttingBack, OwnOrWaived
  <2>5. CASE at' = [at EXCEPT ![a] = "idle"] /\ UNCHANGED fn
    <3>1. at'[a] = "idle"
      BY <1>0, <2>5 DEF TypeOK
    <3> QED
      BY <2>1, <2>2, <2>5, <3>1 DEF PuttingBack, OwnOrWaived
  <2> QED BY <2>4, <2>5
<1>6. Qualified'
  BY <1>0 DEF Qualified, Alone, TypeOK, Reverting, Starting, Stopping, Keep, calls, controller
<1>7. Recoverable' /\ ~wrong'
  <2>1. /\ held[a].fn \in Func /\ OwnOrWaived(held[a].config, held[a].fn)
        /\ TypeOK /\ Recoverable /\ UNCHANGED <<snapshot, waived, wrong>>
    BY <1>0 DEF TypeOK, Original, Placed, Holding, ghosts
  <2>2. CASE fn' = [fn EXCEPT ![held[a].fn] = held[a].config]
    <3>1. Recoverable'
      BY ONLY <2>1, <2>2, PutBack
    <3> QED BY <2>1, <3>1
  <2>3. CASE UNCHANGED fn
    BY <2>1, <2>3 DEF Recoverable
  <2> QED BY <2>2, <2>3
<1> QED BY <1>1, <1>2, <1>3, <1>4, <1>5, <1>6, <1>7

LEMMA OrderForgetSnapshot ==
    ASSUME Orderly, TypeInv, OrderInv, NEW a \in Caller, ForgetSnapshot(a)
    PROVE  OrderInv'
<1> USE CallerType DEF OrderInv, ForgetSnapshot, Reverted, EnsureCleanState, Goto
<1>0. TypeOK /\ Placed
  BY DEF TypeInv
<1>1. Alone'
  BY <1>0 DEF Alone, TypeOK, Reverting, Starting, Stopping, calls
<1>2. Original'
  BY <1>0 DEF Original, OwnOrWaived, TypeOK, Holding, Keep, calls, deployment, ghosts
<1>3. Recorded'
  BY <1>0 DEF Recorded, Alone, TypeOK, Reverting, Starting, Stopping, Keep, calls, controller,
     deployment
<1>4. Deploying'
  BY <1>0 DEF Deploying, TypeOK, Recorded, calls, deployment
<1>5. PuttingBack'
  BY <1>0 DEF PuttingBack, OwnOrWaived, Alone, TypeOK, Reverting, Starting, Keep, calls,
     service, ghosts
<1>6. Qualified'
  BY <1>0 DEF Qualified, Alone, TypeOK, Reverting, Starting, Stopping, Keep, calls, controller
<1>7. Recoverable' /\ ~wrong'
  BY <1>0 DEF Recoverable, PuttingBack, OwnOrWaived, TypeOK, service, ghosts
<1> QED BY <1>1, <1>2, <1>3, <1>4, <1>5, <1>6, <1>7

LEMMA OrderAnswer ==
    ASSUME Orderly, TypeInv, OrderInv, NEW a \in Caller, Answer(a)
    PROVE  OrderInv'
<1> USE CallerType DEF OrderInv, Answer, Reverted, EnsureCleanState, Goto
<1>0. TypeOK /\ Placed
  BY DEF TypeInv
<1>1. Alone'
  BY <1>0 DEF Alone, TypeOK, Reverting, Starting, Stopping, calls
<1>2. Original'
  BY <1>0 DEF Original, OwnOrWaived, TypeOK, Holding, Keep, calls, deployment, ghosts
<1>3. Recorded'
  BY <1>0 DEF Recorded, Alone, TypeOK, Reverting, Starting, Stopping, Keep, calls, controller,
     deployment
<1>4. Deploying'
  BY <1>0 DEF Deploying, TypeOK, Recorded, calls, deployment
<1>5. PuttingBack'
  BY <1>0 DEF PuttingBack, OwnOrWaived, Alone, TypeOK, Reverting, Starting, Keep, calls,
     service, ghosts
<1>6. Qualified'
  BY <1>0 DEF Qualified, Alone, TypeOK, Reverting, Starting, Stopping, Keep, calls, controller
<1>7. Recoverable' /\ ~wrong'
  BY <1>0 DEF Recoverable, PuttingBack, OwnOrWaived, TypeOK, service, ghosts
<1> QED BY <1>1, <1>2, <1>3, <1>4, <1>5, <1>6, <1>7

LEMMA OrderBeginStop ==
    ASSUME Orderly, TypeInv, OrderInv, NEW a \in Caller, BeginStop(a)
    PROVE  OrderInv'
<1> USE CallerType DEF OrderInv, BeginStop, Goto
<1>0. TypeOK /\ Placed
  BY DEF TypeInv
<1>1. Alone'
  BY <1>0 DEF Alone, TypeOK, Reverting, Starting, Stopping, calls
<1>2. Original'
  BY <1>0 DEF Original, OwnOrWaived, TypeOK, Holding, Keep, calls, deployment, ghosts
<1>3. Recorded'
  BY <1>0 DEF Recorded, Alone, TypeOK, Reverting, Starting, Stopping, Keep, calls, controller,
     deployment
<1>4. Deploying'
  BY <1>0 DEF Deploying, TypeOK, Recorded, calls, deployment
<1>5. PuttingBack'
  BY <1>0 DEF PuttingBack, OwnOrWaived, Alone, TypeOK, Reverting, Starting, Keep, calls,
     service, ghosts
<1>6. Qualified'
  BY <1>0 DEF Qualified, Alone, TypeOK, Reverting, Starting, Stopping, Keep, calls, controller
<1>7. Recoverable' /\ ~wrong'
  BY <1>0 DEF Recoverable, PuttingBack, OwnOrWaived, TypeOK, service, ghosts
<1> QED BY <1>1, <1>2, <1>3, <1>4, <1>5, <1>6, <1>7

LEMMA OrderDeleteDebugVersion ==
    ASSUME Orderly, TypeInv, OrderInv, NEW a \in Caller, DeleteDebugVersion(a)
    PROVE  OrderInv'
<1> USE CallerType DEF OrderInv, DeleteDebugVersion, Goto
<1>0. TypeOK /\ Placed
  BY DEF TypeInv
<1>1. Alone'
  BY <1>0 DEF Alone, TypeOK, Reverting, Starting, Stopping, calls
<1>2. Original'
  BY <1>0 DEF Original, OwnOrWaived, TypeOK, Holding, Keep, calls, deployment, ghosts
<1>3. Recorded'
  BY <1>0 DEF Recorded, Alone, TypeOK, Reverting, Starting, Stopping, Keep, calls, controller,
     deployment
<1>4. Deploying'
  BY <1>0 DEF Deploying, TypeOK, Recorded, calls, deployment
<1>5. PuttingBack'
  BY <1>0 DEF PuttingBack, OwnOrWaived, Alone, TypeOK, Reverting, Starting, Keep, calls,
     service, ghosts
<1>6. Qualified'
  BY <1>0 DEF Qualified, Alone, TypeOK, Reverting, Starting, Stopping, Keep, calls, controller
<1>7. Recoverable' /\ ~wrong'
  <2>1. qualifier # None => qualifier.fn = held[a].fn
    BY DEF Qualified
  <2>2. ~wrong'
    BY <1>0, <2>1 DEF TypeOK
  <2>3. UNCHANGED <<fn, snapshot, waived>>
    OBVIOUS
  <2> QED BY <2>2, <2>3 DEF Recoverable
<1> QED BY <1>1, <1>2, <1>3, <1>4, <1>5, <1>6, <1>7

LEMMA OrderCheckFunction ==
    ASSUME Orderly, TypeInv, OrderInv, NEW a \in Caller, CheckFunction(a)
    PROVE  OrderInv'
<1> USE CallerType DEF OrderInv, CheckFunction, Goto
<1>0. TypeOK /\ Placed
  BY DEF TypeInv
<1>1. Alone'
  BY <1>0 DEF Alone, TypeOK, Reverting, Starting, Stopping, calls
<1>2. Original'
  BY <1>0 DEF Original, OwnOrWaived, TypeOK, Holding, Keep, calls, deployment, ghosts
<1>3. Recorded'
  BY <1>0 DEF Recorded, Alone, TypeOK, Reverting, Starting, Stopping, Keep, calls, controller,
     deployment
<1>4. Deploying'
  BY <1>0 DEF Deploying, TypeOK, Recorded, calls, deployment
<1>5. PuttingBack'
  <2>1. \A b \in Caller : b # a => at'[b] = at[b]
    BY <1>0 DEF TypeOK
  <2>2. /\ at'[a] \in {"clear", "restore"}
        /\ at'[a] = "clear" => fn[held[a].fn] = held[a].config
    BY <1>0 DEF TypeOK
  <2>3. OwnOrWaived(held[a].config, held[a].fn)
    BY DEF Original, Holding
  <2>4. UNCHANGED <<fn, snapshot, held, waived>>
    BY DEF service, ghosts
  <2> QED
    BY <2>1, <2>2, <2>3, <2>4 DEF PuttingBack, OwnOrWaived
<1>6. Qualified'
  BY <1>0 DEF Qualified, Alone, TypeOK, Reverting, Starting, Stopping, Keep, calls, controller
<1>7. Recoverable' /\ ~wrong'
  BY <1>0 DEF Recoverable, PuttingBack, OwnOrWaived, TypeOK, service, ghosts
<1> QED BY <1>1, <1>2, <1>3, <1>4, <1>5, <1>6, <1>7

LEMMA OrderRestoreFunction ==
    ASSUME Orderly, TypeInv, OrderInv, NEW a \in Caller, RestoreFunction(a)
    PROVE  OrderInv'
<1> USE CallerType DEF OrderInv, RestoreFunction, Goto
<1>0. TypeOK /\ Placed
  BY DEF TypeInv
<1>1. Alone'
  BY <1>0 DEF Alone, TypeOK, Reverting, Starting, Stopping, calls
<1>2. Original'
  BY <1>0 DEF Original, OwnOrWaived, TypeOK, Holding, Keep, calls, deployment, ghosts
<1>3. Recorded'
  BY <1>0 DEF Recorded, Alone, TypeOK, Reverting, Starting, Stopping, Keep, calls, controller,
     deployment
<1>4. Deploying'
  BY <1>0 DEF Deploying, TypeOK, Recorded, calls, deployment
<1>5. PuttingBack'
  <2>1. /\ held[a].fn \in Func /\ OwnOrWaived(held[a].config, held[a].fn)
        /\ TypeOK /\ Recoverable /\ UNCHANGED <<snapshot, waived>>
    BY <1>0 DEF TypeOK, Original, Placed, Holding, ghosts
  <2>2. \A b \in Caller : b # a => at'[b] = at[b] /\ held'[b] = held[b]
    BY <1>0 DEF TypeOK, Keep
  <2>3. \A b \in Caller : at[b] \in {"forget", "clear"} => held[b].fn \in Func
    BY <1>0 DEF TypeOK, Placed, Holding
  <2>4. CASE fn' = [fn EXCEPT ![held[a].fn] = held[a].config] /\ at' = [at EXCEPT ![a] = "clear"]
             /\ UNCHANGED held
    <3>1. \A f \in Func : OwnOrWaived(fn[f], f) => OwnOrWaived(fn'[f], f)
      BY ONLY <2>1, <2>4, PutBack
    <3>2. at'[a] = "clear" /\ held'[a] = held[a] /\ fn'[held[a].fn] = held[a].config
      BY <1>0, <2>1, <2>4 DEF TypeOK
    <3> QED
      BY <2>1, <2>2, <2>3, <3>1, <3>2 DEF PuttingBack, OwnOrWaived
  <2>5. CASE at' = [at EXCEPT ![a] = "idle"] /\ UNCHANGED fn
    <3>1. at'[a] = "idle"
      BY <1>0, <2>5 DEF TypeOK
    <3> QED
      BY <2>1, <2>2, <2>5, <3>1 DEF PuttingBack, OwnOrWaived
  <2> QED BY <2>4, <2>5
<1>6. Qualified'
  BY <1>0 DEF Qualified, Alone, TypeOK, Reverting, Starting, Stopping, Keep, calls, controller
<1>7. Recoverable' /\ ~wrong'
  <2>1. /\ held[a].fn \in Func /\ OwnOrWaived(held[a].config, held[a].fn)
        /\ TypeOK /\ Recoverable /\ UNCHANGED <<snapshot, waived, wrong>>
    BY <1>0 DEF TypeOK, Original, Placed, Holding, ghosts
  <2>2. CASE fn' = [fn EXCEPT ![held[a].fn] = held[a].config]
    <3>1. Recoverable'
      BY ONLY <2>1, <2>2, PutBack
    <3> QED BY <2>1, <3>1
  <2>3. CASE UNCHANGED fn
    BY <2>1, <2>3 DEF Recoverable
  <2> QED BY <2>2, <2>3
<1> QED BY <1>1, <1>2, <1>3, <1>4, <1>5, <1>6, <1>7

LEMMA OrderFinishStop ==
    ASSUME Orderly, TypeInv, OrderInv, NEW a \in Caller, FinishStop(a)
    PROVE  OrderInv'
<1> USE CallerType DEF OrderInv, FinishStop, Goto
<1>0. TypeOK /\ Placed
  BY DEF TypeInv
<1>1. Alone'
  BY <1>0 DEF Alone, TypeOK, Reverting, Starting, Stopping, calls
<1>2. Original'
  BY <1>0 DEF Original, OwnOrWaived, TypeOK, Holding, Keep, calls, deployment, ghosts
<1>3. Recorded'
  BY <1>0 DEF Recorded, Alone, TypeOK, Reverting, Starting, Stopping, Keep, calls, controller,
     deployment
<1>4. Deploying'
  BY <1>0 DEF Deploying, TypeOK, Recorded, calls, deployment
<1>5. PuttingBack'
  BY <1>0 DEF PuttingBack, OwnOrWaived, Alone, TypeOK, Reverting, Starting, Keep, calls,
     service, ghosts
<1>6. Qualified'
  BY <1>0 DEF Qualified, Alone, TypeOK, Reverting, Starting, Stopping, Keep, calls, controller
<1>7. Recoverable' /\ ~wrong'
  BY <1>0 DEF Recoverable, PuttingBack, OwnOrWaived, TypeOK, service, ghosts
<1> QED BY <1>1, <1>2, <1>3, <1>4, <1>5, <1>6, <1>7

LEMMA OrderClearSnapshot ==
    ASSUME Orderly, TypeInv, OrderInv, ClearSnapshot
    PROVE  OrderInv'
<1> USE CallerType DEF OrderInv, ClearSnapshot, Goto, Quiet, Idle
<1>0. TypeOK /\ Placed
  BY DEF TypeInv
<1>1. Alone'
  BY <1>0 DEF Alone, TypeOK, Reverting, Starting, Stopping, calls
<1>2. Original'
  BY <1>0 DEF Original, OwnOrWaived, TypeOK, Holding, Keep, calls, deployment, ghosts
<1>3. Recorded'
  BY <1>0 DEF Recorded, Alone, TypeOK, Reverting, Starting, Stopping, Keep, calls, controller,
     deployment
<1>4. Deploying'
  BY <1>0 DEF Deploying, TypeOK, Recorded, calls, deployment
<1>5. PuttingBack'
  BY <1>0 DEF PuttingBack, OwnOrWaived, Alone, TypeOK, Reverting, Starting, Keep, calls,
     service, ghosts
<1>6. Qualified'
  BY <1>0 DEF Qualified, Alone, TypeOK, Reverting, Starting, Stopping, Keep, calls, controller
<1>7. Recoverable' /\ ~wrong'
  BY <1>0 DEF Recoverable, PuttingBack, OwnOrWaived, TypeOK, service, ghosts
<1> QED BY <1>1, <1>2, <1>3, <1>4, <1>5, <1>6, <1>7

LEMMA OrderStartDebugging ==
    ASSUME Orderly, TypeInv, OrderInv, NEW p \in Panel, NEW f \in Func, NEW publish \in BOOLEAN,
           StartDebugging(p, f, publish)
    PROVE  OrderInv'
<1> USE CallerType DEF OrderInv, StartDebugging, EnsureCleanState, Goto
<1>0. TypeOK /\ Placed /\ \A a \in Caller : at[a] = "idle"
  BY DEF TypeInv, Quiet, Idle
<1>1. \A a \in Caller : at'[a] = "idle" \/ (a = p /\ at'[a] = "look")
  BY <1>0 DEF TypeOK
<1>2. Alone'
  BY <1>1 DEF Alone, Reverting, Starting
<1>3. Original'
  <2>1. \A q \in Panel : job'[q] = None \/ job'[q] = job[q]
    BY <1>0 DEF TypeOK
  <2> QED BY <1>1, <2>1 DEF Original, OwnOrWaived, Holding, ghosts
<1>4. Recorded'
  BY <1>0, <1>1 DEF Recorded, TypeOK, Reverting, Starting
<1>5. Deploying'
  <2>1. \A q \in Panel : at'[q] \in {"idle", "look"} /\ at[q] = "idle"
    BY <1>0, <1>1
  <2>2. \A q \in Panel : job'[q] = None \/ (job'[q] = job[q] /\ deploy'[q] = deploy[q])
    BY <1>0 DEF TypeOK
  <2> QED BY <2>1, <2>2 DEF Deploying
<1>6. PuttingBack'
  BY <1>1 DEF PuttingBack
<1>7. Qualified'
  <2>1. CASE isDebugging
    <3>1. \A a \in Caller : at'[a] = "idle"
      BY <1>0, <2>1
    <3> QED BY <2>1, <3>1 DEF Qualified, Reverting, Starting
  <2>2. CASE ~isDebugging
    BY <1>1, <2>2 DEF Qualified
  <2> QED BY <2>1, <2>2
<1>8. Recoverable' /\ ~wrong'
  BY DEF Recoverable, service, ghosts
<1> QED BY <1>2, <1>3, <1>4, <1>5, <1>6, <1>7, <1>8

\* Calls that were idle begin to stop while no revert or start goes on.
LEMMA OrderNotify ==
    ASSUME TypeInv, OrderInv, NEW S \in SUBSET Ending,
           NEW place \in [Caller -> {"idle"} \cup Reverting \cup Starting \cup Stopping],
           at' = [a \in Caller |-> IF a \in S THEN "stop" ELSE place[a]],
           UNCHANGED <<service, snapshot, isDebugging, debugger, qualifier, held, goal, using,
                       deployment, ghosts>>,
           \A a \in Caller : at[a] \notin Reverting \cup Starting,
           \A a \in Caller : place[a] = at[a] \/ (at[a] = "end" /\ place[a] = "delete")
    PROVE  OrderInv'
<1> USE CallerType DEF OrderInv
<1>1. \A a \in Caller : \/ at'[a] = "stop" \/ at'[a] = at[a]
                        \/ at[a] = "end" /\ at'[a] = "delete"
  OBVIOUS
<1>2. \A a \in Caller : at'[a] \notin Reverting \cup Starting
  BY <1>1 DEF Reverting, Starting
<1>3. Alone' /\ Recorded'
  BY <1>2, CallerType DEF Alone, Recorded, Reverting, Starting
<1>4. Original'
  BY <1>1 DEF Original, OwnOrWaived, Holding, deployment, ghosts
<1>5. Deploying'
  BY <1>2 DEF Deploying, Starting, deployment
<1>6. PuttingBack'
  BY <1>1 DEF PuttingBack, OwnOrWaived, service, ghosts
<1>7. Qualified'
  BY <1>1, <1>2 DEF Qualified
<1>8. Recoverable' /\ ~wrong'
  BY DEF Recoverable, service, ghosts
<1> QED BY <1>3, <1>4, <1>5, <1>6, <1>7, <1>8

LEMMA OrderSessionEnds ==
    ASSUME Orderly, TypeInv, OrderInv, SessionEnds
    PROVE  OrderInv'
<1>1. PICK S \in SUBSET Ending : at' = [a \in Caller |-> IF a \in S THEN "stop" ELSE at[a]]
  BY DEF SessionEnds, Notify
<1>2. \A a \in Caller : at[a] \notin Reverting \cup Starting
  BY DEF SessionEnds, Quiet, Idle, Reverting, Starting
<1>3. at \in [Caller -> {"idle"} \cup Reverting \cup Starting \cup Stopping]
  BY DEF TypeInv, TypeOK
<1>4. UNCHANGED <<service, snapshot, isDebugging, debugger, qualifier, held, goal, using,
                  deployment, ghosts>>
  BY DEF SessionEnds
<1> QED BY <1>1, <1>2, <1>3, <1>4, OrderNotify

\* A session that ends may bring the calls of its listeners along.
LEMMA EndSessionPlace ==
    ASSUME TypeInv, NEW a \in Caller, EndSession(a)
    PROVE  \E place \in [Caller -> {"idle"} \cup Reverting \cup Starting \cup Stopping] :
               /\ \A b \in Caller : place[b] = at[b] \/ (at[b] = "end" /\ place[b] = "delete")
               /\ \E S \in SUBSET Ending :
                      at' = [b \in Caller |-> IF b \in S THEN "stop" ELSE place[b]]
<1> DEFINE place == [at EXCEPT ![a] = "delete"]
<1>0. at \in [Caller -> {"idle"} \cup Reverting \cup Starting \cup Stopping] /\ at[a] = "end"
  BY DEF TypeInv, TypeOK, EndSession
<1>1. /\ place \in [Caller -> {"idle"} \cup Reverting \cup Starting \cup Stopping]
      /\ \A b \in Caller : place[b] = at[b] \/ (at[b] = "end" /\ place[b] = "delete")
  BY <1>0 DEF Stopping
<1>2. \E S \in SUBSET Ending : at' = [b \in Caller |-> IF b \in S THEN "stop" ELSE place[b]]
  <2>1. CASE session = None
    <3>1. at' = [b \in Caller |-> IF b \in {} THEN "stop" ELSE place[b]]
      BY <1>0, <2>1 DEF EndSession, Goto
    <3> WITNESS {} \in SUBSET Ending
    <3> QED BY <3>1
  <2>2. CASE session # None
    BY <2>2 DEF EndSession, Notify
  <2> QED BY <2>1, <2>2
<1> QED BY <1>1, <1>2

LEMMA OrderEndSession ==
    ASSUME Orderly, TypeInv, OrderInv, NEW a \in Caller, EndSession(a)
    PROVE  OrderInv'
<1>1. PICK place \in [Caller -> {"idle"} \cup Reverting \cup Starting \cup Stopping] :
          /\ \A b \in Caller : place[b] = at[b] \/ (at[b] = "end" /\ place[b] = "delete")
          /\ \E S \in SUBSET Ending :
                 at' = [b \in Caller |-> IF b \in S THEN "stop" ELSE place[b]]
  BY EndSessionPlace
<1>2. \A b \in Caller : at[b] \notin Reverting \cup Starting
  BY DEF EndSession, OrderInv, Alone, Reverting, Starting
<1>3. UNCHANGED <<service, snapshot, isDebugging, debugger, qualifier, held, goal, using,
                  deployment, ghosts>>
  BY DEF EndSession
<1> QED BY <1>1, <1>2, <1>3, OrderNotify

\* An update that lands when the window closes is of the function recorded.
LEMMA OrderCrash ==
    ASSUME Orderly, TypeInv, OrderInv, Crash
    PROVE  OrderInv'
<1> USE CallerType DEF OrderInv, Crash
<1>0. TypeOK
  BY DEF TypeInv
<1>1. \A a \in Caller : at'[a] = "idle" \/ (a = Activation /\ at'[a] = "look")
  OBVIOUS
<1>2. (\A p \in Panel : job'[p] = None /\ at'[p] = "idle") /\ \A a \in Caller : goal'[a] = None
  OBVIOUS
<1>3. Alone'
  BY <1>1 DEF Alone, Reverting, Starting
<1>4. Original' /\ Deploying' /\ PuttingBack' /\ Qualified'
  BY <1>1, <1>2 DEF Original, OwnOrWaived, Deploying, PuttingBack, Qualified, Holding
<1>5. Recorded'
  BY <1>2 DEF Recorded
<1>6. Recoverable' /\ ~wrong'
  <2>1. \A p \in Panel : job[p] # None /\ job[p].stage = "update" =>
            snapshot # None /\ snapshot.fn = job[p].goal.fn
    BY DEF Deploying, Recorded
  <2>2. \A f \in Func : fn'[f] = fn[f] \/ (snapshot # None /\ snapshot.fn = f)
    BY <2>1
  <2> QED BY <2>2 DEF Recoverable
<1> QED BY <1>3, <1>4, <1>5, <1>6

LEMMA OrderInit == Init => OrderInv
<1> SUFFICES ASSUME Init PROVE OrderInv
  OBVIOUS
<1> USE CallerType DEF Init
<1>1. \A a \in Caller : at[a] = "idle" /\ goal[a] = None
  OBVIOUS
<1>2. Alone /\ Recorded /\ Deploying /\ PuttingBack /\ Qualified
  BY <1>1 DEF Alone, Recorded, Deploying, PuttingBack, Qualified, Reverting, Starting
<1>3. Original /\ Recoverable /\ ~wrong
  BY <1>1 DEF Original, Recoverable, Holding
<1> QED BY <1>2, <1>3 DEF OrderInv

LEMMA OrderStutter == ASSUME OrderInv, UNCHANGED vars PROVE OrderInv'
<1> USE DEF OrderInv, vars, service, controller, client, calls, deployment, ghosts
<1>1. Alone' /\ Original' /\ Recorded'
  BY DEF Alone, Original, OwnOrWaived, Recorded
<1>2. Deploying' /\ PuttingBack' /\ Qualified'
  BY DEF Deploying, PuttingBack, OwnOrWaived, Qualified
<1>3. Recoverable' /\ ~wrong'
  BY DEF Recoverable
<1> QED BY <1>1, <1>2, <1>3

LEMMA OrderStep == ASSUME Orderly, TypeInv, OrderInv, [Next]_vars PROVE OrderInv'
<1>1. ASSUME NEW p \in Panel,
             \/ DebugPreCheck(p) \/ StopDebugging(p)
             \/ \E f \in Func, publish \in BOOLEAN : StartDebugging(p, f, publish)
             \/ Start(p) \/ Deploy(p)
      PROVE  OrderInv'
  BY <1>1, OrderDebugPreCheck, OrderStopDebugging, OrderStartDebugging, OrderDescribeFunction,
     OrderRecordSnapshot, OrderSetup, OrderWaitForSetup, OrderWaitForFunctionUpdates,
     OrderUpdateFunction, OrderAwaitUpdate, OrderPublishVersion, OrderRevertAfterPublish
     DEF Start, Deploy
<1>2. ASSUME NEW a \in Caller, Revert(a) \/ Answer(a) \/ Stop(a)
      PROVE  OrderInv'
  BY <1>2, OrderGetLambdaSnapshot, OrderCompareConfig, OrderRevertFunction, OrderForgetSnapshot,
     OrderAnswer, OrderBeginStop, OrderEndSession, OrderDeleteDebugVersion, OrderCheckFunction,
     OrderRestoreFunction, OrderFinishStop
     DEF Revert, Stop
<1> QED
  BY <1>1, <1>2, OrderClearSnapshot, OrderSessionEnds, OrderCrash, OrderStutter DEF Next

LEMMA OrderHolds == ASSUME Orderly PROVE Spec => [](TypeInv /\ OrderInv)
<1>1. TypeInv /\ OrderInv /\ [Next]_vars => (TypeInv /\ OrderInv)'
  BY TypeStep, OrderStep
<1> QED BY <1>1, TypeInit, OrderInit, PTL DEF Spec

\* Without overlap no function keeps a debugging configuration that nothing is
\* recorded to revert, whatever fails and whenever the window closes.
THEOREM AlwaysRecoverable == ASSUME Orderly PROVE Spec => []Recoverable
<1>1. OrderInv => Recoverable
  BY DEF OrderInv
<1> QED BY <1>1, OrderHolds, PTL

\* Nor is a debugging configuration recorded as the one to put back.
THEOREM SnapshotsAreOriginal == ASSUME Orderly PROVE Spec => []SnapshotIsOriginal
<1>1. OrderInv => SnapshotIsOriginal
  BY DEF OrderInv, Original, OwnOrWaived, SnapshotIsOriginal
<1> QED BY <1>1, OrderHolds, PTL

\* Nor is a version of another function deleted, whichever debugger cleans up.
THEOREM OwnVersionsOnly == ASSUME Orderly PROVE Spec => []OnlyOwnVersions
<1>1. OrderInv => OnlyOwnVersions
  BY DEF OrderInv, OnlyOwnVersions
<1> QED BY <1>1, OrderHolds, PTL

-------------------------------------------------------------------------------
(* What is left when nothing runs *)

\* A session is on from the end of the revert to the end of the stop.
Phased ==
    \A a \in Caller : /\ at[a] \in Reverting => ~isDebugging
                      /\ at[a] \in Starting => isDebugging

\* While the proxy runs a stop will find the session, and is not past cleanup().
ProxyKept ==
    localProxy /\ ~cleared =>
        /\ isDebugging /\ snapshot # None
        /\ \A a \in Caller : at[a] \notin {"delete", "check", "restore", "clear"}

\* Only a start that asked for a version publishes one.
Publishing ==
    \A p \in Panel : job[p] # None /\ job[p].stage = "publish" => job[p].goal.publish

\* A version that the next stop deletes, and one of a start in progress.
InSession(v) ==
    /\ v = qualifier /\ isDebugging /\ snapshot # None
    /\ \A a \in Caller : at[a] \notin {"check", "restore", "clear"}

InStart(v) ==
    /\ v # qualifier
    /\ \E p \in Panel : /\ at[p] \in {"proxy", "updates", "stop"}
                        /\ goal[p] # None /\ goal[p].publish
                        /\ v.fn = goal[p].fn /\ v.no = goal[p].no

VersionsKept ==
    ~cleared => \A v \in versions : v \in stray \/ InSession(v) \/ InStart(v)

LeftInv == Phased /\ ProxyKept /\ Publishing /\ VersionsKept

LEMMA LeftDebugPreCheck ==
    ASSUME Orderly, TypeInv, OrderInv, LeftInv, NEW p \in Panel, DebugPreCheck(p)
    PROVE  LeftInv'
<1> USE CallerType DEF OrderInv, LeftInv, DebugPreCheck, Goto, Quiet, Idle
<1>0. TypeOK /\ Placed
  BY DEF TypeInv
<1>1. Phased'
  BY <1>0 DEF Phased, Alone, TypeOK, Reverting, Starting, Stopping, calls, controller,
     Reverted, EnsureCleanState, Keep
<1>2. ProxyKept'
  BY <1>0 DEF ProxyKept, Phased, Alone, TypeOK, Reverting, Starting, Stopping, calls,
     controller, client, ghosts, Reverted, EnsureCleanState, Keep
<1>3. Publishing'
  BY <1>0 DEF Publishing, TypeOK, deployment
<1>4. VersionsKept'
  BY <1>0 DEF VersionsKept, InSession, InStart, Phased, Alone, TypeOK, Reverting, Starting,
     Stopping, calls, controller, client, service, ghosts, Reverted, EnsureCleanState, Keep
<1> QED BY <1>1, <1>2, <1>3, <1>4

LEMMA LeftStopDebugging ==
    ASSUME Orderly, TypeInv, OrderInv, LeftInv, NEW p \in Panel, StopDebugging(p)
    PROVE  LeftInv'
<1> USE CallerType DEF OrderInv, LeftInv, StopDebugging, Goto, Quiet, Idle
<1>0. TypeOK /\ Placed
  BY DEF TypeInv
<1>1. Phased'
  BY <1>0 DEF Phased, Alone, TypeOK, Reverting, Starting, Stopping, calls, controller,
     Reverted, EnsureCleanState, Keep
<1>2. ProxyKept'
  BY <1>0 DEF ProxyKept, Phased, Alone, TypeOK, Reverting, Starting, Stopping, calls,
     controller, client, ghosts, Reverted, EnsureCleanState, Keep
<1>3. Publishing'
  BY <1>0 DEF Publishing, TypeOK, deployment
<1>4. VersionsKept'
  BY <1>0 DEF VersionsKept, InSession, InStart, Phased, Alone, TypeOK, Reverting, Starting,
     Stopping, calls, controller, client, service, ghosts, Reverted, EnsureCleanState, Keep
<1> QED BY <1>1, <1>2, <1>3, <1>4

LEMMA LeftDescribeFunction ==
    ASSUME Orderly, TypeInv, OrderInv, LeftInv, NEW p \in Panel, DescribeFunction(p)
    PROVE  LeftInv'
<1> USE CallerType DEF OrderInv, LeftInv, DescribeFunction, Goto, Quiet, Idle
<1>0. TypeOK /\ Placed
  BY DEF TypeInv
<1>1. Phased'
  BY <1>0 DEF Phased, Alone, TypeOK, Reverting, Starting, Stopping, calls, controller,
     Reverted, EnsureCleanState, Keep
<1>2. ProxyKept'
  BY <1>0 DEF ProxyKept, Phased, Alone, TypeOK, Reverting, Starting, Stopping, calls,
     controller, client, ghosts, Reverted, EnsureCleanState, Keep
<1>3. Publishing'
  BY <1>0 DEF Publishing, TypeOK, deployment
<1>4. VersionsKept'
  BY <1>0 DEF VersionsKept, InSession, InStart, Phased, Alone, TypeOK, Reverting, Starting,
     Stopping, calls, controller, client, service, ghosts, Reverted, EnsureCleanState, Keep
<1> QED BY <1>1, <1>2, <1>3, <1>4

LEMMA LeftRecordSnapshot ==
    ASSUME Orderly, TypeInv, OrderInv, LeftInv, NEW p \in Panel, RecordSnapshot(p)
    PROVE  LeftInv'
<1> USE CallerType DEF OrderInv, LeftInv, RecordSnapshot, Goto, Quiet, Idle
<1>0. TypeOK /\ Placed
  BY DEF TypeInv
<1>1. Phased'
  BY <1>0 DEF Phased, Alone, TypeOK, Reverting, Starting, Stopping, calls, controller,
     Reverted, EnsureCleanState, Keep
<1>2. ProxyKept'
  BY <1>0 DEF ProxyKept, Phased, Alone, TypeOK, Reverting, Starting, Stopping, Placed, Holding,
     controller, client, ghosts
<1>3. Publishing'
  BY <1>0 DEF Publishing, TypeOK, deployment
<1>4. VersionsKept'
  BY <1>0 DEF VersionsKept, InSession, InStart, Alone, TypeOK, Reverting, Starting, Stopping,
     Placed, Holding, controller, calls, service, ghosts
<1> QED BY <1>1, <1>2, <1>3, <1>4

LEMMA LeftSetup ==
    ASSUME Orderly, TypeInv, OrderInv, LeftInv, NEW p \in Panel, Setup(p)
    PROVE  LeftInv'
<1> USE CallerType DEF OrderInv, LeftInv, Setup, Goto, Quiet, Idle
<1>0. TypeOK /\ Placed
  BY DEF TypeInv
<1>1. Phased'
  BY <1>0 DEF Phased, Alone, TypeOK, Reverting, Starting, Stopping, calls, controller,
     Reverted, EnsureCleanState, Keep
<1>2. ProxyKept'
  BY <1>0 DEF ProxyKept, Phased, Alone, TypeOK, Reverting, Starting, Stopping, calls,
     controller, client, ghosts, Reverted, EnsureCleanState, Keep
<1>3. Publishing'
  BY <1>0 DEF Publishing, TypeOK, deployment
<1>4. VersionsKept'
  BY <1>0 DEF VersionsKept, InSession, InStart, Phased, Alone, TypeOK, Reverting, Starting,
     Stopping, calls, controller, client, service, ghosts, Reverted, EnsureCleanState, Keep
<1> QED BY <1>1, <1>2, <1>3, <1>4

LEMMA LeftWaitForSetup ==
    ASSUME Orderly, TypeInv, OrderInv, LeftInv, NEW p \in Panel, WaitForSetup(p)
    PROVE  LeftInv'
<1> USE CallerType DEF OrderInv, LeftInv, WaitForSetup, Goto, Quiet, Idle
<1>0. TypeOK /\ Placed
  BY DEF TypeInv
<1>1. Phased'
  BY <1>0 DEF Phased, Alone, TypeOK, Reverting, Starting, Stopping, calls, controller,
     Reverted, EnsureCleanState, Keep
<1>2. ProxyKept'
  BY <1>0 DEF ProxyKept, Phased, Recorded, Alone, TypeOK, Reverting, Starting, Stopping, ghosts
<1>3. Publishing'
  BY <1>0 DEF Publishing, TypeOK, deployment
<1>4. VersionsKept'
  BY <1>0 DEF VersionsKept, InSession, InStart, Phased, Alone, TypeOK, Reverting, Starting,
     Stopping, calls, controller, client, service, ghosts, Reverted, EnsureCleanState, Keep
<1> QED BY <1>1, <1>2, <1>3, <1>4

LEMMA LeftWaitForFunctionUpdates ==
    ASSUME Orderly, TypeInv, OrderInv, LeftInv, NEW p \in Panel, WaitForFunctionUpdates(p)
    PROVE  LeftInv'
<1> USE CallerType DEF OrderInv, LeftInv, WaitForFunctionUpdates, Goto, Quiet, Idle
<1>0. TypeOK /\ Placed
  BY DEF TypeInv
<1>1. Phased'
  BY <1>0 DEF Phased, Alone, TypeOK, Reverting, Starting, Stopping, calls, controller,
     Reverted, EnsureCleanState, Keep
<1>2. ProxyKept'
  BY <1>0 DEF ProxyKept, Phased, Alone, TypeOK, Reverting, Starting, Stopping, calls,
     controller, client, ghosts, Reverted, EnsureCleanState, Keep
<1>3. Publishing'
  BY <1>0 DEF Publishing, TypeOK, deployment
<1>4. VersionsKept'
  <2>1. /\ using[p] = p /\ job[p] # None /\ job[p].goal = goal[p] /\ snapshot # None
        /\ isDebugging /\ qualifier = None /\ goal[p] \in Goal
    BY <1>0 DEF Recorded, Deploying, Qualified, Phased, Placed, TypeOK, Starting
  <2>2. \A a \in Caller : a # p => at[a] = "idle"
    BY DEF Alone, Starting
  <2>3. \A a \in Caller : at'[a] \notin {"check", "restore", "clear"}
    BY <1>0, <2>2 DEF TypeOK
  <2> SUFFICES ASSUME ~cleared, NEW v \in versions, v \notin stray
               PROVE  InSession(v)' \/ InStart(v)'
    BY DEF VersionsKept, service, ghosts
  <2>4. goal[p].publish /\ v.fn = goal[p].fn /\ v.no = goal[p].no /\ v # None
    BY <1>0, <2>1, <2>2 DEF VersionsKept, InSession, InStart, TypeOK
  <2>5. v = [fn |-> goal[p].fn, no |-> goal[p].no]
    BY <1>0, <2>4 DEF TypeOK, Version
  <2>6. CASE deploy[p] = "ok"
    <3>1. qualifier' = v /\ UNCHANGED <<isDebugging, snapshot>>
      BY <2>1, <2>4, <2>5, <2>6
    <3> QED BY <2>1, <2>3, <3>1 DEF InSession
  <2>7. CASE deploy[p] # "ok"
    <3>1. at'[p] = "stop" /\ UNCHANGED <<qualifier, goal>>
      BY <1>0, <2>1, <2>7 DEF TypeOK
    <3> QED BY <2>1, <2>4, <3>1 DEF InStart
  <2> QED BY <2>6, <2>7
<1> QED BY <1>1, <1>2, <1>3, <1>4

LEMMA LeftUpdateFunction ==
    ASSUME Orderly, TypeInv, OrderInv, LeftInv, NEW p \in Panel, UpdateFunction(p)
    PROVE  LeftInv'
<1> USE CallerType DEF OrderInv, LeftInv, UpdateFunction, Goto, Quiet, Idle
<1>0. TypeOK /\ Placed
  BY DEF TypeInv
<1>1. Phased'
  BY <1>0 DEF Phased, Alone, TypeOK, Reverting, Starting, Stopping, calls, controller,
     Reverted, EnsureCleanState, Keep
<1>2. ProxyKept'
  BY <1>0 DEF ProxyKept, Phased, Alone, TypeOK, Reverting, Starting, Stopping, calls,
     controller, client, ghosts, Reverted, EnsureCleanState, Keep
<1>3. Publishing'
  <2>1. job[p] # None
    OBVIOUS
  <2>2. PICK x \in {"wait", "done"} : Stage(p, x) /\ (x = "publish" => job[p].goal.publish)
    OBVIOUS
  <2>3. /\ job'[p].stage = x /\ job'[p].goal = job[p].goal
        /\ \A q \in Panel : q # p => job'[q] = job[q]
    BY <1>0, <2>1, <2>2, StageStep
  <2> QED BY <2>2, <2>3 DEF Publishing
<1>4. VersionsKept'
  BY <1>0 DEF VersionsKept, InSession, InStart, Phased, Alone, TypeOK, Reverting, Starting,
     Stopping, calls, controller, client, service, ghosts, Reverted, EnsureCleanState, Keep
<1> QED BY <1>1, <1>2, <1>3, <1>4

LEMMA LeftAwaitUpdate ==
    ASSUME Orderly, TypeInv, OrderInv, LeftInv, NEW p \in Panel, AwaitUpdate(p)
    PROVE  LeftInv'
<1> USE CallerType DEF OrderInv, LeftInv, AwaitUpdate, Goto, Quiet, Idle
<1>0. TypeOK /\ Placed
  BY DEF TypeInv
<1>1. Phased'
  BY <1>0 DEF Phased, Alone, TypeOK, Reverting, Starting, Stopping, calls, controller,
     Reverted, EnsureCleanState, Keep
<1>2. ProxyKept'
  BY <1>0 DEF ProxyKept, Phased, Alone, TypeOK, Reverting, Starting, Stopping, calls,
     controller, client, ghosts, Reverted, EnsureCleanState, Keep
<1>3. Publishing'
  <2>1. job[p] # None
    OBVIOUS
  <2>2. PICK x \in {"publish", "done"} : Stage(p, x) /\ (x = "publish" => job[p].goal.publish)
    OBVIOUS
  <2>3. /\ job'[p].stage = x /\ job'[p].goal = job[p].goal
        /\ \A q \in Panel : q # p => job'[q] = job[q]
    BY <1>0, <2>1, <2>2, StageStep
  <2> QED BY <2>2, <2>3 DEF Publishing
<1>4. VersionsKept'
  BY <1>0 DEF VersionsKept, InSession, InStart, Phased, Alone, TypeOK, Reverting, Starting,
     Stopping, calls, controller, client, service, ghosts, Reverted, EnsureCleanState, Keep
<1> QED BY <1>1, <1>2, <1>3, <1>4

LEMMA LeftPublishVersion ==
    ASSUME Orderly, TypeInv, OrderInv, LeftInv, NEW p \in Panel, PublishVersion(p)
    PROVE  LeftInv'
<1> USE CallerType DEF OrderInv, LeftInv, PublishVersion, Goto, Quiet, Idle
<1>0. TypeOK /\ Placed
  BY DEF TypeInv
<1>1. Phased'
  BY <1>0 DEF Phased, Alone, TypeOK, Reverting, Starting, Stopping, calls, controller,
     Reverted, EnsureCleanState, Keep
<1>2. ProxyKept'
  BY <1>0 DEF ProxyKept, Phased, Alone, TypeOK, Reverting, Starting, Stopping, calls,
     controller, client, ghosts, Reverted, EnsureCleanState, Keep
<1>3. Publishing'
  <2>1. job[p] # None
    OBVIOUS
  <2>2. PICK x \in {"revert", "done"} : Stage(p, x) /\ (x = "publish" => job[p].goal.publish)
    OBVIOUS
  <2>3. /\ job'[p].stage = x /\ job'[p].goal = job[p].goal
        /\ \A q \in Panel : q # p => job'[q] = job[q]
    BY <1>0, <2>1, <2>2, StageStep
  <2> QED BY <2>2, <2>3 DEF Publishing
<1>4. VersionsKept'
  <2>1. /\ at[p] \in {"proxy", "updates"} /\ job[p].goal = goal[p] /\ goal[p].publish
        /\ qualifier = None /\ goal[p] \in Goal
    BY <1>0 DEF Deploying, Qualified, Publishing, Placed, TypeOK, Starting
  <2>2. UNCHANGED <<at, goal, qualifier, isDebugging, snapshot, stray, cleared>>
    BY DEF calls, controller, ghosts
  <2>3. \A v \in versions' : v \in versions \/ v = [fn |-> goal[p].fn, no |-> goal[p].no]
    BY <2>1
  <2>4. [fn |-> goal[p].fn, no |-> goal[p].no] \in Version
    BY <2>1, CallerType DEF Version
  <2>5. InStart([fn |-> goal[p].fn, no |-> goal[p].no])'
    BY <2>1, <2>2, <2>4 DEF InStart
  <2>6. \A v \in versions : (InSession(v) => InSession(v)') /\ (InStart(v) => InStart(v)')
    BY <2>2 DEF InSession, InStart
  <2> QED BY <2>2, <2>3, <2>5, <2>6 DEF VersionsKept
<1> QED BY <1>1, <1>2, <1>3, <1>4

LEMMA LeftRevertAfterPublish ==
    ASSUME Orderly, TypeInv, OrderInv, LeftInv, NEW p \in Panel, RevertAfterPublish(p)
    PROVE  LeftInv'
<1> USE CallerType DEF OrderInv, LeftInv, RevertAfterPublish, Goto, Quiet, Idle
<1>0. TypeOK /\ Placed
  BY DEF TypeInv
<1>1. Phased'
  BY <1>0 DEF Phased, Alone, TypeOK, Reverting, Starting, Stopping, calls, controller,
     Reverted, EnsureCleanState, Keep
<1>2. ProxyKept'
  BY <1>0 DEF ProxyKept, Phased, Alone, TypeOK, Reverting, Starting, Stopping, calls,
     controller, client, ghosts, Reverted, EnsureCleanState, Keep
<1>3. Publishing'
  <2>1. job[p] # None
    OBVIOUS
  <2>2. PICK x \in {"done"} : Stage(p, x) /\ (x = "publish" => job[p].goal.publish)
    OBVIOUS
  <2>3. /\ job'[p].stage = x /\ job'[p].goal = job[p].goal
        /\ \A q \in Panel : q # p => job'[q] = job[q]
    BY <1>0, <2>1, <2>2, StageStep
  <2> QED BY <2>2, <2>3 DEF Publishing
<1>4. VersionsKept'
  BY <1>0 DEF VersionsKept, InSession, InStart, Phased, Alone, TypeOK, Reverting, Starting,
     Stopping, calls, controller, client, service, ghosts, Reverted, EnsureCleanState, Keep
<1> QED BY <1>1, <1>2, <1>3, <1>4

LEMMA LeftGetLambdaSnapshot ==
    ASSUME Orderly, TypeInv, OrderInv, LeftInv, NEW a \in Caller, GetLambdaSnapshot(a)
    PROVE  LeftInv'
<1> USE CallerType DEF OrderInv, LeftInv, GetLambdaSnapshot, Goto, Quiet, Idle
<1>0. TypeOK /\ Placed
  BY DEF TypeInv
<1>1. Phased'
  BY <1>0 DEF Phased, Alone, TypeOK, Reverting, Starting, Stopping, calls, controller,
     Reverted, EnsureCleanState, Keep
<1>2. ProxyKept'
  BY <1>0 DEF ProxyKept, Phased, Alone, TypeOK, Reverting, Starting, Stopping, calls,
     controller, client, ghosts, Reverted, EnsureCleanState, Keep
<1>3. Publishing'
  BY <1>0 DEF Publishing, TypeOK, deployment
<1>4. VersionsKept'
  BY <1>0 DEF VersionsKept, InSession, InStart, Phased, Alone, TypeOK, Reverting, Starting,
     Stopping, calls, controller, client, service, ghosts, Reverted, EnsureCleanState, Keep
<1> QED BY <1>1, <1>2, <1>3, <1>4

LEMMA LeftCompareConfig ==
    ASSUME Orderly, TypeInv, OrderInv, LeftInv, NEW a \in Caller, CompareConfig(a)
    PROVE  LeftInv'
<1> USE CallerType DEF OrderInv, LeftInv, CompareConfig, Goto, Quiet, Idle
<1>0. TypeOK /\ Placed
  BY DEF TypeInv
<1>1. Phased'
  BY <1>0 DEF Phased, Alone, TypeOK, Reverting, Starting, Stopping, calls, controller,
     Reverted, EnsureCleanState, Keep
<1>2. ProxyKept'
  BY <1>0 DEF ProxyKept, Phased, Alone, TypeOK, Reverting, Starting, Stopping, calls,
     controller, client, ghosts, Reverted, EnsureCleanState, Keep
<1>3. Publishing'
  BY <1>0 DEF Publishing, TypeOK, deployment
<1>4. VersionsKept'
  BY <1>0 DEF VersionsKept, InSession, InStart, Phased, Alone, TypeOK, Reverting, Starting,
     Stopping, calls, controller, client, service, ghosts, Reverted, EnsureCleanState, Keep
<1> QED BY <1>1, <1>2, <1>3, <1>4

LEMMA LeftRevertFunction ==
    ASSUME Orderly, TypeInv, OrderInv, LeftInv, NEW a \in Caller, RevertFunction(a)
    PROVE  LeftInv'
<1> USE CallerType DEF OrderInv, LeftInv, RevertFunction, Goto, Quiet, Idle
<1>0. TypeOK /\ Placed
  BY DEF TypeInv
<1>1. Phased'
  BY <1>0 DEF Phased, Alone, TypeOK, Reverting, Starting, Stopping, calls, controller,
     Reverted, EnsureCleanState, Keep
<1>2. ProxyKept'
  BY <1>0 DEF ProxyKept, Phased, Alone, TypeOK, Reverting, Starting, Stopping, calls,
     controller, client, ghosts, Reverted, EnsureCleanState, Keep
<1>3. Publishing'
  BY <1>0 DEF Publishing, TypeOK, deployment
<1>4. VersionsKept'
  BY <1>0 DEF VersionsKept, InSession, InStart, Phased, Alone, TypeOK, Reverting, Starting,
     Stopping, calls, controller, client, service, ghosts, Reverted, EnsureCleanState, Keep
<1> QED BY <1>1, <1>2, <1>3, <1>4

LEMMA LeftForgetSnapshot ==
    ASSUME Orderly, TypeInv, OrderInv, LeftInv, NEW a \in Caller, ForgetSnapshot(a)
    PROVE  LeftInv'
<1> USE CallerType DEF OrderInv, LeftInv, ForgetSnapshot, Goto, Quiet, Idle
<1>0. TypeOK /\ Placed
  BY DEF TypeInv
<1>1. Phased'
  BY <1>0 DEF Phased, Alone, TypeOK, Reverting, Starting, Stopping, calls, controller,
     Reverted, EnsureCleanState, Keep
<1>2. ProxyKept'
  BY <1>0 DEF ProxyKept, Phased, Alone, TypeOK, Reverting, Starting, Stopping, calls,
     controller, client, ghosts, Reverted, EnsureCleanState, Keep
<1>3. Publishing'
  BY <1>0 DEF Publishing, TypeOK, deployment
<1>4. VersionsKept'
  BY <1>0 DEF VersionsKept, InSession, InStart, Phased, Alone, TypeOK, Reverting, Starting,
     Stopping, calls, controller, client, service, ghosts, Reverted, EnsureCleanState, Keep
<1> QED BY <1>1, <1>2, <1>3, <1>4

LEMMA LeftAnswer ==
    ASSUME Orderly, TypeInv, OrderInv, LeftInv, NEW a \in Caller, Answer(a)
    PROVE  LeftInv'
<1> USE CallerType DEF OrderInv, LeftInv, Answer, Goto, Quiet, Idle
<1>0. TypeOK /\ Placed
  BY DEF TypeInv
<1>1. Phased'
  BY <1>0 DEF Phased, Alone, TypeOK, Reverting, Starting, Stopping, calls, controller,
     Reverted, EnsureCleanState, Keep
<1>2. ProxyKept'
  BY <1>0 DEF ProxyKept, Phased, Alone, TypeOK, Reverting, Starting, Stopping, calls,
     controller, client, ghosts, Reverted, EnsureCleanState, Keep
<1>3. Publishing'
  BY <1>0 DEF Publishing, TypeOK, deployment
<1>4. VersionsKept'
  BY <1>0 DEF VersionsKept, InSession, InStart, Phased, Alone, TypeOK, Reverting, Starting,
     Stopping, calls, controller, client, service, ghosts, Reverted, EnsureCleanState, Keep
<1> QED BY <1>1, <1>2, <1>3, <1>4

LEMMA LeftBeginStop ==
    ASSUME Orderly, TypeInv, OrderInv, LeftInv, NEW a \in Caller, BeginStop(a)
    PROVE  LeftInv'
<1> USE CallerType DEF OrderInv, LeftInv, BeginStop, Goto, Quiet, Idle
<1>0. TypeOK /\ Placed
  BY DEF TypeInv
<1>1. Phased'
  BY <1>0 DEF Phased, Alone, TypeOK, Reverting, Starting, Stopping, calls, controller,
     Reverted, EnsureCleanState, Keep
<1>2. ProxyKept'
  BY <1>0 DEF ProxyKept, Phased, Alone, TypeOK, Reverting, Starting, Stopping, calls,
     controller, client, ghosts, Reverted, EnsureCleanState, Keep
<1>3. Publishing'
  BY <1>0 DEF Publishing, TypeOK, deployment
<1>4. VersionsKept'
  <2> SUFFICES ASSUME ~cleared, NEW v \in versions, v \notin stray'
               PROVE  InSession(v)' \/ InStart(v)'
    BY DEF VersionsKept, service
  <2>1. v \notin stray /\ (InSession(v) \/ InStart(v))
    BY DEF VersionsKept
  <2>2. UNCHANGED <<qualifier, snapshot, goal>>
    OBVIOUS
  <2>3. CASE InSession(v)
    <3>1. isDebugging' /\ at' = [at EXCEPT ![a] = "end"]
      BY <2>3 DEF InSession
    <3>2. \A b \in Caller : at'[b] \notin {"check", "restore", "clear"}
      BY <1>0, <2>3, <3>1 DEF InSession, TypeOK
    <3> QED BY <2>2, <2>3, <3>1, <3>2 DEF InSession
  <2>4. CASE InStart(v)
    <3>1. PICK p \in Panel : /\ at[p] \in {"proxy", "updates", "stop"}
                             /\ goal[p] # None /\ goal[p].publish
                             /\ v.fn = goal[p].fn /\ v.no = goal[p].no
      BY <2>4 DEF InStart
    <3>2. p # a
      BY <2>1, <2>4, <3>1 DEF InStart, Untaken
    <3>3. at'[p] = at[p]
      BY <1>0, <3>2 DEF TypeOK
    <3> QED BY <2>2, <2>4, <3>1, <3>3 DEF InStart
  <2> QED BY <2>1, <2>3, <2>4
<1> QED BY <1>1, <1>2, <1>3, <1>4

LEMMA LeftDeleteDebugVersion ==
    ASSUME Orderly, TypeInv, OrderInv, LeftInv, NEW a \in Caller, DeleteDebugVersion(a)
    PROVE  LeftInv'
<1> USE CallerType DEF OrderInv, LeftInv, DeleteDebugVersion, Goto, Quiet, Idle
<1>0. TypeOK /\ Placed
  BY DEF TypeInv
<1>1. Phased'
  BY <1>0 DEF Phased, Alone, TypeOK, Reverting, Starting, Stopping, calls, controller,
     Reverted, EnsureCleanState, Keep
<1>2. ProxyKept'
  BY <1>0 DEF ProxyKept, Phased, Alone, TypeOK, Reverting, Starting, Stopping, calls,
     controller, client, ghosts, Reverted, EnsureCleanState, Keep
<1>3. Publishing'
  BY <1>0 DEF Publishing, TypeOK, deployment
<1>4. VersionsKept'
  <2> SUFFICES ASSUME ~cleared, NEW v \in versions, v \in versions', v \notin stray'
               PROVE  InSession(v)' \/ InStart(v)'
    BY DEF VersionsKept
  <2>1. v \notin stray /\ (InSession(v) \/ InStart(v)) /\ v \in Version
    BY <1>0 DEF VersionsKept, TypeOK
  <2>2. v # qualifier
    <3>1. CASE qualifier = None
      BY <2>1, <3>1
    <3>2. CASE qualifier # None
      <4>1. qualifier.fn = held[a].fn /\ qualifier \in Version
        BY <1>0, <3>2 DEF Qualified, TypeOK
      <4>2. qualifier = [fn |-> held[a].fn, no |-> qualifier.no]
        BY <4>1 DEF Version
      <4> QED BY <3>2, <4>2
    <3> QED BY <3>1, <3>2
  <2>3. InStart(v)
    BY <2>1, <2>2 DEF InSession
  <2>4. UNCHANGED <<qualifier, goal>> /\ \A p \in Panel : at[p] = "stop" => at'[p] = "stop"
    BY <1>0 DEF controller, TypeOK
  <2>5. \A p \in Panel : at[p] \notin {"proxy", "updates"}
    BY DEF Alone, Starting
  <2> QED BY <2>3, <2>4, <2>5 DEF InStart
<1> QED BY <1>1, <1>2, <1>3, <1>4

LEMMA LeftCheckFunction ==
    ASSUME Orderly, TypeInv, OrderInv, LeftInv, NEW a \in Caller, CheckFunction(a)
    PROVE  LeftInv'
<1> USE CallerType DEF OrderInv, LeftInv, CheckFunction, Goto, Quiet, Idle
<1>0. TypeOK /\ Placed
  BY DEF TypeInv
<1>1. Phased'
  BY <1>0 DEF Phased, Alone, TypeOK, Reverting, Starting, Stopping, calls, controller,
     Reverted, EnsureCleanState, Keep
<1>2. ProxyKept'
  BY <1>0 DEF ProxyKept, Phased, Alone, TypeOK, Reverting, Starting, Stopping, calls,
     controller, client, ghosts, Reverted, EnsureCleanState, Keep
<1>3. Publishing'
  BY <1>0 DEF Publishing, TypeOK, deployment
<1>4. VersionsKept'
  BY <1>0 DEF VersionsKept, InSession, InStart, Phased, Alone, TypeOK, Reverting, Starting,
     Stopping, calls, controller, client, service, ghosts, Reverted, EnsureCleanState, Keep
<1> QED BY <1>1, <1>2, <1>3, <1>4

LEMMA LeftRestoreFunction ==
    ASSUME Orderly, TypeInv, OrderInv, LeftInv, NEW a \in Caller, RestoreFunction(a)
    PROVE  LeftInv'
<1> USE CallerType DEF OrderInv, LeftInv, RestoreFunction, Goto, Quiet, Idle
<1>0. TypeOK /\ Placed
  BY DEF TypeInv
<1>1. Phased'
  BY <1>0 DEF Phased, Alone, TypeOK, Reverting, Starting, Stopping, calls, controller,
     Reverted, EnsureCleanState, Keep
<1>2. ProxyKept'
  BY <1>0 DEF ProxyKept, Phased, Alone, TypeOK, Reverting, Starting, Stopping, calls,
     controller, client, ghosts, Reverted, EnsureCleanState, Keep
<1>3. Publishing'
  BY <1>0 DEF Publishing, TypeOK, deployment
<1>4. VersionsKept'
  BY <1>0 DEF VersionsKept, InSession, InStart, Phased, Alone, TypeOK, Reverting, Starting,
     Stopping, calls, controller, client, service, ghosts, Reverted, EnsureCleanState, Keep
<1> QED BY <1>1, <1>2, <1>3, <1>4

LEMMA LeftFinishStop ==
    ASSUME Orderly, TypeInv, OrderInv, LeftInv, NEW a \in Caller, FinishStop(a)
    PROVE  LeftInv'
<1> USE CallerType DEF OrderInv, LeftInv, FinishStop, Goto, Quiet, Idle
<1>0. TypeOK /\ Placed
  BY DEF TypeInv
<1>1. Phased'
  BY <1>0 DEF Phased, Alone, TypeOK, Reverting, Starting, Stopping, calls, controller,
     Reverted, EnsureCleanState, Keep
<1>2. ProxyKept'
  BY <1>0 DEF ProxyKept, Phased, Alone, TypeOK, Reverting, Starting, Stopping, calls,
     controller, client, ghosts, Reverted, EnsureCleanState, Keep
<1>3. Publishing'
  BY <1>0 DEF Publishing, TypeOK, deployment
<1>4. VersionsKept'
  BY <1>0 DEF VersionsKept, InSession, InStart, Phased, Alone, TypeOK, Reverting, Starting,
     Stopping, calls, controller, client, service, ghosts, Reverted, EnsureCleanState, Keep
<1> QED BY <1>1, <1>2, <1>3, <1>4

LEMMA LeftClearSnapshot ==
    ASSUME Orderly, TypeInv, OrderInv, LeftInv, ClearSnapshot
    PROVE  LeftInv'
<1> USE CallerType DEF OrderInv, LeftInv, ClearSnapshot, Goto, Quiet, Idle
<1>0. TypeOK /\ Placed
  BY DEF TypeInv
<1>1. Phased'
  BY <1>0 DEF Phased, Alone, TypeOK, Reverting, Starting, Stopping, calls, controller,
     Reverted, EnsureCleanState, Keep
<1>2. ProxyKept'
  BY <1>0 DEF ProxyKept, Phased, Alone, TypeOK, Reverting, Starting, Stopping, calls,
     controller, client, ghosts, Reverted, EnsureCleanState, Keep
<1>3. Publishing'
  BY <1>0 DEF Publishing, TypeOK, deployment
<1>4. VersionsKept'
  BY <1>0 DEF VersionsKept, InSession, InStart, Phased, Alone, TypeOK, Reverting, Starting,
     Stopping, calls, controller, client, service, ghosts, Reverted, EnsureCleanState, Keep
<1> QED BY <1>1, <1>2, <1>3, <1>4

LEMMA LeftStartDebugging ==
    ASSUME Orderly, TypeInv, OrderInv, LeftInv, NEW p \in Panel, NEW f \in Func,
           NEW publish \in BOOLEAN, StartDebugging(p, f, publish)
    PROVE  LeftInv'
<1> USE CallerType DEF OrderInv, LeftInv, StartDebugging, Goto, Quiet, Idle
<1>0. TypeOK
  BY DEF TypeInv
<1>1. \A a \in Caller : at[a] = "idle" /\ at'[a] \in {"idle", "look"}
  BY <1>0 DEF TypeOK
<1>2. UNCHANGED <<localProxy, cleared, versions, stray, snapshot>> /\ isDebugging' = isDebugging
  BY <1>0 DEF TypeOK, EnsureCleanState, client, service, ghosts
<1>3. Phased'
  <2>1. isDebugging => at' = at
    OBVIOUS
  <2> QED BY <1>1, <1>2, <2>1 DEF Phased, Reverting, Starting
<1>4. ProxyKept'
  BY <1>1, <1>2 DEF ProxyKept
<1>5. Publishing'
  BY <1>0 DEF Publishing, TypeOK
<1>6. VersionsKept'
  <2>1. \A v : ~InStart(v)
    BY <1>1 DEF InStart
  <2>2. \A v : InSession(v) => InSession(v)'
    BY <1>1, <1>2 DEF InSession
  <2> QED BY <1>2, <2>1, <2>2 DEF VersionsKept
<1> QED BY <1>3, <1>4, <1>5, <1>6

LEMMA LeftNotify ==
    ASSUME TypeInv, LeftInv, NEW S \in SUBSET Ending,
           NEW place \in [Caller -> {"idle"} \cup Reverting \cup Starting \cup Stopping],
           at' = [a \in Caller |-> IF a \in S THEN "stop" ELSE place[a]],
           UNCHANGED <<versions, stray, cleared, snapshot, isDebugging, qualifier, goal, job>>,
           \A a \in Caller : at[a] \notin Reverting \cup Starting,
           \/ place = at /\ UNCHANGED localProxy
           \/ /\ \A a \in Caller : place[a] = at[a] \/ (at[a] = "end" /\ place[a] = "delete")
              /\ localProxy' = FALSE
    PROVE  LeftInv'
<1> USE CallerType DEF LeftInv
<1>1. \A a \in Caller : \/ at'[a] = "stop" \/ at'[a] = at[a]
                        \/ at[a] = "end" /\ at'[a] = "delete" /\ localProxy' = FALSE
  OBVIOUS
<1>2. Phased'
  BY <1>1 DEF Phased, Reverting, Starting
<1>3. ProxyKept'
  BY <1>1 DEF ProxyKept
<1>4. Publishing'
  BY DEF Publishing
<1>5. VersionsKept'
  <2>1. \A v : InSession(v) => InSession(v)'
    BY <1>1 DEF InSession
  <2>2. \A p \in Panel : at[p] \in {"proxy", "updates", "stop"} => at'[p] = at[p]
    BY <1>1 DEF Starting
  <2>3. \A v : InStart(v) => InStart(v)'
    BY <2>2 DEF InStart
  <2> QED BY <2>1, <2>3 DEF VersionsKept
<1> QED BY <1>2, <1>3, <1>4, <1>5

LEMMA LeftSessionEnds ==
    ASSUME Orderly, TypeInv, OrderInv, LeftInv, SessionEnds
    PROVE  LeftInv'
<1>1. PICK S \in SUBSET Ending : at' = [a \in Caller |-> IF a \in S THEN "stop" ELSE at[a]]
  BY DEF SessionEnds, Notify
<1>2. \A a \in Caller : at[a] \notin Reverting \cup Starting
  BY DEF SessionEnds, Quiet, Idle, Reverting, Starting
<1>3. at \in [Caller -> {"idle"} \cup Reverting \cup Starting \cup Stopping]
  BY DEF TypeInv, TypeOK
<1>4. /\ UNCHANGED <<versions, stray, cleared, snapshot, isDebugging, qualifier, goal, job>>
      /\ UNCHANGED localProxy
  BY DEF SessionEnds, service, deployment, ghosts
<1> QED BY <1>1, <1>2, <1>3, <1>4, LeftNotify

LEMMA LeftEndSession ==
    ASSUME Orderly, TypeInv, OrderInv, LeftInv, NEW a \in Caller, EndSession(a)
    PROVE  LeftInv'
<1>1. PICK place \in [Caller -> {"idle"} \cup Reverting \cup Starting \cup Stopping] :
          /\ \A b \in Caller : place[b] = at[b] \/ (at[b] = "end" /\ place[b] = "delete")
          /\ \E S \in SUBSET Ending : at' = [b \in Caller |-> IF b \in S THEN "stop" ELSE place[b]]
  BY EndSessionPlace
<1>2. \A b \in Caller : at[b] \notin Reverting \cup Starting
  BY DEF EndSession, OrderInv, Alone, Reverting, Starting
<1>3. /\ UNCHANGED <<versions, stray, cleared, snapshot, isDebugging, qualifier, goal, job>>
      /\ localProxy' = FALSE
  BY DEF EndSession, service, deployment, ghosts
<1> QED BY <1>1, <1>2, <1>3, LeftNotify

LEMMA LeftCrash ==
    ASSUME LeftInv, Crash
    PROVE  LeftInv'
<1> USE CallerType DEF LeftInv, Crash
<1>1. \A a \in Caller : at'[a] \in {"idle", "look"}
  OBVIOUS
<1>2. Phased' /\ ProxyKept'
  BY <1>1 DEF Phased, ProxyKept, Starting
<1>3. Publishing'
  BY DEF Publishing
<1>4. VersionsKept'
  BY DEF VersionsKept
<1> QED BY <1>2, <1>3, <1>4

LEMMA LeftInit == Init => LeftInv
<1> SUFFICES ASSUME Init PROVE LeftInv
  OBVIOUS
<1>1. \A a \in Caller : at[a] = "idle"
  BY DEF Init
<1>2. ~localProxy /\ versions = {} /\ \A p \in Panel : job[p] = None
  BY DEF Init
<1> QED BY <1>1, <1>2 DEF LeftInv, Phased, ProxyKept, Publishing, VersionsKept, Reverting, Starting

LEMMA LeftStutter == ASSUME LeftInv, UNCHANGED vars PROVE LeftInv'
BY DEF LeftInv, Phased, ProxyKept, Publishing, VersionsKept, InSession, InStart, vars, service,
       controller, client, calls, deployment, ghosts

LEMMA LeftStep == ASSUME Orderly, TypeInv, OrderInv, LeftInv, [Next]_vars PROVE LeftInv'
<1>1. ASSUME NEW p \in Panel,
             \/ DebugPreCheck(p) \/ StopDebugging(p)
             \/ \E f \in Func, publish \in BOOLEAN : StartDebugging(p, f, publish)
             \/ Start(p) \/ Deploy(p)
      PROVE  LeftInv'
  BY <1>1, LeftDebugPreCheck, LeftStopDebugging, LeftStartDebugging, LeftDescribeFunction,
     LeftRecordSnapshot, LeftSetup, LeftWaitForSetup, LeftWaitForFunctionUpdates,
     LeftUpdateFunction, LeftAwaitUpdate, LeftPublishVersion, LeftRevertAfterPublish
     DEF Start, Deploy
<1>2. ASSUME NEW a \in Caller, Revert(a) \/ Answer(a) \/ Stop(a)
      PROVE  LeftInv'
  BY <1>2, LeftGetLambdaSnapshot, LeftCompareConfig, LeftRevertFunction, LeftForgetSnapshot,
     LeftAnswer, LeftBeginStop, LeftEndSession, LeftDeleteDebugVersion, LeftCheckFunction,
     LeftRestoreFunction, LeftFinishStop
     DEF Revert, Stop
<1> QED
  BY <1>1, <1>2, LeftClearSnapshot, LeftSessionEnds, LeftCrash, LeftStutter DEF Next

\* Without overlap, once everything has returned and no session is on, the proxy is
\* down and the published versions are deleted, but for those known to be left.
THEOREM NothingIsLeft == ASSUME Orderly PROVE Spec => []NothingLeft
<1>1. TypeInv /\ OrderInv /\ LeftInv /\ [Next]_vars => LeftInv'
  BY LeftStep
<1>2. LeftInv => NothingLeft
  <2> SUFFICES ASSUME LeftInv, Idle, ~isDebugging, ~cleared
               PROVE  ~localProxy /\ versions \subseteq stray
    BY DEF NothingLeft
  <2>1. \A v : ~InSession(v) /\ ~InStart(v)
    BY CallerType DEF InSession, InStart, Idle
  <2> QED BY <2>1 DEF LeftInv, ProxyKept, VersionsKept
<1> QED BY <1>1, <1>2, LeftInit, OrderHolds, PTL DEF Spec
===============================================================================
