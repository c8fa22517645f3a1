---------------------------- MODULE RemoteDebugging ----------------------------
(***************************************************************************)
(* Remote debugging of Lambda functions (lambda/remoteDebugging): a window *)
(* with its RemoteDebugController, and the functions it reconfigures.      *)
(*                                                                         *)
(* A start records a snapshot of the function in globalState, deploys a    *)
(* debugging configuration without waiting for it, starts a local proxy    *)
(* and a VS Code session, and then waits for the deployment.  A stop       *)
(* puts the snapshot back and clears it.  A snapshot that is found later,  *)
(* when the extension is activated or before the next start, is offered to *)
(* the user to be reverted.                                                *)
(*                                                                         *)
(* A caller is an async call in progress: that of a panel (the webview of  *)
(* a function: a start, or a stop by its button, timer or pre-check), of   *)
(* the activation, or of a listener to the end of the session.  Awaits are *)
(* the boundaries between actions.  A debugger object is named by the      *)
(* panel whose start created it.                                           *)
(***************************************************************************)
EXTENDS Naturals, FiniteSets

CONSTANTS Func,        \* functions
          Panel,       \* panels
          Ending,      \* calls made by listeners to the end of a session
          Orderly,     \* one thing at a time, see Quiet; otherwise anything overlaps
          None,        \* undefined
          MaxStarts,   \* bound on the starts
          MaxFails,    \* bound on the requests that fail
          MaxCrashes   \* bound on the times the window closes or is reloaded

ASSUME OrderlyAssumption == Orderly \in BOOLEAN
ASSUME BoundAssumption   == {MaxStarts, MaxFails, MaxCrashes} \subseteq Nat

VARIABLES
    fn,           \* fn[f]: the configuration of function f
    versions,     \* versions published for debugging that exist
    snapshot,     \* remoteDebugSnapshot of globalState
    isDebugging,  \* RemoteDebugController.isDebugging
    debugger,     \* RemoteDebugController.debugger
    qualifier,    \* RemoteDebugController.qualifier
    listening,    \* listening[f]: listeners to the end of a session of f
    disposables,  \* debugSessionDisposables: functions whose listener is stored
    localProxy,   \* LdkClient.localProxy runs
    session,      \* the function VS Code debugs
    at,           \* at[a]: where caller a is
    held,         \* held[a]: the snapshot or configuration it has read
    goal,         \* goal[a]: the start it makes
    using,        \* using[a]: the debugger whose method it awaits
    tunnel,       \* tunnel[p]: tunnelInfo of the debugger of p
    deploy,       \* deploy[p]: debugDeployPromise of the debugger of p
    job,          \* job[p]: what createDebugDeployment() is doing for it
    count,        \* starts, failures and crashes so far
    waived,       \* history: functions whose snapshot was given up
    cleared,      \* history: the snapshot was cleared in the middle of a session
    stray,        \* history: versions of starts that failed, or not deleted
    wrong         \* history: a version of another function was deleted

service    == <<fn, versions>>
controller == <<isDebugging, debugger, qualifier, listening, disposables>>
client     == <<localProxy, session>>
calls      == <<at, held, goal, using>>
deployment == <<tunnel, deploy, job>>
ghosts     == <<waived, cleared, stray, wrong>>
vars == <<service, snapshot, controller, client, calls, deployment, count, ghosts>>
-------------------------------------------------------------------------------
Activation == "activation"
Caller     == Panel \cup Ending \cup {Activation}
Config     == {"own", "debug"}
Snapshot   == [fn : Func, config : Config]
Goal       == [fn : Func, no : 1 .. MaxStarts, publish : BOOLEAN]
Version    == [fn : Func, no : 1 .. MaxStarts]
Job        == [stage : {"update", "wait", "publish", "revert", "done"},
               goal : Goal, config : Config]

Outcome    == {"pending", "ok", "failed"}

Reverting == {"look", "compare", "ask", "revert", "forget"}
Starting  == {"describe", "record", "tunnel", "proxy", "updates"}
Stopping  == {"stop", "end", "delete", "check", "restore", "clear"}

ASSUME CallerAssumption ==
    /\ Activation \notin Panel \cup Ending /\ Panel \cap Ending = {}
    /\ IsFiniteSet(Panel)
    /\ None \notin Func \cup Panel \cup Snapshot \cup Goal \cup Version \cup Job
    /\ None \notin Outcome

Init ==
    /\ fn = [f \in Func |-> "own"] /\ versions = {} /\ snapshot = None
    /\ isDebugging = FALSE /\ debugger = None /\ qualifier = None
    /\ listening = [f \in Func |-> 0] /\ disposables = {}
    /\ localProxy = FALSE /\ session = None
    /\ at = [a \in Caller |-> "idle"]
    /\ held = [a \in Caller |-> None]
    /\ goal = [a \in Caller |-> None]
    /\ using = [a \in Caller |-> None]
    /\ tunnel = [p \in Panel |-> FALSE]
    /\ deploy = [p \in Panel |-> None]
    /\ job = [p \in Panel |-> None]
    /\ count = [starts |-> 0, fails |-> 0, crashes |-> 0]
    /\ waived = {} /\ cleared = FALSE /\ stray = {} /\ wrong = FALSE

\* No deployment started by p is in progress.
Ended(p) == job[p] # None => job[p].stage = "done"

Goto(a, where) == at' = [at EXCEPT ![a] = where]
Keep(a, what)  == held' = [held EXCEPT ![a] = what]

\* One more request fails.
Fail == count.fails < MaxFails /\ count' = [count EXCEPT !.fails = @ + 1]
Works == UNCHANGED count

\* Without overlap nothing begins before all calls have returned.
Idle  == \A a \in Caller : at[a] = "idle"
Quiet == Orderly => Idle

\* (variant: the qualifier of the last session survives)
KeepsQualifier ==
    /\ isDebugging' = FALSE /\ UNCHANGED qualifier
    /\ listening' = [f \in Func |-> listening[f] - (IF f \in disposables THEN 1 ELSE 0)]
    /\ disposables' = {}

\* (variant: a listener is disposed of and kept)
KeepsListeners ==
    /\ isDebugging' = FALSE /\ qualifier' = None
    /\ listening' = [f \in Func |-> listening[f] - (IF f \in disposables THEN 1 ELSE 0)]
    /\ UNCHANGED disposables

EnsureCleanState ==
    /\ isDebugging' = FALSE /\ qualifier' = None
    /\ listening' = [f \in Func |-> listening[f] - (IF f \in disposables THEN 1 ELSE 0)]
    /\ disposables' = {}
-------------------------------------------------------------------------------
(* revertExistingConfig(), for the activation, a start or a pre-check.     *)

\* It returns true: a start goes on, the activation cleans up.
Reverted(a) ==
    /\ Keep(a, None)
    /\ IF goal[a] # None
       THEN /\ Goto(a, "describe")
            /\ isDebugging' = TRUE
            /\ UNCHANGED <<qualifier, listening, disposables>>
       ELSE /\ Goto(a, "idle")
            /\ IF a = Activation
               THEN EnsureCleanState
               ELSE UNCHANGED <<isDebugging, qualifier, listening, disposables>>

\* The checkbox of a panel; a session that is on has been stopped first.
DebugPreCheck(p) ==
    /\ at[p] = "idle" /\ Quiet /\ ~isDebugging /\ snapshot # None
    /\ Goto(p, "look")
    /\ goal' = [goal EXCEPT ![p] = None]
    /\ UNCHANGED <<service, snapshot, controller, client, held, using, deployment, count, ghosts>>

GetLambdaSnapshot(a) ==
    /\ at[a] = "look"
    /\ \/ snapshot = None /\ Reverted(a)
       \/ /\ snapshot # None /\ Goto(a, "compare") /\ Keep(a, snapshot)
          /\ UNCHANGED <<isDebugging, qualifier, listening, disposables>>
    /\ UNCHANGED <<service, snapshot, debugger, client, goal, using, deployment, count, ghosts>>

\* (variant: a snapshot is dropped without a look at the function)
Trusts(a) ==
    /\ at[a] = "compare" /\ Works
    /\ snapshot' = None /\ Reverted(a)
    /\ UNCHANGED <<service, debugger, client, goal, using, deployment, ghosts>>

\* A function that cannot be read, or needs no change, has its snapshot removed.
CompareConfig(a) ==
    /\ at[a] = "compare"
    /\ \/ Fail /\ snapshot' = None /\ waived' = waived \cup {held[a].fn} /\ Reverted(a)
       \/ /\ Works /\ fn[held[a].fn] = held[a].config
          /\ snapshot' = None /\ Reverted(a) /\ UNCHANGED waived
       \/ /\ Works /\ fn[held[a].fn] # held[a].config
          /\ Goto(a, "ask")
          /\ UNCHANGED <<snapshot, held, waived, isDebugging, qualifier, listening, disposables>>
    /\ UNCHANGED <<service, debugger, client, goal, using, deployment, cleared, stray, wrong>>

\* "Revert", or "Don't show again".
Answer(a) ==
    /\ at[a] = "ask"
    /\ \/ /\ Goto(a, "revert")
          /\ UNCHANGED <<snapshot, held, waived, isDebugging, qualifier, listening, disposables>>
       \/ snapshot' = None /\ waived' = waived \cup {held[a].fn} /\ Reverted(a)
    /\ UNCHANGED <<service, debugger, client, goal, using, deployment, count, cleared, stray, wrong>>

\* removeDebugDeployment(savedConfig, false); an error ends the call.
RevertFunction(a) ==
    /\ at[a] = "revert"
    /\ \/ Works /\ fn' = [fn EXCEPT ![held[a].fn] = held[a].config] /\ Goto(a, "forget")
          /\ UNCHANGED held
       \/ Fail /\ Goto(a, "idle") /\ Keep(a, None) /\ UNCHANGED fn
    /\ UNCHANGED <<versions, snapshot, controller, client, goal, using, deployment, ghosts>>

ForgetSnapshot(a) ==
    /\ at[a] = "forget"
    /\ snapshot' = None /\ Reverted(a)
    /\ UNCHANGED <<service, debugger, client, goal, using, deployment, count, ghosts>>

\* The command aws.lambda.remoteDebugging.clearSnapshot.
ClearSnapshot ==
    /\ snapshot # None /\ Quiet
    /\ snapshot' = None /\ waived' = waived \cup {snapshot.fn}
    /\ cleared' = (cleared \/ isDebugging)
    /\ UNCHANGED <<service, controller, client, calls, deployment, count, stray, wrong>>
-------------------------------------------------------------------------------
(* startDebugging()                                                        *)

\* The debugger is replaced even if the start is then refused.
StartDebugging(p, f, publish) ==
    /\ at[p] = "idle" /\ Quiet
    /\ Ended(p)
    /\ count.starts < MaxStarts
    /\ count' = [count EXCEPT !.starts = @ + 1]
    /\ debugger' = p
    /\ tunnel' = [tunnel EXCEPT ![p] = FALSE]
    /\ deploy' = [deploy EXCEPT ![p] = None]
    /\ job' = [job EXCEPT ![p] = None]
    /\ IF isDebugging
       THEN UNCHANGED <<at, goal, isDebugging, qualifier, listening, disposables>>
       ELSE /\ EnsureCleanState
            /\ goal' = [goal EXCEPT ![p] = [fn |-> f, no |-> count.starts + 1, publish |-> publish]]
            /\ Goto(p, "look")
    /\ UNCHANGED <<service, snapshot, client, held, using, ghosts>>

\* getFunctionDetail() once more; without it the start fails.
DescribeFunction(p) ==
    /\ at[p] = "describe"
    /\ \/ /\ Works /\ Goto(p, "record")
          /\ Keep(p, [fn |-> goal[p].fn, config |-> fn[goal[p].fn]])
       \/ Fail /\ Goto(p, "stop") /\ UNCHANGED held
    /\ UNCHANGED <<service, snapshot, controller, client, goal, using, deployment, ghosts>>

\* persistLambdaSnapshot(), then setup() of the debugger there is now.
RecordSnapshot(p) ==
    /\ at[p] = "record"
    /\ snapshot' = held[p]
    /\ using' = [using EXCEPT ![p] = debugger]
    /\ Goto(p, "tunnel")
    /\ UNCHANGED <<service, controller, client, held, goal, deployment, count, ghosts>>

\* The tunnel is there: createDebugDeployment() is started, nobody waits for it.
\* (Bound: a debugger has one deployment in progress.)
Setup(p) ==
    /\ at[p] = "tunnel" /\ Ended(using[p])
    /\ \/ /\ Works /\ Goto(p, "proxy")
          /\ tunnel' = [tunnel EXCEPT ![using[p]] = TRUE]
          /\ deploy' = [deploy EXCEPT ![using[p]] = "pending"]
          /\ job' = [job EXCEPT ![using[p]] =
                        [stage |-> "update", goal |-> goal[p], config |-> held[p].config]]
       \/ Fail /\ Goto(p, "stop") /\ UNCHANGED deployment
    /\ UNCHANGED <<service, snapshot, controller, client, held, goal, using, ghosts>>

\* waitForSetup() of the debugger there is now; then the session is started, the
\* listener registered and waitForFunctionUpdates() called.  (Orderly: a proxy
\* fails after the deployment has ended, not before.)
WaitForSetup(p) ==
    /\ at[p] = "proxy"
    /\ \/ /\ tunnel[debugger] /\ Works
          /\ localProxy' = TRUE
          /\ \E s \in {None, goal[p].fn} : session' = s
          /\ listening' = [listening EXCEPT ![goal[p].fn] = @ + 1]
          /\ using' = [using EXCEPT ![p] = debugger]
          /\ Goto(p, "updates")
       \/ /\ tunnel[debugger] /\ Fail /\ (Orderly => deploy[debugger] # "pending")
          /\ localProxy' = FALSE
          /\ Goto(p, "stop") /\ UNCHANGED <<session, listening, using>>
       \/ /\ ~tunnel[debugger] /\ Works
          /\ Goto(p, "stop") /\ UNCHANGED <<client, listening, using>>
    /\ UNCHANGED <<service, snapshot, isDebugging, debugger, qualifier, disposables, held,
                   goal, deployment, ghosts>>

WaitForFunctionUpdates(p) ==
    LET d == using[p] IN
    /\ at[p] = "updates" /\ deploy[d] # "pending"
    /\ \/ /\ deploy[d] = "ok"
          /\ qualifier' = IF job[d].goal.publish
                          THEN [fn |-> job[d].goal.fn, no |-> job[d].goal.no]
                          ELSE qualifier
          /\ disposables' = disposables \cup {goal[p].fn}
          /\ Goto(p, "idle")
       \/ deploy[d] # "ok" /\ Goto(p, "stop") /\ UNCHANGED <<qualifier, disposables>>
    /\ UNCHANGED <<service, snapshot, isDebugging, debugger, listening, client, held, goal,
                   using, deployment, count, ghosts>>
-------------------------------------------------------------------------------
(* createDebugDeployment()                                                 *)

Stage(p, stage) == job' = [job EXCEPT ![p].stage = stage]
Resolve(p, outcome) == deploy' = [deploy EXCEPT ![p] = outcome]

\* (variant: an error is swallowed and the promise never settles)
ForgetsToReject(p) ==
    /\ job[p] # None /\ job[p].stage = "update"
    /\ \/ /\ Works /\ Stage(p, "wait") /\ UNCHANGED deploy
          /\ fn' = [fn EXCEPT ![job[p].goal.fn] = "debug"]
       \/ Fail /\ Stage(p, "done") /\ UNCHANGED <<fn, deploy>>
    /\ UNCHANGED <<versions, snapshot, controller, client, calls, tunnel, ghosts>>

\* UpdateFunctionConfiguration: accepted, after retries while another update is in
\* progress, or refused, or there is no room for the layer.
UpdateFunction(p) ==
    /\ job[p] # None /\ job[p].stage = "update"
    /\ \/ /\ Works /\ Stage(p, "wait") /\ UNCHANGED deploy
          /\ fn' = [fn EXCEPT ![job[p].goal.fn] = "debug"]
       \/ Fail /\ Stage(p, "done") /\ Resolve(p, "failed") /\ UNCHANGED fn
    /\ UNCHANGED <<versions, snapshot, controller, client, calls, tunnel, ghosts>>

\* The update is polled until it has succeeded or failed.
AwaitUpdate(p) ==
    /\ job[p] # None /\ job[p].stage = "wait"
    /\ \/ Works /\ job[p].goal.publish /\ Stage(p, "publish") /\ UNCHANGED deploy
       \/ Works /\ ~job[p].goal.publish /\ Stage(p, "done") /\ Resolve(p, "ok")
       \/ Fail /\ Stage(p, "done") /\ Resolve(p, "failed")
    /\ UNCHANGED <<service, snapshot, controller, client, calls, tunnel, ghosts>>

\* publishVersion(); it may fail when the version is there already.
PublishVersion(p) ==
    LET v == [fn |-> job[p].goal.fn, no |-> job[p].goal.no] IN
    /\ job[p] # None /\ job[p].stage = "publish"
    /\ \/ /\ Works /\ Stage(p, "revert") /\ Resolve(p, "ok")
          /\ versions' = versions \cup {v}
       \/ /\ Fail /\ Stage(p, "done") /\ Resolve(p, "failed")
          /\ \E made \in SUBSET {v} : versions' = versions \cup made
    /\ UNCHANGED <<fn, snapshot, controller, client, calls, tunnel, ghosts>>

\* The version has the debugging configuration, the function its own again: not
\* awaited, and a failure goes unnoticed.
RevertAfterPublish(p) ==
    /\ job[p] # None /\ job[p].stage = "revert"
    /\ Stage(p, "done")
    /\ \/ Works /\ fn' = [fn EXCEPT ![job[p].goal.fn] = job[p].config]
       \/ Fail /\ UNCHANGED fn
    /\ UNCHANGED <<versions, snapshot, controller, client, calls, tunnel, deploy, ghosts>>
-------------------------------------------------------------------------------
(* stopDebugging()                                                         *)

\* The listeners of f that remain call stopDebugging().
Notify(f, place) ==
    \E S \in SUBSET {e \in Ending : place[e] = "idle"} :
        /\ \/ Cardinality(S) = listening'[f]
           \/ /\ Cardinality(S) < listening'[f]
              /\ S = {e \in Ending : place[e] = "idle"}
        /\ at' = [a \in Caller |-> IF a \in S THEN "stop" ELSE place[a]]

\* A panel's button, its timer, the pre-check of another panel.
StopDebugging(p) ==
    /\ at[p] = "idle" /\ Quiet /\ isDebugging
    /\ Goto(p, "stop")
    /\ UNCHANGED <<service, snapshot, controller, client, held, goal, using, deployment, count, ghosts>>

\* The user ends the session, or the debugged program does.
SessionEnds ==
    /\ session # None /\ Quiet
    /\ session' = None
    /\ UNCHANGED listening
    /\ Notify(session, at)
    /\ UNCHANGED <<service, snapshot, isDebugging, debugger, qualifier, disposables, localProxy,
                   held, goal, using, deployment, count, ghosts>>

\* Versions that no stop will delete when the call that fails or ends is over.
Untaken(p) ==
    {v \in versions : goal[p] # None /\ v.fn = goal[p].fn /\ v.no = goal[p].no}

BeginStop(a) ==
    /\ at[a] = "stop"
    /\ stray' = stray \cup (IF a \in Panel THEN Untaken(a) \ {qualifier} ELSE {})
    /\ \/ /\ ~isDebugging \/ snapshot = None
          /\ isDebugging' = FALSE
          /\ Goto(a, "idle") /\ UNCHANGED <<held, listening, disposables>>
       \/ /\ isDebugging /\ snapshot # None
          /\ Keep(a, snapshot)
          /\ listening' = [listening EXCEPT ![snapshot.fn] =
                              @ - (IF snapshot.fn \in disposables THEN 1 ELSE 0)]
          /\ disposables' = disposables \ {snapshot.fn}
          /\ Goto(a, "end") /\ UNCHANGED isDebugging
    /\ UNCHANGED <<service, snapshot, debugger, qualifier, client, goal, using, deployment,
                   count, waived, cleared, wrong>>

\* (variant: the proxy is left running)
LeavesProxy(a) ==
    /\ at[a] = "end"
    /\ session' = None /\ UNCHANGED <<listening, localProxy>>
    /\ IF session = None THEN Goto(a, "delete") ELSE Notify(session, [at EXCEPT ![a] = "delete"])
    /\ UNCHANGED <<service, snapshot, isDebugging, debugger, qualifier, disposables, held, goal,
                   using, deployment, count, ghosts>>

\* cleanup(): workbench.action.debug.stop and stopProxy().
EndSession(a) ==
    /\ at[a] = "end"
    /\ session' = None /\ localProxy' = FALSE /\ UNCHANGED listening
    /\ IF session = None THEN Goto(a, "delete") ELSE Notify(session, [at EXCEPT ![a] = "delete"])
    /\ UNCHANGED <<service, snapshot, isDebugging, debugger, qualifier, disposables, held, goal,
                   using, deployment, count, ghosts>>

\* An error is logged, not raised.
DeleteDebugVersion(a) ==
    /\ at[a] = "delete" /\ Goto(a, "check")
    /\ \/ qualifier = None /\ Works /\ UNCHANGED <<versions, stray, wrong>>
       \/ /\ qualifier # None /\ Fail
          /\ stray' = stray \cup {qualifier} /\ UNCHANGED <<versions, wrong>>
       \/ /\ qualifier # None /\ Works
          /\ versions' = versions \ {[fn |-> held[a].fn, no |-> qualifier.no]}
          /\ wrong' = (wrong \/ qualifier.fn # held[a].fn)
          /\ UNCHANGED stray
    /\ UNCHANGED <<fn, snapshot, controller, client, held, goal, using, deployment, waived, cleared>>

\* removeDebugDeployment(config, true): a function that cannot be read differs.
CheckFunction(a) ==
    /\ at[a] = "check"
    /\ \/ Works /\ Goto(a, IF fn[held[a].fn] = held[a].config THEN "clear" ELSE "restore")
       \/ Fail /\ Goto(a, "restore")
    /\ UNCHANGED <<service, snapshot, controller, client, held, goal, using, deployment, ghosts>>

\* (variant: the error of the update is swallowed)
RestoresSilently(a) ==
    /\ at[a] = "restore" /\ Goto(a, "clear")
    /\ \/ Works /\ fn' = [fn EXCEPT ![held[a].fn] = held[a].config]
       \/ Fail /\ UNCHANGED fn
    /\ UNCHANGED <<versions, snapshot, controller, client, held, goal, using, deployment, ghosts>>

RestoreFunction(a) ==
    /\ at[a] = "restore"
    /\ \/ /\ Works /\ fn' = [fn EXCEPT ![held[a].fn] = held[a].config]
          /\ Goto(a, "clear") /\ UNCHANGED <<held, isDebugging>>
       \/ /\ Fail /\ UNCHANGED fn
          /\ Goto(a, "idle") /\ Keep(a, None) /\ isDebugging' = FALSE
    /\ UNCHANGED <<versions, snapshot, debugger, qualifier, listening, disposables, client, goal,
                   using, deployment, ghosts>>

FinishStop(a) ==
    /\ at[a] = "clear"
    /\ snapshot' = None /\ isDebugging' = FALSE
    /\ Goto(a, "idle") /\ Keep(a, None)
    /\ UNCHANGED <<service, debugger, qualifier, listening, disposables, client, goal, using,
                   deployment, count, ghosts>>
-------------------------------------------------------------------------------
\* The window closes, is reloaded or dies, with requests answered or not, and is
\* opened again.
Crash ==
    /\ count.crashes < MaxCrashes
    /\ count' = [count EXCEPT !.crashes = @ + 1]
    /\ LET landing == {p \in Panel : job[p] # None /\ job[p].stage = "update"}
       IN  \E S \in SUBSET landing :
              fn' = [f \in Func |-> IF \E p \in S : job[p].goal.fn = f THEN "debug" ELSE fn[f]]
    /\ isDebugging' = FALSE /\ debugger' = None /\ qualifier' = None
    /\ listening' = [f \in Func |-> 0] /\ disposables' = {}
    /\ localProxy' = FALSE /\ session' = None
    /\ at' = [a \in Caller |-> IF a = Activation THEN "look" ELSE "idle"]
    /\ held' = [a \in Caller |-> None]
    /\ goal' = [a \in Caller |-> None]
    /\ using' = [a \in Caller |-> None]
    /\ tunnel' = [p \in Panel |-> FALSE]
    /\ deploy' = [p \in Panel |-> None]
    /\ job' = [p \in Panel |-> None]
    /\ stray' = stray \cup versions
    /\ UNCHANGED <<versions, snapshot, waived, cleared, wrong>>

Revert(a) ==
    \/ GetLambdaSnapshot(a) \/ CompareConfig(a) \/ RevertFunction(a) \/ ForgetSnapshot(a)

Start(p) ==
    \/ DescribeFunction(p) \/ RecordSnapshot(p) \/ Setup(p)
    \/ WaitForSetup(p) \/ WaitForFunctionUpdates(p)

Deploy(p) ==
    \/ UpdateFunction(p) \/ AwaitUpdate(p) \/ PublishVersion(p) \/ RevertAfterPublish(p)

Stop(a) ==
    \/ BeginStop(a) \/ EndSession(a) \/ DeleteDebugVersion(a) \/ CheckFunction(a)
    \/ RestoreFunction(a) \/ FinishStop(a)

Next ==
    \/ \E p \in Panel : \/ DebugPreCheck(p) \/ StopDebugging(p)
                        \/ \E f \in Func, publish \in BOOLEAN : StartDebugging(p, f, publish)
                        \/ Start(p) \/ Deploy(p)
    \/ \E a \in Caller : Revert(a) \/ Answer(a) \/ Stop(a)
    \/ ClearSnapshot \/ SessionEnds \/ Crash

Spec == Init /\ [][Next]_vars

\* Requests are answered and the event loop goes on; users owe nothing.
FairSpec ==
    /\ Spec
    /\ \A p \in Panel : WF_vars(Start(p)) /\ WF_vars(Deploy(p))
    /\ \A a \in Caller : WF_vars(Revert(a)) /\ WF_vars(Stop(a))
-------------------------------------------------------------------------------
(* Types of the state.                                                     *)
TypeOK ==
    /\ fn \in [Func -> Config] /\ versions \subseteq Version
    /\ snapshot \in Snapshot \cup {None}
    /\ isDebugging \in BOOLEAN /\ debugger \in Panel \cup {None}
    /\ qualifier \in Version \cup {None}
    /\ listening \in [Func -> Nat] /\ disposables \subseteq Func
    /\ localProxy \in BOOLEAN /\ session \in Func \cup {None}
    /\ at \in [Caller -> {"idle"} \cup Reverting \cup Starting \cup Stopping]
    /\ held \in [Caller -> Snapshot \cup {None}]
    /\ goal \in [Caller -> Goal \cup {None}]
    /\ using \in [Caller -> Panel \cup {None}]
    /\ tunnel \in [Panel -> BOOLEAN]
    /\ deploy \in [Panel -> Outcome \cup {None}]
    /\ job \in [Panel -> Job \cup {None}]
    /\ count \in [starts : 0 .. MaxStarts, fails : 0 .. MaxFails, crashes : 0 .. MaxCrashes]
    /\ waived \subseteq Func /\ cleared \in BOOLEAN /\ stray \subseteq Version /\ wrong \in BOOLEAN

(* A function is never left with the debugging configuration and nothing   *)
(* to revert it by, unless its snapshot was given up: the user declined or *)
(* cleared it, or the function could not be read (ldkController.ts:753:    *)
(* "if somehow the changes failed to revert, in init phase(activate remote *)
(* debugging), we will detect this config and prompt user to revert").     *)
Recoverable ==
    \A f \in Func : fn[f] = "debug" =>
        \/ snapshot # None /\ snapshot.fn = f
        \/ f \in waived

(* The snapshot holds the function's own configuration, not one that an    *)
(* earlier session had left: a stop would "restore" that for good.         *)
SnapshotIsOriginal ==
    snapshot # None => snapshot.config = "own" \/ snapshot.fn \in waived

(* When everything has returned and no session is on, the proxy is down    *)
(* and the published versions are deleted, except those of a start that    *)
(* failed and those whose deletion did; whichever debugger object cleaned  *)
(* up, and however often (RemoteLambdaDebugger.cleanup).  A stop that      *)
(* finds no snapshot returns at once: whoever cleared it is on their own.  *)
NothingLeft ==
    Idle /\ ~isDebugging /\ ~cleared =>
        ~localProxy /\ versions \subseteq stray

(* A stop deletes no version but the one published for the function it     *)
(* stops: version numbers of other functions mean other code               *)
(* (deleteDebugVersion).                                                   *)
OnlyOwnVersions == ~wrong

(* Every start, stop and revert comes to an end, or waits for the user.    *)
CallsEnd ==
    \A a \in Caller : at[a] \notin {"idle", "ask"} ~> at[a] \in {"idle", "ask"}
===============================================================================
