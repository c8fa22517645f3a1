# TLA+ verification of the AWS Toolkit for VS Code

TLA+ models of the stateful core of the AWS Toolkit and Amazon Q extensions (`packages/core`), the TLC
configurations that check them on small instances, and TLAPS proofs about them for every size.
Paths below are relative to `packages/core/src/` unless they begin with `packages/`.

- [Inventory](#inventory): the parts of the system, their state, and what is hard about them
- [Modules and the code](#modules-and-the-code): what each module models, and how
- [Runs](#runs): what each configuration asks and what it shows, bounds and fairness
- [Findings](#findings) and [further disagreements](#further-disagreements) of code and documentation
- [Proofs](#proofs): what is proved, from which invariants and assumptions
- [What is not modelled](#what-is-not-modelled) and the [plan](#plan)

    tlc -config MCResourceCache_calls.cfg MCResourceCache.tla      # a run
    tlapm SsoToken_proofs.tla                                     # a proof module

## Inventory

The repository builds two extensions (AWS Toolkit, Amazon Q) from one library, `packages/core`. Each VS Code
window runs both, in one *extension host* process with two copies of the library. Code inside a copy is
single-threaded: everything interleaves at `await`, timers and event emitters. What makes it hard is that
windows and copies share state and nothing synchronises them: files under `~/.aws/sso/cache`, the global
storage directory, `globalState` (a `vscode.Memento` of the extension, copied into each window), a detached
HTTP server, and AWS services.

| Component | State it keeps | Operations | Interacts with | What is hard; what makes it correct |
|---|---|---|---|---|
| **Resource cache** `shared/utilities/resourceCache.ts`, used by `codewhisperer/region/regionProfileManager.ts` | `{result, locked, timestamp}` in `globalState` | `getResource`, `tryLoadResourceAndLock`, `releaseLock`, `clearCache` | globalState, the profile service, the connection | a lock made of a flag in storage that is written asynchronously, a 15 s wait that ends without the lock, windows that die holding it, sign-out during a pull. *Fresh results only; a timestamp belongs to its result; every call ends; no result of another account* |
| **SSO tokens** `auth/sso/ssoAccessTokenProvider.ts`, `auth/sso/cache.ts`, `auth/sso/clients.ts`, `shared/utilities/cacheUtils.ts` | token and client registration file, `refreshPromises` per process | `getToken`, `refreshToken`, `createToken`, `invalidate` | the OIDC service, `Auth`, other windows and the other extension through the files | joined refreshes, failing saves after the service has answered, refresh tokens that rotate, logout during refresh. *One refresh in flight per process; a held token is on disk; nothing but a logout or a fault ends a session* |
| **Crash monitoring** `shared/crashMonitoring.ts`, `shared/utilities/osUtils.ts` | heartbeat files in a shared directory, two timers per instance | `start`, `sendHeartbeat`, `tryCheckCrash`, `shutdown` | other windows' checkers | no leader, no lock, timers that drift by sleep, crashes of the checker. *A crash is reported, and only crashes* |
| **SageMaker session store** `awsService/sagemaker/detached-server/*`, `credentialMapping.ts`, `model.ts`, `resources/sagemaker_connect` | `.sagemaker-space-profiles`, write queue, one server process | GET /get_session_async, GET /refresh_token, deep links, server restart | ssh clients, browser pages, every window | read–modify–write over awaits, by two programs. *A session is given once, to who asked for it, and is not lost; every client gets an answer* |
| **Connections** `auth/auth.ts`, `auth/connection.ts`, `shared/utilities/functionUtils.ts` (`keyedDebounce`), `auth/secondaryAuth.ts` | profiles and their state in globalState, the active connection, the calls in progress that others share, per-extension secondary connection | `getToken`, `reauthenticate`, `useConnection`, `logout`, `deleteConnection`, `createConnection`, `updateConnection` | SSO tokens, the user, the other extension (a cache watcher with a 3 s delay) | one prompt and one login shared by callers, states read before an await, a copy that follows writes answered later. *One login and one prompt of a connection at a time; a prompt only while it is needed; what was deleted stays deleted* |
| **Lambda remote debugging** `lambda/remoteDebugging/*`, `lambda/vue/remoteInvoke/invokeLambda.ts`, `shared/clients/lambdaClient.ts` | snapshot of the function's configuration in globalState, `isDebugging`, the debugger object, the version to delete, listeners, the local proxy | `startDebugging`, `createDebugDeployment`, `stopDebugging`, `revertExistingConfig` | Lambda, the VS Code debugger, IoT tunnels | a deployment nobody awaits, a step of many fails, a window that dies. *A function that was reconfigured can be put back, into its own configuration; nothing of a session stays behind* |
| Debounce, throttle, Timeout, waitUntil `shared/utilities/functionUtils.ts`, `timeoutUtils.ts` | pending promise and timer | `debounce`, `cancellableDebounce`, `throttle`, `Timeout.cancel/refresh`, `waitUntil` | their callers everywhere | cancelling completes; an attempt may outlive its timeout. *The last call runs; nobody waits on a promise that is never settled* |
| PollingSet, child process tracker `shared/utilities/pollingSet.ts`, `processUtils.ts` | a set and the timer that runs while it is not empty | `add`, `delete`, `clear`, poll | OS process listing | add during the poll's await. *The timer runs exactly while there is something to poll* |
| Notifications `notifications/controller.ts`, `panelNode.ts` | fetched payloads, dismissed ids, ETags in globalState | `poll`, `displayNotifications`, `dismissNotification` | windows through globalState | state read before a display and written after. *What was dismissed stays dismissed* |
| **Wizards** `shared/wizards/stateController.ts`, `wizard.ts`, `wizardForm.ts`, `compositeWizard.ts`, `shared/ui/wizardPrompter.ts` | answers, their history, the steps with the branches put in, position and direction; memoized nested wizards | `run`, `advanceState`, `rollbackState`, `dynamicBranch`, `resolveNextSteps`, prompts that skip themselves | the user; wizards that are steps of others | conditional questions removed by position, runs that resume where the last one ended. *Going back restores exactly the earlier answers and steps; no question is missing or asked twice; going on comes to the end* |
| Language server download `shared/lsp/*` | version directories, manifest in globalState | resolve, download, fall back, clean up | windows over one directory | a clean-up while another window installs. *The version a window resolved stays on disk* |
| Inline completion sessions (Amazon Q), transformation and scan jobs, credentials providers, SSO callback server, telemetry, global state, live tail, SAM, explorers and webviews | see `PROJECT.json` | | | mostly editor state, service calls and presentation |

`PROJECT.json` lists all of them with their status, and under `hazards` the lines where each difficulty bites
and the property that covers it.

## Modules and the code

| Module | Models | Module for TLC | Proofs |
|---|---|---|---|
| `ResourceCache` | `CachedResource<V>` with its one user's connection changes | `MCResourceCache` | `ResourceCache_proofs` |
| `SsoToken` | `SsoAccessTokenProvider` over the shared cache files, with `SsoClient.call` and logout as callers | `MCSsoToken` | `SsoToken_proofs` |
| `TokenRegister` | what `getToken()` promises its callers; refined by `SsoToken` | `MCSsoToken` | `SsoToken_proofs` |
| `CrashMonitoring` | `CrashMonitoring`, `Heartbeat`, `CrashChecker`, `FileSystemState`, `isNewOsSession` | `MCCrashMonitoring` | `CrashMonitoring_proofs` |
| `SessionStore` | `SessionStore`, both async routes, `writeMapping`'s queue, deep links, the connect script | `MCSessionStore` | `SessionStore_proofs` |
| `SessionDesk` | what the session store promises; refined by `SessionStore` | `MCSessionStore` | `SessionDesk_proofs` |
| `RemoteDebugging` | `RemoteDebugController`, `RemoteLambdaDebugger`, `LdkClient`, `revertExistingConfig` | `MCRemoteDebugging` | `RemoteDebugging_proofs` |
| `AuthConnections` | `Auth` and its `ProfileStore` for SSO connections, the maps of `keyedDebounce` | `MCAuthConnections` | `AuthConnections_proofs` |
| `WizardFlow` | `StateMachineController`, `Wizard`, `WizardPrompter`, nested wizards | `MCWizardFlow` | `WizardFlow_proofs` |

`SessionDesk` is the abstract specification of `SessionStore`, `TokenRegister` that of `SsoToken`. The others do not refer to each other (the token
provider of a connection is arbitrary in `AuthConnections` and has its own module, `SsoToken`); each composes the actors that share its state. All are written alike. One
variable stands for each piece of the program's state, and one position per asynchronous call (`phase`, `at`,
`check`, ...) for where it awaits. An action is the code between two awaits, so that everything another actor
can do there happens between two actions; a synchronous stretch such as "read the flag and write it" is one
action. A few operators end in a variant name and are used by nobody (`WriteNoMore`, `LockDropped`, ...):
plausible bugs, against which the properties are tested (`mutants` in `PROJECT.json`).

### ResourceCache

`storage` is the value in globalState, `view[w]` the copy window `w` reads synchronously, `dirty[w]` that an
`update` has not reached the storage; `awaiting` the calls whose update has not resolved. `vscode.Memento` is
external and modelled from how the code relies on it. A call of `getResource()` goes

    FastHit | FastMiss -> TryLock | GiveUp -> LockedHit | LockedMiss -> PullOk | PullFails -> Finish

with `PullWriteFails` and `WriteFails` where an awaited update rejects, as the `try` blocks of `getResource`
distinguish them. `base[c]` is the local `cachedValue` and `pull[c]` the connection whose profiles a pull
lists; `got[c]`, `owners` and `waived` are history. The 15 s budget of `waitUntil` is not timed: a call that
is waiting may give up at any moment it would still be waiting. `Connect`, `Disconnect` and `ClearCache` are
the region profile manager's; `Flush`, `Sync`, `Tick` and `Restart` the environment.

### SsoToken

A *process* is one copy of the library: `refreshPromises` is a static field, so two windows, or the Toolkit
and Amazon Q in one window, have one each, and share only `tokenFile` and `regFile`. A *task* is one call of
`getToken()` with what its caller does next (`SsoClient.call` invalidates on a client fault, a logout
invalidates in the end), or of `createToken()`. `Load` is the read, `JoinRefresh`/`StartRefresh`/`Drop` the
decision after it, `Refreshed`..`ClearFaulted` the steps of `refreshToken()`; `Settle` removes the promise and
resumes everybody who joined it. `invalidate()` clears both files concurrently (`ClearToken`, `ClearReg`), each
of which may fail. Time is the growing sets `expired` and `expiredReg`. The OIDC service accepts the refresh
tokens in `grants`; whether it retires one that was used is the constant `Rotates`, since the code does not
know and has to work with both.

### TokenRegister

The promise of the token provider without its processes, maps, registrations and refreshes: a register that holds
one token or none (`stored`), and callers that ask and come back with what it held when they asked, with a token that
was stored while they waited, or with nothing. A token enters the register once (`used`), so one that was cleared or
replaced never comes back. `SsoToken` implements it (`ImplementsRegister`). `Stored` is the token of the file, `Call`
the positions of `getToken()` (from the read to the answer a call is asking, while its caller uses the token it is
holding), and `Got` what a call has read and may still return. A save by a refresh is the abstract `Store` with
everybody who joined it (`AwaitedBy`); a refresh that fails, `invalidate()`, a crash and a caller that is done are
`Leave`, which may clear the register; logins are seen only by the token they store.

### CrashMonitoring

`file[i]` is no file, an empty file (opened with `w` and not written yet) or the age of the heartbeat in it.
Ages replace time stamps so that the state space is finite: they are capped just above `CheckInterval`, where
no comparison of the code can tell them apart. `beat[i]`, `check[i]`, `del[i]` and `start[i]` are the positions
of the four asynchronous activities of an instance, which really overlap: `activate()` does not await
`start()`, and nothing awaits the intervals. `Tick` passes time when no file operation is under way (they take
milliseconds, intervals ten minutes); `Sleep` passes it at any moment. `Crash`, `Reboot` and `Shutdown` end
processes, and `Ends` chooses among them.

The unit of time is `HeartbeatInterval` when `CheckInterval = 2`. `lost` collects the crashes the design gives
up on: no heartbeat in the file at that moment, the first window after a reboot clearing the directory, and a
checker dying after it deleted a file and before it reported.

### SessionStore

`at[h]` and `held[h]` are the position of a request being served and the mapping it has read. The mapping is
`file`; `held` and `queue` hold *whole mappings*, as the code does, and so a stale one undoes other writes.
`Enqueue` is `writeMapping()` with the synchronous start of `processWriteQueue()`; `WriteMapping`, `WriteFails`
and `NextWrite` its loop. `Ask` and `GiveUp` are `resources/sagemaker_connect`, `Login` a page that calls
`/refresh_token`, `LinkLoad`..`StartLocalServer` the handling of a deep link in the extension, which also
restarts the server. Sessions are numbers; `origin` remembers for which connection and request each was stored.
`Overlap = FALSE` is the workload in which nothing begins before everything else has ended: what the store's
sequential tests exercise, with failures and exits added.

### SessionDesk

The promise of the store without its file: `issued[s]` is the connection and request session `s` was left for,
`offer` the sessions that can be picked up, `given[c]` what a client got. A session is offered once, given to a
client it was left for or withdrawn, and never offered again. `SessionStore` implements it (`ImplementsDesk`, an
`INSTANCE ... WITH` at its end) when requests do not overlap. The mapping is where the code is subtle: on offer
are the fresh sessions of the file (`FreshIn(file)`), one on its way into the file by a write that is queued or
under way (`Arriving`), *and* one that a poll has read and is striking out before it answers (`Leaving`). The
answer is the abstract `Give`; storing the mark before it is a stutter, and an exit between the two a `Withdraw`.

### RemoteDebugging

`fn[f]` is the configuration a function has at the service, `snapshot` the one record of what to put back. A
*caller* is an asynchronous call in progress: of a panel (a start, a stop, a pre-check), of the activation, or of
a listener to the end of a session. `at[a]` is where it awaits and `held[a]` the snapshot or configuration it
read there. A start goes

    StartDebugging -> (revert what is left) -> DescribeFunction -> RecordSnapshot -> Setup -> WaitForSetup
                   -> WaitForFunctionUpdates

and `Setup` begins a deployment, `job[p]`, that runs beside it (`UpdateFunction`, `AwaitUpdate`,
`PublishVersion`, `RevertAfterPublish`): the code keeps its promise in `debugDeployPromise`, here `deploy[p]`,
and awaits it only in `waitForFunctionUpdates()`. A failed step continues in `BeginStop` .. `FinishStop`, as the
`catch` does. `debugger` is the controller's *current* debugger object, which a second start replaces, so a stop
may clean up through an object that set nothing up. `listening[f]` counts registered listeners, of which
`disposables` knows one. `Crash` closes the window with each request in flight applied or not, and opens it
again, which starts the activation's revert. `waived` collects the functions whose snapshot was given up by
decision (declined, cleared by command, or unreadable), `stray` the versions the code leaves behind knowingly.

`Orderly = TRUE` is the workload in which a start, stop, session end or clearing begins only when every call has
returned, and a proxy fails only after the deployment has ended. The deployment itself still runs beside its
start, failures and crashes still happen at every step, and the listeners of one session still stop it together.

### AuthConnections

A call is one invocation of a method of `Auth`; `op[c]` is the method, `id[c]` its argument, `who[c]` the
connection it works on at the moment (`logout()` looks that up again) and `phase[c]` where it awaits.
`updateConnectionState()` reads the profile, stores the new state at once and awaits the memento: the stored
state is visible immediately, `writes` is the queue of updates not answered yet, and the rest of the method runs
in `Written`, when `#activeConnection` follows and the `Timeout` of the connection is disposed of. `goal[c]` is
the state a call is writing, or the one `_authenticate()` restores when its login fails, and `then[c]` where it
goes on. `getting` and `authing` are the maps of the two `keyedDebounce`d methods: a call for a connection that has
an entry joins (`joinGet`, `joinAuth`) and ends with the owner, in `Finish`. `timer[i]` is
`#invalidCredentialsTimeouts`, the call whose prompt ends with it. The provider answers anything at any time:
a token (`Answered`), an error that invalidates (`HandleInvalidCredentials`), one that does not (`Recoverable`).

What follows the settling of one promise without waiting for anything else is one step; only the order of
micro-tasks is lost by that. `Patient = TRUE` says that whoever gives a *command* (use, log out, delete, ...)
waits for it before the next; token requests and checks of extension code overlap with it and each other freely.

### WizardFlow

The one sequential component: what is hard is the sequence of the user's choices. Each wizard object `w` has the
fields of its controller, `state`, `previous` (`previousStates`), `steps`, `extra` (`extraSteps`), `at`
(`internalStep`) and `direction`, and `phase[w]` says where its `run()` is. A step is the property it asks for, as
the code binds one function to each. `Respond`, `PressBack`, `Dismiss`, `ConfirmExit`, `DeclineExit` and `Skip` are
the outcomes of a prompt; each is one turn of the loop of `run()`, with `Advance` or `Rollback` as a whole. `Enter`
runs the wizard a step nests, `Return` turns its result into an answer, Back or Skip as `WizardPrompter` does, and
`Finish` is the end of `run()`, which rolls back the last step for the next run. A form is a set of properties with
`InOrder`, `Shows` and `Deferred`, all constants, so that the theorems hold for every form. `Shows` is the whole
condition: defaults and parents, which it may depend on, are not kept apart. `shown` is history: the answers and
steps before each step that was passed.

## Runs

| Run | Asks | Bounds | States |
|---|---|---|---|
| `cache_calls` | `TypeOK` `OneOwnerPerWindow` `FreshResult` `TimestampOfResult` | 1 window, 2 calls, 1 connection, expiry 1, clock to 2, 1 restart | 836,770 |
| `cache_live` | `EveryCallEnds` `LockRecovers` | 2 windows with a call each, clock to 2, 1 restart | 39,294 |
| `cache_conn_doc` | `NoWrongResultset`, violated | 1 window, 2 connections | – |
| `sso_files` | `TypeOK` `SessionSurvives` `ImplementsRegister` | 2 processes with a task each, 2 tokens, 1 registration, no rotation | 359,064 |
| `sso_calls` | `SingleFlight` `CallsEnd` | 1 process with 2 tasks, 2 tokens, 1 registration, rotation | 134,798 |
| `crash_live` | `TypeOK` `CrashReported` | 2 instances that shut down, crash or reboot; `CheckInterval` 2 | 136,058 |
| `crash_faults` | `NoFalseCrash` `CrashNotForgotten` | 2 instances; failing file operations with shutdowns, crashes and reboots, or one sleep longer than the check interval with crashes and reboots (`OneKindOfFault`) | 1,305,393 |
| `store_serial` | `TypeOK` `TokenOnce` `FreshIsNotLost` `ClientsEnd` `ImplementsDesk` | 4 clients of 2 connections (one SMUS), 2 links, a failed write, an exit; one request at a time | 55,220 |
| `store_overlap` | `OwnSession` `QueueNotStuck` | 2 clients of a connection, 3 polls each, 2 links, a failed write, an exit, unreadable files | 109,882 |
| `remote_orderly` | `TypeOK` `Recoverable` `SnapshotIsOriginal` `NothingLeft` `OnlyOwnVersions` `CallsEnd` | 2 functions, 2 panels, 2 listeners' calls, 2 starts, a failed request, a crash; one thing after the other | 281,976 |
| `auth_calls` | `TypeOK` `OneLogin` `OnePrompt` `PromptIsNeeded` `ActiveIsStored` `EndsItsOwn` `NoResurrection` `CallsEnd` | 2 connections, one of SageMaker Unified Studio; 2 calls at a time, without a bound on how many there are; patient | 622,219 |
| `wizard_deploy` | `TypeOK` `StepsFit` `BackRestores` `ForwardEnds` | 5 wizards nested 3 deep, 13 properties with at most 2 answers each | 3,629 |

**What they show.** *Cache:* whatever mixture of partial updates, write-backs of an earlier copy, failures,
clears and a crash produced the cached value, a call finds a result only while it is younger than the
expiration; a lock leaked by a dead window costs the next call its wait and no more. *SSO:* no path hands out
a token whose save failed, or writes back one that was cleared; joined calls never wait for a refresh that is gone; when the service does not rotate,
failures of network, disk and processes do not lose a session. *Crash monitoring:* with heartbeat and check
intervals in the ratio of two and one check per interval, no interleaving invents a crash while the machine is
awake, and every crash that left a heartbeat is reported while anybody stays open; with failing files, or after a sleep, a crash may
be reported late, but it is not forgotten by a file that is removed without a report. *Session store:* the design
is right for requests one at a time even when writes fail and the server exits between two steps; when they
overlap it still gives nobody another's session and never wedges the queue, but it may lose or double one.
*Remote debugging:* whichever step fails, whenever the window closes and however often a stop is called for, a
function with the debugging configuration has a snapshot to revert it by, and that snapshot is not itself a
leftover, as long as calls do not overlap; a proxy that fails during the deployment breaks this (see further disagreements). *Connections:*
calls that bypass the shared maps, logins that finish late, deletions and creations in any order give a connection
no second login or prompt, take a needless prompt back, and bring nothing back that was deleted; the copy of the
active connection catches up. *Wizards:* however the user goes back and forth through nested wizards, dismisses
prompts, or is carried past a step that skips itself, the branches put in and taken out by position never mix.

**Why the bounds are enough.** The conflicts these components can have are between two actors: two calls over
one lock, two processes over one file, a checker and an instance, two requests over one mapping. Two of each
suffice to meet them, and the proofs cover any number. `MaxTime 2` with `Expiry 1` lets a result be fresh,
just expired and older. `MaxToken 2` is one token that expires and is refreshed, or a login that replaces
it. `CheckInterval 2` is the least that keeps the ratio of the two intervals; ages beyond it are not
distinguished by the code. `MaxPolls 2`–`3` lets a script be told to wait and then be served; four clients let
both connections have two. Two links let a session be replaced before, while and after it is taken. One failed
write, exit or restart at *any* step meets each error path. Two panels with two starts let a start be refused while
another session is on, replace its debugger object, and meet what an earlier one left; one failed request and one
crash reach each error path and each recovery, also of a recovery. In `auth_calls` calls end and begin again, so two
of them make any number, two at a time; with two connections a logout and a switch, or a shared login and a check,
can concern different ones. `MCAuthConnections_three.cfg` has three calls at a time on one connection (176,323
states, the same invariants), which lets two join what a third does. `wizard_deploy` needs no bound on steps or runs:
a wizard has finitely many states, all reached. Its forms are those of the deploy command in small: a conditional
question that brings in another, one that skips itself, two wizards behind a choice, and a wizard with an empty form. `MaxTime`, `MaxRestarts`, `MaxToken`, `MaxReg`,
`MaxSleeps`, `MaxLinks`, `MaxFails`, `MaxExits`, `MaxStarts` and `MaxCrashes` are bounds of the model; `MaxPolls`
is the script's `max_retries`, `Ending` bounds the listeners' calls at a time, and a debugger has one deployment in
progress. `crash_faults` bounds faults to one kind in a behaviour by an action constraint: failing files *with* a
sleep lasts too long and asks nothing new. Symmetry is used only there, for instances (and in
`MCAuthConnections_three`, for calls), which nothing in the module tells apart and for which no liveness is checked. Deadlock is not checked
where the system may stop: when nobody calls and the bounds are used up. In `CrashMonitoring` time never stops, and
in `AuthConnections` somebody may always call, so there it is checked.

**Fairness.** Only what the event loop owes. `ResourceCache`: polls of `waitUntil`, settled promises and pending
updates of a started call; nobody has to call, connect or open a window. `SsoToken`: file operations and
requests settle, as the SDK's time-outs make them; a login waits for its user and owes nothing. It is weak
fairness of "one of the outcomes", never of success. `CrashMonitoring`: due timers of a living instance run and
file operations end, and time passes; nobody has to open or close an editor. `SessionStore`: the scripts' loop,
the server's event loop and its file operations; users, links and exits owe nothing. `RemoteDebugging`: requests
are answered (the SDK's time-outs, the polls of an update) and the event loop goes on; a question put to the user
may stay open for ever, and `CallsEnd` excepts it. `AuthConnections`: the provider, the memento and the event loop
answer, and a prompt ends with its 60 s timeout (`Decline`) and a login with the provider's; nobody has to agree to
anything (`Agree` is not fair) or to call. `WizardFlow`: a prompt is answered in the end, one way or another; that the
user goes on is the premise of `ForwardEnds` (`<>[][~GoesBack]_vars`) and not assumed. `CrashReported`
needs fairness of `Tick`: a crash is found only because time passes.

## Findings

**A pull in flight survives sign-out** (`cache_conn_doc`, `shared/utilities/resourceCache.ts:122`).
`getResource()` stores its result after `clearCache()` ran for the sign-out; a call under the next account
then finds the old account's profiles for up to an hour. `codewhisperer/region/regionProfileManager.ts:373`
says of `clearCache()`: "Should be called on connection changed in case users change to a differnet
connection and use the wrong resultset."

## Further disagreements

Each of these configurations checks one sentence of the repository, which TLC refutes in the same models. They
are kept to be run by hand (`tlc -config <cfg> <MC module>`).

| Configuration | Property | What the repository says | What happens |
|---|---|---|---|
| `MCResourceCache_lock` | `LockIsExclusive` | `shared/utilities/resourceCache.ts:14` "while the lock is acquired by one process, the other can't access to it until it's released by the previous" | a call that gave up waiting pulls, and its last write releases the lock another has taken since; a third takes it |
| `MCSsoToken_premature` | `NoPrematureDeletion` | `auth/sso/ssoAccessTokenProvider.ts:87` "Any premature scenarios, that are not explicit deletion by the user, are likely bugs." | a call that read an expired token deletes the fresh one another process saved meanwhile |
| `MCCrashMonitoring_sleep` | `SleepIsNoCrash` | `shared/crashMonitoring.ts:254` "Skip 1 crash check interval to allow for a new heartbeat to be sent" | the machine sleeps no longer than the check interval: the checker's own lag is not noticed, its check runs before the heartbeats that are due as well, and those of the other instance are old enough |
| `MCCrashMonitoring_graceful` | `GracefulIsNoCrash` | `shared/crashMonitoring.ts:519` "By removing the heartbeat entry, the crash checkers will not be able to find this entry anymore, making it impossible to report on" | `shutdown()` removes the file while a heartbeat, or the `start()` nobody awaits, has yet to open it, and so it is created again |
| `MCCrashMonitoring_cleanup` | `CleanupPreventsFalseCrash` | `shared/crashMonitoring.ts:191` "cleanup everything to prevent false crash report" | a check that fails cleans up while a heartbeat is in flight; that heartbeat creates the file again and no other follows. (The `catch` of line 500 that should delete the file of a failed heartbeat never runs: line 498 returns the promise of the retries without awaiting it) |
| `MCCrashMonitoring_first` | `FirstCallOnly` | `shared/utilities/osUtils.ts:12` "`true` if this is the First call to this function across all extension instances since the OS was last restarted" | two windows read the flag before either has stored it, and both clear the state |
| `MCRemoteDebugging_doc` | `Recoverable` | `lambda/remoteDebugging/ldkController.ts:757` "if somehow the changes failed to revert, in init phase(activate remote debugging), we will detect this config and prompt user to revert the changes" | the local proxy fails while the function's update is still being retried (`ldkClient.ts:378`): the stop compares the function with the snapshot, finds nothing to remove and clears the snapshot; the update is applied afterwards, and the function keeps the debugging layer, time-out and environment with nothing to revert it by |
| `MCWizardFlow_template` | `ForwardEnds` | `shared/wizards/stateController.ts:123` "Depending on current wizard direction, skip signal get converted to forward or backward control signal" | the App Builder's deploy command for a template without parameters: after one Back out of the nested deploy wizard, the user chooses "Deploy" again; the first step, an empty wizard, skips itself in the direction of the run before, backwards, and the choice comes back, each time |
| `MCWizardFlow_deferred` | `OnlyWhenShown` | `shared/wizards/wizardForm.ts:24` "Upon evaluating true, the bound prompter will be added as a new step." | `resolveNextSteps()` does not await an async `showWhen` (`shared/sam/deploy.ts:101`, `shared/sam/sync.ts:199`), and a promise counts as true: the step is there whatever it resolves to, and for a template without parameters relies on its wizard being empty |
| `MCSessionStore_lost` | `FreshIsNotLost` | `awsService/sagemaker/detached-server/utils.ts:171` "Uses a queue to prevent race conditions when multiple requests try to write simultaneously." | each queued write carries the whole mapping read before it was queued: `markPending()` undoes a session stored meanwhile, and its request stays pending |
| `MCSessionStore_once` | `TokenOnce` | `packages/core/src/test/awsService/sagemaker/detached-server/sessionStore.test.ts:79` "returns fresh entry and marks consumed" | two requests read the fresh entry before either has marked it, and both are given it |
| `MCSessionStore_silent` | `ClientsEnd` | `packages/core/resources/sagemaker_connect:78` "Timed out after $max_retries attempts waiting for session to be ready" | a login that lands between reading the entry and reading the status leaves a status no branch answers; `curl` has no time-out and waits |
| `MCSessionStore_crash` | `ErrorsAreAnswered` | `packages/core/src/test/awsService/sagemaker/detached-server/routes/getSessionAsync.test.ts:89` "responds with 500 if unexpected error occurs" | `markPending()` fails after the 202 was sent; `writeHead(500)` throws in the `catch`, and the unhandled rejection ends the server |

With `Patient = FALSE`, `MCAuthConnections_calls.cfg` finds one property violated, `EndsItsOwn`: `logout()` waits for
`setCurrentProfileId(undefined)`, a `useConnection()` of another connection completes meanwhile, and line 275 of
`auth/auth.ts` then invalidates that one. No document rules the overlap out or in, so it is not a finding.

`loadMappings()` (`awsService/sagemaker/credentialMapping.ts:33`) takes a read error for an empty file, and the save
that follows wipes every other connection; `store_overlap` has the step (`Unreadable = TRUE`), and its properties
survive it, while `FreshIsNotLost` does not. No document says what should be kept.

Four more, seen while reading and not checked: an exit confirmed in a nested wizard is `undefined` to `WizardPrompter`, hence Back in the
outer wizard, and the nested one, run again, resumes at its exit prompt; a login that adds scopes to a connection and is cancelled restores
the state read when it began, and so may turn a connection that expired meanwhile back to `valid` (`auth/auth.ts`,
`_authenticate`; in `AuthConnections` it does, and costs one more prompt); `createExtId` (`shared/crashMonitoring.ts:573`) says that the
process id is used in addition to the session id, and returns the session id alone; and `shared/utilities/cacheUtils.ts:93` says "Errors are always caught,
meaning a failed `load` operation looks the same as a cache miss", while `load` throws a `DiskCacheError`.

## Proofs

TLAPS proves the following for all constants that satisfy the modules' `ASSUME`s: every set of windows, processes,
instances, clients and connections, and every bound. TLC evaluates the assumptions on each run.

| Module | Theorem | Property | Argument |
|---|---|---|---|
| `ResourceCache_proofs` | `TypeCorrect` | `TypeOK` | inductive as it stands |
| | `Freshness` | `FreshResult` | `FreshInv` |
| | `TimestampsPaired` | `TimestampOfResult` | `FreshInv` |
| | `OneOwner` | `OneOwnerPerWindow` | `OwnerInv` |
| `SsoToken_proofs` | `TypeCorrect` | `TypeOK` | `TypeInv` |
| | `SingleRefresh` | `SingleFlight` | `FlightInv` |
| | `HeldTokensAreDurable` | (`HeldTokensWereSaved`) | `HeldInv` |
| | `TokensImplementRegister` | `ImplementsRegister` | `RegisterInv` |
| | `SessionsSurvive` | `SessionSurvives` | `SurviveInv` |
| `CrashMonitoring_proofs` | `TypeCorrect` | `TypeOK` | `TypeInv` |
| | `CrashesAreKept` | `CrashNotForgotten` | `ReportInv` |
| | `NoFalseReports` | `NoFalseCrash` | `PunctualInv` |
| `SessionStore_proofs` | `TypeCorrect` | `TypeOK` | `TypeInv` |
| | `QueueServed` | `QueueNotStuck` | `TypeInv` |
| | `SessionsAreOwn` | `OwnSession` | `OwnInv` |
| | `PendingHasItsPage` | (`PendingHasPage`) | `OwnInv` |
| `SessionDesk_proofs` | `StoreImplementsDesk` | `ImplementsDesk` | `OwnInv` and the order of one request |
| | `SessionsAreGivenOnce` | `TokenOnce` | the same, without overlap |
| | `FreshSessionsAreNotLost` | `FreshIsNotLost` | `DeskInv` and `KeepInv`, without overlap |
| `RemoteDebugging_proofs` | `TypeCorrect` | `TypeOK` | `TypeInv` |
| | `AlwaysRecoverable` | `Recoverable` | `OrderInv`, without overlap |
| | `SnapshotsAreOriginal` | `SnapshotIsOriginal` | `OrderInv`, without overlap |
| | `OwnVersionsOnly` | `OnlyOwnVersions` | `OrderInv`, without overlap |
| | `NothingIsLeft` | `NothingLeft` | `OrderInv` and `LeftInv`, without overlap |
| `AuthConnections_proofs` | `TypeCorrect` | `TypeOK` | inductive as it stands |
| | `LoginsAreShared` | `OneLogin` | `LoginOwned` |
| | `AskedOnce` | `OnePrompt` | `QInv` |
| | `PromptsAreTakenBack` | `PromptIsNeeded` | `QInv` |
| | `DeletedStaysDeleted` | `NoResurrection` | `QInv` (`VirginInv`) |
| | `ActiveIsAStoredProfile` | `ActiveIsStored` | `QInv` and `ActiveInv` |
| | `LogoutEndsItsOwn` | `EndsItsOwn` | `OwnInv`, `Patient` assumed |
| `WizardFlow_proofs` | `TypeCorrect` | `TypeOK` | `Inv` |
| | `StepsAlwaysFit` | `StepsFit` | `Inv` (`Path`, `Fits`) |
| | `BackAlwaysRestores` | `BackRestores` | `Inv` (`Path`) |
| | `NeverACycle` | (`NoFalseCycle`) | no step is in the list twice |

Properties in parentheses are stated in the model and proved, and no run lists them.

Each proof has the same three facts: the invariant holds initially, every step keeps it (one lemma per group of
actions, one step per action), and it implies the property.

*ResourceCache.* A cached value lives in three places: the storage, the windows' copies, and the local
`cachedValue` of a call that may be written back much later. `FreshInv` says of all three that timestamp and
result belong together (`Paired`) and of what was found that it was fresh when looked up. `OwnerInv` says that a
call in `owners` is between taking and releasing, and that its window's copy stays locked until the protocol is
waived, so the next `TryLock` cannot find it free.

*SsoToken.* `TypeInv` adds the locals each position relies on. `FlightInv`: the entry of a process is exactly the
task of its that is refreshing, and a joined task's process has an entry. `HeldInv`: a token that is stored,
loaded or used has been saved; the only unsaved ones are in the two positions whose next step saves or drops
them. `SurviveInv`: without rotation or disturbance every stored, loaded or held token can be refreshed under a
grant the service still has, so no path that clears the file on a fault or for want of a refresh token is open.
`RegisterInv` is `HeldInv` with `Fresh`: a token on its way to the file was issued to one call and has never been
there, however many refreshes, in several processes, and logins are about to save at once. With it each step is one
of the register or one it does not see: a lemma per abstract action says what a task must do to take it
(`CallsLeave`, `CallDiscards`, `TokenIsStored`), and `Silent` what every other task may do meanwhile. Neither the
grants nor the answers of the service matter to it, so it holds with rotation and without.

*CrashMonitoring.* `ReportInv` strengthens `CrashNotForgotten` with the order of the life of an instance: only a
living process has tasks (`TypeInv`), and its first check comes after its first heartbeat (`Ordered`). `PunctualInv` is the timing argument
behind `NoFalseCrash`: as long as the machine does not sleep, a heartbeat in the file, *and one a checker has read
and not judged yet*, is younger than the check interval, because time passes only when nothing is under way, an
instance with a timer renews its heartbeat within half that interval, and what a checker believes about an
instance is no older than its file. It uses `CheckInterval >= 2`, so that the half is at least one.

*SessionStore.* `TypeInv` carries the bookkeeping of the queue: operations in it belong to different handlers,
each of which waits for one, and nobody waits for an operation that is not there; `Cardinality` of the
occurrences in `QueueNotStuck` follows. `OwnInv` extends the claim about the file to *every mapping there is*: the
file, the queued ones, the one being written, and the copies that handlers and links have read. In each, a fresh
session is stored under the connection and request it was obtained for. Whole mappings overwrite one another, but
no step moves an entry to another key, which is why lost updates never become mixed-up sessions.

*SessionDesk.* The step correspondence needs what no invariant about overlapping requests can say: one handler or
link is active at a time (`OneAtATime`), what it has read is what the file holds (`UpToDate`), and every operation
is its own (`OneOperation`). Then a write replaces only sessions of its own connection and adds at most the one a
login brought (`Consistent`), and a session that is being given is out of the file before the answer (`TakenOut`).
Every action becomes an `Issue`, a `Give`, a `Withdraw` or a stutter. That no session is given twice then follows
from three lines of the abstract module: what is on offer and what was given are disjoint. That none is *lost* does
not follow from the desk, which may withdraw. `KeepInv` adds why a write takes only what its handler took. It says what
an operation replaces of the file as it is now (`Replaces`); that a poll past its first step has found no session,
and none can have come since (`NothingFresh`), so the pending mark and the SMUS clean-up overwrite none; and that a page
belongs to a pending request (`OnePage`), so the login of a page does not overwrite one either. `OnePage` is the delicate
part: a link may clear the request under an open page, and is forgiven because it restarts the server, which
takes the page along (`link = "saved"`). The theorems assume that
requests do not overlap and that the file can be read (`Unreadable = FALSE`), as the run does.

*RemoteDebugging.* `TypeInv` is more than types because `listening[f]` is decremented: it says that every start
between the registration of its listener and the end of its wait has one registered, and that the stored one is
another (`Listened`), so nothing is disposed of twice. That holds whatever overlaps. The rest holds
without overlap (`Orderly`). A start or revert has the window to itself (`Alone`); a function is being updated only
while the start that deployed it waits (`Deploying`), which is exactly what `MCRemoteDebugging_doc` breaks; the snapshot is that
of the function deployed to (`Recorded`), and what a stop puts back is what is recorded or nothing is (`PuttingBack`),
also when several stops race each other; and every configuration that might be put back, in a snapshot, in a
caller's hands or in a deployment that reverts after publishing, is the function's own (`Original`).
`NothingLeft` looks only at rest, and `LeftInv` says what leads there: while the proxy runs, the session is on and its
snapshot stored, so the next stop finds both, and no stop is past the `cleanup()` that ends the proxy (`ProxyKept`); a
published version is the `qualifier` that the next stop deletes, or belongs to a start that has not stored it yet, or
is one the code is known to leave (`VersionsKept`). Between the two homes of a version, `debugDeployPromise` and the
controller's `qualifier`, it is a start's by its number, which no later start can have while it lasts.

*AuthConnections.* The updates that the memento has not answered are the key. A call stores a state only if another
state is stored, so of two unanswered writes of one state to a connection there is one of another state between
(`Alternating`), and the last of them writes what is stored (`LastWins`). A call that will ask found the connection
valid; hence, while a prompt is open, a write to a usable state stands before any write that leads to another prompt
(`AnsweredFirst`), and answering it disposes of the open prompt's timer, which is still that prompt's (`Timed`).
`TakenBack` is the same for `PromptIsNeeded`. None of this counts calls: it is what keeps any number of them, shared
or not, from asking twice. `VirginInv` says that nothing of an id is around before its profile is first stored, as
creation is the only step that stores a profile without looking for one. `ActiveInv` covers the copy while calls are
at work: where it differs from the profile a write of that state is unanswered, where its profile is gone somebody is
about to look for stale connections, and where the current id differs somebody is logging out. `LogoutEndsItsOwn`
needs `Patient` and the bookkeeping that only a command switches connections (`OpOf`, `OneCommand`).

*WizardFlow.* Lemmas about lists come first: what a splice puts where, that taking it out again gives the list it was
put into, and that it keeps every step once. `Path` then ties the history to what a roll-back uses: the steps after
each step passed are those before it, extended by what `extra` has at that position and nothing else, and the saved
answers are those of that moment. `Fits` (no question missing, none twice, every answer given on the way) is claimed
of *every point of the history*, and not only of the present, because a roll-back returns to one; and for the initial
state as well as the present one, as a run that begins again adds what the initial state calls for, which must be
nothing. One lemma per kind of step (pass, dismiss, roll back, begin) shows that it moves one wizard and leaves the
others alone. The theorems assume nothing of forms but that `InOrder` lists a set without repetition.

**Only model-checked.** Liveness (`EveryCallEnds`, `LockRecovers`, `CrashReported`, `ClientsEnd`, `ForwardEnds`, and `CallsEnd` of
three modules), as fairness and `ENABLED` are out of the prover's reach. Every other property of the passing runs is
stated by a theorem.

## What is not modelled

- *ResourceCache*: the duration of `waitUntil`; other users of `globalState`.
- *SsoToken*: the polling of the device flow (one step, `Authorized`), the legacy authentication scopes
  (`isDeprecatedAuth`), the re-authentication prompt's state, `reAuthState`, which only tells telemetry why.
- *CrashMonitoring*: debug instances, which are never reported; two overlapping checks of one instance; an attempt
  that outlives `waitUntil`'s 15 s; clocks set by more than the 5 s `isNewOsSession` tolerates. On a file system
  that fails the initial check, or in automation, monitoring is off and there is nothing to model.
- *SessionStore*: `GET /get_session` and `/get_hyperpod_session`, which keep no state; the credentials sections
  of the file, which the extension rewrites in the same way; two polls of one script at a time, since its 5 s
  interval outlasts the marking that follows a 202.
- *RemoteDebugging*: `LocalStackLambdaDebugger`, the reuse of IoT tunnels, invocations of the function, the picking
  of layers and paths; two windows that share the one snapshot.
- *AuthConnections*: IAM and linked connections, `expireConnection`, `tryAutoConnect`, `SecondaryAuth` and the
  watcher of the other extension, the validation errors kept for telemetry, two windows over one globalState.
- *WizardFlow*: Retry, defaults and parents as such, step numbers and their estimates, remembered picks, a prompter
  that throws.
- Races that cross modules, such as a refresh that saves its token after a logout of `AuthConnections` cleared the
  file: `SsoToken` has the logout's invalidation as a caller's last step, and both meet in its files.
- Most of the repository's lines are generated service clients (`src.gen`), views, forms of wizards and webviews: calls and
  presentation, with no state of their own that a sequence of events could corrupt. The modules cover the
  services that keep state across awaits, windows and restarts, which are a small part of the lines.
- The other components: see the inventory and the notes in `PROJECT.json`.

## Plan

Done, in this order: `ResourceCache`, `SsoToken`, `CrashMonitoring`, `SessionStore`, which hold the state whose
corruption users notice and which no test with one window reaches; then `SessionDesk`, `RemoteDebugging`,
`AuthConnections` and `WizardFlow`, each with its proofs, and `TokenRegister`. Next:

1. **Abstract specifications.** `TokenRegister` taking the place of the arbitrary provider in `AuthConnections`;
   `CrashLedger`, in which a crash is recorded once and then reported, refined by `CrashMonitoring`.
2. **`SecondaryAuth`** (`auth/secondaryAuth.ts`) over `AuthConnections`: two extensions with a connection each, and
   the cache watcher by which one learns what the other did.
3. **`WaitUntil` and `Debounce`** (`shared/utilities/timeoutUtils.ts`, `functionUtils.ts`): attempts that outlive
   their time-out, `cancel` that completes, calls during a running callback; small state spaces, and invariants
   that can be proved for any number of callers.
4. **`RemoteDebugging` with two windows**, which share the snapshot in globalState and nothing else.
5. **`Notifications`**, **`PollingSet`** and **`LspCleanup`**.

The runs stay a dozen: a component's safety and liveness questions share one instance where its state space allows
it.
