------------------------------- MODULE SsoToken -------------------------------
(***************************************************************************)
(* SsoAccessTokenProvider (auth/sso/ssoAccessTokenProvider.ts) and the     *)
(* callers that go through SsoClient (auth/sso/clients.ts): one SSO        *)
(* session whose token and client registration live in two files that     *)
(* every process shares (auth/sso/cache.ts, shared/utilities/cacheUtils.ts).*)
(* A process is one copy of the extension code (a window's Toolkit or its  *)
(* Amazon Q): the map of refreshes in flight, refreshPromises, is static   *)
(* and so belongs to one process.                                          *)
(*                                                                         *)
(* A task is one asynchronous call: getToken() and the use of what it      *)
(* returns, createToken() (a login), or the logout of a connection.  Each  *)
(* await is a boundary between two actions.  Time is abstracted to the     *)
(* sets of tokens and registrations that isExpired() finds expired.        *)
(*                                                                         *)
(* The OIDC service is external.  It issues tokens under a refresh token;  *)
(* if Rotates it retires the refresh token it was given, and the answer    *)
(* may be lost after it did so.                                            *)
(***************************************************************************)
EXTENDS Integers, FiniteSets

CONSTANTS Proc,      \* processes
          Task,      \* concurrent calls
          Home,      \* Home[t]: the process of call t
          Ops,       \* what is called: some of "get", "login", "logout"
          None,      \* undefined
          Rotates,   \* the service retires a refresh token when it is used
          MaxToken,  \* bound on the tokens issued
          MaxReg     \* bound on the client registrations

ASSUME HomeAssumption   == Home \in [Task -> Proc]
ASSUME OpsAssumption    == Ops \subseteq {"get", "login", "logout"}
ASSUME RotateAssumption == Rotates \in BOOLEAN
ASSUME BoundAssumption  == MaxToken \in Nat /\ MaxReg \in Nat
ASSUME NoneAssumption   == /\ None \notin Task
                           /\ None \notin Nat
                           /\ None \notin [id : Nat, refresh : Nat \cup {None}, reg : Nat]

VARIABLES
    tokenFile,       \* SsoAccess: the token with the registration it was issued to
    regFile,         \* ClientRegistration
    refreshPromise,  \* refreshPromise[p]: the task whose refresh is in p's map
    op,              \* op[t]: what task t was called for
    phase,           \* phase[t]: where it is
    local,           \* local[t]: the token t loaded, was given or is about to save
    client,          \* client[t]: the registration login t uses
    pending,         \* pending[t]: clears of invalidate() not yet settled
    grants,          \* the refresh tokens the service accepts, with their client
    issued,          \* tokens issued so far
    registered,      \* clients registered so far
    expired,         \* tokens for which isExpired() holds
    expiredReg,      \* registrations for which isExpired() holds
    saved,           \* history: tokens that have been in tokenFile
    disturbed        \* history: something happened that may end the session

files  == <<tokenFile, regFile>>
server == <<grants, issued, registered>>
clock  == <<expired, expiredReg>>
tasks  == <<op, phase, local, client, pending>>
vars   == <<files, refreshPromise, tasks, server, clock, saved, disturbed>>

Token == [id : Nat, refresh : Nat \cup {None}, reg : Nat]
Grant == [refresh : Nat, reg : Nat]
Op    == {"get", "login", "logout"}
Phase == {"idle",
          "loaded", "joined", "refreshing", "saving", "faulted", "dropping",
          "using", "invalidating",
          "renewing", "registering", "savingReg", "authorizing", "regFaulted",
          "loginSaving"}

TypeOK ==
    /\ tokenFile \in Token \cup {None}
    /\ regFile \in Nat \cup {None}
    /\ refreshPromise \in [Proc -> Task \cup {None}]
    /\ op \in [Task -> Op]
    /\ phase \in [Task -> Phase]
    /\ local \in [Task -> Token \cup {None}]
    /\ client \in [Task -> Nat \cup {None}]
    /\ pending \in [Task -> SUBSET {"token", "reg"}]
    /\ grants \subseteq Grant
    /\ issued \in Nat
    /\ registered \in Nat
    /\ expired \subseteq Nat
    /\ expiredReg \subseteq Nat
    /\ saved \subseteq Nat
    /\ disturbed \in BOOLEAN

Init ==
    /\ tokenFile = None
    /\ regFile = None
    /\ refreshPromise = [p \in Proc |-> None]
    /\ op = [t \in Task |-> "get"]
    /\ phase = [t \in Task |-> "idle"]
    /\ local = [t \in Task |-> None]
    /\ client = [t \in Task |-> None]
    /\ pending = [t \in Task |-> {}]
    /\ grants = {}
    /\ issued = 0
    /\ registered = 0
    /\ expired = {}
    /\ expiredReg = {}
    /\ saved = {}
    /\ disturbed = FALSE

-----------------------------------------------------------------------------
(* Helpers *)

Both == {"token", "reg"}

Goto(t, p) == phase' = [phase EXCEPT ![t] = p]
Hold(t, x) == local' = [local EXCEPT ![t] = x]
StartClears(t) == pending' = [pending EXCEPT ![t] = Both]

\* There is a token and isExpired() holds for it.
Expired(x) == x # None /\ x.id \in expired

\* hasProps(token, 'refreshToken') and a registration that has not expired.
Refreshable(x) == x.refresh # None /\ x.reg \notin expiredReg

\* What the service is asked to accept in a refresh.
GrantOf(x) == [refresh |-> x.refresh, reg |-> x.reg]

\* cache.token.save() writes the whole file at once.
Save(x) == tokenFile' = x /\ saved' = saved \cup {x.id}

\* The outcomes of cache.token.clear() and cache.registration.clear().
TruncateTokenFile == tokenFile' \in {[id |-> None], tokenFile}
ClearTokenFile == tokenFile' \in {None, tokenFile}
ClearRegFile   == regFile' \in {None, regFile}

InFlight(t) == phase[t] \in {"refreshing", "saving", "faulted"}

\* The getToken() of each task in T produced x, or (None) nothing.  A logout
\* goes on to invalidate() without a token, any other call ends.
AfterGetToken(t, x) ==
    IF x # None THEN "using"
    ELSE IF op[t] = "logout" THEN "invalidating" ELSE "idle"

Produce(T, x) ==
    /\ phase' = [u \in Task |-> IF u \in T THEN AfterGetToken(u, x) ELSE phase[u]]
    /\ local' = [u \in Task |-> IF u \in T THEN x ELSE local[u]]
    /\ pending' = [u \in Task |->
                     IF u \in T /\ AfterGetToken(u, x) = "invalidating"
                     THEN Both ELSE pending[u]]

\* The refresh of t settles: its entry leaves the map, and t and everybody
\* that joined it go on with x, or with its error (None).
AwaitedBy(t) == {t} \cup {u \in Task : phase[u] = "joined" /\ Home[u] = Home[t]}

SettleEntryStays(t, x) ==
    /\ refreshPromise' = refreshPromise
    /\ Produce(AwaitedBy(t), x)
Settle(t, x) ==
    /\ refreshPromise' = [refreshPromise EXCEPT ![Home[t]] = None]
    /\ Produce(AwaitedBy(t), x)

-----------------------------------------------------------------------------
(* getToken() *)

\* A call for a token, alone or as the first step of a logout, reads the file.
Load(t) ==
    /\ phase[t] = "idle"
    /\ \E o \in Ops \ {"login"} : op' = [op EXCEPT ![t] = o]
    /\ Goto(t, "loaded")
    /\ Hold(t, tokenFile)
    /\ UNCHANGED <<files, refreshPromise, client, pending, server, clock, saved,
                   disturbed>>

\* A logout that asks for no token (skipGlobalLogout), or whose read fails with a
\* DiskCacheError.  Any other call just ends when its read fails.
LogoutWithoutToken(t) ==
    /\ "logout" \in Ops
    /\ phase[t] = "idle"
    /\ op' = [op EXCEPT ![t] = "logout"]
    /\ Goto(t, "invalidating")
    /\ StartClears(t)
    /\ UNCHANGED <<files, refreshPromise, local, client, server, clock, saved,
                   disturbed>>

\* What was read, however long ago, is missing or has not expired.
ReturnCached(t) ==
    /\ phase[t] = "loaded"
    /\ ~Expired(local[t])
    /\ Produce({t}, local[t])
    /\ UNCHANGED <<files, refreshPromise, op, client, server, clock, saved,
                   disturbed>>

NeedsRefresh(t) ==
    /\ phase[t] = "loaded"
    /\ Expired(local[t])

\* This process is already refreshing: await that refresh.
NotChecked(p) == FALSE
InProgress(p) == refreshPromise[p] # None
JoinRefresh(t) ==
    /\ NeedsRefresh(t)
    /\ Refreshable(local[t])
    /\ InProgress(Home[t])
    /\ Goto(t, "joined")
    /\ Hold(t, None)
    /\ UNCHANGED <<files, refreshPromise, op, client, pending, server, clock,
                   saved, disturbed>>

StartRefresh(t) ==
    /\ NeedsRefresh(t)
    /\ Refreshable(local[t])
    /\ ~InProgress(Home[t])
    /\ refreshPromise' = [refreshPromise EXCEPT ![Home[t]] = t]
    /\ Goto(t, "refreshing")
    /\ UNCHANGED <<files, op, local, client, pending, server, clock, saved,
                   disturbed>>

\* invalidate('allCacheExpired')
Drop(t) ==
    /\ NeedsRefresh(t)
    /\ ~Refreshable(local[t])
    /\ Goto(t, "dropping")
    /\ Hold(t, None)
    /\ StartClears(t)
    /\ UNCHANGED <<files, refreshPromise, op, client, server, clock, saved,
                   disturbed>>

-----------------------------------------------------------------------------
(* refreshToken() *)

\* The service answers a refresh with a token under a refresh token: a new one
\* that replaces the old, or the same again.
Refreshed(t) ==
    LET g == GrantOf(local[t])
        r == IF Rotates THEN issued + 1 ELSE g.refresh
    IN
    /\ phase[t] = "refreshing"
    /\ g \in grants
    /\ issued < MaxToken
    /\ issued' = issued + 1
    /\ grants' = (grants \ {g}) \cup {[g EXCEPT !.refresh = r]}
    /\ Hold(t, [id |-> issued + 1, refresh |-> r, reg |-> g.reg])
    /\ Goto(t, "saving")
    /\ UNCHANGED <<files, refreshPromise, op, client, pending, registered, clock,
                   saved, disturbed>>

\* ... or with a token that cannot be refreshed.
RefreshedForLast(t) ==
    /\ phase[t] = "refreshing"
    /\ GrantOf(local[t]) \in grants
    /\ issued < MaxToken
    /\ issued' = issued + 1
    /\ grants' = grants \ {GrantOf(local[t])}
    /\ Hold(t, [id |-> issued + 1, refresh |-> None, reg |-> local[t].reg])
    /\ Goto(t, "saving")
    /\ disturbed' = TRUE
    /\ UNCHANGED <<files, refreshPromise, op, client, pending, registered, clock,
                   saved>>

\* The service retired the refresh token but its answer is lost; the SDK sends
\* the request again, or gives up (Unavailable).
AnswerLost(t) ==
    /\ Rotates
    /\ phase[t] = "refreshing"
    /\ GrantOf(local[t]) \in grants
    /\ grants' = grants \ {GrantOf(local[t])}
    /\ UNCHANGED <<files, refreshPromise, tasks, issued, registered, clock, saved,
                   disturbed>>

\* A client fault: the refresh token is not accepted.
Rejected(t) ==
    /\ phase[t] = "refreshing"
    /\ GrantOf(local[t]) \notin grants
    /\ Goto(t, "faulted")
    /\ UNCHANGED <<files, refreshPromise, op, local, client, pending, server,
                   clock, saved, disturbed>>

\* A network error or a fault of the service: the session is left alone.
UnavailableDrops(t) ==
    /\ phase[t] = "refreshing"
    /\ ClearTokenFile
    /\ Settle(t, None)
    /\ UNCHANGED <<regFile, op, client, server, clock, saved, disturbed>>
Unavailable(t) ==
    /\ phase[t] = "refreshing"
    /\ Settle(t, None)
    /\ UNCHANGED <<files, op, client, server, clock, saved, disturbed>>

SaveRefreshed(t) ==
    /\ phase[t] = "saving"
    /\ Save(local[t])
    /\ Settle(t, local[t])
    /\ UNCHANGED <<regFile, op, client, server, clock, disturbed>>

\* DiskCacheError: refreshToken() throws without touching the session.
SaveFailsUnnoticed(t) ==
    /\ phase[t] = "saving"
    /\ Settle(t, local[t])
    /\ UNCHANGED <<files, op, client, server, clock, saved, disturbed>>
SaveFails(t) ==
    /\ phase[t] = "saving"
    /\ Settle(t, None)
    /\ UNCHANGED <<files, op, client, server, clock, saved, disturbed>>

ClearFaulted(t) ==
    /\ phase[t] = "faulted"
    /\ ClearTokenFile
    /\ Settle(t, None)
    /\ UNCHANGED <<regFile, op, client, server, clock, saved, disturbed>>

-----------------------------------------------------------------------------
(* SsoClient.call(), Auth.invalidateConnection() *)

\* The caller is done with its token.
UseOk(t) ==
    /\ phase[t] = "using"
    /\ op[t] = "get"
    /\ Goto(t, "idle")
    /\ Hold(t, None)
    /\ UNCHANGED <<files, refreshPromise, op, client, pending, server, clock,
                   saved, disturbed>>

\* handleError(): a client fault of the SSO service invalidates the token.
UseFault(t) ==
    /\ phase[t] = "using"
    /\ op[t] = "get"
    /\ Goto(t, "invalidating")
    /\ Hold(t, None)
    /\ StartClears(t)
    /\ disturbed' = TRUE
    /\ UNCHANGED <<files, refreshPromise, op, client, server, clock, saved>>

\* client.logout() ends the session at the service, or fails, which is ignored.
ServerLogout(t) ==
    /\ phase[t] = "using"
    /\ op[t] = "logout"
    /\ grants' \in {{}, grants}
    /\ Goto(t, "invalidating")
    /\ Hold(t, None)
    /\ StartClears(t)
    /\ disturbed' = TRUE
    /\ UNCHANGED <<files, refreshPromise, op, client, issued, registered, clock,
                   saved>>

-----------------------------------------------------------------------------
(* invalidate(): both files are cleared concurrently, each may fail *)

Clearing(t) == phase[t] \in {"dropping", "invalidating", "renewing"}

ClearToken(t) ==
    /\ Clearing(t)
    /\ "token" \in pending[t]
    /\ pending' = [pending EXCEPT ![t] = @ \ {"token"}]
    /\ ClearTokenFile
    /\ disturbed' = (disturbed \/ op[t] = "logout")
    /\ UNCHANGED <<regFile, refreshPromise, op, phase, local, client, server,
                   clock, saved>>

ClearReg(t) ==
    /\ Clearing(t)
    /\ "reg" \in pending[t]
    /\ pending' = [pending EXCEPT ![t] = @ \ {"reg"}]
    /\ ClearRegFile
    /\ UNCHANGED <<tokenFile, refreshPromise, op, phase, local, client, server,
                   clock, saved, disturbed>>

\* getToken() then returns undefined, a login goes on to register a client.
Invalidated(t) ==
    /\ Clearing(t)
    /\ pending[t] = {}
    /\ \/ phase[t] = "dropping" /\ Produce({t}, None)
       \/ /\ phase[t] = "invalidating"
          /\ Goto(t, "idle")
          /\ UNCHANGED <<local, pending>>
       \/ /\ phase[t] = "renewing"
          /\ Goto(t, "registering")
          /\ UNCHANGED <<local, pending>>
    /\ UNCHANGED <<files, refreshPromise, op, client, server, clock, saved,
                   disturbed>>

-----------------------------------------------------------------------------
(* createToken() *)

\* getValidatedClientRegistration() drops an expired registration first.
Login(t) ==
    /\ "login" \in Ops
    /\ phase[t] = "idle"
    /\ op' = [op EXCEPT ![t] = "login"]
    /\ \/ /\ regFile \in expiredReg
          /\ Goto(t, "renewing")
          /\ StartClears(t)
       \/ /\ regFile \notin expiredReg
          /\ Goto(t, "registering")
          /\ UNCHANGED pending
    /\ UNCHANGED <<files, refreshPromise, local, client, server, clock, saved,
                   disturbed>>

\* loadOr(): the stored registration, whatever it is by now, or a new one.
LoadRegistration(t) ==
    /\ phase[t] = "registering"
    /\ regFile # None
    /\ client' = [client EXCEPT ![t] = regFile]
    /\ Goto(t, "authorizing")
    /\ UNCHANGED <<files, refreshPromise, op, local, pending, server, clock,
                   saved, disturbed>>

RegisterClient(t) ==
    /\ phase[t] = "registering"
    /\ regFile = None
    /\ registered < MaxReg
    /\ registered' = registered + 1
    /\ client' = [client EXCEPT ![t] = registered + 1]
    /\ Goto(t, "savingReg")
    /\ UNCHANGED <<files, refreshPromise, op, local, pending, grants, issued,
                   clock, saved, disturbed>>

SaveRegistration(t) ==
    /\ phase[t] = "savingReg"
    /\ regFile' = client[t]
    /\ Goto(t, "authorizing")
    /\ UNCHANGED <<tokenFile, refreshPromise, op, local, client, pending, server,
                   clock, saved, disturbed>>

\* The user completes the browser flow.
Authorized(t) ==
    /\ phase[t] = "authorizing"
    /\ issued < MaxToken
    /\ issued' = issued + 1
    /\ grants' = grants \cup {[refresh |-> issued + 1, reg |-> client[t]]}
    /\ Hold(t, [id |-> issued + 1, refresh |-> issued + 1, reg |-> client[t]])
    /\ Goto(t, "loginSaving")
    /\ UNCHANGED <<files, refreshPromise, op, client, pending, registered, clock,
                   saved, disturbed>>

\* The service faults the client: drop its registration.
AuthorizeFault(t) ==
    /\ phase[t] = "authorizing"
    /\ Goto(t, "regFaulted")
    /\ UNCHANGED <<files, refreshPromise, op, local, client, pending, server,
                   clock, saved, disturbed>>

ClearRegFaulted(t) ==
    /\ phase[t] = "regFaulted"
    /\ ClearRegFile
    /\ Goto(t, "idle")
    /\ client' = [client EXCEPT ![t] = None]
    /\ UNCHANGED <<tokenFile, refreshPromise, op, local, pending, server, clock,
                   saved, disturbed>>

SaveLogin(t) ==
    /\ phase[t] = "loginSaving"
    /\ Save(local[t])
    /\ Goto(t, "idle")
    /\ Hold(t, None)
    /\ client' = [client EXCEPT ![t] = None]
    /\ UNCHANGED <<regFile, refreshPromise, op, pending, server, clock, disturbed>>

\* Registration, browser flow or save fails, or the user cancels.
LoginFails(t) ==
    /\ phase[t] \in {"registering", "savingReg", "authorizing", "loginSaving"}
    /\ Goto(t, "idle")
    /\ Hold(t, None)
    /\ client' = [client EXCEPT ![t] = None]
    /\ UNCHANGED <<files, refreshPromise, op, pending, server, clock, saved,
                   disturbed>>

-----------------------------------------------------------------------------
(* Environment *)

\* A token, or a registration, comes within a minute of its expiration.
Expire ==
    /\ \E i \in 1..issued : i \notin expired /\ expired' = expired \cup {i}
    /\ UNCHANGED <<files, refreshPromise, tasks, server, expiredReg, saved,
                   disturbed>>

ExpireRegistration ==
    /\ \E r \in 1..registered :
         r \notin expiredReg /\ expiredReg' = expiredReg \cup {r}
    /\ disturbed' = TRUE
    /\ UNCHANGED <<files, refreshPromise, tasks, server, expired, saved>>

\* The service ends the session.
Revoke ==
    /\ grants # {}
    /\ grants' = {}
    /\ disturbed' = TRUE
    /\ UNCHANGED <<files, refreshPromise, tasks, issued, registered, clock, saved>>

\* The process dies: its calls and its map are gone, the files stay.
Crash(p) ==
    LET here == {t \in Task : Home[t] = p} IN
    /\ \E t \in here : phase[t] # "idle"
    /\ phase' = [t \in Task |-> IF t \in here THEN "idle" ELSE phase[t]]
    /\ local' = [t \in Task |-> IF t \in here THEN None ELSE local[t]]
    /\ client' = [t \in Task |-> IF t \in here THEN None ELSE client[t]]
    /\ pending' = [t \in Task |-> IF t \in here THEN {} ELSE pending[t]]
    /\ refreshPromise' = [refreshPromise EXCEPT ![p] = None]
    /\ UNCHANGED <<files, op, server, clock, saved, disturbed>>

-----------------------------------------------------------------------------

Refresh(t) ==
    \/ Refreshed(t) \/ RefreshedForLast(t) \/ AnswerLost(t) \/ Rejected(t)
    \/ Unavailable(t) \/ SaveRefreshed(t) \/ SaveFails(t) \/ ClearFaulted(t)

GetToken(t) ==
    \/ Load(t) \/ LogoutWithoutToken(t) \/ ReturnCached(t)
    \/ JoinRefresh(t) \/ StartRefresh(t) \/ Drop(t) \/ Refresh(t)

Use(t) == UseOk(t) \/ UseFault(t) \/ ServerLogout(t)

Invalidate(t) == ClearToken(t) \/ ClearReg(t) \/ Invalidated(t)

CreateToken(t) ==
    \/ Login(t) \/ LoadRegistration(t) \/ RegisterClient(t) \/ SaveRegistration(t)
    \/ Authorized(t) \/ AuthorizeFault(t) \/ ClearRegFaulted(t) \/ SaveLogin(t)
    \/ LoginFails(t)

Environment ==
    \/ Expire \/ ExpireRegistration \/ Revoke
    \/ \E p \in Proc : Crash(p)

Next ==
    \/ \E t \in Task : GetToken(t) \/ Use(t) \/ Invalidate(t) \/ CreateToken(t)
    \/ Environment

Spec == Init /\ [][Next]_vars

\* File operations and requests settle (the SDK's requests time out).
\* Nobody has to call, and a user need not finish a login.
Fairness ==
    \A t \in Task :
        /\ WF_vars(ReturnCached(t) \/ JoinRefresh(t) \/ StartRefresh(t) \/ Drop(t))
        /\ WF_vars(Refreshed(t) \/ Rejected(t) \/ Unavailable(t))
        /\ WF_vars(SaveRefreshed(t) \/ SaveFails(t) \/ ClearFaulted(t))
        /\ WF_vars(ClearToken(t)) /\ WF_vars(ClearReg(t)) /\ WF_vars(Invalidated(t))

FairSpec == Spec /\ Fairness

-----------------------------------------------------------------------------
(* Properties *)

\* refreshPromises "prevents concurrent token refresh operations" within a
\* process: of its tasks one at most is refreshing, that one is the entry of
\* the map, and a task that joined a refresh has one to wait for.
SingleFlight ==
    /\ \A t, u \in Task : InFlight(t) /\ InFlight(u) /\ Home[t] = Home[u] => t = u
    /\ \A t \in Task : InFlight(t) => refreshPromise[Home[t]] = t
    /\ \A t \in Task : phase[t] = "joined" =>
          \E u \in Task : InFlight(u) /\ Home[u] = Home[t]

\* A caller only ever gets a token that has reached the disk, so what it
\* authenticated with survives a restart (or was replaced): no path hands out
\* the answer of a refresh whose save failed.
HeldTokensWereSaved ==
    \A t \in Task : phase[t] = "using" => local[t].id \in saved

\* The files, the maps of refreshes in flight and the calls of all processes are
\* the register of TokenRegister: a token is saved once (nobody writes back a
\* token that was cleared or replaced), and getToken() comes back with the token
\* that was in the file when it was called, with one saved while it waited, or
\* with nothing.  A call asks for a token until it uses it or goes on without.
Asked == {"loaded", "joined", "refreshing", "saving", "faulted", "dropping"}
Call  == [t \in Task |-> IF phase[t] \in Asked THEN "asking"
                         ELSE IF phase[t] = "using" THEN "holding" ELSE "idle"]
Got   == [t \in Task |-> IF phase[t] \in {"loaded", "using"} /\ local[t] # None
                         THEN local[t].id ELSE None]
Stored == IF tokenFile = None THEN None ELSE tokenFile.id

Register == INSTANCE TokenRegister
                WITH Caller <- Task, stored <- Stored, used <- saved,
                     call <- Call, got <- Got

ImplementsRegister == Register!Spec

\* Failures of the network, the disk or the processes never cost the user the
\* session: while the service keeps honouring refresh tokens, no registration
\* expired, and nothing faulted or logged out, a session that was stored stays
\* stored, whichever tasks refresh, log in, fail to save or die.
SessionSurvives ==
    ~Rotates /\ ~disturbed /\ saved # {} => tokenFile # None

\* "Any premature scenarios, that are not explicit deletion by the user, are
\* likely bugs": the invalidate() of getToken(), which found the token expired,
\* never deletes one that has not expired.
NoPrematureDeletion ==
    [][\A t \in Task :
         phase[t] = "dropping" /\ pending'[t] # pending[t]
         /\ tokenFile # None /\ tokenFile' = None => Expired(tokenFile)]_vars

\* Every getToken() and every invalidate() comes to an end, joined or not,
\* whoever fails on the way.
CallsEnd ==
    \A t \in Task :
        phase[t] \in {"loaded", "joined", "refreshing", "saving", "faulted",
                      "dropping", "invalidating"}
            ~> phase[t] \in {"idle", "using"}
=============================================================================
