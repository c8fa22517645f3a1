--------------------------- MODULE AuthConnections ---------------------------
(***************************************************************************)
(* The SSO connections of one window: Auth (auth/auth.ts), its ProfileStore *)
(* (auth/connection.ts) and the two keyedDebounce() maps that share calls  *)
(* (shared/utilities/functionUtils.ts).                                    *)
(*                                                                         *)
(* A call is one invocation of a method of Auth; an await is a boundary    *)
(* between two actions, except that what follows the settling of one       *)
(* promise without waiting for anything else is one step.  The token       *)
(* provider is external (SsoToken models it): it answers with a token,     *)
(* with none or an error that invalidates, or with an error of the network *)
(* or the disk.  So is vscode.Memento: an update is visible at once, and   *)
(* updates of the profiles are answered in the order they were made.       *)
(***************************************************************************)
EXTENDS Naturals, Sequences, FiniteSets

CONSTANTS Conn,     \* connection ids
          Call,     \* concurrent calls
          Smus,     \* connections of SageMaker Unified Studio, which asks by itself
          Patient,  \* whoever gives a command waits for it before giving the next
          None      \* undefined

ASSUME ConnAssumption    == Conn # {} /\ Smus \subseteq Conn
ASSUME CallAssumption    == IsFiniteSet(Call)
ASSUME PatientAssumption == Patient \in BOOLEAN

State   == {"unauthenticated", "valid", "invalid"}
Stateful == [id : Conn, state : State]

ASSUME NoneAssumption == None \notin Conn \cup Call \cup State \cup Stateful

VARIABLES
    profile,   \* the profiles in globalState: profile[i] is their connectionState
    fresh,     \* ids randomUUID() has not given out yet
    current,   \* auth.currentProfileId in globalState
    active,    \* #activeConnection
    timer,     \* #invalidCredentialsTimeouts: the call whose prompt it limits
    getting,   \* the pending map of getToken
    authing,   \* the pending map of authenticate
    writes,    \* updates of the profiles the memento has not answered
    op,        \* op[c]: the method c is a call of
    id,        \* id[c]: the connection it was called for
    who,       \* who[c]: the connection it is working on
    phase,     \* phase[c]: where it is
    goal,      \* goal[c]: the state it is writing, or restores if its login fails
    then       \* then[c]: where it goes on after writing

store == <<profile, fresh, current, writes>>
maps  == <<timer, getting, authing>>
calls == <<op, id, who, phase, goal, then>>
vars  == <<store, active, maps, calls>>

Commands   == {"use", "reauthenticate", "logout", "delete", "forget", "create", "update"}
Background == {"getToken", "getSsoAccessToken", "refresh"}
Phase == {"idle", "asking", "checking", "writing", "prompt", "entering", "login",
          "granted", "joinGet", "joinAuth", "using", "clearing", "leaving",
          "loggedOut", "deleting", "evicting", "creating", "added", "updating", "done"}

TypeOK ==
    /\ profile \in [Conn -> State \cup {None}]
    /\ fresh \subseteq Conn
    /\ current \in Conn \cup {None}
    /\ active \in Stateful \cup {None}
    /\ timer \in [Conn -> Call \cup {None}]
    /\ getting \in [Conn -> Call \cup {None}]
    /\ authing \in [Conn -> Call \cup {None}]
    /\ writes \in Seq(Call)
    /\ op \in [Call -> Commands \cup Background]
    /\ id \in [Call -> Conn]
    /\ who \in [Call -> Conn]
    /\ phase \in [Call -> Phase]
    /\ goal \in [Call -> State]
    /\ then \in [Call -> Phase]

AnyConn == CHOOSE i \in Conn : TRUE

\* A window starts with the profiles and the current id another session left.
Init ==
    /\ profile \in [Conn -> State \cup {None}]
    /\ fresh = {i \in Conn : profile[i] = None}
    /\ current \in {None} \cup (Conn \ fresh)
    /\ active = None
    /\ timer = [i \in Conn |-> None]
    /\ getting = [i \in Conn |-> None]
    /\ authing = [i \in Conn |-> None]
    /\ writes = <<>>
    /\ op = [c \in Call |-> "getToken"]
    /\ id = [c \in Call |-> AnyConn]
    /\ who = [c \in Call |-> AnyConn]
    /\ phase = [c \in Call |-> "idle"]
    /\ goal = [c \in Call |-> "invalid"]
    /\ then = [c \in Call |-> "done"]

-----------------------------------------------------------------------------
(* Helpers *)

Goto(c, p) == phase' = [phase EXCEPT ![c] = p]

Exists(i) == profile[i] # None
IsActive(i) == active # None /\ active.id = i

\* (variant: the copy keeps its state)
KeepsTheCopy(i, s) == active

\* #activeConnection.state = s, if i is the active connection.
ActiveWith(i, s) == IF IsActive(i) THEN [id |-> i, state |-> s] ELSE active

\* updateConnectionState(who[c], s), after which c goes on at p; it throws when
\* the profile is gone, and has nothing to do when the state is s already.
UpdateConnectionState(c, s, p) ==
    /\ Exists(who[c])
    /\ IF profile[who[c]] = s
       THEN /\ Goto(c, p)
            /\ UNCHANGED <<profile, writes, goal, then>>
       ELSE /\ profile' = [profile EXCEPT ![who[c]] = s]
            /\ writes' = Append(writes, c)
            /\ goal' = [goal EXCEPT ![c] = s]
            /\ then' = [then EXCEPT ![c] = p]
            /\ Goto(c, "writing")

ThrowNotFound(c) ==
    /\ ~Exists(who[c])
    /\ Goto(c, "done")
    /\ UNCHANGED <<profile, writes, goal, then>>

\* Nobody else's command is being carried out.
Orderly == Patient => \A d \in Call : phase[d] # "idle" => op[d] \in Background

Start(c, o, i) ==
    /\ phase[c] = "idle"
    /\ o \in Commands => Orderly
    /\ op' = [op EXCEPT ![c] = o]
    /\ id' = [id EXCEPT ![c] = i]
    /\ who' = [who EXCEPT ![c] = i]

\* (variant: every caller logs in)
LogsInTwice(c, i, invalidate) ==
    /\ authing' = [authing EXCEPT ![i] = c]
    /\ goal' = [goal EXCEPT ![c] = IF Exists(i) THEN profile[i] ELSE "unauthenticated"]
    /\ Goto(c, "login")

\* (variant: there is no default for the state of a connection that is gone)
RestoresUndefined(c, i, invalidate) ==
    IF authing[i] # None
    THEN /\ Goto(c, "joinAuth")
         /\ UNCHANGED <<authing, goal>>
    ELSE /\ authing' = [authing EXCEPT ![i] = c]
         /\ goal' = [goal EXCEPT ![c] = IF invalidate THEN "invalid" ELSE profile[i]]
         /\ Goto(c, "login")

\* authenticate(i, ...), which keyedDebounce() shares between its callers.
Authenticate(c, i, invalidate) ==
    IF authing[i] # None
    THEN /\ Goto(c, "joinAuth")
         /\ UNCHANGED <<authing, goal>>
    ELSE /\ authing' = [authing EXCEPT ![i] = c]
         /\ goal' = [goal EXCEPT ![c] = IF invalidate THEN "invalid"
                                        ELSE IF Exists(i) THEN profile[i]
                                        ELSE "unauthenticated"]
         /\ Goto(c, "login")

-----------------------------------------------------------------------------
(* getToken(), getSsoAccessToken() *)

\* A connection object keeps its getToken() after its profile is gone.
GetToken(c, i) ==
    /\ i \notin fresh
    /\ Start(c, "getToken", i)
    /\ IF getting[i] # None
       THEN Goto(c, "joinGet") /\ UNCHANGED getting
       ELSE Goto(c, "asking") /\ getting' = [getting EXCEPT ![i] = c]
    /\ UNCHANGED <<store, active, timer, authing, goal, then>>

\* It calls _getToken() itself and shares nothing.
GetSsoAccessToken(c, i) ==
    /\ Exists(i)
    /\ Start(c, "getSsoAccessToken", i)
    /\ Goto(c, "asking")
    /\ UNCHANGED <<store, active, maps, goal, then>>

\* The provider has a token.
Answered(c) ==
    /\ phase[c] = "asking"
    /\ Goto(c, "done")
    /\ UNCHANGED <<store, active, maps, op, id, who, goal, then>>

\* throwOnRecoverableError()
Recoverable(c) ==
    /\ phase[c] \in {"asking", "checking"}
    /\ Goto(c, "done")
    /\ UNCHANGED <<store, active, maps, op, id, who, goal, then>>

\* (variant: it asks again about a connection that is invalid already)
AsksAgain(previous, i) == IF previous = "unauthenticated" THEN "entering" ELSE "prompt"

\* handleInvalidCredentials(): what it does next rests on the state it replaces.
AfterInvalid(previous, i) ==
    CASE previous = "invalid"                -> "done"
      [] previous = "valid" /\ i \in Smus    -> "done"
      [] previous = "valid" /\ i \notin Smus -> "prompt"
      [] previous = "unauthenticated"        -> "entering"

HandleInvalidCredentials(c) ==
    /\ phase[c] = "asking"
    /\ \/ ThrowNotFound(c)
       \/ UpdateConnectionState(c, "invalid", AfterInvalid(profile[who[c]], who[c]))
    /\ UNCHANGED <<fresh, current, active, maps, op, id, who>>

\* "Connection is invalid or expired, login again?"
Agree(c) ==
    /\ phase[c] = "prompt"
    /\ Goto(c, "entering")
    /\ UNCHANGED <<store, active, maps, op, id, who, goal, then>>

\* The user says no, or the minute is over.
Decline(c) ==
    /\ phase[c] = "prompt"
    /\ Goto(c, "done")
    /\ UNCHANGED <<store, active, maps, op, id, who, goal, then>>

Enter(c) ==
    /\ phase[c] = "entering"
    /\ Authenticate(c, who[c], FALSE)
    /\ UNCHANGED <<store, active, timer, getting, op, id, who, then>>

-----------------------------------------------------------------------------
(* updateConnectionState(), once the memento has answered *)

\* (variant: a connection that is usable again leaves its Timeout alone)
DismissesNobody(i) == {}

\* The Timeout of i is disposed of, which ends the prompt it limits.
Dismissed(i) == {d \in Call : timer[i] = d /\ phase[d] = "prompt"}

Written(c) ==
    LET i == who[c]
        dismissed == IF goal[c] = "invalid" THEN {} ELSE Dismissed(i)
    IN
    /\ phase[c] = "writing"
    /\ writes # <<>> /\ Head(writes) = c
    /\ writes' = Tail(writes)
    /\ active' = ActiveWith(i, goal[c])
    /\ phase' = [d \in Call |-> IF d = c THEN then[c]
                                ELSE IF d \in dismissed THEN "done" ELSE phase[d]]
    /\ timer' = IF then[c] = "prompt" THEN [timer EXCEPT ![i] = c] ELSE timer
    /\ goal' = [goal EXCEPT ![c] = "invalid"]
    /\ then' = [then EXCEPT ![c] = "done"]
    /\ UNCHANGED <<profile, fresh, current, getting, authing, op, id, who>>

-----------------------------------------------------------------------------
(* reauthenticate(), _authenticate() *)

Reauthenticate(c, i, invalidate) ==
    /\ Exists(i)
    /\ Start(c, "reauthenticate", i)
    /\ Authenticate(c, i, invalidate)
    /\ UNCHANGED <<store, active, timer, getting, then>>

\* createToken(): the user has logged in and the token is saved.
LoggedIn(c) ==
    /\ phase[c] = "login"
    /\ Goto(c, "granted")
    /\ UNCHANGED <<store, active, maps, op, id, who, goal, then>>

MarkValid(c) ==
    /\ phase[c] = "granted"
    /\ ThrowNotFound(c) \/ UpdateConnectionState(c, "valid", "done")
    /\ UNCHANGED <<fresh, current, active, maps, op, id, who>>

\* The login was cancelled or rejected.
LoginFails(c) ==
    /\ phase[c] = "login"
    /\ ThrowNotFound(c) \/ UpdateConnectionState(c, goal[c], "done")
    /\ UNCHANGED <<fresh, current, active, maps, op, id, who>>

\* The network or the disk failed: the state is left alone.
LoginUnreachable(c) ==
    /\ phase[c] = "login"
    /\ Goto(c, "done")
    /\ UNCHANGED <<store, active, maps, op, id, who, goal, then>>

-----------------------------------------------------------------------------
(* refreshConnectionState(), useConnection() *)

Check(c, i, o) ==
    /\ Exists(i)
    /\ Start(c, o, i)
    /\ Goto(c, "checking")
    /\ UNCHANGED <<store, active, maps, goal, then>>

RefreshConnectionState(c, i) == Check(c, i, "refresh")
UseConnection(c, i)          == Check(c, i, "use")

\* (variant: a check of a connection switches to it)
SwitchesToo(c) == "using"

AfterCheck(c) == IF op[c] = "use" THEN "using" ELSE "done"

\* (variant: the profile is stored without looking whether it is still there)
ValidatesBlindly(c) ==
    /\ phase[c] = "checking"
    /\ profile' = [profile EXCEPT ![who[c]] = "valid"]
    /\ Goto(c, AfterCheck(c))
    /\ UNCHANGED <<fresh, current, writes, active, maps, op, id, who, goal, then>>

Validated(c) ==
    /\ phase[c] = "checking"
    /\ ThrowNotFound(c) \/ UpdateConnectionState(c, "valid", AfterCheck(c))
    /\ UNCHANGED <<fresh, current, active, maps, op, id, who>>

Invalidated(c) ==
    /\ phase[c] = "checking"
    /\ ThrowNotFound(c) \/ UpdateConnectionState(c, "invalid", AfterCheck(c))
    /\ UNCHANGED <<fresh, current, active, maps, op, id, who>>

UseProfile(c) ==
    /\ phase[c] = "using"
    /\ Goto(c, "done")
    /\ IF Exists(who[c])
       THEN /\ active' = [id |-> who[c], state |-> profile[who[c]]]
            /\ current' = who[c]
       ELSE UNCHANGED <<active, current>>
    /\ UNCHANGED <<profile, fresh, writes, maps, op, id, who, goal, then>>

-----------------------------------------------------------------------------
(* logout(), deleteConnection(), forgetConnection() *)

Logout(c) ==
    /\ active # None
    /\ Start(c, "logout", active.id)
    /\ current' = None
    /\ Goto(c, "clearing")
    /\ UNCHANGED <<profile, fresh, writes, active, maps, goal, then>>

DeleteConnection(c, i) ==
    /\ Exists(i)
    /\ Start(c, "delete", i)
    /\ IF IsActive(i)
       THEN /\ current' = None
            /\ Goto(c, "clearing")
            /\ UNCHANGED then
       ELSE /\ Goto(c, "leaving")
            /\ then' = [then EXCEPT ![c] = "deleting"]
            /\ UNCHANGED current
    /\ UNCHANGED <<profile, fresh, writes, active, maps, goal>>

\* this.invalidateConnection(this.activeConnection.id): whichever is active now.
InvalidateActive(c) ==
    /\ phase[c] = "clearing"
    /\ IF active # None /\ Exists(active.id)
       THEN /\ who' = [who EXCEPT ![c] = active.id]
            /\ then' = [then EXCEPT ![c] = "loggedOut"]
            /\ Goto(c, "leaving")
       ELSE /\ Goto(c, "done")
            /\ UNCHANGED <<who, then>>
    /\ UNCHANGED <<store, active, maps, op, id, goal>>

\* invalidateConnection(): the service was told and the token dropped, or not.
Invalidate(c) ==
    /\ phase[c] = "leaving"
    /\ ThrowNotFound(c) \/ UpdateConnectionState(c, "invalid", then[c])
    /\ UNCHANGED <<fresh, current, active, maps, op, id, who>>

LoggedOut(c) ==
    /\ phase[c] = "loggedOut"
    /\ active' = None
    /\ Goto(c, IF op[c] = "delete" THEN "deleting" ELSE "done")
    /\ UNCHANGED <<store, maps, op, id, who, goal, then>>

DeleteProfile(c) ==
    /\ phase[c] = "deleting"
    /\ profile' = [profile EXCEPT ![id[c]] = None]
    /\ Goto(c, "evicting")
    /\ UNCHANGED <<fresh, current, writes, active, maps, op, id, who, goal, then>>

ForgetConnection(c, i) ==
    /\ Exists(i)
    /\ Start(c, "forget", i)
    /\ profile' = [profile EXCEPT ![i] = None]
    /\ Goto(c, "evicting")
    /\ UNCHANGED <<fresh, current, writes, active, maps, goal, then>>

ClearStaleLinkedIamConnections(c) ==
    /\ phase[c] = "evicting"
    /\ active' = IF active # None /\ ~Exists(active.id) THEN None ELSE active
    /\ Goto(c, "done")
    /\ UNCHANGED <<store, maps, op, id, who, goal, then>>

-----------------------------------------------------------------------------
(* createConnection(), updateConnection() *)

CreateConnection(c, i) ==
    /\ i \in fresh
    /\ Start(c, "create", i)
    /\ fresh' = fresh \ {i}
    /\ Goto(c, "creating")
    /\ UNCHANGED <<profile, current, writes, active, maps, goal, then>>

\* A token was there or was created; addProfile().
AddProfile(c) ==
    /\ phase[c] = "creating"
    /\ profile' = [profile EXCEPT ![who[c]] = "unauthenticated"]
    /\ Goto(c, "added")
    /\ UNCHANGED <<fresh, current, writes, active, maps, op, id, who, goal, then>>

CreateFails(c) ==
    /\ phase[c] = "creating"
    /\ Goto(c, "done")
    /\ UNCHANGED <<store, active, maps, op, id, who, goal, then>>

MarkCreated(c) ==
    /\ phase[c] = "added"
    /\ ThrowNotFound(c) \/ UpdateConnectionState(c, "valid", "done")
    /\ UNCHANGED <<fresh, current, active, maps, op, id, who>>

\* updateProfile() writes the new scopes with the state that is stored now.
UpdateConnection(c, i) ==
    /\ Exists(i)
    /\ Start(c, "update", i)
    /\ goal' = [goal EXCEPT ![c] = profile[i]]
    /\ writes' = Append(writes, c)
    /\ Goto(c, "updating")
    /\ UNCHANGED <<profile, fresh, current, active, maps, then>>

Updated(c) ==
    /\ phase[c] = "updating"
    /\ writes # <<>> /\ Head(writes) = c
    /\ writes' = Tail(writes)
    /\ active' = ActiveWith(who[c], goal[c])
    /\ goal' = [goal EXCEPT ![c] = "invalid"]
    /\ Goto(c, "done")
    /\ UNCHANGED <<profile, fresh, current, maps, op, id, who, then>>

-----------------------------------------------------------------------------
\* (variant: those who share a getToken() are not told)
TellsLogins(c) == {d \in Call : phase[d] = "joinAuth" /\ authing[who[d]] = c}

\* The promise of c settles: it leaves the maps, and who awaits it goes on.  Its
\* locals are gone, and disposing of its Timeout would have no effect any more.
Followers(c) ==
    {d \in Call : \/ phase[d] = "joinAuth" /\ authing[who[d]] = c
                  \/ phase[d] = "joinGet" /\ getting[who[d]] = c}

Finish(c) ==
    /\ phase[c] = "done"
    /\ phase' = [d \in Call |-> IF d = c THEN "idle"
                                ELSE IF d \in Followers(c) THEN "done" ELSE phase[d]]
    /\ getting' = [i \in Conn |-> IF getting[i] = c THEN None ELSE getting[i]]
    /\ authing' = [i \in Conn |-> IF authing[i] = c THEN None ELSE authing[i]]
    /\ timer' = [i \in Conn |-> IF timer[i] = c THEN None ELSE timer[i]]
    /\ op' = [op EXCEPT ![c] = "getToken"]
    /\ id' = [id EXCEPT ![c] = AnyConn]
    /\ who' = [who EXCEPT ![c] = AnyConn]
    /\ goal' = [goal EXCEPT ![c] = "invalid"]
    /\ then' = [then EXCEPT ![c] = "done"]
    /\ UNCHANGED <<store, active>>

-----------------------------------------------------------------------------
\* What the provider, the user who logs in, the memento and the event loop owe.
Step(c) ==
    \/ Answered(c)
    \/ Recoverable(c)
    \/ HandleInvalidCredentials(c)
    \/ Decline(c)
    \/ Enter(c)
    \/ Written(c)
    \/ LoggedIn(c)
    \/ MarkValid(c)
    \/ LoginFails(c)
    \/ LoginUnreachable(c)
    \/ Validated(c)
    \/ Invalidated(c)
    \/ UseProfile(c)
    \/ InvalidateActive(c)
    \/ Invalidate(c)
    \/ LoggedOut(c)
    \/ DeleteProfile(c)
    \/ ClearStaleLinkedIamConnections(c)
    \/ AddProfile(c)
    \/ CreateFails(c)
    \/ MarkCreated(c)
    \/ Updated(c)
    \/ Finish(c)

Command(c) ==
    \/ Logout(c)
    \/ \E i \in Conn :
          \/ GetToken(c, i)
          \/ GetSsoAccessToken(c, i)
          \/ RefreshConnectionState(c, i)
          \/ UseConnection(c, i)
          \/ \E invalidate \in BOOLEAN : Reauthenticate(c, i, invalidate)
          \/ DeleteConnection(c, i)
          \/ ForgetConnection(c, i)
          \/ CreateConnection(c, i)
          \/ UpdateConnection(c, i)

Next == \E c \in Call : Step(c) \/ Agree(c) \/ Command(c)

Spec == Init /\ [][Next]_vars
FairSpec == Spec /\ \A c \in Call : WF_vars(Step(c))

-----------------------------------------------------------------------------
(* Properties *)

Working(c) == phase[c] # "idle"
LoggingIn(i) == {c \in Call : phase[c] \in {"login", "granted"} /\ who[c] = i}

\* keyedDebounce(authenticate): however many calls find a connection unusable, and
\* whatever its user starts beside them, one login of it is under way at a time.
OneLogin == \A i \in Conn : \A c, d \in LoggingIn(i) : c = d

\* getSsoAccessToken() bypasses the map that shares getToken(), and a login that
\* succeeds meanwhile makes a connection valid that can be lost again: still at
\* most one question about a connection waits for its user.
OnePrompt ==
    \A c, d \in Call :
        phase[c] = "prompt" /\ phase[d] = "prompt" /\ who[c] = who[d] => c = d

\* The prompt says that the connection is invalid.  However it became usable again,
\* the prompt is taken back as soon as that is written.
PromptIsNeeded ==
    \A c \in Call :
        phase[c] = "prompt" /\ profile[who[c]] \in {"valid", "unauthenticated"} =>
            \E d \in Call : phase[d] = "writing" /\ who[d] = who[c]

\* #activeConnection is a copy, brought up to date after each write.  Once nobody is
\* at work it names a stored profile, with its state, and the id that the next
\* window restores.
ActiveIsStored ==
    (\A c \in Call : ~Working(c)) /\ active # None =>
        /\ profile[active.id] = active.state
        /\ current = active.id

\* logout() reads activeConnection a second time after it has waited: the session
\* it ends is the one it was called for.
EndsItsOwn == \A c \in Call : phase[c] = "leaving" => who[c] = id[c]

\* The writes that answer a late provider, a login or a logout come after any number
\* of awaits: none of them brings back a connection that was deleted meanwhile.
NoResurrection ==
    [][\A i \in Conn \ fresh :
         ~Exists(i) /\ ~(\E c \in Call : phase[c] = "creating" /\ who[c] = i)
            => ~Exists(i)']_vars

\* Every call ends: a prompt ends by itself and no call waits for one that waits
\* for it.
CallsEnd == \A c \in Call : Working(c) ~> ~Working(c)

=============================================================================
