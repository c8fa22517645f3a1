--------------------------- MODULE SsoToken_proofs ---------------------------
(* Proofs about SsoToken, for every set of processes and tasks: its invariants, *)
(* and that it implements TokenRegister.                                       *)
EXTENDS SsoToken, TLAPS

-----------------------------------------------------------------------------
(* Type correctness *)

\* The locals a phase relies on are there.
Locals ==
    \A t \in Task :
        /\ phase[t] \in {"refreshing", "saving", "loginSaving", "using"}
              => local[t] # None
        /\ phase[t] \in {"savingReg", "authorizing"} => client[t] # None

TypeInv == TypeOK /\ Locals

\* The steps that end getToken() for some tasks keep the types and the locals.
LEMMA ProduceType ==
    ASSUME TypeInv, NEW T, NEW x \in Token \cup {None}, Produce(T, x),
           client' = client
    PROVE  /\ phase' \in [Task -> Phase]
           /\ local' \in [Task -> Token \cup {None}]
           /\ pending' \in [Task -> SUBSET {"token", "reg"}]
           /\ Locals'
<1>1. /\ phase' \in [Task -> Phase]
      /\ local' \in [Task -> Token \cup {None}]
      /\ pending' \in [Task -> SUBSET {"token", "reg"}]
  BY DEF TypeInv, TypeOK, Produce, AfterGetToken, Phase, Both
<1>2. ASSUME NEW t \in Task
      PROVE  /\ phase'[t] \in {"refreshing", "saving", "loginSaving", "using"}
                   => local'[t] # None
             /\ phase'[t] \in {"savingReg", "authorizing"} => client'[t] # None
  <2>1. CASE t \in T
    BY <2>1 DEF Produce, AfterGetToken
  <2>2. CASE t \notin T
    BY <2>2 DEF TypeInv, Locals, Produce
  <2> QED BY <2>1, <2>2
<1> QED BY <1>1, <1>2 DEF Locals

\* getToken() and refreshToken() keep the types.
LEMMA GetTokenType == ASSUME TypeInv, NEW t \in Task, GetToken(t) PROVE TypeInv'
<1> USE HomeAssumption, OpsAssumption
    DEF TypeInv, TypeOK, Goto, Hold, StartClears, Both, files, tasks, server, clock
<1>0. ASSUME TypeOK', \A u \in Task : u # t => phase'[u] = phase[u] /\ local'[u] = local[u],
             client' = client, phase'[t] \notin {"savingReg", "authorizing"},
             phase'[t] \in {"refreshing", "saving", "loginSaving", "using"} => local'[t] # None
      PROVE  TypeInv'
  BY <1>0 DEF Locals
<1>n. ASSUME NEW y \in Token PROVE y # None
  BY <1>n, NoneAssumption DEF Token
<1>1. CASE Load(t)
  BY <1>1 DEF Load, Op, Phase, Locals
<1>1a. CASE LogoutWithoutToken(t)
  BY <1>1a DEF LogoutWithoutToken, Op, Phase, Locals
<1>2. CASE ReturnCached(t)
  BY <1>2, ProduceType DEF ReturnCached
<1>3. CASE JoinRefresh(t)
  BY <1>3 DEF JoinRefresh, Phase, Locals
<1>4. CASE StartRefresh(t)
  BY <1>4 DEF StartRefresh, NeedsRefresh, Expired, Phase, Locals
<1>5. CASE Drop(t)
  BY <1>5 DEF Drop, Phase, Locals
<1>6. CASE Refreshed(t)
  <2>1. GrantOf(local[t]) \in Grant
    BY <1>6 DEF Refreshed
  <2>2. GrantOf(local[t]).refresh \in Nat /\ GrantOf(local[t]).reg \in Nat
    BY <2>1 DEF Grant
  <2> DEFINE r == IF Rotates THEN issued + 1 ELSE GrantOf(local[t]).refresh
  <2>3. [GrantOf(local[t]) EXCEPT !.refresh = r] \in Grant
    BY <2>1, <2>2 DEF Grant
  <2>4. [id |-> issued + 1, refresh |-> r, reg |-> GrantOf(local[t]).reg] \in Token
    BY <2>2 DEF Token
  <2>5. TypeOK'
    BY <1>6, <2>3, <2>4 DEF Refreshed, Phase
  <2>6. local'[t] # None
    BY <1>6, <2>4, <1>n DEF Refreshed
  <2> QED BY <1>0, <1>6, <2>5, <2>6 DEF Refreshed
<1>7. CASE RefreshedForLast(t)
  <2>1. GrantOf(local[t]) \in Grant /\ GrantOf(local[t]).reg = local[t].reg
    BY <1>7 DEF RefreshedForLast, GrantOf
  <2>2. [id |-> issued + 1, refresh |-> None, reg |-> local[t].reg] \in Token
    BY <2>1 DEF Grant, Token
  <2>5. TypeOK'
    BY <1>7, <2>2 DEF RefreshedForLast, Phase
  <2>6. local'[t] # None
    BY <1>7, <2>2, <1>n DEF RefreshedForLast
  <2> QED BY <1>0, <1>7, <2>5, <2>6 DEF RefreshedForLast
<1>8. CASE AnswerLost(t)
  BY <1>8 DEF AnswerLost, Locals
<1>9. CASE Rejected(t)
  BY <1>9 DEF Rejected, Phase, Locals
<1>10. CASE Unavailable(t)
  BY <1>10, ProduceType DEF Unavailable, Settle
<1>11. CASE SaveRefreshed(t)
  <2>1. local[t] \in Token /\ local[t] # None
    BY <1>11 DEF SaveRefreshed, Locals
  <2> QED BY <1>11, <2>1, ProduceType DEF SaveRefreshed, Settle, Save, Token
<1>12. CASE SaveFails(t)
  BY <1>12, ProduceType DEF SaveFails, Settle
<1>13. CASE ClearFaulted(t)
  BY <1>13, ProduceType DEF ClearFaulted, Settle, ClearTokenFile
<1> QED
  BY <1>1, <1>1a, <1>2, <1>3, <1>4, <1>5, <1>6, <1>7, <1>8, <1>9, <1>10,
     <1>11, <1>12, <1>13 DEF GetToken, Refresh

\* The use of a token and invalidate() keep the types.
LEMMA UseType ==
    ASSUME TypeInv, NEW t \in Task, Use(t) \/ Invalidate(t) PROVE TypeInv'
<1> USE HomeAssumption
    DEF TypeInv, TypeOK, Goto, Hold, StartClears, Both, files, tasks, server, clock
<1>1. CASE UseOk(t)
  BY <1>1 DEF UseOk, Phase, Locals
<1>2. CASE UseFault(t)
  BY <1>2 DEF UseFault, Phase, Locals
<1>3. CASE ServerLogout(t)
  BY <1>3 DEF ServerLogout, Phase, Locals
<1>4. CASE ClearToken(t)
  BY <1>4 DEF ClearToken, ClearTokenFile, Locals
<1>5. CASE ClearReg(t)
  BY <1>5 DEF ClearReg, ClearRegFile, Locals
<1>6. CASE Invalidated(t)
  <2>1. CASE phase[t] = "dropping" /\ Produce({t}, None)
    BY <1>6, <2>1, ProduceType DEF Invalidated
  <2>2. CASE phase[t] = "invalidating" /\ phase' = [phase EXCEPT ![t] = "idle"]
             /\ local' = local /\ pending' = pending
    BY <1>6, <2>2 DEF Invalidated, Phase, Locals
  <2>3. CASE phase[t] = "renewing" /\ phase' = [phase EXCEPT ![t] = "registering"]
             /\ local' = local /\ pending' = pending
    BY <1>6, <2>3 DEF Invalidated, Phase, Locals
  <2> QED BY <1>6, <2>1, <2>2, <2>3 DEF Invalidated
<1> QED
  BY <1>1, <1>2, <1>3, <1>4, <1>5, <1>6 DEF Use, Invalidate

\* createToken() keeps the types.
LEMMA CreateTokenType ==
    ASSUME TypeInv, NEW t \in Task, CreateToken(t) PROVE TypeInv'
<1> USE HomeAssumption
    DEF TypeInv, TypeOK, Goto, Hold, StartClears, Both, files, tasks, server, clock
<1>n. ASSUME NEW y \in Token PROVE y # None
  BY <1>n, NoneAssumption DEF Token
<1>1. CASE Login(t)
  BY <1>1 DEF Login, Op, Phase, Locals
<1>2. CASE LoadRegistration(t)
  BY <1>2 DEF LoadRegistration, Phase, Locals
<1>3. CASE RegisterClient(t)
  <2>1. registered + 1 # None /\ registered + 1 \in Nat
    BY NoneAssumption
  <2> QED BY <1>3, <2>1 DEF RegisterClient, Phase, Locals
<1>4. CASE SaveRegistration(t)
  BY <1>4 DEF SaveRegistration, Phase, Locals
<1>5. CASE Authorized(t)
  <2>1. client[t] \in Nat
    BY <1>5 DEF Authorized, Locals
  <2>2. [id |-> issued + 1, refresh |-> issued + 1, reg |-> client[t]] \in Token
        /\ [refresh |-> issued + 1, reg |-> client[t]] \in Grant
    BY <2>1 DEF Token, Grant
  <2> QED BY <1>5, <2>2, <1>n DEF Authorized, Phase, Locals
<1>6. CASE AuthorizeFault(t)
  BY <1>6 DEF AuthorizeFault, Phase, Locals
<1>7. CASE ClearRegFaulted(t)
  BY <1>7 DEF ClearRegFaulted, ClearRegFile, Phase, Locals
<1>8. CASE SaveLogin(t)
  <2>1. local[t] \in Token /\ local[t].id \in Nat
    BY <1>8 DEF SaveLogin, Locals, Token
  <2> QED BY <1>8, <2>1 DEF SaveLogin, Save, Phase, Locals
<1>9. CASE LoginFails(t)
  BY <1>9 DEF LoginFails, Phase, Locals
<1> QED
  BY <1>1, <1>2, <1>3, <1>4, <1>5, <1>6, <1>7, <1>8, <1>9 DEF CreateToken

\* Expiration, revocation and crashes keep the types.
LEMMA EnvironmentType == ASSUME TypeInv, Environment PROVE TypeInv'
<1> USE DEF TypeInv, TypeOK, files, tasks, server, clock
<1>1. CASE Expire
  BY <1>1 DEF Expire, Locals
<1>2. CASE ExpireRegistration
  BY <1>2 DEF ExpireRegistration, Locals
<1>3. CASE Revoke
  BY <1>3 DEF Revoke, Locals
<1>4. ASSUME NEW p \in Proc, Crash(p) PROVE TypeInv'
  BY <1>4 DEF Crash, Phase, Locals
<1> QED
  BY <1>1, <1>2, <1>3, <1>4 DEF Environment

\* Every step keeps the types.
LEMMA TypeStep == TypeInv /\ [Next]_vars => TypeInv'
<1> SUFFICES ASSUME TypeInv, [Next]_vars PROVE TypeInv'
  OBVIOUS
<1>1. CASE UNCHANGED vars
  BY <1>1 DEF TypeInv, TypeOK, Locals, vars, files, tasks, server, clock
<1> QED
  BY <1>1, GetTokenType, UseType, CreateTokenType, EnvironmentType DEF Next

\* The invariant holds before anybody called.
LEMMA TypeInit == Init => TypeInv
<1> SUFFICES ASSUME Init PROVE TypeOK /\ Locals
  BY DEF TypeInv
<1>1. Locals
  BY DEF Init, Locals
<1>2. TypeOK
  BY DEF Init, TypeOK, Op, Phase
<1> QED BY <1>1, <1>2

\* TypeInv is an invariant.
LEMMA TypeInvariant == Spec => []TypeInv
BY TypeInit, TypeStep, PTL DEF Spec

\* The two files hold whole tokens and registrations or are missing, and every
\* call holds what its next step needs.
THEOREM TypeCorrect == Spec => []TypeOK
<1>1. TypeInv => TypeOK
  BY DEF TypeInv
<1> QED BY <1>1, TypeInvariant, PTL

-----------------------------------------------------------------------------
(* Single flight *)

\* The task whose refresh is in the map of its process is the one in flight
\* there, and who joined a refresh is joined to that one.
Flights ==
    /\ \A t \in Task : InFlight(t) => refreshPromise[Home[t]] = t
    /\ \A p \in Proc : refreshPromise[p] # None =>
          InFlight(refreshPromise[p]) /\ Home[refreshPromise[p]] = p
    /\ \A t \in Task : phase[t] = "joined" => refreshPromise[Home[t]] # None

FlightInv == TypeInv /\ Flights

\* A step that neither starts, joins nor ends a refresh keeps it.
LEMMA FlightFrame ==
    ASSUME Flights, refreshPromise' = refreshPromise,
           \A u \in Task : InFlight(u)' <=> InFlight(u),
           \A u \in Task : phase'[u] = "joined" => phase[u] = "joined",
           TypeOK
    PROVE  Flights'
BY HomeAssumption DEF Flights, TypeOK

\* A refresh that settles takes its entry and everybody who joined it along.
LEMMA SettleFlight ==
    ASSUME FlightInv, NEW t \in Task, InFlight(t), NEW x, Settle(t, x)
    PROVE  Flights'
<1> USE HomeAssumption, NoneAssumption
<1> DEFINE p == Home[t]
<1>0. TypeOK /\ Flights /\ p \in Proc /\ refreshPromise[p] = t
  BY DEF FlightInv, TypeInv, Flights
<1>1. refreshPromise' = [refreshPromise EXCEPT ![p] = None]
  BY DEF Settle
<1>2. \A u \in AwaitedBy(t) \cap Task :
        phase'[u] \in {"using", "invalidating", "idle"}
  BY DEF Settle, Produce, AfterGetToken
<1>3. \A u \in Task : u \notin AwaitedBy(t) => phase'[u] = phase[u]
  BY DEF Settle, Produce
<1>4. t \in AwaitedBy(t)
  BY DEF AwaitedBy
<1>5. \A u \in Task : phase[u] = "joined" /\ Home[u] = p => u \in AwaitedBy(t)
  BY DEF AwaitedBy
<1>6. ASSUME NEW u \in Task, InFlight(u)' PROVE refreshPromise'[Home[u]] = u
  <2>1. InFlight(u) /\ u # t
    BY <1>2, <1>3, <1>4, <1>6 DEF InFlight
  <2>2. refreshPromise[Home[u]] = u
    BY <1>0, <2>1 DEF Flights
  <2>3. Home[u] # p
    BY <1>0, <2>1, <2>2
  <2> QED BY <1>0, <1>1, <2>2, <2>3 DEF TypeOK
<1>7. ASSUME NEW q \in Proc, refreshPromise'[q] # None
      PROVE  InFlight(refreshPromise[q])' /\ Home[refreshPromise'[q]] = q
  <2>1. q # p /\ refreshPromise'[q] = refreshPromise[q]
    BY <1>0, <1>1, <1>7 DEF TypeOK
  <2>2. refreshPromise[q] \in Task /\ InFlight(refreshPromise[q])
        /\ Home[refreshPromise[q]] = q
    BY <1>0, <1>7, <2>1 DEF Flights, TypeOK
  <2>3. refreshPromise[q] \notin AwaitedBy(t)
    BY <1>0, <2>1, <2>2 DEF AwaitedBy, InFlight
  <2> QED BY <1>3, <2>1, <2>2, <2>3 DEF InFlight
<1>8. ASSUME NEW u \in Task, phase'[u] = "joined"
      PROVE  refreshPromise'[Home[u]] # None
  <2>1. phase[u] = "joined" /\ Home[u] # p
    BY <1>2, <1>3, <1>5, <1>8
  <2> QED BY <1>0, <1>1, <2>1 DEF Flights, TypeOK
<1> QED BY <1>6, <1>7, <1>8 DEF Flights

\* Every step keeps it.
LEMMA FlightStep == FlightInv /\ [Next]_vars => Flights'
<1> SUFFICES ASSUME FlightInv, [Next]_vars PROVE Flights'
  OBVIOUS
<1> USE HomeAssumption, NoneAssumption
<1>0. TypeOK /\ Flights
  BY DEF FlightInv, TypeInv
<1>1. ASSUME NEW t \in Task, GetToken(t) PROVE Flights'
  <2>1. CASE Load(t) \/ LogoutWithoutToken(t) \/ Drop(t)
    BY <1>0, <2>1, FlightFrame
       DEF Load, LogoutWithoutToken, Drop, NeedsRefresh, Goto, InFlight, TypeOK
  <2>2. CASE ReturnCached(t)
    BY <1>0, <2>2, FlightFrame
       DEF ReturnCached, Produce, AfterGetToken, InFlight, TypeOK
  <2>3. CASE JoinRefresh(t)
    <3>1. refreshPromise' = refreshPromise /\ refreshPromise[Home[t]] # None
      BY <2>3 DEF JoinRefresh, InProgress
    <3>2. \A u \in Task : InFlight(u)' <=> InFlight(u)
      BY <1>0, <2>3 DEF JoinRefresh, NeedsRefresh, Goto, InFlight, TypeOK
    <3>3. \A u \in Task : phase'[u] = "joined" => phase[u] = "joined" \/ u = t
      BY <1>0, <2>3 DEF JoinRefresh, Goto, TypeOK
    <3> QED BY <1>0, <3>1, <3>2, <3>3 DEF Flights, TypeOK
  <2>4. CASE StartRefresh(t)
    <3>1. /\ refreshPromise[Home[t]] = None
          /\ refreshPromise' = [refreshPromise EXCEPT ![Home[t]] = t]
          /\ phase' = [phase EXCEPT ![t] = "refreshing"]
          /\ t # None
      BY <2>4 DEF StartRefresh, InProgress, Goto
    <3>2. \A u \in Task : InFlight(u)' <=> InFlight(u) \/ u = t
      BY <1>0, <3>1 DEF InFlight, TypeOK
    <3>3. \A u \in Task : InFlight(u) => Home[u] # Home[t]
      BY <1>0, <3>1 DEF Flights
    <3>4. \A u \in Task : phase'[u] = "joined" => phase[u] = "joined"
      BY <1>0, <3>1 DEF TypeOK
    <3>5. \A u \in Task : InFlight(u)' => refreshPromise'[Home[u]] = u
      BY <1>0, <3>1, <3>2, <3>3 DEF Flights, TypeOK
    <3>6. \A p \in Proc : refreshPromise'[p] # None =>
             InFlight(refreshPromise[p])' /\ Home[refreshPromise'[p]] = p
      BY <1>0, <3>1, <3>2 DEF Flights, TypeOK
    <3>7. \A u \in Task : phase'[u] = "joined" => refreshPromise'[Home[u]] # None
      BY <1>0, <3>1, <3>4 DEF Flights, TypeOK
    <3> QED BY <3>5, <3>6, <3>7 DEF Flights
  <2>5. CASE Refreshed(t) \/ RefreshedForLast(t) \/ AnswerLost(t) \/ Rejected(t)
    BY <1>0, <2>5, FlightFrame
       DEF Refreshed, RefreshedForLast, AnswerLost, Rejected, Goto, tasks,
           InFlight, TypeOK
  <2>6. CASE Unavailable(t) \/ SaveRefreshed(t) \/ SaveFails(t) \/ ClearFaulted(t)
    <3>1. InFlight(t) /\ \E x : Settle(t, x)
      BY <2>6 DEF Unavailable, SaveRefreshed, SaveFails, ClearFaulted, InFlight
    <3> QED BY <3>1, SettleFlight
  <2> QED BY <1>1, <2>1, <2>2, <2>3, <2>4, <2>5, <2>6 DEF GetToken, Refresh
<1>2. ASSUME NEW t \in Task, Use(t) PROVE Flights'
  BY <1>0, <1>2, FlightFrame
     DEF Use, UseOk, UseFault, ServerLogout, Goto, InFlight, TypeOK
<1>3. ASSUME NEW t \in Task, Invalidate(t) PROVE Flights'
  <2>1. CASE ClearToken(t) \/ ClearReg(t)
    BY <1>0, <2>1, FlightFrame DEF ClearToken, ClearReg, InFlight
  <2>2. CASE Invalidated(t)
    BY <1>0, <2>2, FlightFrame
       DEF Invalidated, Clearing, Produce, AfterGetToken, Goto, InFlight, TypeOK
  <2> QED BY <1>3, <2>1, <2>2 DEF Invalidate
<1>4. ASSUME NEW t \in Task, CreateToken(t) PROVE Flights'
  <2>1. CASE Login(t) \/ LoadRegistration(t) \/ RegisterClient(t)
             \/ SaveRegistration(t) \/ Authorized(t)
    BY <1>0, <2>1, FlightFrame
       DEF Login, LoadRegistration, RegisterClient, SaveRegistration, Authorized,
           Goto, InFlight, TypeOK
  <2>2. CASE AuthorizeFault(t) \/ ClearRegFaulted(t) \/ SaveLogin(t) \/ LoginFails(t)
    BY <1>0, <2>2, FlightFrame
       DEF AuthorizeFault, ClearRegFaulted, SaveLogin, LoginFails, Goto, InFlight,
           TypeOK
  <2> QED BY <1>4, <2>1, <2>2 DEF CreateToken
<1>5. CASE Expire \/ ExpireRegistration \/ Revoke \/ UNCHANGED vars
  BY <1>0, <1>5, FlightFrame
     DEF Expire, ExpireRegistration, Revoke, vars, tasks, InFlight
<1>6. ASSUME NEW p \in Proc, Crash(p) PROVE Flights'
  <2>1. \A u \in Task : phase'[u] = IF Home[u] = p THEN "idle" ELSE phase[u]
    BY <1>6 DEF Crash
  <2>2. refreshPromise' = [refreshPromise EXCEPT ![p] = None]
    BY <1>6 DEF Crash
  <2> QED BY <1>0, <2>1, <2>2 DEF Flights, InFlight, TypeOK
<1> QED BY <1>1, <1>2, <1>3, <1>4, <1>5, <1>6 DEF Next, Environment

\* Of the tasks of a process one at most refreshes the session, the map names
\* that one, and a task that joined it has it to wait for.
THEOREM SingleRefresh == Spec => []SingleFlight
<1>1. Init => FlightInv
  <2>1. Init => Flights
    BY HomeAssumption DEF Init, Flights, InFlight
  <2> QED BY <2>1, TypeInit DEF FlightInv
<1>2. FlightInv /\ [Next]_vars => FlightInv'
  BY TypeStep, FlightStep DEF FlightInv
<1>3. FlightInv => SingleFlight
  <2> SUFFICES ASSUME FlightInv PROVE SingleFlight
    OBVIOUS
  <2>1. \A t \in Task : Home[t] \in Proc
    BY HomeAssumption
  <2>2. ASSUME NEW t \in Task, phase[t] = "joined"
        PROVE  \E u \in Task : InFlight(u) /\ Home[u] = Home[t]
    <3>1. refreshPromise[Home[t]] \in Task
      BY <2>1, <2>2 DEF FlightInv, TypeInv, TypeOK, Flights
    <3> QED BY <2>1, <2>2, <3>1 DEF FlightInv, Flights
  <2>3. \A t, u \in Task : InFlight(t) /\ InFlight(u) /\ Home[t] = Home[u] => t = u
    BY DEF FlightInv, Flights
  <2> QED BY <2>2, <2>3 DEF FlightInv, Flights, SingleFlight
<1> QED BY <1>1, <1>2, <1>3, PTL DEF Spec

-----------------------------------------------------------------------------
(* Tokens handed out *)

\* A token that was read, or handed to a caller, has been in the file.
Held ==
    /\ tokenFile # None => tokenFile.id \in saved
    /\ \A t \in Task : phase[t] \in {"loaded", "using"} /\ local[t] # None
          => local[t].id \in saved

HeldInv == TypeInv /\ Held

\* A step keeps it that writes no token file and hands no token to a task that
\* had not got it already.
LEMMA HeldFrame ==
    ASSUME HeldInv, tokenFile' \in {None, tokenFile}, saved' = saved,
           \A u \in Task :
              phase'[u] \in {"loaded", "using"} /\ local'[u] # None =>
                 /\ phase[u] \in {"loaded", "using"} /\ local[u] = local'[u]
    PROVE  Held'
BY DEF HeldInv, Held

\* So does a refresh that ends with an error.
LEMMA SettleNoneHeld ==
    ASSUME HeldInv, NEW t \in Task, Settle(t, None), saved' = saved,
           tokenFile' \in {None, tokenFile}
    PROVE  Held'
BY HeldFrame DEF Settle, Produce, AfterGetToken

\* Every step keeps it.
LEMMA HeldStep == HeldInv /\ [Next]_vars => Held'
<1> SUFFICES ASSUME HeldInv, [Next]_vars PROVE Held'
  OBVIOUS
<1>0. TypeOK /\ Locals /\ Held
  BY DEF HeldInv, TypeInv
<1>f. CASE tokenFile' = tokenFile /\ saved' = saved
           /\ \A u \in Task : phase'[u] \in {"loaded", "using"} =>
                 phase[u] = phase'[u] /\ local'[u] = local[u]
  BY <1>f, HeldFrame
<1>1. ASSUME NEW t \in Task, GetToken(t) PROVE Held'
  <2>1. CASE Load(t)
    BY <1>0, <2>1 DEF Load, files, Goto, Hold, Held, TypeOK
  <2>2. CASE ReturnCached(t)
    BY <1>0, <2>2 DEF ReturnCached, files, Produce, AfterGetToken, Held, TypeOK
  <2>3. CASE LogoutWithoutToken(t) \/ JoinRefresh(t) \/ StartRefresh(t) \/ Drop(t)
    BY <1>0, <1>f, <2>3
       DEF LogoutWithoutToken, JoinRefresh, StartRefresh, Drop, files, Goto, Hold,
           TypeOK
  <2>4. CASE Refreshed(t) \/ RefreshedForLast(t) \/ AnswerLost(t) \/ Rejected(t)
    BY <1>0, <1>f, <2>4
       DEF Refreshed, RefreshedForLast, AnswerLost, Rejected, files, tasks, Goto,
           Hold, TypeOK
  <2>5. CASE Unavailable(t) \/ SaveFails(t) \/ ClearFaulted(t)
    BY <2>5, SettleNoneHeld DEF Unavailable, SaveFails, ClearFaulted, ClearTokenFile, files
  <2>6. CASE SaveRefreshed(t)
    <3>1. tokenFile' = local[t] /\ saved' = saved \cup {local[t].id}
      BY <2>6 DEF SaveRefreshed, Save
    <3>2. \A u \in Task : phase'[u] \in {"loaded", "using"} =>
             local'[u] = local[t] \/ (phase[u] = phase'[u] /\ local'[u] = local[u])
      BY <2>6 DEF SaveRefreshed, Settle, Produce
    <3> QED BY <1>0, <3>1, <3>2 DEF Held
  <2> QED BY <1>1, <2>1, <2>2, <2>3, <2>4, <2>5, <2>6 DEF GetToken, Refresh
<1>2. ASSUME NEW t \in Task, Use(t) PROVE Held'
  BY <1>0, <1>f, <1>2
     DEF Use, UseOk, UseFault, ServerLogout, files, Goto, Hold, TypeOK
<1>3. ASSUME NEW t \in Task, Invalidate(t) PROVE Held'
  <2>1. CASE ClearToken(t) \/ ClearReg(t)
    BY <2>1, HeldFrame DEF ClearToken, ClearReg, ClearTokenFile, files
  <2>2. CASE Invalidated(t)
    BY <1>0, <1>f, <2>2
       DEF Invalidated, files, Produce, AfterGetToken, Goto, TypeOK
  <2> QED BY <1>3, <2>1, <2>2 DEF Invalidate
<1>4. ASSUME NEW t \in Task, CreateToken(t) PROVE Held'
  <2>1. CASE Login(t) \/ LoadRegistration(t) \/ RegisterClient(t)
             \/ SaveRegistration(t) \/ Authorized(t)
    BY <1>0, <1>f, <2>1
       DEF Login, LoadRegistration, RegisterClient, SaveRegistration, Authorized,
           files, Goto, Hold, TypeOK
  <2>2. CASE AuthorizeFault(t) \/ ClearRegFaulted(t) \/ LoginFails(t)
    BY <1>0, <1>f, <2>2
       DEF AuthorizeFault, ClearRegFaulted, LoginFails, files, Goto, Hold, TypeOK
  <2>3. CASE SaveLogin(t)
    BY <1>0, <2>3 DEF SaveLogin, Save, Goto, Hold, Held, TypeOK
  <2> QED BY <1>4, <2>1, <2>2, <2>3 DEF CreateToken
<1>5. CASE Expire \/ ExpireRegistration \/ Revoke \/ UNCHANGED vars
  BY <1>f, <1>5 DEF Expire, ExpireRegistration, Revoke, vars, files, tasks
<1>6. ASSUME NEW p \in Proc, Crash(p) PROVE Held'
  BY <1>f, <1>6 DEF Crash, files
<1> QED BY <1>1, <1>2, <1>3, <1>4, <1>5, <1>6 DEF Next, Environment

\* No caller ever uses a token that was not first written to disk.
THEOREM HeldTokensAreDurable == Spec => []HeldTokensWereSaved
<1>1. Init => HeldInv
  BY TypeInit DEF Init, HeldInv, Held
<1>2. HeldInv /\ [Next]_vars => HeldInv'
  BY TypeStep, HeldStep DEF HeldInv
<1>3. HeldInv => HeldTokensWereSaved
  BY DEF HeldInv, TypeInv, Locals, Held, HeldTokensWereSaved
<1> QED BY <1>1, <1>2, <1>3, PTL DEF Spec

-----------------------------------------------------------------------------
(* The session survives *)

\* The service accepts the refresh token of x.
Good(x) == x.refresh # None /\ GrantOf(x) \in grants

\* While nothing ended the session, no call is on its way to clear the token
\* but a logout, and every token stored or about to be stored can be refreshed.
Surviving ==
    /\ expiredReg = {}
    /\ \A t \in Task : phase[t] \notin {"faulted", "dropping", "renewing"}
    /\ \A t \in Task : phase[t] = "invalidating" => op[t] = "logout"
    /\ tokenFile # None => Good(tokenFile)
    /\ \A t \in Task :
          phase[t] \in {"loaded", "refreshing", "saving", "loginSaving"}
          /\ local[t] # None => Good(local[t])
    /\ saved # {} => tokenFile # None

SurviveInv == TypeInv /\ (~Rotates /\ ~disturbed => Surviving)

\* A step keeps it that leaves the files alone and in which no task comes by a
\* token, or starts to clear one.
LEMMA SurviveFrame ==
    ASSUME Surviving, UNCHANGED <<files, grants, expiredReg, saved>>,
           \A u \in Task :
              /\ phase'[u] \notin {"faulted", "dropping", "renewing"}
              /\ phase'[u] = "invalidating" => op'[u] = "logout"
              /\ phase'[u] \in {"loaded", "refreshing", "saving", "loginSaving"}
                 /\ local'[u] # None
                 => Good(local'[u])
    PROVE  Surviving'
BY DEF Surviving, Good, GrantOf, files

\* So does a refresh that ends, in any way.
LEMMA SettleSurvives ==
    ASSUME TypeOK, Surviving, NEW t \in Task, phase[t] \in {"refreshing", "saving"},
           NEW x, Settle(t, x), op' = op
    PROVE  \A u \in Task :
              /\ phase'[u] \notin {"faulted", "dropping", "renewing"}
              /\ phase'[u] = "invalidating" => op'[u] = "logout"
              /\ phase'[u] \in {"loaded", "refreshing", "saving", "loginSaving"}
                 /\ local'[u] # None
                 => Good(local'[u])
BY DEF Surviving, Settle, Produce, AfterGetToken, TypeOK

\* getToken() keeps it.
LEMMA GetTokenSurvives ==
    ASSUME TypeInv, Surviving, ~Rotates, ~disturbed', NEW t \in Task, GetToken(t)
    PROVE  Surviving'
<1>0. TypeOK /\ Locals
  BY DEF TypeInv
<1> USE DEF files, server, clock, Goto, Hold
<1>1. CASE Load(t)
  BY <1>0, <1>1 DEF Load, Surviving, Good, GrantOf, TypeOK
<1>2. CASE LogoutWithoutToken(t)
  BY <1>0, <1>2 DEF LogoutWithoutToken, Surviving, Good, GrantOf, TypeOK
<1>3. CASE ReturnCached(t)
  BY <1>0, <1>3, SurviveFrame
     DEF ReturnCached, Produce, AfterGetToken, Surviving, TypeOK
<1>4. CASE JoinRefresh(t)
  BY <1>0, <1>4, SurviveFrame DEF JoinRefresh, Surviving, TypeOK
<1>5. CASE StartRefresh(t)
  BY <1>0, <1>5, SurviveFrame DEF StartRefresh, NeedsRefresh, Surviving, TypeOK
<1>6. ~Drop(t)
  BY DEF Drop, NeedsRefresh, Expired, Refreshable, Surviving, Good
<1>7. CASE Refreshed(t)
  <2> DEFINE g == GrantOf(local[t])
             y == [id |-> issued + 1, refresh |-> g.refresh, reg |-> g.reg]
  <2>1. /\ phase' = [phase EXCEPT ![t] = "saving"]
        /\ local' = [local EXCEPT ![t] = y]
        /\ grants' = (grants \ {g}) \cup {[g EXCEPT !.refresh = g.refresh]}
        /\ g \in grants
    BY <1>7 DEF Refreshed
  <2>2. g = [refresh |-> local[t].refresh, reg |-> local[t].reg] /\ g \in Grant
    BY <1>0, <2>1 DEF GrantOf, TypeOK
  <2>3. grants' = grants
    BY <2>1, <2>2 DEF Grant
  <2>4. GrantOf(y) = g /\ y.refresh # None
    BY <2>2, NoneAssumption DEF GrantOf, Grant
  <2>5. \A z : Good(z) <=> (z.refresh # None /\ GrantOf(z) \in grants')
    BY <2>3 DEF Good
  <2>6. ASSUME NEW u \in Task
        PROVE  phase'[u] \in {"loaded", "refreshing", "saving", "loginSaving"}
               /\ local'[u] # None => Good(local'[u])
    <3>1. CASE u = t
      <4>1. local'[u] = y
        BY <1>0, <2>1, <3>1 DEF TypeOK
      <4> QED BY <2>1, <2>4, <4>1 DEF Good
    <3>2. CASE u # t
      BY <1>0, <2>1, <3>2 DEF Surviving, TypeOK
    <3> QED BY <3>1, <3>2
  <2>7. \A u \in Task : /\ phase'[u] \notin {"faulted", "dropping", "renewing"}
                        /\ phase'[u] = "invalidating" => op'[u] = "logout"
    BY <1>0, <1>7, <2>1 DEF Refreshed, Surviving, TypeOK
  <2> QED BY <1>7, <2>3, <2>6, <2>7, SurviveFrame DEF Refreshed
<1>8. ~RefreshedForLast(t) /\ ~AnswerLost(t)
  BY DEF RefreshedForLast, AnswerLost
<1>9. ~Rejected(t)
  BY <1>0 DEF Rejected, Surviving, Good, Locals
<1>10. CASE Unavailable(t) \/ SaveFails(t)
  <2>1. phase[t] \in {"refreshing", "saving"} /\ Settle(t, None) /\ op' = op
    BY <1>10 DEF Unavailable, SaveFails
  <2> QED BY <1>0, <1>10, <2>1, SettleSurvives, SurviveFrame DEF Unavailable, SaveFails
<1>11. CASE SaveRefreshed(t)
  <2>1. /\ phase[t] = "saving" /\ Settle(t, local[t]) /\ op' = op
        /\ tokenFile' = local[t] /\ grants' = grants /\ expiredReg' = expiredReg
    BY <1>11 DEF SaveRefreshed, Save
  <2>2. local[t] # None /\ Good(local[t])
    BY <1>0, <2>1 DEF Locals, Surviving
  <2> QED BY <1>0, <2>1, <2>2, SettleSurvives DEF Surviving, Good, GrantOf
<1>12. ~ClearFaulted(t)
  BY DEF ClearFaulted, Surviving
<1> QED
  BY <1>1, <1>2, <1>3, <1>4, <1>5, <1>6, <1>7, <1>8, <1>9, <1>10, <1>11, <1>12
     DEF GetToken, Refresh

\* So do the calls that follow it and createToken().
LEMMA CallsSurvive ==
    ASSUME TypeInv, Surviving, ~Rotates, ~disturbed', NEW t \in Task,
           Use(t) \/ Invalidate(t) \/ CreateToken(t)
    PROVE  Surviving'
<1>0. TypeOK /\ Locals
  BY DEF TypeInv
<1> USE DEF files, server, clock, Goto, Hold
<1>1. CASE Use(t)
  BY <1>0, <1>1, SurviveFrame DEF Use, UseOk, UseFault, ServerLogout, Surviving, TypeOK
<1>2. ~ClearToken(t)
  BY DEF ClearToken, Clearing, Surviving
<1>3. CASE ClearReg(t)
  BY <1>3 DEF ClearReg, Surviving, Good, GrantOf
<1>4. CASE Invalidated(t)
  BY <1>0, <1>4, SurviveFrame DEF Invalidated, Surviving, TypeOK
<1>5. CASE Login(t)
  BY <1>0, <1>5, SurviveFrame DEF Login, Surviving, TypeOK
<1>6. CASE LoadRegistration(t) \/ RegisterClient(t) \/ AuthorizeFault(t) \/ LoginFails(t)
  BY <1>0, <1>6, SurviveFrame
     DEF LoadRegistration, RegisterClient, AuthorizeFault, LoginFails, Surviving, TypeOK
<1>7. CASE SaveRegistration(t) \/ ClearRegFaulted(t)
  BY <1>0, <1>7 DEF SaveRegistration, ClearRegFaulted, Surviving, Good, GrantOf, TypeOK
<1>8. CASE Authorized(t)
  <2> DEFINE y == [id |-> issued + 1, refresh |-> issued + 1, reg |-> client[t]]
  <2>1. /\ phase' = [phase EXCEPT ![t] = "loginSaving"]
        /\ local' = [local EXCEPT ![t] = y]
        /\ grants' = grants \cup {[refresh |-> issued + 1, reg |-> client[t]]}
    BY <1>8 DEF Authorized
  <2>2. y.refresh # None /\ GrantOf(y) \in grants'
    BY <1>0, <2>1, NoneAssumption DEF GrantOf, TypeOK
  <2>3. \A z : Good(z) => z.refresh # None /\ GrantOf(z) \in grants'
    BY <2>1 DEF Good
  <2>4. \A u \in Task : u # t => phase'[u] = phase[u] /\ local'[u] = local[u]
    BY <1>0, <2>1 DEF TypeOK
  <2>5. phase'[t] = "loginSaving" /\ local'[t] = y
    BY <1>0, <2>1 DEF TypeOK
  <2>6. UNCHANGED <<expiredReg, op, tokenFile, saved>>
    BY <1>8 DEF Authorized
  <2>7. \A u \in Task :
           phase'[u] \in {"loaded", "refreshing", "saving", "loginSaving"}
           /\ local'[u] # None
           => local'[u].refresh # None /\ GrantOf(local'[u]) \in grants'
    <3>1. ASSUME NEW u \in Task, u # t,
                 phase'[u] \in {"loaded", "refreshing", "saving", "loginSaving"},
                 local'[u] # None
          PROVE  local'[u].refresh # None /\ GrantOf(local'[u]) \in grants'
      BY <2>3, <2>4, <3>1 DEF Surviving
    <3> QED BY <2>2, <2>5, <3>1
  <2>8. Surviving' <=>
           /\ expiredReg' = {}
           /\ \A u \in Task : phase'[u] \notin {"faulted", "dropping", "renewing"}
           /\ \A u \in Task : phase'[u] = "invalidating" => op'[u] = "logout"
           /\ tokenFile' # None => tokenFile'.refresh # None /\ GrantOf(tokenFile') \in grants'
           /\ \A u \in Task :
                 phase'[u] \in {"loaded", "refreshing", "saving", "loginSaving"}
                 /\ local'[u] # None
                 => local'[u].refresh # None /\ GrantOf(local'[u]) \in grants'
           /\ saved' # {} => tokenFile' # None
    BY DEF Surviving, Good, GrantOf
  <2> QED BY <2>3, <2>4, <2>5, <2>6, <2>7, <2>8 DEF Surviving
<1>9. CASE SaveLogin(t)
  BY <1>0, <1>9 DEF SaveLogin, Save, Locals, Surviving, Good, GrantOf, TypeOK
<1> QED
  BY <1>1, <1>2, <1>3, <1>4, <1>5, <1>6, <1>7, <1>8, <1>9
     DEF Invalidate, CreateToken

\* Nothing that happened is forgotten.
LEMMA DisturbedStays == TypeOK /\ [Next]_vars /\ disturbed => disturbed'
BY ZenonT(60) DEF TypeOK, Next, Environment, GetToken, Refresh, Use, Invalidate, CreateToken,
       vars, tasks, Load, LogoutWithoutToken, ReturnCached, JoinRefresh,
       StartRefresh, Drop, Refreshed, RefreshedForLast, AnswerLost, Rejected,
       Unavailable, SaveRefreshed, SaveFails, ClearFaulted, UseOk, UseFault,
       ServerLogout, ClearToken, ClearReg, Invalidated, Login, LoadRegistration,
       RegisterClient, SaveRegistration, Authorized, AuthorizeFault,
       ClearRegFaulted, SaveLogin, LoginFails, Expire, ExpireRegistration, Revoke,
       Crash

\* Every step keeps it.
LEMMA SurviveStep == SurviveInv /\ [Next]_vars => SurviveInv'
<1> SUFFICES ASSUME SurviveInv, [Next]_vars, ~Rotates, ~disturbed'
             PROVE  Surviving'
  BY TypeStep DEF SurviveInv
<1>0. TypeInv /\ TypeOK /\ Surviving
  BY DisturbedStays DEF SurviveInv, TypeInv
<1>1. ASSUME NEW t \in Task, GetToken(t) \/ Use(t) \/ Invalidate(t) \/ CreateToken(t)
      PROVE  Surviving'
  BY <1>0, <1>1, GetTokenSurvives, CallsSurvive
<1>2. CASE Expire
  BY <1>0, <1>2, SurviveFrame DEF Expire, files, server, tasks, Surviving
<1>3. ~ExpireRegistration /\ ~Revoke
  BY DEF ExpireRegistration, Revoke
<1>4. ASSUME NEW p \in Proc, Crash(p) PROVE Surviving'
  BY <1>0, <1>4, SurviveFrame DEF Crash, files, server, clock, Surviving
<1>5. CASE UNCHANGED vars
  BY <1>0, <1>5, SurviveFrame DEF vars, files, server, clock, tasks, Surviving
<1> QED BY <1>1, <1>2, <1>3, <1>4, <1>5 DEF Next, Environment

\* While the service honours refresh tokens, and nobody logs out, faults or lets
\* a registration expire, a session that was stored stays stored: whatever the
\* network, the disk and the processes do, and however their calls interleave.
THEOREM SessionsSurvive == Spec => []SessionSurvives
<1>1. Init => SurviveInv
  BY TypeInit DEF Init, SurviveInv, Surviving
<1>2. SurviveInv => SessionSurvives
  BY DEF SurviveInv, Surviving, SessionSurvives
<1> QED BY <1>1, <1>2, SurviveStep, PTL DEF Spec

-----------------------------------------------------------------------------
(* The register of tokens *)

Storing == {"saving", "loginSaving"}

\* A token on its way to the file was issued, is on its way for one call, and
\* has not been in the file.
Fresh ==
    /\ saved \subseteq 1..issued
    /\ \A t \in Task : phase[t] \in Storing => local[t].id \in (1..issued) \ saved
    /\ \A t, u \in Task :
          phase[t] \in Storing /\ phase[u] \in Storing /\ local[t].id = local[u].id
             => t = u

RegisterInv == HeldInv /\ Fresh

\* A step keeps it that brings no token on its way and saves none.
LEMMA FreshFrame ==
    ASSUME Fresh, UNCHANGED <<issued, saved>>,
           \A u \in Task : phase'[u] \in Storing =>
              phase[u] = phase'[u] /\ local'[u] = local[u]
    PROVE  Fresh'
<1>1. saved' \subseteq 1..issued'
  BY DEF Fresh
<1>2. ASSUME NEW u \in Task, phase'[u] \in Storing
      PROVE  phase[u] \in Storing /\ local'[u].id = local[u].id
             /\ local'[u].id \in (1..issued') \ saved'
  BY <1>2 DEF Fresh
<1> QED BY <1>1, <1>2 DEF Fresh

\* So does one that issues a token to t.
LEMMA FreshIssued ==
    ASSUME Fresh, issued \in Nat, issued' = issued + 1, saved' = saved, NEW t \in Task,
           local'[t].id = issued + 1,
           \A u \in Task \ {t} : phase'[u] = phase[u] /\ local'[u] = local[u]
    PROVE  Fresh'
<1>1. saved' \subseteq 1..issued' /\ issued + 1 \in 1..issued' /\ issued + 1 \notin saved'
  BY DEF Fresh
<1>2. ASSUME NEW u \in Task \ {t}, phase'[u] \in Storing
      PROVE  /\ phase[u] \in Storing /\ local'[u].id = local[u].id
             /\ local'[u].id \in (1..issued') \ saved'
             /\ local'[u].id # issued + 1
  BY <1>2 DEF Fresh
<1>3. ASSUME NEW u \in Task, phase'[u] \in Storing
      PROVE  local'[u].id \in (1..issued') \ saved'
  BY <1>1, <1>2, <1>3
<1>4. ASSUME NEW u \in Task, NEW v \in Task, phase'[u] \in Storing,
             phase'[v] \in Storing, local'[u].id = local'[v].id
      PROVE  u = v
  <2>1. CASE u # t /\ v # t
    BY <1>2, <1>4, <2>1 DEF Fresh
  <2>2. CASE u = t \/ v = t
    BY <1>2, <1>4, <2>2
  <2> QED BY <2>1, <2>2
<1> QED BY <1>1, <1>3, <1>4 DEF Fresh

\* And one that saves the token of t.
LEMMA FreshSaved ==
    ASSUME Fresh, issued' = issued, NEW t \in Task, phase[t] \in Storing,
           saved' = saved \cup {local[t].id},
           phase'[t] \notin Storing,
           \A u \in Task \ {t} : phase'[u] \in Storing =>
              phase[u] = phase'[u] /\ local'[u] = local[u]
    PROVE  Fresh'
<1>1. saved' \subseteq 1..issued'
  BY DEF Fresh
<1>2. ASSUME NEW u \in Task, phase'[u] \in Storing
      PROVE  /\ phase[u] \in Storing /\ local'[u].id = local[u].id
             /\ local'[u].id \in (1..issued') \ saved'
  BY <1>2 DEF Fresh
<1>3. ASSUME NEW u \in Task, NEW v \in Task, phase'[u] \in Storing,
             phase'[v] \in Storing, local'[u].id = local'[v].id
      PROVE  u = v
  BY <1>2, <1>3 DEF Fresh
<1> QED BY <1>1, <1>2, <1>3 DEF Fresh

\* Every step keeps it.
LEMMA FreshStep == RegisterInv /\ [Next]_vars => Fresh'
<1> SUFFICES ASSUME RegisterInv, [Next]_vars PROVE Fresh'
  OBVIOUS
<1>0. TypeOK /\ Locals /\ Fresh
  BY DEF RegisterInv, HeldInv, TypeInv
<1>f. CASE /\ UNCHANGED <<issued, saved>>
           /\ \A u \in Task : phase'[u] \in Storing =>
                 phase[u] = phase'[u] /\ local'[u] = local[u]
  BY <1>0, <1>f, FreshFrame
<1>1. ASSUME NEW t \in Task, GetToken(t) PROVE Fresh'
  <2>1. CASE Load(t) \/ LogoutWithoutToken(t) \/ JoinRefresh(t) \/ StartRefresh(t) \/ Drop(t)
    BY <1>0, <1>f, <2>1
       DEF Load, LogoutWithoutToken, JoinRefresh, StartRefresh, Drop, server, Goto,
           Hold, TypeOK, Storing
  <2>2. CASE ReturnCached(t)
    BY <1>0, <1>f, <2>2 DEF ReturnCached, server, Produce, AfterGetToken, Storing
  <2>3. CASE Refreshed(t)
    BY <1>0, <2>3, FreshIssued DEF Refreshed, Goto, Hold, TypeOK
  <2>4. CASE RefreshedForLast(t)
    BY <1>0, <2>4, FreshIssued DEF RefreshedForLast, Goto, Hold, TypeOK
  <2>5. CASE AnswerLost(t) \/ Rejected(t)
    BY <1>0, <1>f, <2>5 DEF AnswerLost, Rejected, tasks, server, Goto, TypeOK, Storing
  <2>6. CASE Unavailable(t) \/ SaveFails(t) \/ ClearFaulted(t)
    BY <1>0, <1>f, <2>6
       DEF Unavailable, SaveFails, ClearFaulted, server, Settle, Produce,
           AfterGetToken, Storing
  <2>7. CASE SaveRefreshed(t)
    BY <1>0, <2>7, FreshSaved
       DEF SaveRefreshed, server, Save, Settle, Produce, AwaitedBy, AfterGetToken, Storing
  <2> QED BY <1>1, <2>1, <2>2, <2>3, <2>4, <2>5, <2>6, <2>7 DEF GetToken, Refresh
<1>2. ASSUME NEW t \in Task, Use(t) PROVE Fresh'
  BY <1>0, <1>f, <1>2
     DEF Use, UseOk, UseFault, ServerLogout, server, Goto, Hold, TypeOK, Storing
<1>3. ASSUME NEW t \in Task, Invalidate(t) PROVE Fresh'
  BY <1>0, <1>f, <1>3
     DEF Invalidate, ClearToken, ClearReg, Invalidated, server, Produce,
         AfterGetToken, Goto, TypeOK, Storing
<1>4. ASSUME NEW t \in Task, CreateToken(t) PROVE Fresh'
  <2>1. CASE Login(t) \/ LoadRegistration(t) \/ RegisterClient(t)
             \/ SaveRegistration(t) \/ AuthorizeFault(t)
    BY <1>0, <1>f, <2>1
       DEF Login, LoadRegistration, RegisterClient, SaveRegistration, AuthorizeFault,
           server, Goto, TypeOK, Storing
  <2>2. CASE Authorized(t)
    BY <1>0, <2>2, FreshIssued DEF Authorized, Goto, Hold, TypeOK
  <2>3. CASE ClearRegFaulted(t) \/ LoginFails(t)
    BY <1>0, <1>f, <2>3
       DEF ClearRegFaulted, LoginFails, server, Goto, Hold, TypeOK, Storing
  <2>4. CASE SaveLogin(t)
    BY <1>0, <2>4, FreshSaved DEF SaveLogin, server, Save, Goto, Hold, TypeOK, Storing
  <2> QED BY <1>4, <2>1, <2>2, <2>3, <2>4 DEF CreateToken
<1>5. CASE Expire \/ ExpireRegistration \/ Revoke \/ UNCHANGED vars
  BY <1>f, <1>5 DEF Expire, ExpireRegistration, Revoke, vars, server, tasks
<1>6. ASSUME NEW p \in Proc, Crash(p) PROVE Fresh'
  BY <1>0, <1>f, <1>6 DEF Crash, server, Storing, TypeOK
<1> QED BY <1>1, <1>2, <1>3, <1>4, <1>5, <1>6 DEF Next, Environment

\* The register sees nothing of what task u does.
Silent(u) ==
    \/ phase'[u] = phase[u] /\ local'[u] = local[u]
    \/ {phase[u], phase'[u]} \cap (Asked \cup {"using"}) = {}
    \/ {phase[u], phase'[u]} \subseteq Asked \ {"loaded"}

LEMMA SilentTask ==
    ASSUME NEW u \in Task, Silent(u)
    PROVE  Call'[u] = Call[u] /\ Got'[u] = Got[u]
BY DEF Silent, Asked, Call, Got

\* A step of which the register sees nothing.
LEMMA RegisterStutters ==
    ASSUME UNCHANGED <<tokenFile, saved>>, \A u \in Task : Silent(u)
    PROVE  UNCHANGED <<Stored, saved, Call, Got>>
<1>1. Call' = Call
  BY SilentTask DEF Call
<1>2. Got' = Got
  BY SilentTask DEF Got
<1> QED BY <1>1, <1>2 DEF Stored

\* Calls that end without a token, or are done with theirs.
LEMMA CallsLeave ==
    ASSUME tokenFile' \in {None, tokenFile}, saved' = saved, NEW T \in SUBSET Task,
           \A u \in T : phase'[u] \notin Asked \cup {"using"},
           \A u \in Task \ T : Silent(u)
    PROVE  Register!Next
<1>1. Stored' \in {None, Stored}
  BY DEF Stored
<1>2. Call' = [u \in Task |-> IF u \in T THEN "idle" ELSE Call[u]]
  <2>1. \A u \in Task : Call'[u] = IF u \in T THEN "idle" ELSE Call[u]
    BY SilentTask DEF Call
  <2> QED BY <2>1 DEF Call
<1>3. Got' = [u \in Task |-> IF u \in T THEN None ELSE Got[u]]
  <2>1. \A u \in Task : Got'[u] = IF u \in T THEN None ELSE Got[u]
    BY SilentTask DEF Got, Asked
  <2> QED BY <2>1 DEF Got
<1>4. Register!Leave(T)
  BY <1>1, <1>2, <1>3 DEF Register!Leave
<1> QED BY <1>4 DEF Register!Next

\* A call whose token has expired waits with nothing.
LEMMA CallDiscards ==
    ASSUME UNCHANGED <<tokenFile, saved>>, NEW t \in Task,
           phase[t] \in Asked, phase'[t] \in Asked \ {"loaded"},
           \A u \in Task \ {t} : Silent(u)
    PROVE  Register!Next
<1>1. Stored' = Stored
  BY DEF Stored
<1>2. Call' = Call
  <2>1. \A u \in Task : Call'[u] = Call[u]
    BY SilentTask DEF Call
  <2> QED BY <2>1 DEF Call
<1>3. Got' = [Got EXCEPT ![t] = None]
  <2>1. Got'[t] = None
    BY DEF Got, Asked
  <2>2. \A u \in Task \ {t} : Got'[u] = Got[u]
    BY SilentTask
  <2> QED BY <2>1, <2>2 DEF Got
<1>4. t \in Register!Asking
  BY DEF Register!Asking, Call
<1>5. Register!Discard(t)
  BY <1>1, <1>2, <1>3, <1>4 DEF Register!Discard
<1> QED BY <1>5 DEF Register!Next

\* A token reaches the file, and whoever waits for it comes back with it.
LEMMA TokenIsStored ==
    ASSUME RegisterInv, NEW t \in Task, phase[t] \in Storing, Save(local[t]),
           NEW T \in SUBSET Task,
           \A u \in T : /\ phase[u] \in Asked
                        /\ phase'[u] = "using" /\ local'[u] = local[t],
           \A u \in Task \ T : Silent(u)
    PROVE  Register!Next
<1> DEFINE x == local[t].id
<1>1. local[t] # None /\ local[t] \in Token
  BY DEF RegisterInv, HeldInv, TypeInv, TypeOK, Locals, Storing
<1>2. x \notin saved \cup {None}
  BY <1>1, NoneAssumption DEF RegisterInv, Fresh, Token
<1>3. Stored' = x /\ saved' = saved \cup {x}
  BY <1>1 DEF Save, Stored
<1>4. Call' = [u \in Task |-> IF u \in T THEN "holding" ELSE Call[u]]
  <2>1. \A u \in Task : Call'[u] = IF u \in T THEN "holding" ELSE Call[u]
    BY SilentTask DEF Call, Asked
  <2> QED BY <2>1 DEF Call
<1>5. Got' = [u \in Task |-> IF u \in T THEN x ELSE Got[u]]
  <2>1. \A u \in Task : Got'[u] = IF u \in T THEN x ELSE Got[u]
    BY <1>1, SilentTask DEF Got
  <2> QED BY <2>1 DEF Got
<1>6. T \in SUBSET Register!Asking
  BY DEF Register!Asking, Call
<1>7. Register!Store(Stored', T)
  BY <1>2, <1>3, <1>4, <1>5 DEF Register!Store
<1> QED BY <1>6, <1>7 DEF Register!Next

\* Every step of getToken() is one of the register or unseen.
LEMMA GetTokenOfRegister ==
    ASSUME RegisterInv, NEW t \in Task, GetToken(t)
    PROVE  Register!Next \/ UNCHANGED <<Stored, saved, Call, Got>>
<1>0. TypeOK /\ Locals
  BY DEF RegisterInv, HeldInv, TypeInv
<1>s. CASE UNCHANGED <<tokenFile, saved>> /\ \A u \in Task : Silent(u)
  BY <1>s, RegisterStutters
<1>1. CASE Load(t)
  <2>1. /\ phase[t] = "idle" /\ phase' = [phase EXCEPT ![t] = "loaded"]
        /\ local' = [local EXCEPT ![t] = tokenFile]
        /\ UNCHANGED <<tokenFile, saved>>
    BY <1>1 DEF Load, Goto, Hold, files
  <2>2. \A u \in Task \ {t} : Silent(u)
    BY <1>0, <2>1 DEF Silent, TypeOK
  <2>3. Call' = [Call EXCEPT ![t] = "asking"]
    <3>1. Call'[t] = "asking"
      BY <1>0, <2>1 DEF Call, Asked, TypeOK
    <3> QED BY <2>2, <3>1, SilentTask DEF Call
  <2>4. Got' = [Got EXCEPT ![t] = Stored]
    <3>1. Got'[t] = Stored
      BY <1>0, <2>1 DEF Got, Stored, TypeOK
    <3> QED BY <2>2, <3>1, SilentTask DEF Got
  <2>5. Register!Ask(t)
    BY <2>1, <2>3, <2>4 DEF Register!Ask, Call, Stored, Asked
  <2> QED BY <2>5 DEF Register!Next
<1>2. CASE LogoutWithoutToken(t)
  BY <1>0, <1>s, <1>2 DEF LogoutWithoutToken, Goto, files, Silent, Asked, TypeOK
<1>3. CASE ReturnCached(t)
  <2>1. /\ phase[t] = "loaded" /\ Produce({t}, local[t])
        /\ UNCHANGED <<tokenFile, saved>>
    BY <1>3 DEF ReturnCached, files
  <2>2. \A u \in Task \ {t} : Silent(u)
    BY <2>1 DEF Silent, Produce
  <2>3. CASE local[t] = None
    <3>1. phase'[t] \notin Asked \cup {"using"}
      BY <2>1, <2>3 DEF Produce, AfterGetToken, Asked
    <3>2. /\ \A u \in {t} : phase'[u] \notin Asked \cup {"using"}
          /\ {t} \in SUBSET Task
      BY <3>1
    <3> QED BY <2>1, <2>2, <3>2, CallsLeave
  <2>4. CASE local[t] # None
    <3>1. phase'[t] = "using" /\ local'[t] = local[t]
      BY <2>1, <2>4 DEF Produce, AfterGetToken
    <3>2. Call' = [Call EXCEPT ![t] = "holding"]
      <4>1. Call'[t] = "holding"
        BY <3>1 DEF Call, Asked
      <4> QED BY <2>2, <4>1, SilentTask DEF Call
    <3>3. Got'[t] = Got[t] /\ Got[t] # None
      BY <1>0, <2>1, <2>4, <3>1, NoneAssumption DEF Got, TypeOK, Token
    <3>4. Got' = Got
      BY <2>2, <3>3, SilentTask DEF Got
    <3>5. t \in Register!Asking
      BY <2>1 DEF Register!Asking, Call, Asked
    <3>6. Register!Return(t)
      BY <2>1, <3>2, <3>3, <3>4, <3>5 DEF Register!Return, Stored
    <3> QED BY <3>6 DEF Register!Next
  <2> QED BY <2>3, <2>4
<1>4. CASE JoinRefresh(t) \/ StartRefresh(t) \/ Drop(t)
  <2>1. /\ phase[t] = "loaded"
        /\ \E p \in Asked \ {"loaded"} : phase' = [phase EXCEPT ![t] = p]
        /\ \A u \in Task \ {t} : local'[u] = local[u]
        /\ UNCHANGED <<tokenFile, saved>>
    BY <1>0, <1>4
       DEF JoinRefresh, StartRefresh, Drop, NeedsRefresh, Goto, Hold, files, TypeOK, Asked
  <2>2. phase'[t] \in Asked \ {"loaded"} /\ \A u \in Task \ {t} : Silent(u)
    BY <1>0, <2>1 DEF Silent, TypeOK
  <2>3. phase[t] \in Asked
    BY <2>1 DEF Asked
  <2> QED BY <2>1, <2>2, <2>3, CallDiscards
<1>5. CASE Refreshed(t) \/ RefreshedForLast(t) \/ AnswerLost(t) \/ Rejected(t)
  <2>1. UNCHANGED <<tokenFile, saved>>
    BY <1>5 DEF Refreshed, RefreshedForLast, AnswerLost, Rejected, files
  <2>2. /\ phase[t] = "refreshing" /\ phase'[t] \in {"refreshing", "saving", "faulted"}
        /\ \A u \in Task \ {t} : phase'[u] = phase[u] /\ local'[u] = local[u]
    BY <1>0, <1>5
       DEF Refreshed, RefreshedForLast, AnswerLost, Rejected, tasks, Goto, Hold, TypeOK
  <2> QED BY <1>s, <2>1, <2>2 DEF Silent, Asked
<1>6. CASE Unavailable(t) \/ SaveFails(t) \/ ClearFaulted(t)
  <2>1. Settle(t, None) /\ tokenFile' \in {None, tokenFile} /\ saved' = saved
    BY <1>6 DEF Unavailable, SaveFails, ClearFaulted, ClearTokenFile, files
  <2>2. AwaitedBy(t) \in SUBSET Task
    BY DEF AwaitedBy
  <2>3. \A u \in AwaitedBy(t) : phase'[u] \notin Asked \cup {"using"}
    BY <2>1, <2>2 DEF Settle, Produce, AfterGetToken, Asked
  <2>4. \A u \in Task \ AwaitedBy(t) : Silent(u)
    BY <2>1 DEF Settle, Produce, Silent
  <2> QED BY <2>1, <2>2, <2>3, <2>4, CallsLeave
<1>7. CASE SaveRefreshed(t)
  <2>1. phase[t] = "saving" /\ Save(local[t]) /\ Settle(t, local[t])
    BY <1>7 DEF SaveRefreshed
  <2>2. phase[t] \in Storing /\ local[t] # None
    BY <1>0, <2>1 DEF Storing, Locals
  <2>3. AwaitedBy(t) \in SUBSET Task
    BY DEF AwaitedBy
  <2>4. \A u \in AwaitedBy(t) : /\ phase[u] \in Asked
                                /\ phase'[u] = "using" /\ local'[u] = local[t]
    BY <2>1, <2>2, <2>3 DEF Settle, Produce, AfterGetToken, AwaitedBy, Asked
  <2>5. \A u \in Task \ AwaitedBy(t) : Silent(u)
    BY <2>1 DEF Settle, Produce, Silent
  <2> QED BY <2>1, <2>2, <2>3, <2>4, <2>5, TokenIsStored
<1> QED
  BY <1>1, <1>2, <1>3, <1>4, <1>5, <1>6, <1>7 DEF GetToken, Refresh

\* So is every step of a caller, of invalidate() and of a login.
LEMMA CallsOfRegister ==
    ASSUME RegisterInv, NEW t \in Task, Use(t) \/ Invalidate(t) \/ CreateToken(t)
    PROVE  Register!Next \/ UNCHANGED <<Stored, saved, Call, Got>>
<1>0. TypeOK /\ Locals
  BY DEF RegisterInv, HeldInv, TypeInv
<1>s. CASE UNCHANGED <<tokenFile, saved>> /\ \A u \in Task : Silent(u)
  BY <1>s, RegisterStutters
<1>l. ASSUME UNCHANGED <<tokenFile, saved>>, phase'[t] \notin Asked \cup {"using"},
             \A u \in Task \ {t} : Silent(u)
      PROVE  Register!Next
  <2>1. {t} \in SUBSET Task /\ \A u \in {t} : phase'[u] \notin Asked \cup {"using"}
    BY <1>l
  <2> QED BY <1>l, <2>1, CallsLeave
<1>1. CASE Use(t)
  <2>1. /\ UNCHANGED <<tokenFile, saved>>
        /\ phase'[t] \in {"idle", "invalidating"}
        /\ \A u \in Task \ {t} : phase'[u] = phase[u] /\ local'[u] = local[u]
    BY <1>0, <1>1 DEF Use, UseOk, UseFault, ServerLogout, Goto, Hold, files, TypeOK
  <2> QED BY <1>l, <2>1 DEF Silent, Asked
<1>2. CASE ClearToken(t)
  <2>1. tokenFile' \in {None, tokenFile} /\ UNCHANGED <<phase, local, saved>>
    BY <1>2 DEF ClearToken, ClearTokenFile
  <2>2. {} \in SUBSET Task /\ \A u \in Task \ {} : Silent(u)
    BY <2>1 DEF Silent
  <2> QED BY <2>1, <2>2, CallsLeave
<1>3. CASE ClearReg(t)
  BY <1>3, <1>s DEF ClearReg, Silent
<1>4. CASE Invalidated(t)
  <2>1. UNCHANGED <<tokenFile, saved>>
    BY <1>4 DEF Invalidated, files
  <2>2. CASE phase[t] = "dropping" /\ Produce({t}, None)
    <3>1. /\ phase'[t] \notin Asked \cup {"using"}
          /\ \A u \in Task \ {t} : Silent(u)
      BY <2>2 DEF Produce, AfterGetToken, Asked, Silent
    <3> QED BY <1>l, <2>1, <3>1
  <2>3. CASE phase[t] \in {"invalidating", "renewing"}
    <3>1. /\ phase'[t] \in {"idle", "registering"} /\ local' = local
          /\ \A u \in Task \ {t} : phase'[u] = phase[u]
      BY <1>0, <1>4, <2>3 DEF Invalidated, Goto, TypeOK
    <3> QED BY <1>s, <2>1, <2>3, <3>1 DEF Silent, Asked
  <2> QED BY <1>4, <2>2, <2>3 DEF Invalidated
<1>5. CASE Login(t) \/ LoadRegistration(t) \/ RegisterClient(t) \/ SaveRegistration(t)
           \/ Authorized(t) \/ AuthorizeFault(t) \/ ClearRegFaulted(t) \/ LoginFails(t)
  <2> DEFINE LoginPhase == {"idle", "renewing", "registering", "savingReg",
                            "authorizing", "regFaulted", "loginSaving"}
  <2>1. UNCHANGED <<tokenFile, saved>>
    BY <1>5 DEF Login, LoadRegistration, RegisterClient, SaveRegistration, Authorized,
                AuthorizeFault, ClearRegFaulted, LoginFails, files
  <2>2. /\ phase[t] \in LoginPhase /\ phase'[t] \in LoginPhase
        /\ \A u \in Task \ {t} : phase'[u] = phase[u] /\ local'[u] = local[u]
    BY <1>0, <1>5
       DEF Login, LoadRegistration, RegisterClient, SaveRegistration, Authorized,
           AuthorizeFault, ClearRegFaulted, LoginFails, Goto, Hold, TypeOK
  <2> QED BY <1>s, <2>1, <2>2 DEF Silent, Asked
<1>6. CASE SaveLogin(t)
  <2>1. /\ phase[t] = "loginSaving" /\ Save(local[t]) /\ phase'[t] = "idle"
        /\ \A u \in Task \ {t} : phase'[u] = phase[u] /\ local'[u] = local[u]
    BY <1>0, <1>6 DEF SaveLogin, Goto, Hold, TypeOK
  <2>2. /\ phase[t] \in Storing /\ {} \in SUBSET Task
        /\ \A u \in Task \ {} : Silent(u)
    BY <2>1 DEF Storing, Silent, Asked
  <2>3. \A u \in {} : /\ phase[u] \in Asked
                      /\ phase'[u] = "using" /\ local'[u] = local[t]
    OBVIOUS
  <2> QED BY <2>1, <2>2, <2>3, TokenIsStored
<1> QED
  BY <1>1, <1>2, <1>3, <1>4, <1>5, <1>6 DEF Invalidate, CreateToken

\* And every other step.
LEMMA RegisterStep ==
    ASSUME RegisterInv, [Next]_vars
    PROVE  Register!Next \/ UNCHANGED <<Stored, saved, Call, Got>>
<1>s. CASE UNCHANGED <<tokenFile, saved>> /\ \A u \in Task : Silent(u)
  BY <1>s, RegisterStutters
<1>1. CASE Expire \/ ExpireRegistration \/ Revoke \/ UNCHANGED vars
  BY <1>1, <1>s DEF Expire, ExpireRegistration, Revoke, vars, files, tasks, Silent
<1>2. ASSUME NEW p \in Proc, Crash(p)
      PROVE  Register!Next
  <2> DEFINE here == {t \in Task : Home[t] = p}
  <2>1. /\ tokenFile' = tokenFile /\ saved' = saved
        /\ \A u \in here : phase'[u] = "idle"
        /\ \A u \in Task \ here : phase'[u] = phase[u] /\ local'[u] = local[u]
    BY <1>2 DEF Crash, files
  <2>2. /\ here \in SUBSET Task
        /\ \A u \in here : phase'[u] \notin Asked \cup {"using"}
        /\ \A u \in Task \ here : Silent(u)
    BY <2>1 DEF Asked, Silent
  <2> HIDE DEF here
  <2> QED BY <2>1, <2>2, CallsLeave
<1> QED
  BY <1>1, <1>2, GetTokenOfRegister, CallsOfRegister DEF Next, Environment

\* The processes with their maps and calls, and the files they share, implement
\* one register of tokens (ssoAccessTokenProvider.ts, getToken() and what it
\* calls): whatever fails, is lost or crashes, and although each process
\* refreshes and invalidates on its own, no token is saved twice, so none comes
\* back that was cleared or replaced, and each call comes back with a token that
\* was in the file while it ran, or with none.
THEOREM TokensImplementRegister == Spec => ImplementsRegister
<1>1. Init => RegisterInv /\ Register!Init
  <2> SUFFICES ASSUME Init PROVE RegisterInv /\ Register!Init
    OBVIOUS
  <2>1. RegisterInv
    BY TypeInit DEF Init, RegisterInv, HeldInv, Held, Fresh, Storing
  <2>2. Register!Init
    BY DEF Init, Register!Init, Stored, Call, Got, Asked
  <2> QED BY <2>1, <2>2
<1>2. RegisterInv /\ [Next]_vars
         => RegisterInv' /\ [Register!Next]_<<Stored, saved, Call, Got>>
  BY TypeStep, HeldStep, FreshStep, RegisterStep DEF RegisterInv, HeldInv
<1> QED BY <1>1, <1>2, PTL DEF Spec, ImplementsRegister, Register!Spec

=============================================================================
