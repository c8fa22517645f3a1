------------------------ MODULE AuthConnections_proofs ------------------------
(***************************************************************************)
(* Proofs about AuthConnections.  The updates that the memento has not     *)
(* answered yet are the key: of two writes of one state to a connection    *)
(* there is one of another state between (Alternating), so between two     *)
(* prompts for it there is one that takes the first prompt back (Answered- *)
(* First), and what is stored is what the last of them writes (LastWins).  *)
(***************************************************************************)
EXTENDS AuthConnections, TLAPS

-----------------------------------------------------------------------------
(* The queue of updates *)

Elem(s, x)   == \E k \in 1 .. Len(s) : s[k] = x
Bef(s, x, y) == \E j, k \in 1 .. Len(s) : j < k /\ s[j] = x /\ s[k] = y
Once(s)      == \A j, k \in 1 .. Len(s) : s[j] = s[k] => j = k

InQueue(c) == phase[c] \in {"writing", "updating"}
Writing(c) == phase[c] = "writing"

QueueInv ==
    /\ Once(writes)
    /\ \A c \in Call : InQueue(c) <=> Elem(writes, c)

\* An id that no profile was ever stored under.
Creating(c) == phase[c] = "creating"
Virgin(i) == i \in fresh \/ \E c \in Call : Creating(c) /\ who[c] = i

VirginInv ==
    /\ \A i \in Conn : Virgin(i) =>
          /\ ~Exists(i)
          /\ ~IsActive(i)
          /\ \A c \in Call : who[c] = i => ~InQueue(c) /\ phase[c] # "prompt"
    /\ \A c \in Call : Creating(c) => who[c] \notin fresh
    /\ \A c, d \in Call : Creating(c) /\ Creating(d) /\ who[c] = who[d] => c = d

LastWins ==
    \A c \in Call : InQueue(c) /\ Exists(who[c]) /\ goal[c] # profile[who[c]] =>
        \E e \in Call : /\ Writing(e) /\ who[e] = who[c] /\ goal[e] = profile[who[c]]
                        /\ Bef(writes, c, e)

Alternating ==
    \A c, d \in Call :
        /\ Writing(c) /\ Writing(d) /\ who[c] = who[d] /\ goal[c] = goal[d]
        /\ Bef(writes, c, d)
        => \E e \in Call : /\ Writing(e) /\ who[e] = who[c] /\ goal[e] # goal[c]
                           /\ Bef(writes, c, e) /\ Bef(writes, e, d)

-----------------------------------------------------------------------------
(* The prompts *)

\* Where a call goes on after a write.
After == {"done", "prompt", "entering", "using", "loggedOut", "deleting"}

ThenInv ==
    \A c \in Call : /\ then[c] \in After
                    /\ phase[c] = "leaving" => then[c] \in {"loggedOut", "deleting"}

WillPrompt(c) == Writing(c) /\ then[c] = "prompt"
Prompting(c)  == phase[c] = "prompt"

PromptsInvalid == \A c \in Call : WillPrompt(c) => goal[c] = "invalid"
Timed          == \A c \in Call : Prompting(c) => timer[who[c]] = c

AnsweredFirst ==
    \A c, d \in Call : WillPrompt(c) /\ Prompting(d) /\ who[d] = who[c] =>
        \E e \in Call : /\ Writing(e) /\ who[e] = who[c] /\ goal[e] # "invalid"
                        /\ Bef(writes, e, c)

TakenBack ==
    \A d \in Call : Prompting(d) /\ profile[who[d]] \in {"valid", "unauthenticated"} =>
        \E e \in Call : Writing(e) /\ who[e] = who[d] /\ goal[e] # "invalid"

QInv == QueueInv /\ VirginInv /\ LastWins /\ Alternating /\ PromptsInvalid /\ Timed
        /\ AnsweredFirst /\ TakenBack

-----------------------------------------------------------------------------
(* The shared logins, the active connection *)

LoginOwned == \A c \in Call : phase[c] \in {"login", "granted"} => authing[who[c]] = c

LoggingOut(c) ==
    \/ phase[c] = "clearing"
    \/ phase[c] = "leaving" /\ then[c] = "loggedOut" /\ IsActive(who[c])
    \/ phase[c] = "writing" /\ then[c] = "loggedOut"
    \/ phase[c] = "loggedOut"

ActiveStored ==
    active # None => Exists(active.id) \/ \E c \in Call : phase[c] = "evicting"

ActiveUpdated ==
    active # None /\ Exists(active.id) =>
        \/ profile[active.id] = active.state
        \/ \E c \in Call : /\ Writing(c) /\ who[c] = active.id
                           /\ goal[c] = profile[active.id]

ActiveCurrent ==
    active # None /\ Exists(active.id) =>
        current = active.id \/ \E c \in Call : LoggingOut(c)

ActiveInv == ActiveStored /\ ActiveUpdated /\ ActiveCurrent

\* With patience: one command at a time, and the logout's connection stays active.
OpOf ==
    \A c \in Call :
        /\ \/ phase[c] = "using"
           \/ phase[c] = "writing" /\ then[c] = "using"
           => op[c] = "use"
        /\ \/ phase[c] \in {"clearing", "leaving", "loggedOut", "deleting"}
           \/ phase[c] = "writing" /\ then[c] \in {"loggedOut", "deleting"}
           => op[c] \in {"logout", "delete"}

OneCommand ==
    \A c, d \in Call : Working(c) /\ Working(d) /\ op[c] \in Commands /\ op[d] \in Commands
                       => c = d

OwnInv ==
    \A c \in Call :
        /\ phase[c] = "clearing" /\ active # None => active.id = id[c]
        /\ phase[c] = "leaving" => who[c] = id[c]

-----------------------------------------------------------------------------
(* What adding to the queue and taking from it does to its order *)

LEMMA OfAppend ==
    ASSUME NEW s \in Seq(Call), NEW c \in Call
    PROVE  /\ \A x : Elem(Append(s, c), x) <=> Elem(s, x) \/ x = c
           /\ \A x, y : Bef(Append(s, c), x, y) <=> Bef(s, x, y) \/ (Elem(s, x) /\ y = c)
           /\ Once(s) /\ ~Elem(s, c) => Once(Append(s, c))
<1> DEFINE t == Append(s, c)
<1>1. /\ Len(s) \in Nat
      /\ t \in Seq(Call)
      /\ Len(t) = Len(s) + 1
      /\ t[Len(s) + 1] = c
      /\ \A k \in 1 .. Len(s) : t[k] = s[k]
  OBVIOUS
<1> HIDE DEF t
<1>2. \A k : k \in 1 .. Len(t) <=> (k \in 1 .. Len(s) \/ k = Len(s) + 1)
  BY <1>1
<1>3. \A x : Elem(t, x) <=> Elem(s, x) \/ x = c
  BY <1>1, <1>2 DEF Elem
<1>4. \A j, k \in 1 .. Len(t) : j < k => j \in 1 .. Len(s)
  BY <1>1, <1>2
<1>5. \A j \in 1 .. Len(s) : j < Len(s) + 1
  BY <1>1
<1>6. ASSUME NEW x, NEW y
      PROVE  Bef(t, x, y) <=> Bef(s, x, y) \/ (Elem(s, x) /\ y = c)
  <2>1. Bef(t, x, y) => Bef(s, x, y) \/ (Elem(s, x) /\ y = c)
    BY <1>1, <1>2, <1>4 DEF Bef, Elem
  <2>2. Bef(s, x, y) => Bef(t, x, y)
    BY <1>1, <1>2 DEF Bef
  <2>3. Elem(s, x) /\ y = c => Bef(t, x, y)
    <3> SUFFICES ASSUME Elem(s, x), y = c
                 PROVE  Bef(t, x, y)
      OBVIOUS
    <3>1. PICK j \in 1 .. Len(s) : s[j] = x
      BY DEF Elem
    <3>2. j \in 1 .. Len(t) /\ Len(s) + 1 \in 1 .. Len(t) /\ j < Len(s) + 1
      BY <1>2, <1>5
    <3> QED BY <1>1, <3>1, <3>2 DEF Bef
  <2> QED BY <2>1, <2>2, <2>3
<1>7. Once(s) /\ ~Elem(s, c) => Once(t)
  BY <1>1, <1>2 DEF Once, Elem
<1> QED BY <1>3, <1>6, <1>7 DEF t

LEMMA OfTail ==
    ASSUME NEW s \in Seq(Call), s # <<>>, Once(s)
    PROVE  /\ Head(s) \in Call /\ Tail(s) \in Seq(Call) /\ Elem(s, Head(s))
           /\ Once(Tail(s))
           /\ \A x : Elem(Tail(s), x) <=> Elem(s, x) /\ x # Head(s)
           /\ \A x, y : Bef(Tail(s), x, y) <=> Bef(s, x, y) /\ x # Head(s)
           /\ \A x : ~Bef(s, x, Head(s))
           /\ \A x : Elem(s, x) /\ x # Head(s) => Bef(s, Head(s), x)
<1> DEFINE t == Tail(s)
<1>1. /\ Len(s) \in Nat \ {0}
      /\ t \in Seq(Call)
      /\ Len(t) = Len(s) - 1
      /\ Head(s) = s[1]
      /\ s[1] \in Call
      /\ \A k \in 1 .. Len(t) : t[k] = s[k + 1]
  OBVIOUS
<1> HIDE DEF t
<1>2. 1 \in 1 .. Len(s)
  BY <1>1
<1>3. \A k \in 1 .. Len(t) : k + 1 \in 1 .. Len(s) /\ k + 1 # 1
  BY <1>1
<1>4. \A k \in 1 .. Len(s) : k # 1 => k - 1 \in 1 .. Len(t) /\ t[k - 1] = s[k]
  BY <1>1
<1>5. \A k \in 1 .. Len(s) : s[k] = Head(s) <=> k = 1
  BY <1>1, <1>2 DEF Once
<1>6. \A x : Elem(t, x) <=> Elem(s, x) /\ x # Head(s)
  <2> TAKE x
  <2>1. Elem(t, x) => Elem(s, x) /\ x # Head(s)
    BY <1>1, <1>3, <1>5 DEF Elem
  <2>2. Elem(s, x) /\ x # Head(s) => Elem(t, x)
    BY <1>1, <1>4 DEF Elem
  <2> QED BY <2>1, <2>2
<1>7. ASSUME NEW x, NEW y
      PROVE  Bef(t, x, y) <=> Bef(s, x, y) /\ x # Head(s)
  <2>1. Bef(t, x, y) => Bef(s, x, y) /\ x # Head(s)
    <3> SUFFICES ASSUME Bef(t, x, y) PROVE Bef(s, x, y) /\ x # Head(s)
      OBVIOUS
    <3>1. PICK j, k \in 1 .. Len(t) : j < k /\ t[j] = x /\ t[k] = y
      BY DEF Bef
    <3>2. s[j + 1] = x /\ s[k + 1] = y /\ j + 1 < k + 1
      BY <1>1, <3>1
    <3> QED BY <1>3, <1>5, <3>2 DEF Bef
  <2>2. Bef(s, x, y) /\ x # Head(s) => Bef(t, x, y)
    <3> SUFFICES ASSUME Bef(s, x, y), x # Head(s) PROVE Bef(t, x, y)
      OBVIOUS
    <3>1. PICK j, k \in 1 .. Len(s) : j < k /\ s[j] = x /\ s[k] = y
      BY DEF Bef
    <3>2. j # 1 /\ k # 1 /\ j - 1 < k - 1
      BY <1>1, <1>5, <3>1
    <3>3. /\ j - 1 \in 1 .. Len(t) /\ t[j - 1] = x
          /\ k - 1 \in 1 .. Len(t) /\ t[k - 1] = y
      BY <1>4, <3>1, <3>2
    <3> QED BY <3>2, <3>3 DEF Bef
  <2> QED BY <2>1, <2>2
<1>8. \A x : ~Bef(s, x, Head(s))
  BY <1>1, <1>5 DEF Bef
<1>10. \A x : Elem(s, x) /\ x # Head(s) => Bef(s, Head(s), x)
  BY <1>1, <1>2, <1>5 DEF Bef, Elem
<1>9. Once(t)
  <2> SUFFICES ASSUME NEW j \in 1 .. Len(t), NEW k \in 1 .. Len(t), t[j] = t[k]
               PROVE  j = k
    BY DEF Once
  <2>1. j + 1 = k + 1
    BY <1>1, <1>3 DEF Once
  <2> QED BY <1>1, <2>1
<1> QED BY <1>1, <1>2, <1>6, <1>7, <1>8, <1>9, <1>10 DEF t, Elem

-----------------------------------------------------------------------------
(* Types *)

LEMMA AnyConnExists == AnyConn \in Conn
BY ConnAssumption DEF AnyConn

LEMMA NoneIsNone ==
    /\ None \notin Conn /\ None \notin Call /\ None \notin State /\ None \notin Stateful
BY NoneAssumption

\* What updateConnectionState() leaves, whatever it is called with.
LEMMA UpdateTypes ==
    ASSUME TypeOK, NEW c \in Call, NEW s \in State, NEW p \in Phase,
           ThrowNotFound(c) \/ UpdateConnectionState(c, s, p)
    PROVE  /\ profile' \in [Conn -> State \cup {None}]
           /\ writes' \in Seq(Call)
           /\ phase' \in [Call -> Phase]
           /\ goal' \in [Call -> State]
           /\ then' \in [Call -> Phase]
<1>1. CASE ThrowNotFound(c)
  BY <1>1 DEF TypeOK, ThrowNotFound, Goto, Phase
<1>2. CASE UpdateConnectionState(c, s, p)
  <2>1. CASE profile[who[c]] = s
    BY <1>2, <2>1 DEF TypeOK, UpdateConnectionState, Goto
  <2>2. CASE profile[who[c]] # s
    <3>1. "writing" \in Phase
      BY DEF Phase
    <3>2. /\ profile' = [profile EXCEPT ![who[c]] = s]
          /\ writes' = Append(writes, c)
          /\ goal' = [goal EXCEPT ![c] = s]
          /\ then' = [then EXCEPT ![c] = p]
          /\ phase' = [phase EXCEPT ![c] = "writing"]
      BY <1>2, <2>2 DEF UpdateConnectionState, Goto
    <3> QED BY <3>1, <3>2 DEF TypeOK
  <2> QED BY <2>1, <2>2
<1> QED BY <1>1, <1>2

LEMMA TypeStep == TypeOK /\ [Next]_vars => TypeOK'
<1> SUFFICES ASSUME TypeOK, [Next]_vars
             PROVE  TypeOK'
  OBVIOUS
<1> USE AnyConnExists
<1>1. ASSUME NEW c \in Call, Answered(c)
      PROVE  TypeOK'
  BY <1>1 DEF Answered, TypeOK, Goto, Phase, State, store, maps
<1>2. ASSUME NEW c \in Call, Recoverable(c)
      PROVE  TypeOK'
  BY <1>2 DEF Recoverable, TypeOK, Goto, Phase, State, store, maps
<1>3. ASSUME NEW c \in Call, HandleInvalidCredentials(c)
      PROVE  TypeOK'
  <2>1. CASE ThrowNotFound(c)
    BY <1>3, <2>1, UpdateTypes DEF HandleInvalidCredentials, TypeOK, State, Phase, maps
  <2>2. CASE UpdateConnectionState(c, "invalid", AfterInvalid(profile[who[c]], who[c]))
    <3>1. profile[who[c]] \in State
      BY <2>2 DEF UpdateConnectionState, Exists, TypeOK
    <3>2. AfterInvalid(profile[who[c]], who[c]) \in Phase
      BY <3>1 DEF AfterInvalid, State, Phase
    <3> QED BY <1>3, <2>2, <3>2, UpdateTypes DEF HandleInvalidCredentials, TypeOK, State, maps
  <2> QED BY <1>3, <2>1, <2>2 DEF HandleInvalidCredentials
<1>4. ASSUME NEW c \in Call, Decline(c)
      PROVE  TypeOK'
  BY <1>4 DEF Decline, TypeOK, Goto, Phase, State, store, maps
<1>5. ASSUME NEW c \in Call, Enter(c)
      PROVE  TypeOK'
  BY ZenonT(60), <1>5 DEF Enter, Authenticate, Exists, TypeOK, Goto, Phase, State, store, maps
<1>6. ASSUME NEW c \in Call, Written(c)
      PROVE  TypeOK'
  BY <1>6 DEF Written, ActiveWith, Stateful, Dismissed, TypeOK, Goto, Phase, State,
          store, maps
<1>7. ASSUME NEW c \in Call, LoggedIn(c)
      PROVE  TypeOK'
  BY <1>7 DEF LoggedIn, TypeOK, Goto, Phase, State, store, maps
<1>8. ASSUME NEW c \in Call, MarkValid(c)
      PROVE  TypeOK'
  <2>1. "valid" \in State /\ "done" \in Phase
    BY DEF TypeOK, State, Phase, AfterCheck
  <2>2. ThrowNotFound(c) \/ UpdateConnectionState(c, "valid", "done")
    BY <1>8 DEF MarkValid
  <2> QED BY <1>8, <2>1, <2>2, UpdateTypes DEF MarkValid, TypeOK, maps
<1>9. ASSUME NEW c \in Call, LoginFails(c)
      PROVE  TypeOK'
  <2>1. goal[c] \in State /\ "done" \in Phase
    BY DEF TypeOK, State, Phase, AfterCheck
  <2>2. ThrowNotFound(c) \/ UpdateConnectionState(c, goal[c], "done")
    BY <1>9 DEF LoginFails
  <2> QED BY <1>9, <2>1, <2>2, UpdateTypes DEF LoginFails, TypeOK, maps
<1>10. ASSUME NEW c \in Call, LoginUnreachable(c)
      PROVE  TypeOK'
  BY <1>10 DEF LoginUnreachable, TypeOK, Goto, Phase, State, store, maps
<1>11. ASSUME NEW c \in Call, Validated(c)
      PROVE  TypeOK'
  <2>1. "valid" \in State /\ AfterCheck(c) \in Phase
    BY DEF TypeOK, State, Phase, AfterCheck
  <2>2. ThrowNotFound(c) \/ UpdateConnectionState(c, "valid", AfterCheck(c))
    BY <1>11 DEF Validated
  <2> QED BY <1>11, <2>1, <2>2, UpdateTypes DEF Validated, TypeOK, maps
<1>12. ASSUME NEW c \in Call, Invalidated(c)
      PROVE  TypeOK'
  <2>1. "invalid" \in State /\ AfterCheck(c) \in Phase
    BY DEF TypeOK, State, Phase, AfterCheck
  <2>2. ThrowNotFound(c) \/ UpdateConnectionState(c, "invalid", AfterCheck(c))
    BY <1>12 DEF Invalidated
  <2> QED BY <1>12, <2>1, <2>2, UpdateTypes DEF Invalidated, TypeOK, maps
<1>13. ASSUME NEW c \in Call, UseProfile(c)
      PROVE  TypeOK'
  BY <1>13 DEF UseProfile, Stateful, Exists, TypeOK, Goto, Phase, State, store,
          maps
<1>14. ASSUME NEW c \in Call, InvalidateActive(c)
      PROVE  TypeOK'
  BY <1>14 DEF InvalidateActive, TypeOK, Goto, Phase, State, Commands, Stateful,
          store, maps
<1>15. ASSUME NEW c \in Call, Invalidate(c)
      PROVE  TypeOK'
  <2>1. "invalid" \in State /\ then[c] \in Phase
    BY DEF TypeOK, State, Phase, AfterCheck
  <2>2. ThrowNotFound(c) \/ UpdateConnectionState(c, "invalid", then[c])
    BY <1>15 DEF Invalidate
  <2> QED BY <1>15, <2>1, <2>2, UpdateTypes DEF Invalidate, TypeOK, maps
<1>16. ASSUME NEW c \in Call, LoggedOut(c)
      PROVE  TypeOK'
  BY <1>16 DEF LoggedOut, TypeOK, Goto, Phase, State, store, maps
<1>17. ASSUME NEW c \in Call, DeleteProfile(c)
      PROVE  TypeOK'
  BY <1>17 DEF DeleteProfile, TypeOK, Goto, Phase, State, store, maps
<1>18. ASSUME NEW c \in Call, ClearStaleLinkedIamConnections(c)
      PROVE  TypeOK'
  BY <1>18 DEF ClearStaleLinkedIamConnections, TypeOK, Goto, Phase, State, store,
          maps
<1>19. ASSUME NEW c \in Call, AddProfile(c)
      PROVE  TypeOK'
  BY <1>19 DEF AddProfile, TypeOK, Goto, Phase, State, store, maps
<1>20. ASSUME NEW c \in Call, CreateFails(c)
      PROVE  TypeOK'
  BY <1>20 DEF CreateFails, TypeOK, Goto, Phase, State, store, maps
<1>21. ASSUME NEW c \in Call, MarkCreated(c)
      PROVE  TypeOK'
  <2>1. "valid" \in State /\ "done" \in Phase
    BY DEF TypeOK, State, Phase, AfterCheck
  <2>2. ThrowNotFound(c) \/ UpdateConnectionState(c, "valid", "done")
    BY <1>21 DEF MarkCreated
  <2> QED BY <1>21, <2>1, <2>2, UpdateTypes DEF MarkCreated, TypeOK, maps
<1>22. ASSUME NEW c \in Call, Updated(c)
      PROVE  TypeOK'
  BY <1>22 DEF Updated, ActiveWith, Stateful, TypeOK, Goto, Phase, State, store,
          maps
<1>23. ASSUME NEW c \in Call, Finish(c)
      PROVE  TypeOK'
  BY <1>23 DEF Finish, Followers, TypeOK, Goto, Phase, State, Background, store,
          maps
<1>24. ASSUME NEW c \in Call, Agree(c)
      PROVE  TypeOK'
  BY <1>24 DEF Agree, TypeOK, Goto, Phase, State, store, maps
<1>25. ASSUME NEW c \in Call, Logout(c)
      PROVE  TypeOK'
  BY <1>25 DEF Logout, Start, TypeOK, Goto, Phase, State, Commands, Stateful, store,
          maps
<1>26. ASSUME NEW c \in Call, NEW i \in Conn, GetToken(c, i)
      PROVE  TypeOK'
  BY <1>26 DEF GetToken, Start, TypeOK, Goto, Phase, State, Commands, Background,
          store, maps
<1>27. ASSUME NEW c \in Call, NEW i \in Conn, GetSsoAccessToken(c, i)
      PROVE  TypeOK'
  BY <1>27 DEF GetSsoAccessToken, Start, Exists, TypeOK, Goto, Phase, State,
          Commands, Background, store, maps
<1>28. ASSUME NEW c \in Call, NEW i \in Conn, RefreshConnectionState(c, i)
      PROVE  TypeOK'
  BY <1>28 DEF RefreshConnectionState, Start, Check, Exists, TypeOK, Goto, Phase,
          State, Commands, Background, store, maps
<1>29. ASSUME NEW c \in Call, NEW i \in Conn, UseConnection(c, i)
      PROVE  TypeOK'
  BY <1>29 DEF UseConnection, Start, Check, Exists, TypeOK, Goto, Phase, State,
          Commands, Background, store, maps
<1>30. ASSUME NEW c \in Call, NEW i \in Conn, DeleteConnection(c, i)
      PROVE  TypeOK'
  BY <1>30 DEF DeleteConnection, Start, IsActive, TypeOK, Goto, Phase, State,
          Commands, Background, store, maps
<1>31. ASSUME NEW c \in Call, NEW i \in Conn, ForgetConnection(c, i)
      PROVE  TypeOK'
  BY <1>31 DEF ForgetConnection, Start, TypeOK, Goto, Phase, State, Commands,
          Background, store, maps
<1>32. ASSUME NEW c \in Call, NEW i \in Conn, CreateConnection(c, i)
      PROVE  TypeOK'
  BY <1>32 DEF CreateConnection, Start, TypeOK, Goto, Phase, State, Commands,
          Background, store, maps
<1>33. ASSUME NEW c \in Call, NEW i \in Conn, UpdateConnection(c, i)
      PROVE  TypeOK'
  BY <1>33 DEF UpdateConnection, Start, Exists, TypeOK, Goto, Phase, State,
          Commands, Background, store, maps
<1>34. ASSUME NEW c \in Call, NEW i \in Conn, NEW invalidate \in BOOLEAN,
             Reauthenticate(c, i, invalidate)
      PROVE  TypeOK'
  BY SMTT(30), <1>34 DEF Reauthenticate, Authenticate, Start, Exists, TypeOK, Goto, Phase,
          State, Commands, store, maps
<1>35. CASE UNCHANGED vars
  BY <1>35 DEF TypeOK, vars, store, maps, calls
<1> QED
  BY <1>1, <1>2, <1>3, <1>4, <1>5, <1>6, <1>7, <1>8, <1>9, <1>10, <1>11,
     <1>12, <1>13, <1>14, <1>15, <1>16, <1>17, <1>18, <1>19, <1>20, <1>21,
     <1>22, <1>23, <1>24, <1>25, <1>26, <1>27, <1>28, <1>29, <1>30, <1>31,
     <1>32, <1>33, <1>34, <1>35 DEF Next, Step, Command

\* The state keeps its types: in particular what becomes of #activeConnection is a
\* stored profile with one of the three states.
THEOREM TypeCorrect == Spec => []TypeOK
<1>1. Init => TypeOK
  BY AnyConnExists DEF Init, TypeOK, State, Phase, Background
<1>2. QED
  BY <1>1, TypeStep, PTL DEF Spec

-----------------------------------------------------------------------------
(* The shared logins *)

LEMMA AfterInvalidIs ==
    ASSUME NEW previous \in State, NEW i \in Conn
    PROVE  /\ AfterInvalid(previous, i) \in {"done", "prompt", "entering"}
           /\ AfterInvalid(previous, i) = "prompt" => previous = "valid"
BY DEF AfterInvalid, State

\* What the others see of the step that follows a write.
LEMMA WrittenMoves ==
    ASSUME TypeOK, NEW c \in Call, Written(c), NEW d \in Call
    PROVE  /\ d = c => phase'[d] = then[c]
           /\ d # c => phase'[d] = phase[d] \/ (phase[d] = "prompt" /\ phase'[d] = "done")
<1>1. phase'[d] = IF d = c THEN then[c]
                  ELSE IF d \in (IF goal[c] = "invalid" THEN {} ELSE Dismissed(who[c]))
                  THEN "done" ELSE phase[d]
  BY DEF Written
<1>2. d \in Dismissed(who[c]) => phase[d] = "prompt"
  BY DEF Dismissed
<1> QED BY <1>1, <1>2

LEMMA ThenStep ==
    TypeOK /\ ThenInv /\ [Next]_vars => ThenInv'
<1> SUFFICES ASSUME TypeOK, ThenInv, [Next]_vars
             PROVE  ThenInv'
  OBVIOUS
<1> USE AnyConnExists
<1>1. ASSUME NEW c \in Call, Answered(c)
      PROVE  ThenInv'
  BY <1>1 DEF Answered, Goto, TypeOK, store, maps, ThenInv, After
<1>2. ASSUME NEW c \in Call, Recoverable(c)
      PROVE  ThenInv'
  BY <1>2 DEF Recoverable, Goto, TypeOK, store, maps, ThenInv, After
<1>3. ASSUME NEW c \in Call, HandleInvalidCredentials(c)
      PROVE  ThenInv'
  <2>1. /\ phase[c] = "asking"
        /\ ThrowNotFound(c) \/ UpdateConnectionState(c, "invalid", AfterInvalid(profile[who[c]], who[c]))
    BY <1>3 DEF HandleInvalidCredentials
  <2>2. Exists(who[c]) => AfterInvalid(profile[who[c]], who[c]) \in {"done", "prompt", "entering"}
    BY AfterInvalidIs DEF Exists, TypeOK
  <2> QED BY <2>1, <2>2 DEF ThrowNotFound, UpdateConnectionState, Goto, TypeOK, ThenInv, After
<1>4. ASSUME NEW c \in Call, Decline(c)
      PROVE  ThenInv'
  BY <1>4 DEF Decline, Goto, TypeOK, store, maps, ThenInv, After
<1>5. ASSUME NEW c \in Call, Enter(c)
      PROVE  ThenInv'
  BY <1>5 DEF Enter, Authenticate, Exists, Goto, TypeOK, store, maps, ThenInv,
          After
<1>6. ASSUME NEW c \in Call, Written(c)
      PROVE  ThenInv'
  <2>1. /\ then' = [then EXCEPT ![c] = "done"]
        /\ phase'[c] = then[c]
    BY <1>6, WrittenMoves DEF Written
  <2>2. \A d \in Call \ {c} : phase'[d] = "leaving" => phase[d] = "leaving"
    BY <1>6, WrittenMoves
  <2>3. \A d \in Call : then'[d] = IF d = c THEN "done" ELSE then[d]
    BY <2>1 DEF TypeOK
  <2> QED BY <2>1, <2>2, <2>3 DEF ThenInv, After
<1>7. ASSUME NEW c \in Call, LoggedIn(c)
      PROVE  ThenInv'
  BY <1>7 DEF LoggedIn, Goto, TypeOK, store, maps, ThenInv, After
<1>8. ASSUME NEW c \in Call, MarkValid(c)
      PROVE  ThenInv'
  BY <1>8 DEF MarkValid, ThrowNotFound, UpdateConnectionState, Goto, TypeOK,
          store, maps, ThenInv, After
<1>9. ASSUME NEW c \in Call, LoginFails(c)
      PROVE  ThenInv'
  BY <1>9 DEF LoginFails, ThrowNotFound, UpdateConnectionState, Exists, Goto,
          TypeOK, store, maps, ThenInv, After
<1>10. ASSUME NEW c \in Call, LoginUnreachable(c)
      PROVE  ThenInv'
  BY <1>10 DEF LoginUnreachable, Goto, TypeOK, store, maps, ThenInv, After
<1>11. ASSUME NEW c \in Call, Validated(c)
      PROVE  ThenInv'
  BY <1>11 DEF Validated, ThrowNotFound, UpdateConnectionState, AfterCheck, Goto,
          TypeOK, store, maps, ThenInv, After
<1>12. ASSUME NEW c \in Call, Invalidated(c)
      PROVE  ThenInv'
  BY <1>12 DEF Invalidated, ThrowNotFound, UpdateConnectionState, AfterCheck,
          Goto, TypeOK, store, maps, ThenInv, After
<1>13. ASSUME NEW c \in Call, UseProfile(c)
      PROVE  ThenInv'
  BY <1>13 DEF UseProfile, Stateful, Exists, Goto, TypeOK, store, maps, ThenInv,
          After
<1>14. ASSUME NEW c \in Call, InvalidateActive(c)
      PROVE  ThenInv'
  BY <1>14 DEF InvalidateActive, Goto, TypeOK, store, maps, ThenInv, After
<1>15. ASSUME NEW c \in Call, Invalidate(c)
      PROVE  ThenInv'
  BY <1>15 DEF Invalidate, ThrowNotFound, UpdateConnectionState, Goto, TypeOK,
          store, maps, ThenInv, After
<1>16. ASSUME NEW c \in Call, LoggedOut(c)
      PROVE  ThenInv'
  BY <1>16 DEF LoggedOut, Goto, TypeOK, store, maps, ThenInv, After
<1>17. ASSUME NEW c \in Call, DeleteProfile(c)
      PROVE  ThenInv'
  BY <1>17 DEF DeleteProfile, Goto, TypeOK, store, maps, ThenInv, After
<1>18. ASSUME NEW c \in Call, ClearStaleLinkedIamConnections(c)
      PROVE  ThenInv'
  BY <1>18 DEF ClearStaleLinkedIamConnections, Goto, TypeOK, store, maps,
          ThenInv, After
<1>19. ASSUME NEW c \in Call, AddProfile(c)
      PROVE  ThenInv'
  BY <1>19 DEF AddProfile, Goto, TypeOK, store, maps, ThenInv, After
<1>20. ASSUME NEW c \in Call, CreateFails(c)
      PROVE  ThenInv'
  BY <1>20 DEF CreateFails, Goto, TypeOK, store, maps, ThenInv, After
<1>21. ASSUME NEW c \in Call, MarkCreated(c)
      PROVE  ThenInv'
  BY <1>21 DEF MarkCreated, ThrowNotFound, UpdateConnectionState, Goto, TypeOK,
          store, maps, ThenInv, After
<1>22. ASSUME NEW c \in Call, Updated(c)
      PROVE  ThenInv'
  BY <1>22 DEF Updated, ActiveWith, Stateful, Goto, TypeOK, store, maps, ThenInv,
          After
<1>23. ASSUME NEW c \in Call, Finish(c)
      PROVE  ThenInv'
  BY <1>23 DEF Finish, Followers, Goto, TypeOK, store, maps, ThenInv, After
<1>24. ASSUME NEW c \in Call, Agree(c)
      PROVE  ThenInv'
  BY <1>24 DEF Agree, Goto, TypeOK, store, maps, ThenInv, After
<1>25. ASSUME NEW c \in Call, Logout(c)
      PROVE  ThenInv'
  BY <1>25 DEF Logout, Start, Goto, TypeOK, store, maps, ThenInv, After
<1>26. ASSUME NEW c \in Call, NEW i \in Conn, GetToken(c, i)
      PROVE  ThenInv'
  BY <1>26 DEF GetToken, Start, Goto, TypeOK, store, maps, ThenInv, After
<1>27. ASSUME NEW c \in Call, NEW i \in Conn, GetSsoAccessToken(c, i)
      PROVE  ThenInv'
  BY <1>27 DEF GetSsoAccessToken, Start, Exists, Goto, TypeOK, store, maps,
          ThenInv, After
<1>28. ASSUME NEW c \in Call, NEW i \in Conn, RefreshConnectionState(c, i)
      PROVE  ThenInv'
  BY <1>28 DEF RefreshConnectionState, Start, Check, Exists, Goto, TypeOK, store,
          maps, ThenInv, After
<1>29. ASSUME NEW c \in Call, NEW i \in Conn, UseConnection(c, i)
      PROVE  ThenInv'
  BY <1>29 DEF UseConnection, Start, Check, Exists, Goto, TypeOK, store, maps,
          ThenInv, After
<1>30. ASSUME NEW c \in Call, NEW i \in Conn, DeleteConnection(c, i)
      PROVE  ThenInv'
  BY <1>30 DEF DeleteConnection, Start, IsActive, Goto, TypeOK, store, maps,
          ThenInv, After
<1>31. ASSUME NEW c \in Call, NEW i \in Conn, ForgetConnection(c, i)
      PROVE  ThenInv'
  BY <1>31 DEF ForgetConnection, Start, Goto, TypeOK, store, maps, ThenInv, After
<1>32. ASSUME NEW c \in Call, NEW i \in Conn, CreateConnection(c, i)
      PROVE  ThenInv'
  BY <1>32 DEF CreateConnection, Start, Goto, TypeOK, store, maps, ThenInv, After
<1>33. ASSUME NEW c \in Call, NEW i \in Conn, UpdateConnection(c, i)
      PROVE  ThenInv'
  BY <1>33 DEF UpdateConnection, Start, Exists, Goto, TypeOK, store, maps,
          ThenInv, After
<1>34. ASSUME NEW c \in Call, NEW i \in Conn, NEW invalidate \in BOOLEAN,
             Reauthenticate(c, i, invalidate)
      PROVE  ThenInv'
  BY <1>34 DEF Reauthenticate, Authenticate, Start, Exists, Goto, TypeOK, store,
          maps, ThenInv, After
<1>35. CASE UNCHANGED vars
  BY <1>35 DEF vars, store, maps, calls, ThenInv, After
<1> QED
  BY <1>1, <1>2, <1>3, <1>4, <1>5, <1>6, <1>7, <1>8, <1>9, <1>10, <1>11,
     <1>12, <1>13, <1>14, <1>15, <1>16, <1>17, <1>18, <1>19, <1>20, <1>21,
     <1>22, <1>23, <1>24, <1>25, <1>26, <1>27, <1>28, <1>29, <1>30, <1>31,
     <1>32, <1>33, <1>34, <1>35 DEF Next, Step, Command

LEMMA LoginStep ==
    TypeOK /\ ThenInv /\ LoginOwned /\ [Next]_vars => LoginOwned'
<1> SUFFICES ASSUME TypeOK, ThenInv, LoginOwned, [Next]_vars
             PROVE  LoginOwned'
  OBVIOUS
<1> USE NoneIsNone
<1>1. ASSUME NEW c \in Call, Answered(c)
      PROVE  LoginOwned'
  BY <1>1 DEF Answered, Goto, TypeOK, store, maps, ThenInv, After, LoginOwned
<1>2. ASSUME NEW c \in Call, Recoverable(c)
      PROVE  LoginOwned'
  BY <1>2 DEF Recoverable, Goto, TypeOK, store, maps, ThenInv, After, LoginOwned
<1>3. ASSUME NEW c \in Call, HandleInvalidCredentials(c)
      PROVE  LoginOwned'
  BY <1>3 DEF HandleInvalidCredentials, ThrowNotFound, UpdateConnectionState,
          AfterInvalid, Exists, Goto, TypeOK, store, maps,
          ThenInv, After, LoginOwned
<1>4. ASSUME NEW c \in Call, Decline(c)
      PROVE  LoginOwned'
  BY <1>4 DEF Decline, Goto, TypeOK, store, maps, ThenInv, After, LoginOwned
<1>5. ASSUME NEW c \in Call, Enter(c)
      PROVE  LoginOwned'
  BY <1>5 DEF Enter, Authenticate, Exists, Goto, TypeOK, store, maps, ThenInv,
          After, LoginOwned
<1>6. ASSUME NEW c \in Call, Written(c)
      PROVE  LoginOwned'
  <2>1. /\ who' = who /\ authing' = authing
        /\ phase'[c] = then[c]
    BY <1>6, WrittenMoves DEF Written
  <2>2. \A d \in Call \ {c} : phase'[d] \in {"login", "granted"} => phase'[d] = phase[d]
    BY <1>6, WrittenMoves
  <2> QED BY <2>1, <2>2 DEF ThenInv, LoginOwned, After
<1>7. ASSUME NEW c \in Call, LoggedIn(c)
      PROVE  LoginOwned'
  BY <1>7 DEF LoggedIn, Goto, TypeOK, store, maps, ThenInv, After, LoginOwned
<1>8. ASSUME NEW c \in Call, MarkValid(c)
      PROVE  LoginOwned'
  BY <1>8 DEF MarkValid, ThrowNotFound, UpdateConnectionState, Goto, TypeOK,
          store, maps, ThenInv, After, LoginOwned
<1>9. ASSUME NEW c \in Call, LoginFails(c)
      PROVE  LoginOwned'
  BY <1>9 DEF LoginFails, ThrowNotFound, UpdateConnectionState, Exists, Goto,
          TypeOK, store, maps, ThenInv, After, LoginOwned
<1>10. ASSUME NEW c \in Call, LoginUnreachable(c)
      PROVE  LoginOwned'
  BY <1>10 DEF LoginUnreachable, Goto, TypeOK, store, maps, ThenInv, After,
          LoginOwned
<1>11. ASSUME NEW c \in Call, Validated(c)
      PROVE  LoginOwned'
  BY <1>11 DEF Validated, ThrowNotFound, UpdateConnectionState, AfterCheck, Goto,
          TypeOK, store, maps, ThenInv, After, LoginOwned
<1>12. ASSUME NEW c \in Call, Invalidated(c)
      PROVE  LoginOwned'
  BY <1>12 DEF Invalidated, ThrowNotFound, UpdateConnectionState, AfterCheck,
          Goto, TypeOK, store, maps, ThenInv, After, LoginOwned
<1>13. ASSUME NEW c \in Call, UseProfile(c)
      PROVE  LoginOwned'
  BY <1>13 DEF UseProfile, Stateful, Exists, Goto, TypeOK, store, maps, ThenInv,
          After, LoginOwned
<1>14. ASSUME NEW c \in Call, InvalidateActive(c)
      PROVE  LoginOwned'
  BY <1>14 DEF InvalidateActive, Goto, TypeOK, store, maps, ThenInv, After,
          LoginOwned
<1>15. ASSUME NEW c \in Call, Invalidate(c)
      PROVE  LoginOwned'
  <2>1. then[c] \in {"loggedOut", "deleting"}
    BY <1>15 DEF Invalidate, ThenInv
  <2>2. /\ phase[c] = "leaving" /\ who' = who /\ authing' = authing
        /\ phase'[c] \notin {"login", "granted"}
        /\ \A d \in Call \ {c} : phase'[d] = phase[d]
    BY <1>15, <2>1 DEF Invalidate, ThrowNotFound, UpdateConnectionState, Goto, TypeOK, maps
  <2> QED BY <2>2 DEF LoginOwned
<1>16. ASSUME NEW c \in Call, LoggedOut(c)
      PROVE  LoginOwned'
  BY <1>16 DEF LoggedOut, Goto, TypeOK, store, maps, ThenInv, After, LoginOwned
<1>17. ASSUME NEW c \in Call, DeleteProfile(c)
      PROVE  LoginOwned'
  BY <1>17 DEF DeleteProfile, Goto, TypeOK, store, maps, ThenInv, After,
          LoginOwned
<1>18. ASSUME NEW c \in Call, ClearStaleLinkedIamConnections(c)
      PROVE  LoginOwned'
  BY <1>18 DEF ClearStaleLinkedIamConnections, Goto, TypeOK, store, maps,
          ThenInv, After, LoginOwned
<1>19. ASSUME NEW c \in Call, AddProfile(c)
      PROVE  LoginOwned'
  BY <1>19 DEF AddProfile, Goto, TypeOK, store, maps, ThenInv, After, LoginOwned
<1>20. ASSUME NEW c \in Call, CreateFails(c)
      PROVE  LoginOwned'
  BY <1>20 DEF CreateFails, Goto, TypeOK, store, maps, ThenInv, After, LoginOwned
<1>21. ASSUME NEW c \in Call, MarkCreated(c)
      PROVE  LoginOwned'
  BY <1>21 DEF MarkCreated, ThrowNotFound, UpdateConnectionState, Goto, TypeOK,
          store, maps, ThenInv, After, LoginOwned
<1>22. ASSUME NEW c \in Call, Updated(c)
      PROVE  LoginOwned'
  BY <1>22 DEF Updated, ActiveWith, Stateful, Goto, TypeOK, store, maps, ThenInv,
          After, LoginOwned
<1>23. ASSUME NEW c \in Call, Finish(c)
      PROVE  LoginOwned'
  BY <1>23 DEF Finish, Followers, Goto, TypeOK, store, maps, ThenInv, After,
          LoginOwned
<1>24. ASSUME NEW c \in Call, Agree(c)
      PROVE  LoginOwned'
  BY <1>24 DEF Agree, Goto, TypeOK, store, maps, ThenInv, After, LoginOwned
<1>25. ASSUME NEW c \in Call, Logout(c)
      PROVE  LoginOwned'
  BY <1>25 DEF Logout, Start, Goto, TypeOK, store, maps, ThenInv, After,
          LoginOwned
<1>26. ASSUME NEW c \in Call, NEW i \in Conn, GetToken(c, i)
      PROVE  LoginOwned'
  BY <1>26 DEF GetToken, Start, Goto, TypeOK, store, maps, ThenInv, After,
          LoginOwned
<1>27. ASSUME NEW c \in Call, NEW i \in Conn, GetSsoAccessToken(c, i)
      PROVE  LoginOwned'
  BY <1>27 DEF GetSsoAccessToken, Start, Exists, Goto, TypeOK, store, maps,
          ThenInv, After, LoginOwned
<1>28. ASSUME NEW c \in Call, NEW i \in Conn, RefreshConnectionState(c, i)
      PROVE  LoginOwned'
  BY <1>28 DEF RefreshConnectionState, Start, Check, Exists, Goto, TypeOK, store,
          maps, ThenInv, After, LoginOwned
<1>29. ASSUME NEW c \in Call, NEW i \in Conn, UseConnection(c, i)
      PROVE  LoginOwned'
  BY <1>29 DEF UseConnection, Start, Check, Exists, Goto, TypeOK, store, maps,
          ThenInv, After, LoginOwned
<1>30. ASSUME NEW c \in Call, NEW i \in Conn, DeleteConnection(c, i)
      PROVE  LoginOwned'
  BY <1>30 DEF DeleteConnection, Start, IsActive, Goto, TypeOK, store, maps,
          ThenInv, After, LoginOwned
<1>31. ASSUME NEW c \in Call, NEW i \in Conn, ForgetConnection(c, i)
      PROVE  LoginOwned'
  BY <1>31 DEF ForgetConnection, Start, Goto, TypeOK, store, maps, ThenInv,
          After, LoginOwned
<1>32. ASSUME NEW c \in Call, NEW i \in Conn, CreateConnection(c, i)
      PROVE  LoginOwned'
  BY <1>32 DEF CreateConnection, Start, Goto, TypeOK, store, maps, ThenInv,
          After, LoginOwned
<1>33. ASSUME NEW c \in Call, NEW i \in Conn, UpdateConnection(c, i)
      PROVE  LoginOwned'
  BY <1>33 DEF UpdateConnection, Start, Exists, Goto, TypeOK, store, maps,
          ThenInv, After, LoginOwned
<1>34. ASSUME NEW c \in Call, NEW i \in Conn, NEW invalidate \in BOOLEAN,
             Reauthenticate(c, i, invalidate)
      PROVE  LoginOwned'
  BY <1>34 DEF Reauthenticate, Authenticate, Start, Exists, Goto, TypeOK, store,
          maps, ThenInv, After, LoginOwned
<1>35. CASE UNCHANGED vars
  BY <1>35 DEF vars, store, maps, calls, ThenInv, After, LoginOwned
<1> QED
  BY <1>1, <1>2, <1>3, <1>4, <1>5, <1>6, <1>7, <1>8, <1>9, <1>10, <1>11,
     <1>12, <1>13, <1>14, <1>15, <1>16, <1>17, <1>18, <1>19, <1>20, <1>21,
     <1>22, <1>23, <1>24, <1>25, <1>26, <1>27, <1>28, <1>29, <1>30, <1>31,
     <1>32, <1>33, <1>34, <1>35 DEF Next, Step, Command

\* However many calls find a connection unusable, one login of it is under way at a
\* time: who is in authenticate() is the one in its map.
THEOREM LoginsAreShared == Spec => []OneLogin
<1>1. Init => ThenInv /\ LoginOwned
  BY DEF Init, ThenInv, LoginOwned, After
<1>2. LoginOwned => OneLogin
  BY DEF LoginOwned, OneLogin, LoggingIn
<1>3. QED
  BY <1>1, <1>2, TypeCorrect, ThenStep, LoginStep, PTL DEF Spec

-----------------------------------------------------------------------------
(* The steps, as the queue and the prompts see them *)

\* No update is made or answered, and no prompt opened.
Moves ==
    /\ writes' = writes
    /\ \A i \in Conn : profile'[i] \in {profile[i], None}
    /\ \A d \in Call :
          /\ phase'[d] \in {"writing", "updating"} <=> InQueue(d)
          /\ InQueue(d) => /\ phase'[d] = phase[d] /\ who'[d] = who[d]
                           /\ goal'[d] = goal[d] /\ then'[d] = then[d]
          /\ phase'[d] = "prompt" => /\ Prompting(d)
                                     /\ who'[d] = who[d]
                                     /\ timer[who[d]] = d => timer'[who[d]] = d

\* c changes the state of its connection to s, and goes on at p.
Puts(c, s, p) ==
    /\ ~InQueue(c) /\ ~Prompting(c)
    /\ s \in State
    /\ Exists(who[c]) /\ profile[who[c]] # s
    /\ p = "prompt" => s = "invalid" /\ profile[who[c]] = "valid"
    /\ profile' = [profile EXCEPT ![who[c]] = s]
    /\ writes' = Append(writes, c)
    /\ goal' = [goal EXCEPT ![c] = s]
    /\ then' = [then EXCEPT ![c] = p]
    /\ phase' = [phase EXCEPT ![c] = "writing"]
    /\ UNCHANGED <<who, timer>>

LEMMA Update ==
    ASSUME TypeOK, NEW c \in Call, NEW s \in State, NEW p \in After,
           ~InQueue(c), ~Prompting(c),
           p = "prompt" => s = "invalid" /\ profile[who[c]] = "valid",
           ThrowNotFound(c) \/ UpdateConnectionState(c, s, p),
           UNCHANGED <<who, timer>>
    PROVE  Moves \/ Puts(c, s, p)
<1>1. CASE ThrowNotFound(c)
  BY <1>1 DEF ThrowNotFound, Goto, Moves, InQueue, Prompting, TypeOK
<1>2. CASE UpdateConnectionState(c, s, p)
  <2>1. CASE profile[who[c]] = s
    BY <1>2, <2>1 DEF UpdateConnectionState, Goto, Moves, InQueue, Prompting, TypeOK, After
  <2>2. CASE profile[who[c]] # s
    BY <1>2, <2>2 DEF UpdateConnectionState, Goto, Puts
  <2> QED BY <2>1, <2>2
<1> QED BY <1>1, <1>2

Classes == \/ Moves
           \/ \E c \in Call : \/ \E s \in State, p \in After : Puts(c, s, p)
                             \/ Written(c)
                             \/ Updated(c)
                             \/ AddProfile(c)
                             \/ \E i \in Conn : UpdateConnection(c, i)

LEMMA Classified ==
    TypeOK /\ ThenInv /\ [Next]_vars => Classes
<1> SUFFICES ASSUME TypeOK, ThenInv, [Next]_vars
             PROVE  Classes
  OBVIOUS
<1>1. ASSUME NEW c \in Call, Answered(c)
      PROVE  Classes
  BY <1>1 DEF Answered, Goto, TypeOK, store, maps, Classes, Moves, InQueue,
          Prompting, vars, calls
<1>2. ASSUME NEW c \in Call, Recoverable(c)
      PROVE  Classes
  BY <1>2 DEF Recoverable, Goto, TypeOK, store, maps, Classes, Moves, InQueue,
          Prompting, vars, calls
<1>3. ASSUME NEW c \in Call, HandleInvalidCredentials(c)
      PROVE  Classes
  <2>1. /\ phase[c] = "asking" /\ UNCHANGED <<who, timer>>
        /\ ThrowNotFound(c) \/ UpdateConnectionState(c, "invalid", AfterInvalid(profile[who[c]], who[c]))
    BY <1>3 DEF HandleInvalidCredentials, maps
  <2>2. CASE ~Exists(who[c])
    BY <2>1, <2>2 DEF ThrowNotFound, UpdateConnectionState, Goto, Classes, Moves, InQueue,
          Prompting, TypeOK
  <2>3. CASE Exists(who[c])
    <3>1. profile[who[c]] \in State
      BY <2>3 DEF Exists, TypeOK
    <3>2. /\ AfterInvalid(profile[who[c]], who[c]) \in After
          /\ AfterInvalid(profile[who[c]], who[c]) = "prompt" => profile[who[c]] = "valid"
      BY <3>1, AfterInvalidIs DEF After, TypeOK
    <3>3. "invalid" \in State /\ ~InQueue(c) /\ ~Prompting(c)
      BY <2>1 DEF State, InQueue, Prompting
    <3> QED BY <2>1, <3>2, <3>3, Update DEF Classes
  <2> QED BY <2>2, <2>3
<1>4. ASSUME NEW c \in Call, Decline(c)
      PROVE  Classes
  BY <1>4 DEF Decline, Goto, TypeOK, store, maps, Classes, Moves, InQueue,
          Prompting, vars, calls
<1>5. ASSUME NEW c \in Call, Enter(c)
      PROVE  Classes
  BY <1>5 DEF Enter, Authenticate, Exists, Goto, TypeOK, store, maps, Classes,
          Moves, InQueue, Prompting, vars, calls
<1>6. ASSUME NEW c \in Call, Written(c)
      PROVE  Classes
  BY <1>6 DEF Classes
<1>7. ASSUME NEW c \in Call, LoggedIn(c)
      PROVE  Classes
  BY <1>7 DEF LoggedIn, Goto, TypeOK, store, maps, Classes, Moves, InQueue,
          Prompting, vars, calls
<1>8. ASSUME NEW c \in Call, MarkValid(c)
      PROVE  Classes
  <2>1. /\ phase[c] = "granted" /\ UNCHANGED <<who, timer>>
        /\ ThrowNotFound(c) \/ UpdateConnectionState(c, "valid", "done")
    BY <1>8 DEF MarkValid, maps
  <2>2. "valid" \in State /\ "done" \in After /\ "done" # "prompt"
    BY <2>1 DEF State, After
  <2>3. ~InQueue(c) /\ ~Prompting(c)
    BY <2>1 DEF InQueue, Prompting
  <2> QED BY <2>1, <2>2, <2>3, Update DEF Classes
<1>9. ASSUME NEW c \in Call, LoginFails(c)
      PROVE  Classes
  <2>1. /\ phase[c] = "login" /\ UNCHANGED <<who, timer>>
        /\ ThrowNotFound(c) \/ UpdateConnectionState(c, goal[c], "done")
    BY <1>9 DEF LoginFails, maps
  <2>2. goal[c] \in State /\ "done" \in After /\ "done" # "prompt"
    BY <2>1 DEF State, After, TypeOK
  <2>3. ~InQueue(c) /\ ~Prompting(c)
    BY <2>1 DEF InQueue, Prompting
  <2> QED BY <2>1, <2>2, <2>3, Update DEF Classes
<1>10. ASSUME NEW c \in Call, LoginUnreachable(c)
      PROVE  Classes
  BY <1>10 DEF LoginUnreachable, Goto, TypeOK, store, maps, Classes, Moves,
          InQueue, Prompting, vars, calls
<1>11. ASSUME NEW c \in Call, Validated(c)
      PROVE  Classes
  <2>1. /\ phase[c] = "checking" /\ UNCHANGED <<who, timer>>
        /\ ThrowNotFound(c) \/ UpdateConnectionState(c, "valid", AfterCheck(c))
    BY <1>11 DEF Validated, maps
  <2>2. "valid" \in State /\ AfterCheck(c) \in After /\ AfterCheck(c) # "prompt"
    BY <2>1 DEF State, After, AfterCheck
  <2>3. ~InQueue(c) /\ ~Prompting(c)
    BY <2>1 DEF InQueue, Prompting
  <2> QED BY <2>1, <2>2, <2>3, Update DEF Classes
<1>12. ASSUME NEW c \in Call, Invalidated(c)
      PROVE  Classes
  <2>1. /\ phase[c] = "checking" /\ UNCHANGED <<who, timer>>
        /\ ThrowNotFound(c) \/ UpdateConnectionState(c, "invalid", AfterCheck(c))
    BY <1>12 DEF Invalidated, maps
  <2>2. "invalid" \in State /\ AfterCheck(c) \in After /\ AfterCheck(c) # "prompt"
    BY <2>1 DEF State, After, AfterCheck
  <2>3. ~InQueue(c) /\ ~Prompting(c)
    BY <2>1 DEF InQueue, Prompting
  <2> QED BY <2>1, <2>2, <2>3, Update DEF Classes
<1>13. ASSUME NEW c \in Call, UseProfile(c)
      PROVE  Classes
  BY <1>13 DEF UseProfile, Stateful, Exists, Goto, TypeOK, store, maps, Classes,
          Moves, InQueue, Prompting, vars, calls
<1>14. ASSUME NEW c \in Call, InvalidateActive(c)
      PROVE  Classes
  BY <1>14 DEF InvalidateActive, Goto, TypeOK, store, maps, Classes, Moves,
          InQueue, Prompting, vars, calls
<1>15. ASSUME NEW c \in Call, Invalidate(c)
      PROVE  Classes
  <2>1. /\ phase[c] = "leaving" /\ UNCHANGED <<who, timer>>
        /\ ThrowNotFound(c) \/ UpdateConnectionState(c, "invalid", then[c])
    BY <1>15 DEF Invalidate, maps
  <2>2. "invalid" \in State /\ then[c] \in After /\ then[c] # "prompt"
    BY <2>1 DEF State, After, ThenInv
  <2>3. ~InQueue(c) /\ ~Prompting(c)
    BY <2>1 DEF InQueue, Prompting
  <2> QED BY <2>1, <2>2, <2>3, Update DEF Classes
<1>16. ASSUME NEW c \in Call, LoggedOut(c)
      PROVE  Classes
  BY <1>16 DEF LoggedOut, Goto, TypeOK, store, maps, Classes, Moves, InQueue,
          Prompting, vars, calls
<1>17. ASSUME NEW c \in Call, DeleteProfile(c)
      PROVE  Classes
  BY <1>17 DEF DeleteProfile, Goto, TypeOK, store, maps, Classes, Moves, InQueue,
          Prompting, vars, calls
<1>18. ASSUME NEW c \in Call, ClearStaleLinkedIamConnections(c)
      PROVE  Classes
  BY <1>18 DEF ClearStaleLinkedIamConnections, Goto, TypeOK, store, maps,
          Classes, Moves, InQueue, Prompting, vars, calls
<1>19. ASSUME NEW c \in Call, AddProfile(c)
      PROVE  Classes
  BY <1>19 DEF Classes
<1>20. ASSUME NEW c \in Call, CreateFails(c)
      PROVE  Classes
  BY <1>20 DEF CreateFails, Goto, TypeOK, store, maps, Classes, Moves, InQueue,
          Prompting, vars, calls
<1>21. ASSUME NEW c \in Call, MarkCreated(c)
      PROVE  Classes
  <2>1. /\ phase[c] = "added" /\ UNCHANGED <<who, timer>>
        /\ ThrowNotFound(c) \/ UpdateConnectionState(c, "valid", "done")
    BY <1>21 DEF MarkCreated, maps
  <2>2. "valid" \in State /\ "done" \in After /\ "done" # "prompt"
    BY <2>1 DEF State, After
  <2>3. ~InQueue(c) /\ ~Prompting(c)
    BY <2>1 DEF InQueue, Prompting
  <2> QED BY <2>1, <2>2, <2>3, Update DEF Classes
<1>22. ASSUME NEW c \in Call, Updated(c)
      PROVE  Classes
  BY <1>22 DEF Classes
<1>23. ASSUME NEW c \in Call, Finish(c)
      PROVE  Classes
  BY <1>23 DEF Finish, Followers, Goto, TypeOK, store, maps, Classes, Moves,
          InQueue, Prompting, vars, calls
<1>24. ASSUME NEW c \in Call, Agree(c)
      PROVE  Classes
  BY <1>24 DEF Agree, Goto, TypeOK, store, maps, Classes, Moves, InQueue,
          Prompting, vars, calls
<1>25. ASSUME NEW c \in Call, Logout(c)
      PROVE  Classes
  BY <1>25 DEF Logout, Start, Goto, TypeOK, store, maps, Classes, Moves, InQueue,
          Prompting, vars, calls
<1>26. ASSUME NEW c \in Call, NEW i \in Conn, GetToken(c, i)
      PROVE  Classes
  BY <1>26 DEF GetToken, Start, Goto, TypeOK, store, maps, Classes, Moves,
          InQueue, Prompting, vars, calls
<1>27. ASSUME NEW c \in Call, NEW i \in Conn, GetSsoAccessToken(c, i)
      PROVE  Classes
  BY <1>27 DEF GetSsoAccessToken, Start, Exists, Goto, TypeOK, store, maps,
          Classes, Moves, InQueue, Prompting, vars, calls
<1>28. ASSUME NEW c \in Call, NEW i \in Conn, RefreshConnectionState(c, i)
      PROVE  Classes
  BY <1>28 DEF RefreshConnectionState, Start, Check, Exists, Goto, TypeOK, store,
          maps, Classes, Moves, InQueue, Prompting, vars, calls
<1>29. ASSUME NEW c \in Call, NEW i \in Conn, UseConnection(c, i)
      PROVE  Classes
  BY <1>29 DEF UseConnection, Start, Check, Exists, Goto, TypeOK, store, maps,
          Classes, Moves, InQueue, Prompting, vars, calls
<1>30. ASSUME NEW c \in Call, NEW i \in Conn, DeleteConnection(c, i)
      PROVE  Classes
  BY <1>30 DEF DeleteConnection, Start, IsActive, Goto, TypeOK, store, maps,
          Classes, Moves, InQueue, Prompting, vars, calls
<1>31. ASSUME NEW c \in Call, NEW i \in Conn, ForgetConnection(c, i)
      PROVE  Classes
  BY <1>31 DEF ForgetConnection, Start, Goto, TypeOK, store, maps, Classes,
          Moves, InQueue, Prompting, vars, calls
<1>32. ASSUME NEW c \in Call, NEW i \in Conn, CreateConnection(c, i)
      PROVE  Classes
  BY <1>32 DEF CreateConnection, Start, Goto, TypeOK, store, maps, Classes,
          Moves, InQueue, Prompting, vars, calls
<1>33. ASSUME NEW c \in Call, NEW i \in Conn, UpdateConnection(c, i)
      PROVE  Classes
  BY <1>33 DEF Classes
<1>34. ASSUME NEW c \in Call, NEW i \in Conn, NEW invalidate \in BOOLEAN,
             Reauthenticate(c, i, invalidate)
      PROVE  Classes
  BY <1>34 DEF Reauthenticate, Authenticate, Start, Exists, Goto, TypeOK, store,
          maps, Classes, Moves, InQueue, Prompting, vars, calls
<1>35. CASE UNCHANGED vars
  BY <1>35 DEF vars, store, maps, calls, Classes, Moves, InQueue, Prompting
<1> QED
  BY <1>1, <1>2, <1>3, <1>4, <1>5, <1>6, <1>7, <1>8, <1>9, <1>10, <1>11,
     <1>12, <1>13, <1>14, <1>15, <1>16, <1>17, <1>18, <1>19, <1>20, <1>21,
     <1>22, <1>23, <1>24, <1>25, <1>26, <1>27, <1>28, <1>29, <1>30, <1>31,
     <1>32, <1>33, <1>34, <1>35 DEF Next, Step, Command

-----------------------------------------------------------------------------
(* A connection nobody has stored yet *)

LEMMA VirginStep ==
    TypeOK /\ ThenInv /\ VirginInv /\ [Next]_vars => VirginInv'
<1> SUFFICES ASSUME TypeOK, ThenInv, VirginInv, [Next]_vars
             PROVE  VirginInv'
  OBVIOUS
<1> USE NoneIsNone
<1>1. ASSUME NEW c \in Call, Answered(c)
      PROVE  VirginInv'
  BY <1>1 DEF Answered, Goto, TypeOK, store, maps, VirginInv, Virgin, Creating,
          InQueue, Exists, IsActive
<1>2. ASSUME NEW c \in Call, Recoverable(c)
      PROVE  VirginInv'
  BY <1>2 DEF Recoverable, Goto, TypeOK, store, maps, VirginInv, Virgin,
          Creating, InQueue, Exists, IsActive
<1>3. ASSUME NEW c \in Call, HandleInvalidCredentials(c)
      PROVE  VirginInv'
  BY <1>3 DEF HandleInvalidCredentials, ThrowNotFound, UpdateConnectionState,
          AfterInvalid, Exists, Goto, TypeOK, store, maps,
          VirginInv, Virgin, Creating, InQueue, IsActive
<1>4. ASSUME NEW c \in Call, Decline(c)
      PROVE  VirginInv'
  BY <1>4 DEF Decline, Goto, TypeOK, store, maps, VirginInv, Virgin, Creating,
          InQueue, Exists, IsActive
<1>5. ASSUME NEW c \in Call, Enter(c)
      PROVE  VirginInv'
  BY <1>5 DEF Enter, Authenticate, Exists, Goto, TypeOK, store, maps, VirginInv,
          Virgin, Creating, InQueue, IsActive
<1>6. ASSUME NEW c \in Call, Written(c)
      PROVE  VirginInv'
  <2>1. /\ profile' = profile /\ fresh' = fresh /\ who' = who
        /\ active' = ActiveWith(who[c], goal[c])
        /\ phase[c] = "writing" /\ phase'[c] = then[c] /\ then[c] # "creating"
    BY <1>6, WrittenMoves DEF Written, ThenInv, After
  <2>2. \A d \in Call \ {c} : phase'[d] = phase[d] \/ (phase[d] = "prompt" /\ phase'[d] = "done")
    BY <1>6, WrittenMoves
  <2>3. \A i \in Conn : IsActive(i)' => IsActive(i)
    BY <2>1, NoneIsNone DEF ActiveWith, IsActive, TypeOK
  <2>4. \A d \in Call : Creating(d)' <=> Creating(d)
    BY <2>1, <2>2 DEF Creating
  <2>5. \A i \in Conn : Virgin(i)' => Virgin(i)
    BY <2>1, <2>4 DEF Virgin
  <2>6. \A i \in Conn : Virgin(i) => i # who[c]
    BY <2>1 DEF VirginInv, InQueue
  <2>7. \A i \in Conn : Virgin(i)' => /\ ~Exists(i)' /\ ~IsActive(i)'
                                   /\ \A d \in Call : who'[d] = i => ~InQueue(d)' /\ phase'[d] # "prompt"
    BY <2>1, <2>2, <2>3, <2>5, <2>6 DEF VirginInv, Exists, InQueue
  <2> QED BY <2>1, <2>4, <2>7 DEF VirginInv
<1>7. ASSUME NEW c \in Call, LoggedIn(c)
      PROVE  VirginInv'
  BY <1>7 DEF LoggedIn, Goto, TypeOK, store, maps, VirginInv, Virgin, Creating,
          InQueue, Exists, IsActive
<1>8. ASSUME NEW c \in Call, MarkValid(c)
      PROVE  VirginInv'
  <2>1. CASE ThrowNotFound(c)
    BY <1>8, <2>1 DEF MarkValid, ThrowNotFound, Goto, VirginInv, Virgin, Creating, InQueue, Exists,
          IsActive, TypeOK, maps
  <2>2. CASE UpdateConnectionState(c, "valid", "done")
    <3>1. /\ \A d \in Call : phase'[d] # phase[d] => d = c
          /\ phase'[c] \notin {"creating", "prompt"} /\ phase[c] # "creating"
      BY <1>8, <2>2 DEF MarkValid, UpdateConnectionState, Goto, TypeOK, After
    <3>2. /\ \A i \in Conn : ~Exists(i) => profile'[i] = profile[i]
          /\ fresh' = fresh /\ who' = who /\ active' = active
      BY <1>8, <2>2 DEF MarkValid, UpdateConnectionState, TypeOK, maps
    <3>3. Exists(who[c])
      BY <2>2 DEF UpdateConnectionState
    <3>4. ~Virgin(who[c])
      BY <3>3 DEF VirginInv, TypeOK
    <3>5. \A i \in Conn : Virgin(i)' => Virgin(i) /\ i # who[c]
      BY <3>1, <3>2, <3>4 DEF Virgin, Creating
    <3> QED BY <3>1, <3>2, <3>5 DEF VirginInv, Virgin, Creating, InQueue, Exists, IsActive
  <2> QED BY <1>8, <2>1, <2>2 DEF MarkValid
<1>9. ASSUME NEW c \in Call, LoginFails(c)
      PROVE  VirginInv'
  <2>1. CASE ThrowNotFound(c)
    BY <1>9, <2>1 DEF LoginFails, ThrowNotFound, Goto, VirginInv, Virgin, Creating, InQueue, Exists,
          IsActive, TypeOK, maps
  <2>2. CASE UpdateConnectionState(c, goal[c], "done")
    <3>1. /\ \A d \in Call : phase'[d] # phase[d] => d = c
          /\ phase'[c] \notin {"creating", "prompt"} /\ phase[c] # "creating"
      BY <1>9, <2>2 DEF LoginFails, UpdateConnectionState, Goto, TypeOK, After
    <3>2. /\ \A i \in Conn : ~Exists(i) => profile'[i] = profile[i]
          /\ fresh' = fresh /\ who' = who /\ active' = active
      BY <1>9, <2>2 DEF LoginFails, UpdateConnectionState, TypeOK, maps
    <3>3. Exists(who[c])
      BY <2>2 DEF UpdateConnectionState
    <3>4. ~Virgin(who[c])
      BY <3>3 DEF VirginInv, TypeOK
    <3>5. \A i \in Conn : Virgin(i)' => Virgin(i) /\ i # who[c]
      BY <3>1, <3>2, <3>4 DEF Virgin, Creating
    <3> QED BY <3>1, <3>2, <3>5 DEF VirginInv, Virgin, Creating, InQueue, Exists, IsActive
  <2> QED BY <1>9, <2>1, <2>2 DEF LoginFails
<1>10. ASSUME NEW c \in Call, LoginUnreachable(c)
      PROVE  VirginInv'
  BY <1>10 DEF LoginUnreachable, Goto, TypeOK, store, maps, VirginInv, Virgin,
          Creating, InQueue, Exists, IsActive
<1>11. ASSUME NEW c \in Call, Validated(c)
      PROVE  VirginInv'
  <2>1. CASE ThrowNotFound(c)
    BY <1>11, <2>1 DEF Validated, ThrowNotFound, Goto, VirginInv, Virgin, Creating, InQueue, Exists,
          IsActive, TypeOK, maps
  <2>2. CASE UpdateConnectionState(c, "valid", AfterCheck(c))
    <3>1. /\ \A d \in Call : phase'[d] # phase[d] => d = c
          /\ phase'[c] \notin {"creating", "prompt"} /\ phase[c] # "creating"
      BY <1>11, <2>2 DEF Validated, UpdateConnectionState, Goto, TypeOK, After, AfterCheck
    <3>2. /\ \A i \in Conn : ~Exists(i) => profile'[i] = profile[i]
          /\ fresh' = fresh /\ who' = who /\ active' = active
      BY <1>11, <2>2 DEF Validated, UpdateConnectionState, TypeOK, maps
    <3>3. Exists(who[c])
      BY <2>2 DEF UpdateConnectionState
    <3>4. ~Virgin(who[c])
      BY <3>3 DEF VirginInv, TypeOK
    <3>5. \A i \in Conn : Virgin(i)' => Virgin(i) /\ i # who[c]
      BY <3>1, <3>2, <3>4 DEF Virgin, Creating
    <3> QED BY <3>1, <3>2, <3>5 DEF VirginInv, Virgin, Creating, InQueue, Exists, IsActive
  <2> QED BY <1>11, <2>1, <2>2 DEF Validated
<1>12. ASSUME NEW c \in Call, Invalidated(c)
      PROVE  VirginInv'
  <2>1. CASE ThrowNotFound(c)
    BY <1>12, <2>1 DEF Invalidated, ThrowNotFound, Goto, VirginInv, Virgin, Creating, InQueue, Exists,
          IsActive, TypeOK, maps
  <2>2. CASE UpdateConnectionState(c, "invalid", AfterCheck(c))
    <3>1. /\ \A d \in Call : phase'[d] # phase[d] => d = c
          /\ phase'[c] \notin {"creating", "prompt"} /\ phase[c] # "creating"
      BY <1>12, <2>2 DEF Invalidated, UpdateConnectionState, Goto, TypeOK, After, AfterCheck
    <3>2. /\ \A i \in Conn : ~Exists(i) => profile'[i] = profile[i]
          /\ fresh' = fresh /\ who' = who /\ active' = active
      BY <1>12, <2>2 DEF Invalidated, UpdateConnectionState, TypeOK, maps
    <3>3. Exists(who[c])
      BY <2>2 DEF UpdateConnectionState
    <3>4. ~Virgin(who[c])
      BY <3>3 DEF VirginInv, TypeOK
    <3>5. \A i \in Conn : Virgin(i)' => Virgin(i) /\ i # who[c]
      BY <3>1, <3>2, <3>4 DEF Virgin, Creating
    <3> QED BY <3>1, <3>2, <3>5 DEF VirginInv, Virgin, Creating, InQueue, Exists, IsActive
  <2> QED BY <1>12, <2>1, <2>2 DEF Invalidated
<1>13. ASSUME NEW c \in Call, UseProfile(c)
      PROVE  VirginInv'
  BY <1>13 DEF UseProfile, Stateful, Exists, Goto, TypeOK, store, maps,
          VirginInv, Virgin, Creating, InQueue, IsActive
<1>14. ASSUME NEW c \in Call, InvalidateActive(c)
      PROVE  VirginInv'
  <2>1. /\ profile' = profile /\ fresh' = fresh /\ active' = active
        /\ phase[c] = "clearing" /\ phase'[c] \in {"leaving", "done"}
        /\ \A d \in Call \ {c} : phase'[d] = phase[d] /\ who'[d] = who[d]
    BY <1>14 DEF InvalidateActive, Goto, TypeOK, store
  <2>2. \A d \in Call : Creating(d)' <=> Creating(d) /\ d # c
    BY <2>1 DEF Creating
  <2>3. \A i \in Conn : Virgin(i)' => Virgin(i)
    BY <2>1, <2>2 DEF Virgin
  <2>4. \A i \in Conn : Virgin(i)' => /\ ~Exists(i)' /\ ~IsActive(i)'
                                   /\ \A d \in Call : who'[d] = i => ~InQueue(d)' /\ phase'[d] # "prompt"
    BY <2>1, <2>3 DEF VirginInv, Exists, IsActive, InQueue
  <2> QED BY <2>1, <2>2, <2>4 DEF VirginInv
<1>15. ASSUME NEW c \in Call, Invalidate(c)
      PROVE  VirginInv'
  <2>1. CASE ThrowNotFound(c)
    BY <1>15, <2>1 DEF Invalidate, ThrowNotFound, Goto, VirginInv, Virgin, Creating, InQueue, Exists,
          IsActive, TypeOK, maps
  <2>2. CASE UpdateConnectionState(c, "invalid", then[c])
    <3>1. /\ \A d \in Call : phase'[d] # phase[d] => d = c
          /\ phase'[c] \notin {"creating", "prompt"} /\ phase[c] # "creating"
      BY <1>15, <2>2 DEF Invalidate, UpdateConnectionState, Goto, TypeOK, After, ThenInv
    <3>2. /\ \A i \in Conn : ~Exists(i) => profile'[i] = profile[i]
          /\ fresh' = fresh /\ who' = who /\ active' = active
      BY <1>15, <2>2 DEF Invalidate, UpdateConnectionState, TypeOK, maps
    <3>3. Exists(who[c])
      BY <2>2 DEF UpdateConnectionState
    <3>4. ~Virgin(who[c])
      BY <3>3 DEF VirginInv, TypeOK
    <3>5. \A i \in Conn : Virgin(i)' => Virgin(i) /\ i # who[c]
      BY <3>1, <3>2, <3>4 DEF Virgin, Creating
    <3> QED BY <3>1, <3>2, <3>5 DEF VirginInv, Virgin, Creating, InQueue, Exists, IsActive
  <2> QED BY <1>15, <2>1, <2>2 DEF Invalidate
<1>16. ASSUME NEW c \in Call, LoggedOut(c)
      PROVE  VirginInv'
  BY <1>16 DEF LoggedOut, Goto, TypeOK, store, maps, VirginInv, Virgin, Creating,
          InQueue, Exists, IsActive
<1>17. ASSUME NEW c \in Call, DeleteProfile(c)
      PROVE  VirginInv'
  BY <1>17 DEF DeleteProfile, Goto, TypeOK, store, maps, VirginInv, Virgin,
          Creating, InQueue, Exists, IsActive
<1>18. ASSUME NEW c \in Call, ClearStaleLinkedIamConnections(c)
      PROVE  VirginInv'
  BY <1>18 DEF ClearStaleLinkedIamConnections, Goto, TypeOK, store, maps,
          VirginInv, Virgin, Creating, InQueue, Exists, IsActive
<1>19. ASSUME NEW c \in Call, AddProfile(c)
      PROVE  VirginInv'
  BY <1>19 DEF AddProfile, Goto, TypeOK, store, maps, VirginInv, Virgin,
          Creating, InQueue, Exists, IsActive
<1>20. ASSUME NEW c \in Call, CreateFails(c)
      PROVE  VirginInv'
  BY <1>20 DEF CreateFails, Goto, TypeOK, store, maps, VirginInv, Virgin,
          Creating, InQueue, Exists, IsActive
<1>21. ASSUME NEW c \in Call, MarkCreated(c)
      PROVE  VirginInv'
  <2>1. CASE ThrowNotFound(c)
    BY <1>21, <2>1 DEF MarkCreated, ThrowNotFound, Goto, VirginInv, Virgin, Creating, InQueue, Exists,
          IsActive, TypeOK, maps
  <2>2. CASE UpdateConnectionState(c, "valid", "done")
    <3>1. /\ \A d \in Call : phase'[d] # phase[d] => d = c
          /\ phase'[c] \notin {"creating", "prompt"} /\ phase[c] # "creating"
      BY <1>21, <2>2 DEF MarkCreated, UpdateConnectionState, Goto, TypeOK, After
    <3>2. /\ \A i \in Conn : ~Exists(i) => profile'[i] = profile[i]
          /\ fresh' = fresh /\ who' = who /\ active' = active
      BY <1>21, <2>2 DEF MarkCreated, UpdateConnectionState, TypeOK, maps
    <3>3. Exists(who[c])
      BY <2>2 DEF UpdateConnectionState
    <3>4. ~Virgin(who[c])
      BY <3>3 DEF VirginInv, TypeOK
    <3>5. \A i \in Conn : Virgin(i)' => Virgin(i) /\ i # who[c]
      BY <3>1, <3>2, <3>4 DEF Virgin, Creating
    <3> QED BY <3>1, <3>2, <3>5 DEF VirginInv, Virgin, Creating, InQueue, Exists, IsActive
  <2> QED BY <1>21, <2>1, <2>2 DEF MarkCreated
<1>22. ASSUME NEW c \in Call, Updated(c)
      PROVE  VirginInv'
  BY <1>22 DEF Updated, ActiveWith, Stateful, Goto, TypeOK, store, maps,
          VirginInv, Virgin, Creating, InQueue, Exists, IsActive
<1>23. ASSUME NEW c \in Call, Finish(c)
      PROVE  VirginInv'
  BY <1>23 DEF Finish, Followers, Goto, TypeOK, store, maps, VirginInv, Virgin,
          Creating, InQueue, Exists, IsActive
<1>24. ASSUME NEW c \in Call, Agree(c)
      PROVE  VirginInv'
  BY <1>24 DEF Agree, Goto, TypeOK, store, maps, VirginInv, Virgin, Creating,
          InQueue, Exists, IsActive
<1>25. ASSUME NEW c \in Call, Logout(c)
      PROVE  VirginInv'
  BY <1>25 DEF Logout, Start, Goto, TypeOK, store, maps, VirginInv, Virgin,
          Creating, InQueue, Exists, IsActive
<1>26. ASSUME NEW c \in Call, NEW i \in Conn, GetToken(c, i)
      PROVE  VirginInv'
  BY <1>26 DEF GetToken, Start, Goto, TypeOK, store, maps, VirginInv, Virgin,
          Creating, InQueue, Exists, IsActive
<1>27. ASSUME NEW c \in Call, NEW i \in Conn, GetSsoAccessToken(c, i)
      PROVE  VirginInv'
  BY <1>27 DEF GetSsoAccessToken, Start, Exists, Goto, TypeOK, store, maps,
          VirginInv, Virgin, Creating, InQueue, IsActive
<1>28. ASSUME NEW c \in Call, NEW i \in Conn, RefreshConnectionState(c, i)
      PROVE  VirginInv'
  BY <1>28 DEF RefreshConnectionState, Start, Check, Exists, Goto, TypeOK, store,
          maps, VirginInv, Virgin, Creating, InQueue, IsActive
<1>29. ASSUME NEW c \in Call, NEW i \in Conn, UseConnection(c, i)
      PROVE  VirginInv'
  BY <1>29 DEF UseConnection, Start, Check, Exists, Goto, TypeOK, store, maps,
          VirginInv, Virgin, Creating, InQueue, IsActive
<1>30. ASSUME NEW c \in Call, NEW i \in Conn, DeleteConnection(c, i)
      PROVE  VirginInv'
  BY <1>30 DEF DeleteConnection, Start, IsActive, Goto, TypeOK, store, maps,
          VirginInv, Virgin, Creating, InQueue, Exists
<1>31. ASSUME NEW c \in Call, NEW i \in Conn, ForgetConnection(c, i)
      PROVE  VirginInv'
  BY <1>31 DEF ForgetConnection, Start, Goto, TypeOK, store, maps, VirginInv,
          Virgin, Creating, InQueue, Exists, IsActive
<1>32. ASSUME NEW c \in Call, NEW i \in Conn, CreateConnection(c, i)
      PROVE  VirginInv'
  BY <1>32 DEF CreateConnection, Start, Goto, TypeOK, store, maps, VirginInv,
          Virgin, Creating, InQueue, Exists, IsActive
<1>33. ASSUME NEW c \in Call, NEW i \in Conn, UpdateConnection(c, i)
      PROVE  VirginInv'
  BY <1>33 DEF UpdateConnection, Start, Exists, Goto, TypeOK, store, maps,
          VirginInv, Virgin, Creating, InQueue, IsActive
<1>34. ASSUME NEW c \in Call, NEW i \in Conn, NEW invalidate \in BOOLEAN,
             Reauthenticate(c, i, invalidate)
      PROVE  VirginInv'
  BY <1>34 DEF Reauthenticate, Authenticate, Start, Exists, Goto, TypeOK, store,
          maps, VirginInv, Virgin, Creating, InQueue, IsActive
<1>35. CASE UNCHANGED vars
  BY <1>35 DEF vars, store, maps, calls, VirginInv, Virgin, Creating, InQueue,
          Exists, IsActive
<1> QED
  BY <1>1, <1>2, <1>3, <1>4, <1>5, <1>6, <1>7, <1>8, <1>9, <1>10, <1>11,
     <1>12, <1>13, <1>14, <1>15, <1>16, <1>17, <1>18, <1>19, <1>20, <1>21,
     <1>22, <1>23, <1>24, <1>25, <1>26, <1>27, <1>28, <1>29, <1>30, <1>31,
     <1>32, <1>33, <1>34, <1>35 DEF Next, Step, Command

-----------------------------------------------------------------------------
(* The queue, step by step *)

QDefined == QInv /\ ThenInv /\ TypeOK

LEMMA MovesKeep == QDefined /\ Moves => (QueueInv /\ LastWins /\ Alternating /\ PromptsInvalid
                                         /\ Timed /\ AnsweredFirst /\ TakenBack)'
<1> SUFFICES ASSUME QDefined, Moves
             PROVE  (QueueInv /\ LastWins /\ Alternating /\ PromptsInvalid
                     /\ Timed /\ AnsweredFirst /\ TakenBack)'
  OBVIOUS
<1> USE NoneIsNone
<1>1. /\ writes' = writes
      /\ \A i \in Conn : profile'[i] # None => profile'[i] = profile[i]
      /\ \A d \in Call : InQueue(d)' <=> InQueue(d)
      /\ \A d \in Call : InQueue(d) => /\ phase'[d] = phase[d] /\ who'[d] = who[d]
                                       /\ goal'[d] = goal[d] /\ then'[d] = then[d]
      /\ \A d \in Call : Prompting(d)' => /\ Prompting(d) /\ who'[d] = who[d]
                                          /\ timer[who[d]] = d => timer'[who[d]] = d
  BY DEF Moves, InQueue, Prompting
<1>2. \A d \in Call : Writing(d)' <=> Writing(d)
  BY <1>1 DEF Writing, InQueue
<1>3. \A d \in Call : Writing(d) => InQueue(d)
  BY DEF Writing, InQueue
<1>4. QueueInv'
  BY <1>1 DEF QueueInv, QDefined, QInv
<1>5. LastWins'
  BY <1>1, <1>2, <1>3 DEF LastWins, Exists, QDefined, QInv, TypeOK
<1>6. Alternating'
  BY <1>1, <1>2, <1>3 DEF Alternating, QDefined, QInv
<1>7. PromptsInvalid'
  BY <1>1, <1>2, <1>3 DEF PromptsInvalid, WillPrompt, QDefined, QInv
<1>8. Timed'
  BY <1>1 DEF Timed, QDefined, QInv
<1>9. AnsweredFirst'
  BY <1>1, <1>2, <1>3 DEF AnsweredFirst, WillPrompt, QDefined, QInv
<1>10. TakenBack'
  <2>1. \A d \in Call : Prompting(d)' /\ profile'[who'[d]] \in {"valid", "unauthenticated"}
           => /\ Prompting(d) /\ who'[d] = who[d]
              /\ profile[who[d]] \in {"valid", "unauthenticated"}
    BY <1>1 DEF State, QDefined, TypeOK
  <2> QED BY <1>1, <1>2, <1>3, <2>1 DEF TakenBack, QDefined, QInv
<1> QED BY <1>4, <1>5, <1>6, <1>7, <1>8, <1>9, <1>10

LEMMA PutsKeep ==
    ASSUME QDefined, NEW c \in Call, NEW s \in State, NEW p \in After, Puts(c, s, p)
    PROVE  (QueueInv /\ LastWins /\ Alternating /\ PromptsInvalid
            /\ Timed /\ AnsweredFirst /\ TakenBack)'
<1> USE NoneIsNone
<1> DEFINE i == who[c]
<1>0. i \in Conn
  BY DEF QDefined, TypeOK
<1>1. /\ who' = who /\ timer' = timer
      /\ writes' = Append(writes, c)
      /\ profile'[i] = s /\ profile[i] # s /\ profile[i] # None
      /\ \A j \in Conn \ {i} : profile'[j] = profile[j]
      /\ goal'[c] = s /\ then'[c] = p /\ phase'[c] = "writing"
      /\ \A d \in Call \ {c} : phase'[d] = phase[d] /\ goal'[d] = goal[d] /\ then'[d] = then[d]
      /\ p = "prompt" => s = "invalid" /\ profile[i] = "valid"
      /\ phase[c] \notin {"writing", "updating", "prompt"}
  BY DEF Puts, QDefined, TypeOK, Exists, InQueue, Prompting
<1>2. /\ writes \in Seq(Call)
      /\ Once(writes)
      /\ \A d \in Call : InQueue(d) <=> Elem(writes, d)
      /\ ~Elem(writes, c)
  BY <1>1 DEF QDefined, QInv, QueueInv, TypeOK, InQueue
<1>3. /\ \A x : Elem(writes', x) <=> Elem(writes, x) \/ x = c
      /\ \A x, y : Bef(writes', x, y) <=> Bef(writes, x, y) \/ (Elem(writes, x) /\ y = c)
      /\ Once(writes')
  BY <1>1, <1>2, OfAppend
<1>4. \A d \in Call : InQueue(d)' <=> InQueue(d) \/ d = c
  BY <1>1 DEF InQueue
<1>5. \A d \in Call : Writing(d)' <=> Writing(d) \/ d = c
  BY <1>1 DEF Writing
<1>6. \A d \in Call : Prompting(d)' <=> Prompting(d)
  BY <1>1 DEF Prompting
<1>7. \A d \in Call : (InQueue(d) \/ Writing(d) \/ Prompting(d)) => d # c
  BY <1>1 DEF InQueue, Writing, Prompting
<1>8. \A d \in Call : Writing(d) => Elem(writes, d)
  BY <1>2 DEF Writing, InQueue
<1> HIDE DEF i
<1>9. QueueInv'
  BY <1>2, <1>3, <1>4 DEF QueueInv
<1>10. LastWins'
  <2> SUFFICES ASSUME NEW d \in Call, InQueue(d)', Exists(who[d])', goal'[d] # profile'[who[d]]
               PROVE  \E e \in Call : /\ Writing(e)' /\ who[e] = who[d]
                                      /\ goal'[e] = profile'[who[d]] /\ Bef(writes', d, e)
    BY <1>1 DEF LastWins
  <2>1. d # c
    BY <1>1 DEF i
  <2>2. InQueue(d) /\ Elem(writes, d)
    BY <1>2, <1>4, <2>1
  <2>3. CASE who[d] = i
    BY <1>1, <1>3, <1>5, <2>2, <2>3 DEF i
  <2>4. CASE who[d] # i
    <3>1. profile'[who[d]] = profile[who[d]] /\ goal'[d] = goal[d]
      BY <1>1, <2>1, <2>4 DEF QDefined, TypeOK
    <3>2. Exists(who[d])
      BY <1>1, <3>1 DEF Exists
    <3>3. PICK e \in Call : /\ Writing(e) /\ who[e] = who[d] /\ goal[e] = profile[who[d]]
                            /\ Bef(writes, d, e)
      BY <2>2, <3>1, <3>2 DEF LastWins, QDefined, QInv
    <3> QED BY <1>1, <1>3, <1>5, <1>7, <3>1, <3>3
  <2> QED BY <2>3, <2>4
<1>11. Alternating'
  <2> SUFFICES ASSUME NEW a \in Call, NEW d \in Call, Writing(a)', Writing(d)',
                      who[a] = who[d], goal'[a] = goal'[d], Bef(writes', a, d)
               PROVE  \E e \in Call : /\ Writing(e)' /\ who[e] = who[a] /\ goal'[e] # goal'[a]
                                      /\ Bef(writes', a, e) /\ Bef(writes', e, d)
    BY <1>1 DEF Alternating
  <2>1. a # c
    <3>1. \A y : ~Bef(writes, c, y)
      BY <1>2 DEF Bef, Elem
    <3> QED BY <1>2, <1>3, <3>1
  <2>2. Writing(a) /\ goal'[a] = goal[a]
    BY <1>1, <1>5, <2>1
  <2>3. CASE d = c
    <3>1. InQueue(a) /\ Exists(who[a]) /\ goal[a] # profile[who[a]]
      BY <1>1, <2>2, <2>3 DEF i, InQueue, Writing, Exists
    <3>2. PICK e \in Call : /\ Writing(e) /\ who[e] = who[a] /\ goal[e] = profile[who[a]]
                            /\ Bef(writes, a, e)
      BY <3>1 DEF LastWins, QDefined, QInv
    <3>3. e # c /\ goal'[e] = goal[e] /\ Elem(writes, e)
      BY <1>1, <1>7, <1>8, <3>2
    <3> QED BY <1>3, <1>5, <2>2, <2>3, <3>1, <3>2, <3>3
  <2>4. CASE d # c
    <3>1. Writing(d) /\ goal'[d] = goal[d] /\ Bef(writes, a, d)
      BY <1>1, <1>3, <1>5, <2>4
    <3>2. PICK e \in Call : /\ Writing(e) /\ who[e] = who[a] /\ goal[e] # goal[a]
                            /\ Bef(writes, a, e) /\ Bef(writes, e, d)
      BY <2>2, <3>1 DEF Alternating, QDefined, QInv
    <3> QED BY <1>1, <1>3, <1>5, <1>7, <2>2, <3>2
  <2> QED BY <2>3, <2>4
<1>12. PromptsInvalid'
  BY <1>1, <1>5 DEF PromptsInvalid, WillPrompt, QDefined, QInv
<1>13. Timed'
  BY <1>1, <1>6 DEF Timed, QDefined, QInv
<1>14. AnsweredFirst'
  <2> SUFFICES ASSUME NEW a \in Call, NEW d \in Call, WillPrompt(a)', Prompting(d)',
                      who[d] = who[a]
               PROVE  \E e \in Call : /\ Writing(e)' /\ who[e] = who[a] /\ goal'[e] # "invalid"
                                      /\ Bef(writes', e, a)
    BY <1>1 DEF AnsweredFirst
  <2>1. CASE a = c
    <3>1. p = "prompt"
      BY <1>1, <2>1 DEF WillPrompt
    <3>2. Prompting(d) /\ profile[who[d]] \in {"valid", "unauthenticated"}
      BY <1>1, <1>6, <2>1, <3>1 DEF i
    <3>3. PICK e \in Call : Writing(e) /\ who[e] = who[d] /\ goal[e] # "invalid"
      BY <3>2 DEF TakenBack, QDefined, QInv
    <3> QED BY <1>1, <1>3, <1>5, <1>7, <1>8, <2>1, <3>3
  <2>2. CASE a # c
    <3>1. WillPrompt(a) /\ Prompting(d)
      BY <1>1, <1>5, <1>6, <2>2 DEF WillPrompt
    <3>2. PICK e \in Call : /\ Writing(e) /\ who[e] = who[a] /\ goal[e] # "invalid"
                            /\ Bef(writes, e, a)
      BY <3>1 DEF AnsweredFirst, QDefined, QInv
    <3> QED BY <1>1, <1>3, <1>5, <1>7, <3>2
  <2> QED BY <2>1, <2>2
<1>15. TakenBack'
  <2> SUFFICES ASSUME NEW d \in Call, Prompting(d)',
                      profile'[who[d]] \in {"valid", "unauthenticated"}
               PROVE  \E e \in Call : Writing(e)' /\ who[e] = who[d] /\ goal'[e] # "invalid"
    BY <1>1 DEF TakenBack
  <2>1. CASE who[d] = i
    BY <1>1, <1>5, <2>1 DEF i
  <2>2. CASE who[d] # i
    <3>1. profile'[who[d]] = profile[who[d]]
      BY <1>1, <2>2 DEF QDefined, TypeOK
    <3>2. PICK e \in Call : Writing(e) /\ who[e] = who[d] /\ goal[e] # "invalid"
      BY <1>6, <3>1 DEF TakenBack, QDefined, QInv
    <3> QED BY <1>1, <1>5, <1>7, <3>2
  <2> QED BY <2>1, <2>2
<1> QED BY <1>9, <1>10, <1>11, <1>12, <1>13, <1>14, <1>15

\* The memento answers the update that c made first of those it has not answered.
LEMMA Answer ==
    ASSUME QDefined, NEW c \in Call, Written(c) \/ Updated(c)
    PROVE  /\ who' = who /\ profile' = profile
           /\ InQueue(c) /\ ~InQueue(c)'
           /\ \A d \in Call \ {c} : goal'[d] = goal[d] /\ then'[d] = then[d]
           /\ \A d \in Call \ {c} : InQueue(d)' <=> InQueue(d)
           /\ \A d \in Call : Writing(d)' <=> Writing(d) /\ d # c
           /\ \A x : Elem(writes', x) <=> Elem(writes, x) /\ x # c
           /\ \A x, y : Bef(writes', x, y) <=> Bef(writes, x, y) /\ x # c
           /\ \A x : ~Bef(writes, x, c)
           /\ \A d \in Call : InQueue(d) /\ d # c => Bef(writes, c, d)
           /\ QueueInv' /\ LastWins' /\ Alternating'
<1>1. /\ who' = who /\ profile' = profile
      /\ writes # <<>> /\ Head(writes) = c /\ writes' = Tail(writes)
      /\ InQueue(c)
      /\ \A d \in Call \ {c} : goal'[d] = goal[d] /\ then'[d] = then[d]
  BY DEF Written, Updated, Goto, QDefined, TypeOK, InQueue
<1>2. /\ phase'[c] \in After
      /\ \A d \in Call \ {c} : phase'[d] = phase[d] \/ (phase[d] = "prompt" /\ phase'[d] = "done")
  <2>1. CASE Written(c)
    BY <2>1, WrittenMoves DEF QDefined, ThenInv
  <2>2. CASE Updated(c)
    BY <2>2 DEF Updated, Goto, QDefined, TypeOK, After
  <2> QED BY <2>1, <2>2
<1>3. /\ ~InQueue(c)'
      /\ \A d \in Call \ {c} : InQueue(d)' <=> InQueue(d)
      /\ \A d \in Call : Writing(d)' <=> Writing(d) /\ d # c
  BY <1>2 DEF InQueue, Writing, After
<1>4. /\ Once(writes') /\ Elem(writes, c)
      /\ \A x : Elem(writes', x) <=> Elem(writes, x) /\ x # c
      /\ \A x, y : Bef(writes', x, y) <=> Bef(writes, x, y) /\ x # c
      /\ \A x : ~Bef(writes, x, c)
      /\ \A x : Elem(writes, x) /\ x # c => Bef(writes, c, x)
  BY <1>1, OfTail DEF QDefined, QInv, QueueInv, TypeOK
<1>5. \A d \in Call : InQueue(d) <=> Elem(writes, d)
  BY DEF QDefined, QInv, QueueInv
<1>6. QueueInv'
  BY <1>3, <1>4, <1>5 DEF QueueInv
<1>7. LastWins'
  BY <1>1, <1>3, <1>4 DEF LastWins, Exists, QDefined, QInv
<1>8. Alternating'
  BY <1>1, <1>3, <1>4 DEF Alternating, QDefined, QInv
<1> QED BY <1>1, <1>3, <1>4, <1>5, <1>6, <1>7, <1>8

LEMMA WrittenKeeps ==
    ASSUME QDefined, NEW c \in Call, Written(c)
    PROVE  (QueueInv /\ LastWins /\ Alternating /\ PromptsInvalid
            /\ Timed /\ AnsweredFirst /\ TakenBack)'
<1> DEFINE i == who[c]
<1>1. /\ who' = who /\ profile' = profile
      /\ \A d \in Call \ {c} : goal'[d] = goal[d] /\ then'[d] = then[d]
      /\ \A d \in Call : Writing(d)' <=> Writing(d) /\ d # c
      /\ \A x, y : Bef(writes', x, y) <=> Bef(writes, x, y) /\ x # c
      /\ \A x : ~Bef(writes, x, c)
      /\ \A d \in Call : InQueue(d) /\ d # c => Bef(writes, c, d)
      /\ QueueInv' /\ LastWins' /\ Alternating'
  BY Answer
<1>2. /\ Writing(c) /\ i \in Conn
      /\ phase'[c] = then[c]
      /\ timer' = IF then[c] = "prompt" THEN [timer EXCEPT ![i] = c] ELSE timer
  BY WrittenMoves DEF Written, Writing, QDefined, TypeOK
<1>3. \A d \in Call \ {c} : Prompting(d)' => Prompting(d)
  BY WrittenMoves DEF Prompting, QDefined
<1>4. \A d \in Call \ {c} : Prompting(d)' /\ who[d] = i => goal[c] = "invalid"
  <2> SUFFICES ASSUME NEW d \in Call \ {c}, Prompting(d)', who[d] = i, goal[c] # "invalid"
               PROVE  FALSE
    OBVIOUS
  <2>1. Prompting(d) /\ timer[i] = d
    BY <1>3 DEF Timed, QDefined, QInv
  <2>2. d \in Dismissed(i)
    BY <2>1 DEF Dismissed, Prompting
  <2>3. phase'[d] = "done"
    BY <2>2 DEF Written
  <2> QED BY <2>3 DEF Prompting
<1>5. then[c] = "prompt" =>
         /\ goal[c] = "invalid"
         /\ \A d \in Call : Prompting(d) => who[d] # i
  BY <1>1, <1>2 DEF WillPrompt, PromptsInvalid, AnsweredFirst, QDefined, QInv
<1>6. Prompting(c)' <=> then[c] = "prompt"
  BY <1>2 DEF Prompting
<1> HIDE DEF i
<1>7. PromptsInvalid'
  BY <1>1 DEF PromptsInvalid, WillPrompt, QDefined, QInv
<1>8. Timed'
  <2> SUFFICES ASSUME NEW d \in Call, Prompting(d)'
               PROVE  timer'[who[d]] = d
    BY <1>1 DEF Timed
  <2>1. CASE d = c
    BY <1>2, <1>6, <2>1 DEF i, QDefined, TypeOK
  <2>2. CASE d # c
    <3>1. Prompting(d) /\ timer[who[d]] = d
      BY <1>3, <2>2 DEF Timed, QDefined, QInv
    <3>2. timer'[who[d]] = timer[who[d]]
      BY <1>2, <1>5, <3>1 DEF QDefined, TypeOK
    <3> QED BY <3>1, <3>2
  <2> QED BY <2>1, <2>2
<1>9. AnsweredFirst'
  <2> SUFFICES ASSUME NEW a \in Call, NEW d \in Call, WillPrompt(a)', Prompting(d)',
                      who[d] = who[a]
               PROVE  \E e \in Call : /\ Writing(e)' /\ who[e] = who[a] /\ goal'[e] # "invalid"
                                      /\ Bef(writes', e, a)
    BY <1>1 DEF AnsweredFirst
  <2>1. a # c /\ WillPrompt(a)
    BY <1>1 DEF WillPrompt
  <2>2. CASE d = c
    <3>1. then[c] = "prompt" /\ goal[c] = "invalid" /\ who[a] = i
      BY <1>5, <1>6, <2>2 DEF i
    <3>2. Writing(a) /\ goal[a] = "invalid" /\ Bef(writes, c, a)
      BY <1>1, <2>1 DEF WillPrompt, Writing, InQueue, PromptsInvalid, QDefined, QInv
    <3>3. PICK e \in Call : /\ Writing(e) /\ who[e] = i /\ goal[e] # "invalid"
                            /\ Bef(writes, c, e) /\ Bef(writes, e, a)
      BY <1>2, <3>1, <3>2 DEF i, Alternating, QDefined, QInv
    <3> QED BY <1>1, <3>1, <3>3
  <2>3. CASE d # c
    <3>1. Prompting(d)
      BY <1>3, <2>3
    <3>2. PICK e \in Call : /\ Writing(e) /\ who[e] = who[a] /\ goal[e] # "invalid"
                            /\ Bef(writes, e, a)
      BY <2>1, <3>1 DEF AnsweredFirst, QDefined, QInv
    <3>3. e # c
      BY <1>4, <2>3, <3>2 DEF i
    <3> QED BY <1>1, <3>2, <3>3
  <2> QED BY <2>2, <2>3
<1>10. TakenBack'
  <2> SUFFICES ASSUME NEW d \in Call, Prompting(d)',
                      profile[who[d]] \in {"valid", "unauthenticated"}
               PROVE  \E e \in Call : Writing(e)' /\ who[e] = who[d] /\ goal'[e] # "invalid"
    BY <1>1 DEF TakenBack
  <2>1. CASE d = c
    <3>1. InQueue(c) /\ Exists(who[c]) /\ goal[c] # profile[who[c]]
      BY <1>2, <1>5, <1>6, <2>1, NoneIsNone DEF InQueue, Writing, Exists, State
    <3>2. PICK e \in Call : /\ Writing(e) /\ who[e] = who[c] /\ goal[e] = profile[who[c]]
                            /\ Bef(writes, c, e)
      BY <3>1 DEF LastWins, QDefined, QInv
    <3> QED BY <1>1, <2>1, <3>2
  <2>2. CASE d # c
    <3>1. PICK e \in Call : Writing(e) /\ who[e] = who[d] /\ goal[e] # "invalid"
      BY <1>3, <2>2 DEF TakenBack, QDefined, QInv
    <3>2. e # c
      BY <1>4, <2>2, <3>1 DEF i
    <3> QED BY <1>1, <3>1, <3>2
  <2> QED BY <2>1, <2>2
<1> QED BY <1>1, <1>7, <1>8, <1>9, <1>10

LEMMA UpdatedKeeps ==
    ASSUME QDefined, NEW c \in Call, Updated(c)
    PROVE  (QueueInv /\ LastWins /\ Alternating /\ PromptsInvalid
            /\ Timed /\ AnsweredFirst /\ TakenBack)'
<1>1. /\ who' = who /\ profile' = profile
      /\ \A d \in Call \ {c} : goal'[d] = goal[d] /\ then'[d] = then[d]
      /\ \A d \in Call : Writing(d)' <=> Writing(d) /\ d # c
      /\ \A x, y : Bef(writes', x, y) <=> Bef(writes, x, y) /\ x # c
      /\ QueueInv' /\ LastWins' /\ Alternating'
  BY Answer
<1>2. /\ ~Writing(c) /\ timer' = timer
      /\ \A d \in Call : Prompting(d)' <=> Prompting(d)
  BY DEF Updated, Goto, Writing, Prompting, maps, QDefined, TypeOK
<1>3. PromptsInvalid'
  BY <1>1 DEF PromptsInvalid, WillPrompt, QDefined, QInv
<1>4. Timed'
  BY <1>1, <1>2 DEF Timed, QDefined, QInv
<1>5. AnsweredFirst'
  BY <1>1, <1>2 DEF AnsweredFirst, WillPrompt, QDefined, QInv
<1>6. TakenBack'
  BY <1>1, <1>2 DEF TakenBack, QDefined, QInv
<1> QED BY <1>1, <1>3, <1>4, <1>5, <1>6

LEMMA AddKeeps ==
    ASSUME QDefined, NEW c \in Call, AddProfile(c)
    PROVE  (QueueInv /\ LastWins /\ Alternating /\ PromptsInvalid
            /\ Timed /\ AnsweredFirst /\ TakenBack)'
<1> DEFINE i == who[c]
<1>1. /\ who' = who /\ goal' = goal /\ then' = then /\ writes' = writes /\ timer' = timer
      /\ i \in Conn
      /\ \A j \in Conn \ {i} : profile'[j] = profile[j]
      /\ \A d \in Call : InQueue(d)' <=> InQueue(d)
      /\ \A d \in Call : Writing(d)' <=> Writing(d)
      /\ \A d \in Call : Prompting(d)' <=> Prompting(d)
  BY DEF AddProfile, Goto, maps, InQueue, Writing, Prompting, QDefined, TypeOK
<1>2. Virgin(i)
  BY DEF AddProfile, Virgin, Creating
<1>3. \A d \in Call : InQueue(d) \/ Prompting(d) => who[d] \in Conn \ {i}
  BY <1>1, <1>2 DEF VirginInv, Prompting, QDefined, QInv, TypeOK
<1>4. \A d \in Call : Writing(d) => InQueue(d)
  BY DEF Writing, InQueue
<1> HIDE DEF i
<1>5. QueueInv'
  BY <1>1 DEF QueueInv, QDefined, QInv
<1>6. LastWins'
  BY <1>1, <1>3 DEF LastWins, Exists, QDefined, QInv
<1>7. Alternating'
  BY <1>1 DEF Alternating, QDefined, QInv
<1>8. PromptsInvalid'
  BY <1>1 DEF PromptsInvalid, WillPrompt, QDefined, QInv
<1>9. Timed'
  BY <1>1 DEF Timed, QDefined, QInv
<1>10. AnsweredFirst'
  BY <1>1 DEF AnsweredFirst, WillPrompt, QDefined, QInv
<1>11. TakenBack'
  BY <1>1, <1>3 DEF TakenBack, QDefined, QInv
<1> QED BY <1>5, <1>6, <1>7, <1>8, <1>9, <1>10, <1>11

LEMMA UpdateConnectionKeeps ==
    ASSUME QDefined, NEW c \in Call, NEW i \in Conn, UpdateConnection(c, i)
    PROVE  (QueueInv /\ LastWins /\ Alternating /\ PromptsInvalid
            /\ Timed /\ AnsweredFirst /\ TakenBack)'
<1>1. /\ profile' = profile /\ timer' = timer /\ writes' = Append(writes, c)
      /\ phase[c] = "idle" /\ phase'[c] = "updating"
      /\ who'[c] = i /\ goal'[c] = profile[i]
      /\ \A d \in Call \ {c} : /\ phase'[d] = phase[d] /\ who'[d] = who[d]
                               /\ goal'[d] = goal[d] /\ then'[d] = then[d]
  BY DEF UpdateConnection, Start, Goto, maps, QDefined, TypeOK, Exists
<1>2. /\ writes \in Seq(Call)
      /\ Once(writes)
      /\ \A d \in Call : InQueue(d) <=> Elem(writes, d)
      /\ ~Elem(writes, c)
  BY <1>1 DEF QDefined, QInv, QueueInv, TypeOK, InQueue
<1>3. /\ \A x : Elem(writes', x) <=> Elem(writes, x) \/ x = c
      /\ \A x, y : Bef(writes', x, y) <=> Bef(writes, x, y) \/ (Elem(writes, x) /\ y = c)
      /\ Once(writes')
  BY <1>1, <1>2, OfAppend
<1>4. /\ \A d \in Call : InQueue(d)' <=> InQueue(d) \/ d = c
      /\ \A d \in Call : Writing(d)' <=> Writing(d)
      /\ \A d \in Call : Prompting(d)' <=> Prompting(d)
      /\ ~Writing(c) /\ ~Prompting(c)
  BY <1>1 DEF InQueue, Writing, Prompting
<1>5. QueueInv'
  BY <1>2, <1>3, <1>4 DEF QueueInv
<1>6. LastWins'
  <2> SUFFICES ASSUME NEW d \in Call, InQueue(d)', Exists(who[d])', goal'[d] # profile[who'[d]]
               PROVE  \E e \in Call : /\ Writing(e)' /\ who'[e] = who'[d]
                                      /\ goal'[e] = profile[who'[d]] /\ Bef(writes', d, e)
    BY <1>1 DEF LastWins
  <2>1. d # c
    BY <1>1
  <2>2. InQueue(d) /\ who'[d] = who[d] /\ goal'[d] = goal[d] /\ Exists(who[d])
    BY <1>1, <1>4, <2>1 DEF Exists
  <2>3. PICK e \in Call : /\ Writing(e) /\ who[e] = who[d] /\ goal[e] = profile[who[d]]
                          /\ Bef(writes, d, e)
    BY <1>1, <2>2 DEF LastWins, QDefined, QInv
  <2> QED BY <1>1, <1>3, <1>4, <2>2, <2>3
<1>7. Alternating'
  <2> SUFFICES ASSUME NEW a \in Call, NEW d \in Call, Writing(a)', Writing(d)',
                      who'[a] = who'[d], goal'[a] = goal'[d], Bef(writes', a, d)
               PROVE  \E e \in Call : /\ Writing(e)' /\ who'[e] = who'[a] /\ goal'[e] # goal'[a]
                                      /\ Bef(writes', a, e) /\ Bef(writes', e, d)
    BY DEF Alternating
  <2>1. /\ Writing(a) /\ Writing(d) /\ a # c /\ d # c /\ Bef(writes, a, d)
        /\ who[a] = who[d] /\ goal[a] = goal[d]
    BY <1>1, <1>3, <1>4
  <2>2. PICK e \in Call : /\ Writing(e) /\ who[e] = who[a] /\ goal[e] # goal[a]
                          /\ Bef(writes, a, e) /\ Bef(writes, e, d)
    BY <2>1 DEF Alternating, QDefined, QInv
  <2> QED BY <1>1, <1>3, <1>4, <2>1, <2>2
<1>8. PromptsInvalid'
  BY <1>1, <1>4 DEF PromptsInvalid, WillPrompt, QDefined, QInv
<1>9. Timed'
  BY <1>1, <1>4 DEF Timed, QDefined, QInv
<1>10. AnsweredFirst'
  <2> SUFFICES ASSUME NEW a \in Call, NEW d \in Call, WillPrompt(a)', Prompting(d)',
                      who'[d] = who'[a]
               PROVE  \E e \in Call : /\ Writing(e)' /\ who'[e] = who'[a] /\ goal'[e] # "invalid"
                                      /\ Bef(writes', e, a)
    BY DEF AnsweredFirst
  <2>1. a # c /\ d # c /\ WillPrompt(a) /\ Prompting(d) /\ who[d] = who[a]
    BY <1>1, <1>4 DEF WillPrompt
  <2>2. PICK e \in Call : /\ Writing(e) /\ who[e] = who[a] /\ goal[e] # "invalid"
                          /\ Bef(writes, e, a)
    BY <2>1 DEF AnsweredFirst, QDefined, QInv
  <2> QED BY <1>1, <1>3, <1>4, <2>1, <2>2
<1>11. TakenBack'
  <2> SUFFICES ASSUME NEW d \in Call, Prompting(d)',
                      profile[who'[d]] \in {"valid", "unauthenticated"}
               PROVE  \E e \in Call : Writing(e)' /\ who'[e] = who'[d] /\ goal'[e] # "invalid"
    BY <1>1 DEF TakenBack
  <2>1. Prompting(d) /\ d # c /\ who'[d] = who[d]
    BY <1>1, <1>4
  <2>2. PICK e \in Call : Writing(e) /\ who[e] = who[d] /\ goal[e] # "invalid"
    BY <2>1 DEF TakenBack, QDefined, QInv
  <2> QED BY <1>1, <1>4, <2>1, <2>2
<1> QED BY <1>5, <1>6, <1>7, <1>8, <1>9, <1>10, <1>11

LEMMA QStep == QDefined /\ [Next]_vars => QDefined'
<1> SUFFICES ASSUME QDefined, [Next]_vars
             PROVE  QDefined'
  OBVIOUS
<1>1. TypeOK' /\ ThenInv' /\ VirginInv'
  BY TypeStep, ThenStep, VirginStep DEF QDefined, QInv
<1>2. Classes
  BY Classified DEF QDefined
<1>3. (QueueInv /\ LastWins /\ Alternating /\ PromptsInvalid
       /\ Timed /\ AnsweredFirst /\ TakenBack)'
  BY <1>2, MovesKeep, PutsKeep, WrittenKeeps, UpdatedKeeps, AddKeeps, UpdateConnectionKeeps
     DEF Classes
<1> QED BY <1>1, <1>3 DEF QDefined, QInv

LEMMA QInit == Init => QDefined
<1> SUFFICES ASSUME Init
             PROVE  QDefined
  OBVIOUS
<1> USE AnyConnExists, NoneIsNone
<1>1. TypeOK
  BY DEF Init, TypeOK, State, Phase, Background, Commands
<1>2. \A c \in Call : phase[c] = "idle" /\ then[c] = "done"
  BY DEF Init
<1>3. writes = <<>> /\ \A x : ~Elem(writes, x)
  BY DEF Init, Elem
<1>4. Once(writes)
  BY DEF Init, Once
<1>5. active = None /\ fresh = {i \in Conn : profile[i] = None}
  BY DEF Init
<1>6. QueueInv
  BY <1>2, <1>3, <1>4 DEF QueueInv, InQueue
<1>7. VirginInv
  BY <1>2, <1>5 DEF VirginInv, Virgin, Creating, Exists, IsActive, InQueue
<1>8. LastWins /\ Alternating /\ PromptsInvalid /\ Timed /\ AnsweredFirst /\ TakenBack
  BY <1>2 DEF LastWins, Alternating, PromptsInvalid, Timed, AnsweredFirst, TakenBack,
     InQueue, Writing, WillPrompt, Prompting
<1>9. ThenInv
  BY <1>2 DEF ThenInv, After
<1> QED BY <1>1, <1>6, <1>7, <1>8, <1>9 DEF QDefined, QInv

LEMMA QAlways == Spec => []QDefined
BY QInit, QStep, PTL DEF Spec

\* keyedDebounce() does not cover getSsoAccessToken(), yet a connection has one
\* open question at a time: each of them is the one its Timeout belongs to.
THEOREM AskedOnce == Spec => []OnePrompt
<1>1. QDefined => OnePrompt
  BY DEF QDefined, QInv, Timed, Prompting, OnePrompt
<1> QED BY <1>1, QAlways, PTL

\* A prompt is open about a usable connection only while the update that takes it
\* back is on its way.
THEOREM PromptsAreTakenBack == Spec => []PromptIsNeeded
<1>1. QDefined => PromptIsNeeded
  BY DEF QDefined, QInv, TakenBack, Prompting, Writing, PromptIsNeeded
<1> QED BY <1>1, QAlways, PTL

\* A connection that was deleted stays deleted: every write that a call makes after
\* an await rests on the profile that is stored then.
THEOREM DeletedStaysDeleted == Spec => NoResurrection
<1> DEFINE Stays == \A i \in Conn \ fresh :
                      ~Exists(i) /\ ~(\E c \in Call : phase[c] = "creating" /\ who[c] = i)
                         => ~Exists(i)'
<1>1. QDefined /\ [Next]_vars => [Stays]_vars
  <2> SUFFICES ASSUME QDefined, [Next]_vars, NEW i \in Conn \ fresh,
                      ~Exists(i), \A c \in Call : ~(phase[c] = "creating" /\ who[c] = i)
               PROVE  ~Exists(i)'
    OBVIOUS
  <2>1. Classes
    BY Classified DEF QDefined
  <2>2. CASE Moves
    BY <2>2 DEF Moves, Exists
  <2>3. ASSUME NEW c \in Call, NEW state \in State, NEW p \in After, Puts(c, state, p)
        PROVE  ~Exists(i)'
    BY <2>3 DEF Puts, Exists, QDefined, TypeOK
  <2>4. ASSUME NEW c \in Call, AddProfile(c)
        PROVE  ~Exists(i)'
    BY <2>4 DEF AddProfile, Exists, QDefined, TypeOK
  <2>5. ASSUME NEW c \in Call, Written(c) \/ Updated(c) \/ \E j \in Conn : UpdateConnection(c, j)
        PROVE  ~Exists(i)'
    BY <2>5 DEF Written, Updated, UpdateConnection, Exists
  <2> QED BY <2>1, <2>2, <2>3, <2>4, <2>5 DEF Classes
<1> QED BY <1>1, QAlways, PTL DEF Spec, NoResurrection

-----------------------------------------------------------------------------
(* The active connection *)

LEMMA PutKeepsActive ==
    ASSUME TypeOK, ActiveStored, ActiveUpdated, NEW c \in Call, NEW s \in State, NEW p,
           phase[c] \notin {"writing", "evicting"},
           ThrowNotFound(c) \/ UpdateConnectionState(c, s, p),
           active' = active, who' = who
    PROVE  ActiveStored' /\ ActiveUpdated'
<1> USE NoneIsNone
<1>1. active # None => active.id \in Conn
  BY DEF TypeOK, Stateful
<1>2. \A d \in Call \ {c} : phase'[d] = phase[d] /\ goal'[d] = goal[d]
  BY DEF ThrowNotFound, UpdateConnectionState, Goto, TypeOK
<1>3. CASE profile' = profile
  <2>1. ActiveStored'
    BY <1>2, <1>3 DEF ActiveStored, Exists
  <2>2. ActiveUpdated'
    BY <1>2, <1>3 DEF ActiveUpdated, Exists, Writing
  <2> QED BY <2>1, <2>2
<1>4. CASE profile' # profile
  <2>1. /\ profile' = [profile EXCEPT ![who[c]] = s] /\ Exists(who[c])
        /\ goal'[c] = s /\ phase'[c] = "writing"
    BY <1>4 DEF ThrowNotFound, UpdateConnectionState, Goto, TypeOK
  <2>2. \A i \in Conn : Exists(i)' <=> Exists(i)
    BY <2>1 DEF Exists, TypeOK
  <2>3. ActiveStored'
    BY <1>1, <1>2, <2>2 DEF ActiveStored
  <2>4. ActiveUpdated'
    <3>1. CASE active # None /\ active.id = who[c]
      BY <2>1, <3>1 DEF ActiveUpdated, Writing, TypeOK
    <3>2. CASE active # None /\ active.id # who[c]
      <4>1. profile'[active.id] = profile[active.id]
        BY <1>1, <2>1, <3>2 DEF TypeOK
      <4> QED BY <1>2, <4>1 DEF ActiveUpdated, Writing, Exists
    <3>3. CASE active = None
      BY <3>3 DEF ActiveUpdated
    <3> QED BY <3>1, <3>2, <3>3
  <2> QED BY <2>3, <2>4
<1> QED BY <1>3, <1>4

LEMMA StoredStep ==
    TypeOK /\ ActiveStored /\ ActiveUpdated /\ [Next]_vars => ActiveStored'
<1> SUFFICES ASSUME TypeOK, ActiveStored, ActiveUpdated, [Next]_vars
             PROVE  ActiveStored'
  OBVIOUS
<1> USE NoneIsNone
<1>1. ASSUME NEW c \in Call, Answered(c)
      PROVE  ActiveStored'
  BY <1>1 DEF Answered, Goto, TypeOK, store, maps, ActiveStored, Exists,
          Stateful
<1>2. ASSUME NEW c \in Call, Recoverable(c)
      PROVE  ActiveStored'
  BY <1>2 DEF Recoverable, Goto, TypeOK, store, maps, ActiveStored, Exists,
          Stateful
<1>3. ASSUME NEW c \in Call, HandleInvalidCredentials(c)
      PROVE  ActiveStored'
  <2>1. /\ phase[c] = "asking" /\ active' = active /\ who' = who
        /\ ThrowNotFound(c) \/ UpdateConnectionState(c, "invalid", AfterInvalid(profile[who[c]], who[c]))
    BY <1>3 DEF HandleInvalidCredentials
  <2>2. "invalid" \in State
    BY DEF State, TypeOK
  <2> QED BY <2>1, <2>2, PutKeepsActive
<1>4. ASSUME NEW c \in Call, Decline(c)
      PROVE  ActiveStored'
  BY <1>4 DEF Decline, Goto, TypeOK, store, maps, ActiveStored, Exists, Stateful
<1>5. ASSUME NEW c \in Call, Enter(c)
      PROVE  ActiveStored'
  BY <1>5 DEF Enter, Authenticate, Exists, Goto, TypeOK, store, maps,
          ActiveStored, Stateful
<1>6. ASSUME NEW c \in Call, Written(c)
      PROVE  ActiveStored'
  <2>1. /\ profile' = profile /\ current' = current /\ phase[c] = "writing"
        /\ active' = ActiveWith(who[c], goal[c])
        /\ phase'[c] = then[c] /\ who' = who
        /\ \A d \in Call \ {c} : then'[d] = then[d]
        /\ \A d \in Call \ {c} : phase'[d] = phase[d] \/ (phase[d] = "prompt" /\ phase'[d] = "done")
    BY <1>6, WrittenMoves DEF Written, TypeOK
  <2>2. active' # None => active # None /\ active'.id = active.id
    BY <2>1 DEF ActiveWith, IsActive
  <2> QED BY <2>1, <2>2 DEF ActiveStored, Exists
<1>7. ASSUME NEW c \in Call, LoggedIn(c)
      PROVE  ActiveStored'
  BY <1>7 DEF LoggedIn, Goto, TypeOK, store, maps, ActiveStored, Exists,
          Stateful
<1>8. ASSUME NEW c \in Call, MarkValid(c)
      PROVE  ActiveStored'
  <2>1. /\ phase[c] = "granted" /\ active' = active /\ who' = who
        /\ ThrowNotFound(c) \/ UpdateConnectionState(c, "valid", "done")
    BY <1>8 DEF MarkValid
  <2>2. "valid" \in State
    BY DEF State, TypeOK
  <2> QED BY <2>1, <2>2, PutKeepsActive
<1>9. ASSUME NEW c \in Call, LoginFails(c)
      PROVE  ActiveStored'
  <2>1. /\ phase[c] = "login" /\ active' = active /\ who' = who
        /\ ThrowNotFound(c) \/ UpdateConnectionState(c, goal[c], "done")
    BY <1>9 DEF LoginFails
  <2>2. goal[c] \in State
    BY DEF State, TypeOK
  <2> QED BY <2>1, <2>2, PutKeepsActive
<1>10. ASSUME NEW c \in Call, LoginUnreachable(c)
      PROVE  ActiveStored'
  BY <1>10 DEF LoginUnreachable, Goto, TypeOK, store, maps, ActiveStored, Exists,
          Stateful
<1>11. ASSUME NEW c \in Call, Validated(c)
      PROVE  ActiveStored'
  <2>1. /\ phase[c] = "checking" /\ active' = active /\ who' = who
        /\ ThrowNotFound(c) \/ UpdateConnectionState(c, "valid", AfterCheck(c))
    BY <1>11 DEF Validated
  <2>2. "valid" \in State
    BY DEF State, TypeOK
  <2> QED BY <2>1, <2>2, PutKeepsActive
<1>12. ASSUME NEW c \in Call, Invalidated(c)
      PROVE  ActiveStored'
  <2>1. /\ phase[c] = "checking" /\ active' = active /\ who' = who
        /\ ThrowNotFound(c) \/ UpdateConnectionState(c, "invalid", AfterCheck(c))
    BY <1>12 DEF Invalidated
  <2>2. "invalid" \in State
    BY DEF State, TypeOK
  <2> QED BY <2>1, <2>2, PutKeepsActive
<1>13. ASSUME NEW c \in Call, UseProfile(c)
      PROVE  ActiveStored'
  BY <1>13 DEF UseProfile, Stateful, Exists, Goto, TypeOK, store, maps,
          ActiveStored
<1>14. ASSUME NEW c \in Call, InvalidateActive(c)
      PROVE  ActiveStored'
  BY <1>14 DEF InvalidateActive, Goto, TypeOK, store, maps, ActiveStored, Exists,
          Stateful
<1>15. ASSUME NEW c \in Call, Invalidate(c)
      PROVE  ActiveStored'
  <2>1. /\ phase[c] = "leaving" /\ active' = active /\ who' = who
        /\ ThrowNotFound(c) \/ UpdateConnectionState(c, "invalid", then[c])
    BY <1>15 DEF Invalidate
  <2>2. "invalid" \in State
    BY DEF State, TypeOK
  <2> QED BY <2>1, <2>2, PutKeepsActive
<1>16. ASSUME NEW c \in Call, LoggedOut(c)
      PROVE  ActiveStored'
  BY <1>16 DEF LoggedOut, Goto, TypeOK, store, maps, ActiveStored, Exists,
          Stateful
<1>17. ASSUME NEW c \in Call, DeleteProfile(c)
      PROVE  ActiveStored'
  BY <1>17 DEF DeleteProfile, Goto, TypeOK, store, maps, ActiveStored, Exists,
          Stateful
<1>18. ASSUME NEW c \in Call, ClearStaleLinkedIamConnections(c)
      PROVE  ActiveStored'
  BY <1>18 DEF ClearStaleLinkedIamConnections, Goto, TypeOK, store, maps,
          ActiveStored, Exists, Stateful
<1>19. ASSUME NEW c \in Call, AddProfile(c)
      PROVE  ActiveStored'
  <2>1. /\ \A i \in Conn : Exists(i) => Exists(i)'
        /\ active' = active /\ phase[c] = "creating"
        /\ \A d \in Call \ {c} : phase'[d] = phase[d]
    BY <1>19 DEF AddProfile, Goto, TypeOK, Exists, State
  <2>2. active # None => active.id \in Conn
    BY DEF TypeOK, Stateful
  <2> QED BY <2>1, <2>2 DEF ActiveStored
<1>20. ASSUME NEW c \in Call, CreateFails(c)
      PROVE  ActiveStored'
  BY <1>20 DEF CreateFails, Goto, TypeOK, store, maps, ActiveStored, Exists,
          Stateful
<1>21. ASSUME NEW c \in Call, MarkCreated(c)
      PROVE  ActiveStored'
  <2>1. /\ phase[c] = "added" /\ active' = active /\ who' = who
        /\ ThrowNotFound(c) \/ UpdateConnectionState(c, "valid", "done")
    BY <1>21 DEF MarkCreated
  <2>2. "valid" \in State
    BY DEF State, TypeOK
  <2> QED BY <2>1, <2>2, PutKeepsActive
<1>22. ASSUME NEW c \in Call, Updated(c)
      PROVE  ActiveStored'
  <2>1. /\ profile' = profile /\ phase[c] = "updating"
        /\ active' = ActiveWith(who[c], goal[c])
        /\ \A d \in Call \ {c} : phase'[d] = phase[d]
    BY <1>22 DEF Updated, Goto, TypeOK
  <2>2. active' # None => active # None /\ active'.id = active.id
    BY <2>1 DEF ActiveWith, IsActive
  <2> QED BY <2>1, <2>2 DEF ActiveStored, Exists
<1>23. ASSUME NEW c \in Call, Finish(c)
      PROVE  ActiveStored'
  BY <1>23 DEF Finish, Followers, Goto, TypeOK, store, maps, ActiveStored,
          Exists, Stateful
<1>24. ASSUME NEW c \in Call, Agree(c)
      PROVE  ActiveStored'
  BY <1>24 DEF Agree, Goto, TypeOK, store, maps, ActiveStored, Exists, Stateful
<1>25. ASSUME NEW c \in Call, Logout(c)
      PROVE  ActiveStored'
  BY <1>25 DEF Logout, Start, Goto, TypeOK, store, maps, ActiveStored, Exists,
          Stateful
<1>26. ASSUME NEW c \in Call, NEW i \in Conn, GetToken(c, i)
      PROVE  ActiveStored'
  BY <1>26 DEF GetToken, Start, Goto, TypeOK, store, maps, ActiveStored, Exists,
          Stateful
<1>27. ASSUME NEW c \in Call, NEW i \in Conn, GetSsoAccessToken(c, i)
      PROVE  ActiveStored'
  BY <1>27 DEF GetSsoAccessToken, Start, Exists, Goto, TypeOK, store, maps,
          ActiveStored, Stateful
<1>28. ASSUME NEW c \in Call, NEW i \in Conn, RefreshConnectionState(c, i)
      PROVE  ActiveStored'
  BY <1>28 DEF RefreshConnectionState, Start, Check, Exists, Goto, TypeOK, store,
          maps, ActiveStored, Stateful
<1>29. ASSUME NEW c \in Call, NEW i \in Conn, UseConnection(c, i)
      PROVE  ActiveStored'
  BY <1>29 DEF UseConnection, Start, Check, Exists, Goto, TypeOK, store, maps,
          ActiveStored, Stateful
<1>30. ASSUME NEW c \in Call, NEW i \in Conn, DeleteConnection(c, i)
      PROVE  ActiveStored'
  BY <1>30 DEF DeleteConnection, Start, IsActive, Goto, TypeOK, store, maps,
          ActiveStored, Exists, Stateful
<1>31. ASSUME NEW c \in Call, NEW i \in Conn, ForgetConnection(c, i)
      PROVE  ActiveStored'
  BY <1>31 DEF ForgetConnection, Start, Goto, TypeOK, store, maps, ActiveStored,
          Exists, Stateful
<1>32. ASSUME NEW c \in Call, NEW i \in Conn, CreateConnection(c, i)
      PROVE  ActiveStored'
  BY <1>32 DEF CreateConnection, Start, Goto, TypeOK, store, maps, ActiveStored,
          Exists, Stateful
<1>33. ASSUME NEW c \in Call, NEW i \in Conn, UpdateConnection(c, i)
      PROVE  ActiveStored'
  BY <1>33 DEF UpdateConnection, Start, Exists, Goto, TypeOK, store, maps,
          ActiveStored, Stateful
<1>34. ASSUME NEW c \in Call, NEW i \in Conn, NEW invalidate \in BOOLEAN,
             Reauthenticate(c, i, invalidate)
      PROVE  ActiveStored'
  BY <1>34 DEF Reauthenticate, Authenticate, Start, Exists, Goto, TypeOK, store,
          maps, ActiveStored, Stateful
<1>35. CASE UNCHANGED vars
  BY <1>35 DEF vars, store, maps, calls, ActiveStored, Exists, Stateful
<1> QED
  BY <1>1, <1>2, <1>3, <1>4, <1>5, <1>6, <1>7, <1>8, <1>9, <1>10, <1>11,
     <1>12, <1>13, <1>14, <1>15, <1>16, <1>17, <1>18, <1>19, <1>20, <1>21,
     <1>22, <1>23, <1>24, <1>25, <1>26, <1>27, <1>28, <1>29, <1>30, <1>31,
     <1>32, <1>33, <1>34, <1>35 DEF Next, Step, Command

LEMMA CurrentStep ==
    TypeOK /\ ActiveStored /\ VirginInv /\ ActiveCurrent /\ [Next]_vars => ActiveCurrent'
<1> SUFFICES ASSUME TypeOK, ActiveStored, VirginInv, ActiveCurrent, [Next]_vars
             PROVE  ActiveCurrent'
  OBVIOUS
<1> USE NoneIsNone
<1>1. ASSUME NEW c \in Call, Answered(c)
      PROVE  ActiveCurrent'
  BY <1>1 DEF Answered, Goto, TypeOK, store, maps, ActiveCurrent, Exists,
          LoggingOut, IsActive, Stateful
<1>2. ASSUME NEW c \in Call, Recoverable(c)
      PROVE  ActiveCurrent'
  BY <1>2 DEF Recoverable, Goto, TypeOK, store, maps, ActiveCurrent, Exists,
          LoggingOut, IsActive, Stateful
<1>3. ASSUME NEW c \in Call, HandleInvalidCredentials(c)
      PROVE  ActiveCurrent'
  BY ZenonT(60), <1>3 DEF HandleInvalidCredentials, ThrowNotFound, UpdateConnectionState,
          AfterInvalid, Exists, Goto, TypeOK, store, maps,
          ActiveCurrent, LoggingOut, IsActive, Stateful
<1>4. ASSUME NEW c \in Call, Decline(c)
      PROVE  ActiveCurrent'
  BY <1>4 DEF Decline, Goto, TypeOK, store, maps, ActiveCurrent, Exists,
          LoggingOut, IsActive, Stateful
<1>5. ASSUME NEW c \in Call, Enter(c)
      PROVE  ActiveCurrent'
  BY <1>5 DEF Enter, Authenticate, Exists, Goto, TypeOK, store, maps,
          ActiveCurrent, LoggingOut, IsActive, Stateful
<1>6. ASSUME NEW c \in Call, Written(c)
      PROVE  ActiveCurrent'
  <2>1. /\ profile' = profile /\ current' = current /\ phase[c] = "writing"
        /\ active' = ActiveWith(who[c], goal[c])
        /\ phase'[c] = then[c] /\ who' = who
        /\ \A d \in Call \ {c} : then'[d] = then[d]
        /\ \A d \in Call \ {c} : phase'[d] = phase[d] \/ (phase[d] = "prompt" /\ phase'[d] = "done")
    BY <1>6, WrittenMoves DEF Written, TypeOK
  <2>2. active' # None => active # None /\ active'.id = active.id
    BY <2>1 DEF ActiveWith, IsActive
  <2> QED BY <2>1, <2>2 DEF ActiveCurrent, LoggingOut, IsActive, Exists
<1>7. ASSUME NEW c \in Call, LoggedIn(c)
      PROVE  ActiveCurrent'
  BY <1>7 DEF LoggedIn, Goto, TypeOK, store, maps, ActiveCurrent, Exists,
          LoggingOut, IsActive, Stateful
<1>8. ASSUME NEW c \in Call, MarkValid(c)
      PROVE  ActiveCurrent'
  BY <1>8 DEF MarkValid, ThrowNotFound, UpdateConnectionState, Goto, TypeOK,
          store, maps, ActiveCurrent, Exists, LoggingOut,
          IsActive, Stateful
<1>9. ASSUME NEW c \in Call, LoginFails(c)
      PROVE  ActiveCurrent'
  BY <1>9 DEF LoginFails, ThrowNotFound, UpdateConnectionState, Exists, Goto,
          TypeOK, store, maps, ActiveCurrent, LoggingOut,
          IsActive, Stateful
<1>10. ASSUME NEW c \in Call, LoginUnreachable(c)
      PROVE  ActiveCurrent'
  BY <1>10 DEF LoginUnreachable, Goto, TypeOK, store, maps, ActiveCurrent,
          Exists, LoggingOut, IsActive, Stateful
<1>11. ASSUME NEW c \in Call, Validated(c)
      PROVE  ActiveCurrent'
  BY <1>11 DEF Validated, ThrowNotFound, UpdateConnectionState, AfterCheck, Goto,
          TypeOK, store, maps, ActiveCurrent, Exists, LoggingOut,
          IsActive, Stateful
<1>12. ASSUME NEW c \in Call, Invalidated(c)
      PROVE  ActiveCurrent'
  BY <1>12 DEF Invalidated, ThrowNotFound, UpdateConnectionState, AfterCheck,
          Goto, TypeOK, store, maps, ActiveCurrent, Exists,
          LoggingOut, IsActive, Stateful
<1>13. ASSUME NEW c \in Call, UseProfile(c)
      PROVE  ActiveCurrent'
  BY <1>13 DEF UseProfile, Stateful, Exists, Goto, TypeOK, store, maps,
          ActiveCurrent, LoggingOut, IsActive
<1>14. ASSUME NEW c \in Call, InvalidateActive(c)
      PROVE  ActiveCurrent'
  BY <1>14 DEF InvalidateActive, Goto, TypeOK, store, maps, ActiveCurrent,
          Exists, LoggingOut, IsActive, Stateful
<1>15. ASSUME NEW c \in Call, Invalidate(c)
      PROVE  ActiveCurrent'
  BY <1>15 DEF Invalidate, ThrowNotFound, UpdateConnectionState, Goto, TypeOK,
          store, maps, ActiveCurrent, Exists, LoggingOut,
          IsActive, Stateful
<1>16. ASSUME NEW c \in Call, LoggedOut(c)
      PROVE  ActiveCurrent'
  BY <1>16 DEF LoggedOut, Goto, TypeOK, store, maps, ActiveCurrent, Exists,
          LoggingOut, IsActive, Stateful
<1>17. ASSUME NEW c \in Call, DeleteProfile(c)
      PROVE  ActiveCurrent'
  BY <1>17 DEF DeleteProfile, Goto, TypeOK, store, maps, ActiveCurrent, Exists,
          LoggingOut, IsActive, Stateful
<1>18. ASSUME NEW c \in Call, ClearStaleLinkedIamConnections(c)
      PROVE  ActiveCurrent'
  BY <1>18 DEF ClearStaleLinkedIamConnections, Goto, TypeOK, store, maps,
          ActiveCurrent, Exists, LoggingOut, IsActive, Stateful
<1>19. ASSUME NEW c \in Call, AddProfile(c)
      PROVE  ActiveCurrent'
  <2>1. /\ profile' = [profile EXCEPT ![who[c]] = "unauthenticated"]
        /\ active' = active /\ current' = current /\ who' = who /\ then' = then
        /\ phase[c] = "creating" /\ \A d \in Call \ {c} : phase'[d] = phase[d]
    BY <1>19 DEF AddProfile, Goto, TypeOK
  <2>2. Virgin(who[c])
    BY <2>1 DEF Virgin, Creating
  <2>3. active # None => active.id # who[c] /\ active.id \in Conn
    BY <2>2 DEF VirginInv, IsActive, TypeOK, Stateful
  <2>4. active # None => profile'[active.id] = profile[active.id]
    BY <2>1, <2>3 DEF TypeOK
  <2> QED BY <2>1, <2>4 DEF ActiveCurrent, LoggingOut, IsActive, Exists
<1>20. ASSUME NEW c \in Call, CreateFails(c)
      PROVE  ActiveCurrent'
  BY <1>20 DEF CreateFails, Goto, TypeOK, store, maps, ActiveCurrent, Exists,
          LoggingOut, IsActive, Stateful
<1>21. ASSUME NEW c \in Call, MarkCreated(c)
      PROVE  ActiveCurrent'
  BY <1>21 DEF MarkCreated, ThrowNotFound, UpdateConnectionState, Goto, TypeOK,
          store, maps, ActiveCurrent, Exists, LoggingOut,
          IsActive, Stateful
<1>22. ASSUME NEW c \in Call, Updated(c)
      PROVE  ActiveCurrent'
  BY <1>22 DEF Updated, ActiveWith, Stateful, Goto, TypeOK, store, maps,
          ActiveCurrent, Exists, LoggingOut, IsActive
<1>23. ASSUME NEW c \in Call, Finish(c)
      PROVE  ActiveCurrent'
  BY <1>23 DEF Finish, Followers, Goto, TypeOK, store, maps, ActiveCurrent,
          Exists, LoggingOut, IsActive, Stateful
<1>24. ASSUME NEW c \in Call, Agree(c)
      PROVE  ActiveCurrent'
  BY <1>24 DEF Agree, Goto, TypeOK, store, maps, ActiveCurrent, Exists,
          LoggingOut, IsActive, Stateful
<1>25. ASSUME NEW c \in Call, Logout(c)
      PROVE  ActiveCurrent'
  BY <1>25 DEF Logout, Start, Goto, TypeOK, store, maps, ActiveCurrent, Exists,
          LoggingOut, IsActive, Stateful
<1>26. ASSUME NEW c \in Call, NEW i \in Conn, GetToken(c, i)
      PROVE  ActiveCurrent'
  BY <1>26 DEF GetToken, Start, Goto, TypeOK, store, maps, ActiveCurrent, Exists,
          LoggingOut, IsActive, Stateful
<1>27. ASSUME NEW c \in Call, NEW i \in Conn, GetSsoAccessToken(c, i)
      PROVE  ActiveCurrent'
  BY <1>27 DEF GetSsoAccessToken, Start, Exists, Goto, TypeOK, store, maps,
          ActiveCurrent, LoggingOut, IsActive, Stateful
<1>28. ASSUME NEW c \in Call, NEW i \in Conn, RefreshConnectionState(c, i)
      PROVE  ActiveCurrent'
  BY <1>28 DEF RefreshConnectionState, Start, Check, Exists, Goto, TypeOK, store,
          maps, ActiveCurrent, LoggingOut, IsActive, Stateful
<1>29. ASSUME NEW c \in Call, NEW i \in Conn, UseConnection(c, i)
      PROVE  ActiveCurrent'
  BY <1>29 DEF UseConnection, Start, Check, Exists, Goto, TypeOK, store, maps,
          ActiveCurrent, LoggingOut, IsActive, Stateful
<1>30. ASSUME NEW c \in Call, NEW i \in Conn, DeleteConnection(c, i)
      PROVE  ActiveCurrent'
  BY <1>30 DEF DeleteConnection, Start, IsActive, Goto, TypeOK, store, maps,
          ActiveCurrent, Exists, LoggingOut, Stateful
<1>31. ASSUME NEW c \in Call, NEW i \in Conn, ForgetConnection(c, i)
      PROVE  ActiveCurrent'
  BY <1>31 DEF ForgetConnection, Start, Goto, TypeOK, store, maps, ActiveCurrent,
          Exists, LoggingOut, IsActive, Stateful
<1>32. ASSUME NEW c \in Call, NEW i \in Conn, CreateConnection(c, i)
      PROVE  ActiveCurrent'
  BY <1>32 DEF CreateConnection, Start, Goto, TypeOK, store, maps, ActiveCurrent,
          Exists, LoggingOut, IsActive, Stateful
<1>33. ASSUME NEW c \in Call, NEW i \in Conn, UpdateConnection(c, i)
      PROVE  ActiveCurrent'
  BY <1>33 DEF UpdateConnection, Start, Exists, Goto, TypeOK, store, maps,
          ActiveCurrent, LoggingOut, IsActive, Stateful
<1>34. ASSUME NEW c \in Call, NEW i \in Conn, NEW invalidate \in BOOLEAN,
             Reauthenticate(c, i, invalidate)
      PROVE  ActiveCurrent'
  BY <1>34 DEF Reauthenticate, Authenticate, Start, Exists, Goto, TypeOK, store,
          maps, ActiveCurrent, LoggingOut, IsActive, Stateful
<1>35. CASE UNCHANGED vars
  BY <1>35 DEF vars, store, maps, calls, ActiveCurrent, Exists, LoggingOut,
          IsActive, Stateful
<1> QED
  BY <1>1, <1>2, <1>3, <1>4, <1>5, <1>6, <1>7, <1>8, <1>9, <1>10, <1>11,
     <1>12, <1>13, <1>14, <1>15, <1>16, <1>17, <1>18, <1>19, <1>20, <1>21,
     <1>22, <1>23, <1>24, <1>25, <1>26, <1>27, <1>28, <1>29, <1>30, <1>31,
     <1>32, <1>33, <1>34, <1>35 DEF Next, Step, Command

LEMMA UpdatedStep ==
    TypeOK /\ QDefined /\ ActiveStored /\ ActiveUpdated /\ [Next]_vars => ActiveUpdated'
<1> SUFFICES ASSUME TypeOK, QDefined, ActiveStored, ActiveUpdated, [Next]_vars
             PROVE  ActiveUpdated'
  OBVIOUS
<1> USE NoneIsNone
<1>1. ASSUME NEW c \in Call, Answered(c)
      PROVE  ActiveUpdated'
  BY <1>1 DEF Answered, Goto, TypeOK, store, maps, ActiveUpdated, Exists,
          IsActive, Stateful, Writing
<1>2. ASSUME NEW c \in Call, Recoverable(c)
      PROVE  ActiveUpdated'
  BY <1>2 DEF Recoverable, Goto, TypeOK, store, maps, ActiveUpdated, Exists,
          IsActive, Stateful, Writing
<1>3. ASSUME NEW c \in Call, HandleInvalidCredentials(c)
      PROVE  ActiveUpdated'
  <2>1. /\ phase[c] = "asking" /\ active' = active /\ who' = who
        /\ ThrowNotFound(c) \/ UpdateConnectionState(c, "invalid", AfterInvalid(profile[who[c]], who[c]))
    BY <1>3 DEF HandleInvalidCredentials
  <2>2. "invalid" \in State
    BY DEF State, TypeOK
  <2> QED BY <2>1, <2>2, PutKeepsActive
<1>4. ASSUME NEW c \in Call, Decline(c)
      PROVE  ActiveUpdated'
  BY <1>4 DEF Decline, Goto, TypeOK, store, maps, ActiveUpdated, Exists,
          IsActive, Stateful, Writing
<1>5. ASSUME NEW c \in Call, Enter(c)
      PROVE  ActiveUpdated'
  BY <1>5 DEF Enter, Authenticate, Exists, Goto, TypeOK, store, maps,
          ActiveUpdated, IsActive, Stateful, Writing
<1>6. ASSUME NEW c \in Call, Written(c)
      PROVE  ActiveUpdated'
  <2>1. /\ who' = who /\ profile' = profile /\ active' = ActiveWith(who[c], goal[c])
        /\ InQueue(c)
        /\ \A d \in Call \ {c} : goal'[d] = goal[d]
        /\ \A d \in Call : Writing(d)' <=> Writing(d) /\ d # c
        /\ \A x : ~Bef(writes, x, c)
    BY <1>6, Answer DEF Written, Updated
  <2>2. CASE IsActive(who[c])
    <3>1. active' = [id |-> who[c], state |-> goal[c]]
      BY <2>1, <2>2 DEF ActiveWith
    <3>2. InQueue(c) /\ Exists(who[c]) /\ goal[c] # profile[who[c]] =>
             \E e \in Call : /\ Writing(e) /\ who[e] = who[c] /\ goal[e] = profile[who[c]]
                             /\ Bef(writes, c, e)
      BY DEF LastWins, QDefined, QInv
    <3>3. \A e \in Call : Bef(writes, c, e) => e # c
      BY <2>1
    <3> QED BY <2>1, <3>1, <3>2, <3>3 DEF ActiveUpdated, Exists
  <2>3. CASE ~IsActive(who[c])
    <3>1. active' = active
      BY <2>1, <2>3 DEF ActiveWith
    <3>2. active # None => active.id # who[c]
      BY <2>3 DEF IsActive
    <3> QED BY <2>1, <3>1, <3>2 DEF ActiveUpdated, Exists
  <2> QED BY <2>2, <2>3
<1>7. ASSUME NEW c \in Call, LoggedIn(c)
      PROVE  ActiveUpdated'
  BY <1>7 DEF LoggedIn, Goto, TypeOK, store, maps, ActiveUpdated, Exists,
          IsActive, Stateful, Writing
<1>8. ASSUME NEW c \in Call, MarkValid(c)
      PROVE  ActiveUpdated'
  <2>1. /\ phase[c] = "granted" /\ active' = active /\ who' = who
        /\ ThrowNotFound(c) \/ UpdateConnectionState(c, "valid", "done")
    BY <1>8 DEF MarkValid
  <2>2. "valid" \in State
    BY DEF State, TypeOK
  <2> QED BY <2>1, <2>2, PutKeepsActive
<1>9. ASSUME NEW c \in Call, LoginFails(c)
      PROVE  ActiveUpdated'
  <2>1. /\ phase[c] = "login" /\ active' = active /\ who' = who
        /\ ThrowNotFound(c) \/ UpdateConnectionState(c, goal[c], "done")
    BY <1>9 DEF LoginFails
  <2>2. goal[c] \in State
    BY DEF State, TypeOK
  <2> QED BY <2>1, <2>2, PutKeepsActive
<1>10. ASSUME NEW c \in Call, LoginUnreachable(c)
      PROVE  ActiveUpdated'
  BY <1>10 DEF LoginUnreachable, Goto, TypeOK, store, maps, ActiveUpdated,
          Exists, IsActive, Stateful, Writing
<1>11. ASSUME NEW c \in Call, Validated(c)
      PROVE  ActiveUpdated'
  <2>1. /\ phase[c] = "checking" /\ active' = active /\ who' = who
        /\ ThrowNotFound(c) \/ UpdateConnectionState(c, "valid", AfterCheck(c))
    BY <1>11 DEF Validated
  <2>2. "valid" \in State
    BY DEF State, TypeOK
  <2> QED BY <2>1, <2>2, PutKeepsActive
<1>12. ASSUME NEW c \in Call, Invalidated(c)
      PROVE  ActiveUpdated'
  <2>1. /\ phase[c] = "checking" /\ active' = active /\ who' = who
        /\ ThrowNotFound(c) \/ UpdateConnectionState(c, "invalid", AfterCheck(c))
    BY <1>12 DEF Invalidated
  <2>2. "invalid" \in State
    BY DEF State, TypeOK
  <2> QED BY <2>1, <2>2, PutKeepsActive
<1>13. ASSUME NEW c \in Call, UseProfile(c)
      PROVE  ActiveUpdated'
  BY <1>13 DEF UseProfile, Stateful, Exists, Goto, TypeOK, store, maps,
          ActiveUpdated, IsActive, Writing
<1>14. ASSUME NEW c \in Call, InvalidateActive(c)
      PROVE  ActiveUpdated'
  BY <1>14 DEF InvalidateActive, Goto, TypeOK, store, maps, ActiveUpdated,
          Exists, IsActive, Stateful, Writing
<1>15. ASSUME NEW c \in Call, Invalidate(c)
      PROVE  ActiveUpdated'
  <2>1. /\ phase[c] = "leaving" /\ active' = active /\ who' = who
        /\ ThrowNotFound(c) \/ UpdateConnectionState(c, "invalid", then[c])
    BY <1>15 DEF Invalidate
  <2>2. "invalid" \in State
    BY DEF State, TypeOK
  <2> QED BY <2>1, <2>2, PutKeepsActive
<1>16. ASSUME NEW c \in Call, LoggedOut(c)
      PROVE  ActiveUpdated'
  BY <1>16 DEF LoggedOut, Goto, TypeOK, store, maps, ActiveUpdated, Exists,
          IsActive, Stateful, Writing
<1>17. ASSUME NEW c \in Call, DeleteProfile(c)
      PROVE  ActiveUpdated'
  BY <1>17 DEF DeleteProfile, Goto, TypeOK, store, maps, ActiveUpdated, Exists,
          IsActive, Stateful, Writing
<1>18. ASSUME NEW c \in Call, ClearStaleLinkedIamConnections(c)
      PROVE  ActiveUpdated'
  BY <1>18 DEF ClearStaleLinkedIamConnections, Goto, TypeOK, store, maps,
          ActiveUpdated, Exists, IsActive, Stateful, Writing
<1>19. ASSUME NEW c \in Call, AddProfile(c)
      PROVE  ActiveUpdated'
  <2>1. /\ profile' = [profile EXCEPT ![who[c]] = "unauthenticated"]
        /\ active' = active /\ who' = who /\ goal' = goal
        /\ phase[c] = "creating" /\ \A d \in Call : Writing(d)' <=> Writing(d)
    BY <1>19 DEF AddProfile, Goto, TypeOK, Writing
  <2>2. Virgin(who[c])
    BY <2>1 DEF Virgin, Creating
  <2>3. active # None => active.id # who[c] /\ active.id \in Conn
    BY <2>2 DEF VirginInv, IsActive, TypeOK, Stateful, QDefined, QInv
  <2>4. active # None => profile'[active.id] = profile[active.id]
    BY <2>1, <2>3 DEF TypeOK
  <2> QED BY <2>1, <2>4 DEF ActiveUpdated, Exists
<1>20. ASSUME NEW c \in Call, CreateFails(c)
      PROVE  ActiveUpdated'
  BY <1>20 DEF CreateFails, Goto, TypeOK, store, maps, ActiveUpdated, Exists,
          IsActive, Stateful, Writing
<1>21. ASSUME NEW c \in Call, MarkCreated(c)
      PROVE  ActiveUpdated'
  <2>1. /\ phase[c] = "added" /\ active' = active /\ who' = who
        /\ ThrowNotFound(c) \/ UpdateConnectionState(c, "valid", "done")
    BY <1>21 DEF MarkCreated
  <2>2. "valid" \in State
    BY DEF State, TypeOK
  <2> QED BY <2>1, <2>2, PutKeepsActive
<1>22. ASSUME NEW c \in Call, Updated(c)
      PROVE  ActiveUpdated'
  <2>1. /\ who' = who /\ profile' = profile /\ active' = ActiveWith(who[c], goal[c])
        /\ InQueue(c)
        /\ \A d \in Call \ {c} : goal'[d] = goal[d]
        /\ \A d \in Call : Writing(d)' <=> Writing(d) /\ d # c
        /\ \A x : ~Bef(writes, x, c)
    BY <1>22, Answer DEF Written, Updated
  <2>2. CASE IsActive(who[c])
    <3>1. active' = [id |-> who[c], state |-> goal[c]]
      BY <2>1, <2>2 DEF ActiveWith
    <3>2. InQueue(c) /\ Exists(who[c]) /\ goal[c] # profile[who[c]] =>
             \E e \in Call : /\ Writing(e) /\ who[e] = who[c] /\ goal[e] = profile[who[c]]
                             /\ Bef(writes, c, e)
      BY DEF LastWins, QDefined, QInv
    <3>3. \A e \in Call : Bef(writes, c, e) => e # c
      BY <2>1
    <3> QED BY <2>1, <3>1, <3>2, <3>3 DEF ActiveUpdated, Exists
  <2>3. CASE ~IsActive(who[c])
    <3>1. active' = active
      BY <2>1, <2>3 DEF ActiveWith
    <3>2. active # None => active.id # who[c]
      BY <2>3 DEF IsActive
    <3> QED BY <2>1, <3>1, <3>2 DEF ActiveUpdated, Exists
  <2> QED BY <2>2, <2>3
<1>23. ASSUME NEW c \in Call, Finish(c)
      PROVE  ActiveUpdated'
  BY <1>23 DEF Finish, Followers, Goto, TypeOK, store, maps, ActiveUpdated,
          Exists, IsActive, Stateful, Writing
<1>24. ASSUME NEW c \in Call, Agree(c)
      PROVE  ActiveUpdated'
  BY <1>24 DEF Agree, Goto, TypeOK, store, maps, ActiveUpdated, Exists, IsActive,
          Stateful, Writing
<1>25. ASSUME NEW c \in Call, Logout(c)
      PROVE  ActiveUpdated'
  BY <1>25 DEF Logout, Start, Goto, TypeOK, store, maps, ActiveUpdated, Exists,
          IsActive, Stateful, Writing
<1>26. ASSUME NEW c \in Call, NEW i \in Conn, GetToken(c, i)
      PROVE  ActiveUpdated'
  BY <1>26 DEF GetToken, Start, Goto, TypeOK, store, maps, ActiveUpdated, Exists,
          IsActive, Stateful, Writing
<1>27. ASSUME NEW c \in Call, NEW i \in Conn, GetSsoAccessToken(c, i)
      PROVE  ActiveUpdated'
  BY <1>27 DEF GetSsoAccessToken, Start, Exists, Goto, TypeOK, store, maps,
          ActiveUpdated, IsActive, Stateful, Writing
<1>28. ASSUME NEW c \in Call, NEW i \in Conn, RefreshConnectionState(c, i)
      PROVE  ActiveUpdated'
  BY <1>28 DEF RefreshConnectionState, Start, Check, Exists, Goto, TypeOK, store,
          maps, ActiveUpdated, IsActive, Stateful, Writing
<1>29. ASSUME NEW c \in Call, NEW i \in Conn, UseConnection(c, i)
      PROVE  ActiveUpdated'
  BY <1>29 DEF UseConnection, Start, Check, Exists, Goto, TypeOK, store, maps,
          ActiveUpdated, IsActive, Stateful, Writing
<1>30. ASSUME NEW c \in Call, NEW i \in Conn, DeleteConnection(c, i)
      PROVE  ActiveUpdated'
  BY <1>30 DEF DeleteConnection, Start, IsActive, Goto, TypeOK, store, maps,
          ActiveUpdated, Exists, Stateful, Writing
<1>31. ASSUME NEW c \in Call, NEW i \in Conn, ForgetConnection(c, i)
      PROVE  ActiveUpdated'
  BY <1>31 DEF ForgetConnection, Start, Goto, TypeOK, store, maps, ActiveUpdated,
          Exists, IsActive, Stateful, Writing
<1>32. ASSUME NEW c \in Call, NEW i \in Conn, CreateConnection(c, i)
      PROVE  ActiveUpdated'
  BY <1>32 DEF CreateConnection, Start, Goto, TypeOK, store, maps, ActiveUpdated,
          Exists, IsActive, Stateful, Writing
<1>33. ASSUME NEW c \in Call, NEW i \in Conn, UpdateConnection(c, i)
      PROVE  ActiveUpdated'
  BY <1>33 DEF UpdateConnection, Start, Exists, Goto, TypeOK, store, maps,
          ActiveUpdated, IsActive, Stateful, Writing
<1>34. ASSUME NEW c \in Call, NEW i \in Conn, NEW invalidate \in BOOLEAN,
             Reauthenticate(c, i, invalidate)
      PROVE  ActiveUpdated'
  BY <1>34 DEF Reauthenticate, Authenticate, Start, Exists, Goto, TypeOK, store,
          maps, ActiveUpdated, IsActive, Stateful, Writing
<1>35. CASE UNCHANGED vars
  BY <1>35 DEF vars, store, maps, calls, ActiveUpdated, Exists, IsActive,
          Stateful, Writing
<1> QED
  BY <1>1, <1>2, <1>3, <1>4, <1>5, <1>6, <1>7, <1>8, <1>9, <1>10, <1>11,
     <1>12, <1>13, <1>14, <1>15, <1>16, <1>17, <1>18, <1>19, <1>20, <1>21,
     <1>22, <1>23, <1>24, <1>25, <1>26, <1>27, <1>28, <1>29, <1>30, <1>31,
     <1>32, <1>33, <1>34, <1>35 DEF Next, Step, Command

LEMMA ActiveAlways == Spec => [](QDefined /\ ActiveInv)
<1>1. Init => ActiveInv
  BY DEF Init, ActiveInv, ActiveStored, ActiveUpdated, ActiveCurrent
<1>2. QDefined /\ ActiveInv /\ [Next]_vars => ActiveInv'
  BY StoredStep, UpdatedStep, CurrentStep DEF ActiveInv, QDefined, QInv
<1> QED BY <1>1, <1>2, QInit, QStep, PTL DEF Spec

\* However the writes, the logouts and the deletions were interleaved: when nobody is
\* at work, the copy in #activeConnection is a stored profile with its stored state,
\* and the one the next window restores.
THEOREM ActiveIsAStoredProfile == Spec => []ActiveIsStored
<1>1. ActiveInv => ActiveIsStored
  BY DEF ActiveInv, ActiveStored, ActiveUpdated, ActiveCurrent, ActiveIsStored, Working,
     Writing, LoggingOut
<1> QED BY <1>1, ActiveAlways, PTL

-----------------------------------------------------------------------------
(* The logout and the connection it was called for *)

LEMMA OpStep ==
    TypeOK /\ ThenInv /\ OpOf /\ [Next]_vars => OpOf'
<1> SUFFICES ASSUME TypeOK, ThenInv, OpOf, [Next]_vars
             PROVE  OpOf'
  OBVIOUS
<1>1. ASSUME NEW c \in Call, Answered(c)
      PROVE  OpOf'
  BY <1>1 DEF Answered, Goto, TypeOK, store, maps, OpOf, ThenInv, After
<1>2. ASSUME NEW c \in Call, Recoverable(c)
      PROVE  OpOf'
  BY <1>2 DEF Recoverable, Goto, TypeOK, store, maps, OpOf, ThenInv, After
<1>3. ASSUME NEW c \in Call, HandleInvalidCredentials(c)
      PROVE  OpOf'
  <2>1. phase[c] = "asking" /\ op' = op
    BY <1>3 DEF HandleInvalidCredentials
  <2>2. CASE ThrowNotFound(c)
    BY <2>1, <2>2 DEF ThrowNotFound, Goto, TypeOK, OpOf
  <2>3. CASE UpdateConnectionState(c, "invalid", AfterInvalid(profile[who[c]], who[c]))
    <3>1. AfterInvalid(profile[who[c]], who[c]) \in {"done", "prompt", "entering"}
      BY <2>3, AfterInvalidIs DEF UpdateConnectionState, Exists, TypeOK
    <3>2. /\ phase'[c] \in {"done", "prompt", "entering"}
             \/ (phase'[c] = "writing" /\ then'[c] \in {"done", "prompt", "entering"})
          /\ \A d \in Call \ {c} : phase'[d] = phase[d] /\ then'[d] = then[d]
      BY <2>3, <3>1 DEF UpdateConnectionState, Goto, TypeOK
    <3> QED BY <2>1, <3>2 DEF OpOf
  <2> QED BY <1>3, <2>2, <2>3 DEF HandleInvalidCredentials
<1>4. ASSUME NEW c \in Call, Decline(c)
      PROVE  OpOf'
  BY <1>4 DEF Decline, Goto, TypeOK, store, maps, OpOf, ThenInv, After
<1>5. ASSUME NEW c \in Call, Enter(c)
      PROVE  OpOf'
  BY <1>5 DEF Enter, Authenticate, Exists, Goto, TypeOK, store, maps, OpOf,
          ThenInv, After
<1>6. ASSUME NEW c \in Call, Written(c)
      PROVE  OpOf'
  <2>1. /\ op' = op /\ phase[c] = "writing" /\ phase'[c] = then[c]
        /\ \A d \in Call \ {c} : then'[d] = then[d]
        /\ \A d \in Call \ {c} : phase'[d] = phase[d] \/ (phase[d] = "prompt" /\ phase'[d] = "done")
    BY <1>6, WrittenMoves DEF Written, TypeOK
  <2> QED BY <2>1 DEF OpOf, ThenInv, After
<1>7. ASSUME NEW c \in Call, LoggedIn(c)
      PROVE  OpOf'
  BY <1>7 DEF LoggedIn, Goto, TypeOK, store, maps, OpOf, ThenInv, After
<1>8. ASSUME NEW c \in Call, MarkValid(c)
      PROVE  OpOf'
  BY <1>8 DEF MarkValid, ThrowNotFound, UpdateConnectionState, Goto, TypeOK,
          store, maps, OpOf, ThenInv, After
<1>9. ASSUME NEW c \in Call, LoginFails(c)
      PROVE  OpOf'
  BY <1>9 DEF LoginFails, ThrowNotFound, UpdateConnectionState, Exists, Goto,
          TypeOK, store, maps, OpOf, ThenInv, After
<1>10. ASSUME NEW c \in Call, LoginUnreachable(c)
      PROVE  OpOf'
  BY <1>10 DEF LoginUnreachable, Goto, TypeOK, store, maps, OpOf, ThenInv, After
<1>11. ASSUME NEW c \in Call, Validated(c)
      PROVE  OpOf'
  BY <1>11 DEF Validated, ThrowNotFound, UpdateConnectionState, AfterCheck, Goto,
          TypeOK, store, maps, OpOf, ThenInv, After
<1>12. ASSUME NEW c \in Call, Invalidated(c)
      PROVE  OpOf'
  BY <1>12 DEF Invalidated, ThrowNotFound, UpdateConnectionState, AfterCheck,
          Goto, TypeOK, store, maps, OpOf, ThenInv, After
<1>13. ASSUME NEW c \in Call, UseProfile(c)
      PROVE  OpOf'
  BY <1>13 DEF UseProfile, Stateful, Exists, Goto, TypeOK, store, maps, OpOf,
          ThenInv, After
<1>14. ASSUME NEW c \in Call, InvalidateActive(c)
      PROVE  OpOf'
  BY <1>14 DEF InvalidateActive, Goto, TypeOK, store, maps, OpOf, ThenInv, After
<1>15. ASSUME NEW c \in Call, Invalidate(c)
      PROVE  OpOf'
  BY <1>15 DEF Invalidate, ThrowNotFound, UpdateConnectionState, Goto, TypeOK,
          store, maps, OpOf, ThenInv, After
<1>16. ASSUME NEW c \in Call, LoggedOut(c)
      PROVE  OpOf'
  BY <1>16 DEF LoggedOut, Goto, TypeOK, store, maps, OpOf, ThenInv, After
<1>17. ASSUME NEW c \in Call, DeleteProfile(c)
      PROVE  OpOf'
  BY <1>17 DEF DeleteProfile, Goto, TypeOK, store, maps, OpOf, ThenInv, After
<1>18. ASSUME NEW c \in Call, ClearStaleLinkedIamConnections(c)
      PROVE  OpOf'
  BY <1>18 DEF ClearStaleLinkedIamConnections, Goto, TypeOK, store, maps, OpOf,
          ThenInv, After
<1>19. ASSUME NEW c \in Call, AddProfile(c)
      PROVE  OpOf'
  BY <1>19 DEF AddProfile, Goto, TypeOK, store, maps, OpOf, ThenInv, After
<1>20. ASSUME NEW c \in Call, CreateFails(c)
      PROVE  OpOf'
  BY <1>20 DEF CreateFails, Goto, TypeOK, store, maps, OpOf, ThenInv, After
<1>21. ASSUME NEW c \in Call, MarkCreated(c)
      PROVE  OpOf'
  BY <1>21 DEF MarkCreated, ThrowNotFound, UpdateConnectionState, Goto, TypeOK,
          store, maps, OpOf, ThenInv, After
<1>22. ASSUME NEW c \in Call, Updated(c)
      PROVE  OpOf'
  BY <1>22 DEF Updated, ActiveWith, Stateful, Goto, TypeOK, store, maps, OpOf,
          ThenInv, After
<1>23. ASSUME NEW c \in Call, Finish(c)
      PROVE  OpOf'
  BY <1>23 DEF Finish, Followers, Goto, TypeOK, store, maps, OpOf, ThenInv, After
<1>24. ASSUME NEW c \in Call, Agree(c)
      PROVE  OpOf'
  BY <1>24 DEF Agree, Goto, TypeOK, store, maps, OpOf, ThenInv, After
<1>25. ASSUME NEW c \in Call, Logout(c)
      PROVE  OpOf'
  BY <1>25 DEF Logout, Start, Goto, TypeOK, store, maps, OpOf, ThenInv, After
<1>26. ASSUME NEW c \in Call, NEW i \in Conn, GetToken(c, i)
      PROVE  OpOf'
  BY <1>26 DEF GetToken, Start, Goto, TypeOK, store, maps, OpOf, ThenInv, After
<1>27. ASSUME NEW c \in Call, NEW i \in Conn, GetSsoAccessToken(c, i)
      PROVE  OpOf'
  BY <1>27 DEF GetSsoAccessToken, Start, Exists, Goto, TypeOK, store, maps, OpOf,
          ThenInv, After
<1>28. ASSUME NEW c \in Call, NEW i \in Conn, RefreshConnectionState(c, i)
      PROVE  OpOf'
  BY <1>28 DEF RefreshConnectionState, Start, Check, Exists, Goto, TypeOK, store,
          maps, OpOf, ThenInv, After
<1>29. ASSUME NEW c \in Call, NEW i \in Conn, UseConnection(c, i)
      PROVE  OpOf'
  BY <1>29 DEF UseConnection, Start, Check, Exists, Goto, TypeOK, store, maps,
          OpOf, ThenInv, After
<1>30. ASSUME NEW c \in Call, NEW i \in Conn, DeleteConnection(c, i)
      PROVE  OpOf'
  BY <1>30 DEF DeleteConnection, Start, IsActive, Goto, TypeOK, store, maps,
          OpOf, ThenInv, After
<1>31. ASSUME NEW c \in Call, NEW i \in Conn, ForgetConnection(c, i)
      PROVE  OpOf'
  BY <1>31 DEF ForgetConnection, Start, Goto, TypeOK, store, maps, OpOf, ThenInv,
          After
<1>32. ASSUME NEW c \in Call, NEW i \in Conn, CreateConnection(c, i)
      PROVE  OpOf'
  BY <1>32 DEF CreateConnection, Start, Goto, TypeOK, store, maps, OpOf, ThenInv,
          After
<1>33. ASSUME NEW c \in Call, NEW i \in Conn, UpdateConnection(c, i)
      PROVE  OpOf'
  BY <1>33 DEF UpdateConnection, Start, Exists, Goto, TypeOK, store, maps, OpOf,
          ThenInv, After
<1>34. ASSUME NEW c \in Call, NEW i \in Conn, NEW invalidate \in BOOLEAN,
             Reauthenticate(c, i, invalidate)
      PROVE  OpOf'
  BY <1>34 DEF Reauthenticate, Authenticate, Start, Exists, Goto, TypeOK, store,
          maps, OpOf, ThenInv, After
<1>35. CASE UNCHANGED vars
  BY <1>35 DEF vars, store, maps, calls, OpOf, ThenInv, After
<1> QED
  BY <1>1, <1>2, <1>3, <1>4, <1>5, <1>6, <1>7, <1>8, <1>9, <1>10, <1>11,
     <1>12, <1>13, <1>14, <1>15, <1>16, <1>17, <1>18, <1>19, <1>20, <1>21,
     <1>22, <1>23, <1>24, <1>25, <1>26, <1>27, <1>28, <1>29, <1>30, <1>31,
     <1>32, <1>33, <1>34, <1>35 DEF Next, Step, Command

LEMMA OneCommandStep ==
    TypeOK /\ Patient /\ OneCommand /\ [Next]_vars => OneCommand'
<1> SUFFICES ASSUME TypeOK, Patient, OneCommand, [Next]_vars
             PROVE  OneCommand'
  OBVIOUS
<1>1. ASSUME NEW c \in Call, Answered(c)
      PROVE  OneCommand'
  BY <1>1 DEF Answered, Goto, TypeOK, store, maps, OneCommand, Working, Orderly,
          Commands, Background
<1>2. ASSUME NEW c \in Call, Recoverable(c)
      PROVE  OneCommand'
  BY <1>2 DEF Recoverable, Goto, TypeOK, store, maps, OneCommand, Working,
          Orderly, Commands, Background
<1>3. ASSUME NEW c \in Call, HandleInvalidCredentials(c)
      PROVE  OneCommand'
  BY <1>3 DEF HandleInvalidCredentials, ThrowNotFound, UpdateConnectionState,
          AfterInvalid, Exists, Goto, TypeOK, store, maps,
          OneCommand, Working, Orderly, Commands, Background
<1>4. ASSUME NEW c \in Call, Decline(c)
      PROVE  OneCommand'
  BY <1>4 DEF Decline, Goto, TypeOK, store, maps, OneCommand, Working, Orderly,
          Commands, Background
<1>5. ASSUME NEW c \in Call, Enter(c)
      PROVE  OneCommand'
  BY <1>5 DEF Enter, Authenticate, Exists, Goto, TypeOK, store, maps,
          OneCommand, Working, Orderly, Commands, Background
<1>6. ASSUME NEW c \in Call, Written(c)
      PROVE  OneCommand'
  <2>1. /\ op' = op /\ phase[c] = "writing" /\ phase'[c] = then[c]
        /\ \A d \in Call \ {c} : then'[d] = then[d]
        /\ \A d \in Call \ {c} : phase'[d] = phase[d] \/ (phase[d] = "prompt" /\ phase'[d] = "done")
    BY <1>6, WrittenMoves DEF Written, TypeOK
  <2> QED BY <2>1 DEF OneCommand, Working
<1>7. ASSUME NEW c \in Call, LoggedIn(c)
      PROVE  OneCommand'
  BY <1>7 DEF LoggedIn, Goto, TypeOK, store, maps, OneCommand, Working, Orderly,
          Commands, Background
<1>8. ASSUME NEW c \in Call, MarkValid(c)
      PROVE  OneCommand'
  BY <1>8 DEF MarkValid, ThrowNotFound, UpdateConnectionState, Goto, TypeOK,
          store, maps, OneCommand, Working, Orderly, Commands,
          Background
<1>9. ASSUME NEW c \in Call, LoginFails(c)
      PROVE  OneCommand'
  BY <1>9 DEF LoginFails, ThrowNotFound, UpdateConnectionState, Exists, Goto,
          TypeOK, store, maps, OneCommand, Working, Orderly,
          Commands, Background
<1>10. ASSUME NEW c \in Call, LoginUnreachable(c)
      PROVE  OneCommand'
  BY <1>10 DEF LoginUnreachable, Goto, TypeOK, store, maps, OneCommand, Working,
          Orderly, Commands, Background
<1>11. ASSUME NEW c \in Call, Validated(c)
      PROVE  OneCommand'
  BY <1>11 DEF Validated, ThrowNotFound, UpdateConnectionState, AfterCheck, Goto,
          TypeOK, store, maps, OneCommand, Working, Orderly,
          Commands, Background
<1>12. ASSUME NEW c \in Call, Invalidated(c)
      PROVE  OneCommand'
  BY <1>12 DEF Invalidated, ThrowNotFound, UpdateConnectionState, AfterCheck,
          Goto, TypeOK, store, maps, OneCommand, Working, Orderly,
          Commands, Background
<1>13. ASSUME NEW c \in Call, UseProfile(c)
      PROVE  OneCommand'
  BY <1>13 DEF UseProfile, Stateful, Exists, Goto, TypeOK, store, maps,
          OneCommand, Working, Orderly, Commands, Background
<1>14. ASSUME NEW c \in Call, InvalidateActive(c)
      PROVE  OneCommand'
  BY <1>14 DEF InvalidateActive, Goto, TypeOK, store, maps, OneCommand, Working,
          Orderly, Commands, Background
<1>15. ASSUME NEW c \in Call, Invalidate(c)
      PROVE  OneCommand'
  BY <1>15 DEF Invalidate, ThrowNotFound, UpdateConnectionState, Goto, TypeOK,
          store, maps, OneCommand, Working, Orderly, Commands,
          Background
<1>16. ASSUME NEW c \in Call, LoggedOut(c)
      PROVE  OneCommand'
  BY <1>16 DEF LoggedOut, Goto, TypeOK, store, maps, OneCommand, Working,
          Orderly, Commands, Background
<1>17. ASSUME NEW c \in Call, DeleteProfile(c)
      PROVE  OneCommand'
  BY <1>17 DEF DeleteProfile, Goto, TypeOK, store, maps, OneCommand, Working,
          Orderly, Commands, Background
<1>18. ASSUME NEW c \in Call, ClearStaleLinkedIamConnections(c)
      PROVE  OneCommand'
  BY <1>18 DEF ClearStaleLinkedIamConnections, Goto, TypeOK, store, maps,
          OneCommand, Working, Orderly, Commands, Background
<1>19. ASSUME NEW c \in Call, AddProfile(c)
      PROVE  OneCommand'
  BY <1>19 DEF AddProfile, Goto, TypeOK, store, maps, OneCommand, Working,
          Orderly, Commands, Background
<1>20. ASSUME NEW c \in Call, CreateFails(c)
      PROVE  OneCommand'
  BY <1>20 DEF CreateFails, Goto, TypeOK, store, maps, OneCommand, Working,
          Orderly, Commands, Background
<1>21. ASSUME NEW c \in Call, MarkCreated(c)
      PROVE  OneCommand'
  BY <1>21 DEF MarkCreated, ThrowNotFound, UpdateConnectionState, Goto, TypeOK,
          store, maps, OneCommand, Working, Orderly, Commands,
          Background
<1>22. ASSUME NEW c \in Call, Updated(c)
      PROVE  OneCommand'
  BY <1>22 DEF Updated, ActiveWith, Stateful, Goto, TypeOK, store, maps,
          OneCommand, Working, Orderly, Commands, Background
<1>23. ASSUME NEW c \in Call, Finish(c)
      PROVE  OneCommand'
  BY <1>23 DEF Finish, Followers, Goto, TypeOK, store, maps, OneCommand, Working,
          Orderly, Commands, Background
<1>24. ASSUME NEW c \in Call, Agree(c)
      PROVE  OneCommand'
  BY <1>24 DEF Agree, Goto, TypeOK, store, maps, OneCommand, Working, Orderly,
          Commands, Background
<1>25. ASSUME NEW c \in Call, Logout(c)
      PROVE  OneCommand'
  BY SMTT(30), <1>25 DEF Logout, Start, Goto, TypeOK, store, maps, OneCommand, Working,
          Orderly, Commands, Background
<1>26. ASSUME NEW c \in Call, NEW i \in Conn, GetToken(c, i)
      PROVE  OneCommand'
  BY <1>26 DEF GetToken, Start, Goto, TypeOK, store, maps, OneCommand, Working,
          Orderly, Commands, Background
<1>27. ASSUME NEW c \in Call, NEW i \in Conn, GetSsoAccessToken(c, i)
      PROVE  OneCommand'
  BY <1>27 DEF GetSsoAccessToken, Start, Exists, Goto, TypeOK, store, maps,
          OneCommand, Working, Orderly, Commands, Background
<1>28. ASSUME NEW c \in Call, NEW i \in Conn, RefreshConnectionState(c, i)
      PROVE  OneCommand'
  BY <1>28 DEF RefreshConnectionState, Start, Check, Exists, Goto, TypeOK, store,
          maps, OneCommand, Working, Orderly, Commands, Background
<1>29. ASSUME NEW c \in Call, NEW i \in Conn, UseConnection(c, i)
      PROVE  OneCommand'
  BY <1>29 DEF UseConnection, Start, Check, Exists, Goto, TypeOK, store, maps,
          OneCommand, Working, Orderly, Commands, Background
<1>30. ASSUME NEW c \in Call, NEW i \in Conn, DeleteConnection(c, i)
      PROVE  OneCommand'
  BY SMTT(30), <1>30 DEF DeleteConnection, Start, IsActive, Goto, TypeOK, store, maps,
          OneCommand, Working, Orderly, Commands, Background
<1>31. ASSUME NEW c \in Call, NEW i \in Conn, ForgetConnection(c, i)
      PROVE  OneCommand'
  BY SMTT(30), <1>31 DEF ForgetConnection, Start, Goto, TypeOK, store, maps, OneCommand,
          Working, Orderly, Commands, Background
<1>32. ASSUME NEW c \in Call, NEW i \in Conn, CreateConnection(c, i)
      PROVE  OneCommand'
  BY <1>32 DEF CreateConnection, Start, Goto, TypeOK, store, maps, OneCommand,
          Working, Orderly, Commands, Background
<1>33. ASSUME NEW c \in Call, NEW i \in Conn, UpdateConnection(c, i)
      PROVE  OneCommand'
  BY <1>33 DEF UpdateConnection, Start, Exists, Goto, TypeOK, store, maps,
          OneCommand, Working, Orderly, Commands, Background
<1>34. ASSUME NEW c \in Call, NEW i \in Conn, NEW invalidate \in BOOLEAN,
             Reauthenticate(c, i, invalidate)
      PROVE  OneCommand'
  BY <1>34 DEF Reauthenticate, Authenticate, Start, Exists, Goto, TypeOK, store,
          maps, OneCommand, Working, Orderly, Commands, Background
<1>35. CASE UNCHANGED vars
  BY <1>35 DEF vars, store, maps, calls, OneCommand, Working, Orderly, Commands,
          Background
<1> QED
  BY <1>1, <1>2, <1>3, <1>4, <1>5, <1>6, <1>7, <1>8, <1>9, <1>10, <1>11,
     <1>12, <1>13, <1>14, <1>15, <1>16, <1>17, <1>18, <1>19, <1>20, <1>21,
     <1>22, <1>23, <1>24, <1>25, <1>26, <1>27, <1>28, <1>29, <1>30, <1>31,
     <1>32, <1>33, <1>34, <1>35 DEF Next, Step, Command

LEMMA OwnStep ==
    TypeOK /\ ThenInv /\ OpOf /\ OneCommand /\ OwnInv /\ [Next]_vars => OwnInv'
<1> SUFFICES ASSUME TypeOK, ThenInv, OpOf, OneCommand, OwnInv, [Next]_vars
             PROVE  OwnInv'
  OBVIOUS
<1>1. ASSUME NEW c \in Call, Answered(c)
      PROVE  OwnInv'
  BY <1>1 DEF Answered, Goto, TypeOK, store, maps, OwnInv, OpOf, OneCommand,
          Working, IsActive, Stateful, Commands, ThenInv
<1>2. ASSUME NEW c \in Call, Recoverable(c)
      PROVE  OwnInv'
  BY <1>2 DEF Recoverable, Goto, TypeOK, store, maps, OwnInv, OpOf, OneCommand,
          Working, IsActive, Stateful, Commands, ThenInv
<1>3. ASSUME NEW c \in Call, HandleInvalidCredentials(c)
      PROVE  OwnInv'
  BY <1>3 DEF HandleInvalidCredentials, ThrowNotFound, UpdateConnectionState,
          AfterInvalid, Exists, Goto, TypeOK, store, maps, OwnInv,
          OpOf, OneCommand, Working, IsActive, Stateful, Commands,
          ThenInv
<1>4. ASSUME NEW c \in Call, Decline(c)
      PROVE  OwnInv'
  BY <1>4 DEF Decline, Goto, TypeOK, store, maps, OwnInv, OpOf, OneCommand,
          Working, IsActive, Stateful, Commands, ThenInv
<1>5. ASSUME NEW c \in Call, Enter(c)
      PROVE  OwnInv'
  BY <1>5 DEF Enter, Authenticate, Exists, Goto, TypeOK, store, maps, OwnInv,
          OpOf, OneCommand, Working, IsActive, Stateful, Commands,
          ThenInv
<1>6. ASSUME NEW c \in Call, Written(c)
      PROVE  OwnInv'
  <2>1. /\ id' = id /\ who' = who /\ active' = ActiveWith(who[c], goal[c])
        /\ phase'[c] = then[c] /\ then[c] \in After
        /\ \A d \in Call \ {c} : phase'[d] = phase[d] \/ (phase[d] = "prompt" /\ phase'[d] = "done")
    BY <1>6, WrittenMoves DEF Written, ThenInv
  <2>2. active' # None => active # None /\ active'.id = active.id
    BY <2>1 DEF ActiveWith, IsActive
  <2> QED BY <2>1, <2>2 DEF OwnInv, After
<1>7. ASSUME NEW c \in Call, LoggedIn(c)
      PROVE  OwnInv'
  BY <1>7 DEF LoggedIn, Goto, TypeOK, store, maps, OwnInv, OpOf, OneCommand,
          Working, IsActive, Stateful, Commands, ThenInv
<1>8. ASSUME NEW c \in Call, MarkValid(c)
      PROVE  OwnInv'
  BY <1>8 DEF MarkValid, ThrowNotFound, UpdateConnectionState, Goto, TypeOK,
          store, maps, OwnInv, OpOf, OneCommand, Working,
          IsActive, Stateful, Commands, ThenInv
<1>9. ASSUME NEW c \in Call, LoginFails(c)
      PROVE  OwnInv'
  BY <1>9 DEF LoginFails, ThrowNotFound, UpdateConnectionState, Exists, Goto,
          TypeOK, store, maps, OwnInv, OpOf, OneCommand, Working,
          IsActive, Stateful, Commands, ThenInv
<1>10. ASSUME NEW c \in Call, LoginUnreachable(c)
      PROVE  OwnInv'
  BY <1>10 DEF LoginUnreachable, Goto, TypeOK, store, maps, OwnInv, OpOf,
          OneCommand, Working, IsActive, Stateful, Commands,
          ThenInv
<1>11. ASSUME NEW c \in Call, Validated(c)
      PROVE  OwnInv'
  BY <1>11 DEF Validated, ThrowNotFound, UpdateConnectionState, AfterCheck, Goto,
          TypeOK, store, maps, OwnInv, OpOf, OneCommand, Working,
          IsActive, Stateful, Commands, ThenInv
<1>12. ASSUME NEW c \in Call, Invalidated(c)
      PROVE  OwnInv'
  BY <1>12 DEF Invalidated, ThrowNotFound, UpdateConnectionState, AfterCheck,
          Goto, TypeOK, store, maps, OwnInv, OpOf, OneCommand,
          Working, IsActive, Stateful, Commands, ThenInv
<1>13. ASSUME NEW c \in Call, UseProfile(c)
      PROVE  OwnInv'
  BY <1>13 DEF UseProfile, Stateful, Exists, Goto, TypeOK, store, maps, OwnInv,
          OpOf, OneCommand, Working, IsActive, Commands, ThenInv
<1>14. ASSUME NEW c \in Call, InvalidateActive(c)
      PROVE  OwnInv'
  BY <1>14 DEF InvalidateActive, Goto, TypeOK, store, maps, OwnInv, OpOf,
          OneCommand, Working, IsActive, Stateful, Commands,
          ThenInv
<1>15. ASSUME NEW c \in Call, Invalidate(c)
      PROVE  OwnInv'
  BY <1>15 DEF Invalidate, ThrowNotFound, UpdateConnectionState, Goto, TypeOK,
          store, maps, OwnInv, OpOf, OneCommand, Working,
          IsActive, Stateful, Commands, ThenInv
<1>16. ASSUME NEW c \in Call, LoggedOut(c)
      PROVE  OwnInv'
  BY <1>16 DEF LoggedOut, Goto, TypeOK, store, maps, OwnInv, OpOf, OneCommand,
          Working, IsActive, Stateful, Commands, ThenInv
<1>17. ASSUME NEW c \in Call, DeleteProfile(c)
      PROVE  OwnInv'
  BY <1>17 DEF DeleteProfile, Goto, TypeOK, store, maps, OwnInv, OpOf,
          OneCommand, Working, IsActive, Stateful, Commands,
          ThenInv
<1>18. ASSUME NEW c \in Call, ClearStaleLinkedIamConnections(c)
      PROVE  OwnInv'
  BY <1>18 DEF ClearStaleLinkedIamConnections, Goto, TypeOK, store, maps, OwnInv,
          OpOf, OneCommand, Working, IsActive, Stateful, Commands,
          ThenInv
<1>19. ASSUME NEW c \in Call, AddProfile(c)
      PROVE  OwnInv'
  BY <1>19 DEF AddProfile, Goto, TypeOK, store, maps, OwnInv, OpOf, OneCommand,
          Working, IsActive, Stateful, Commands, ThenInv
<1>20. ASSUME NEW c \in Call, CreateFails(c)
      PROVE  OwnInv'
  BY <1>20 DEF CreateFails, Goto, TypeOK, store, maps, OwnInv, OpOf, OneCommand,
          Working, IsActive, Stateful, Commands, ThenInv
<1>21. ASSUME NEW c \in Call, MarkCreated(c)
      PROVE  OwnInv'
  BY <1>21 DEF MarkCreated, ThrowNotFound, UpdateConnectionState, Goto, TypeOK,
          store, maps, OwnInv, OpOf, OneCommand, Working,
          IsActive, Stateful, Commands, ThenInv
<1>22. ASSUME NEW c \in Call, Updated(c)
      PROVE  OwnInv'
  BY <1>22 DEF Updated, ActiveWith, Stateful, Goto, TypeOK, store, maps, OwnInv,
          OpOf, OneCommand, Working, IsActive, Commands, ThenInv
<1>23. ASSUME NEW c \in Call, Finish(c)
      PROVE  OwnInv'
  BY <1>23 DEF Finish, Followers, Goto, TypeOK, store, maps, OwnInv, OpOf,
          OneCommand, Working, IsActive, Stateful, Commands,
          ThenInv
<1>24. ASSUME NEW c \in Call, Agree(c)
      PROVE  OwnInv'
  BY <1>24 DEF Agree, Goto, TypeOK, store, maps, OwnInv, OpOf, OneCommand,
          Working, IsActive, Stateful, Commands, ThenInv
<1>25. ASSUME NEW c \in Call, Logout(c)
      PROVE  OwnInv'
  BY <1>25 DEF Logout, Start, Goto, TypeOK, store, maps, OwnInv, OpOf,
          OneCommand, Working, IsActive, Stateful, Commands,
          ThenInv
<1>26. ASSUME NEW c \in Call, NEW i \in Conn, GetToken(c, i)
      PROVE  OwnInv'
  BY <1>26 DEF GetToken, Start, Goto, TypeOK, store, maps, OwnInv, OpOf,
          OneCommand, Working, IsActive, Stateful, Commands,
          ThenInv
<1>27. ASSUME NEW c \in Call, NEW i \in Conn, GetSsoAccessToken(c, i)
      PROVE  OwnInv'
  BY <1>27 DEF GetSsoAccessToken, Start, Exists, Goto, TypeOK, store, maps,
          OwnInv, OpOf, OneCommand, Working, IsActive, Stateful,
          Commands, ThenInv
<1>28. ASSUME NEW c \in Call, NEW i \in Conn, RefreshConnectionState(c, i)
      PROVE  OwnInv'
  BY <1>28 DEF RefreshConnectionState, Start, Check, Exists, Goto, TypeOK, store,
          maps, OwnInv, OpOf, OneCommand, Working, IsActive,
          Stateful, Commands, ThenInv
<1>29. ASSUME NEW c \in Call, NEW i \in Conn, UseConnection(c, i)
      PROVE  OwnInv'
  BY <1>29 DEF UseConnection, Start, Check, Exists, Goto, TypeOK, store, maps,
          OwnInv, OpOf, OneCommand, Working, IsActive, Stateful,
          Commands, ThenInv
<1>30. ASSUME NEW c \in Call, NEW i \in Conn, DeleteConnection(c, i)
      PROVE  OwnInv'
  BY <1>30 DEF DeleteConnection, Start, IsActive, Goto, TypeOK, store, maps,
          OwnInv, OpOf, OneCommand, Working, Stateful, Commands,
          ThenInv
<1>31. ASSUME NEW c \in Call, NEW i \in Conn, ForgetConnection(c, i)
      PROVE  OwnInv'
  BY <1>31 DEF ForgetConnection, Start, Goto, TypeOK, store, maps, OwnInv, OpOf,
          OneCommand, Working, IsActive, Stateful, Commands,
          ThenInv
<1>32. ASSUME NEW c \in Call, NEW i \in Conn, CreateConnection(c, i)
      PROVE  OwnInv'
  BY <1>32 DEF CreateConnection, Start, Goto, TypeOK, store, maps, OwnInv, OpOf,
          OneCommand, Working, IsActive, Stateful, Commands,
          ThenInv
<1>33. ASSUME NEW c \in Call, NEW i \in Conn, UpdateConnection(c, i)
      PROVE  OwnInv'
  BY <1>33 DEF UpdateConnection, Start, Exists, Goto, TypeOK, store, maps,
          OwnInv, OpOf, OneCommand, Working, IsActive, Stateful,
          Commands, ThenInv
<1>34. ASSUME NEW c \in Call, NEW i \in Conn, NEW invalidate \in BOOLEAN,
             Reauthenticate(c, i, invalidate)
      PROVE  OwnInv'
  BY <1>34 DEF Reauthenticate, Authenticate, Start, Exists, Goto, TypeOK, store,
          maps, OwnInv, OpOf, OneCommand, Working, IsActive,
          Stateful, Commands, ThenInv
<1>35. CASE UNCHANGED vars
  BY <1>35 DEF vars, store, maps, calls, OwnInv, OpOf, OneCommand, Working,
          IsActive, Stateful, Commands, ThenInv
<1> QED
  BY <1>1, <1>2, <1>3, <1>4, <1>5, <1>6, <1>7, <1>8, <1>9, <1>10, <1>11,
     <1>12, <1>13, <1>14, <1>15, <1>16, <1>17, <1>18, <1>19, <1>20, <1>21,
     <1>22, <1>23, <1>24, <1>25, <1>26, <1>27, <1>28, <1>29, <1>30, <1>31,
     <1>32, <1>33, <1>34, <1>35 DEF Next, Step, Command

\* Whoever waits for a command before giving the next can rely on it: a logout ends
\* the session of the connection that was active when it was asked for, although it
\* looks the connection up again after it has waited.
THEOREM LogoutEndsItsOwn ==
    ASSUME Patient
    PROVE  Spec => []EndsItsOwn
<1> DEFINE Inv == QDefined /\ OpOf /\ OneCommand /\ OwnInv
<1>1. Init => Inv
  BY QInit DEF Init, OpOf, OneCommand, OwnInv, Working
<1>2. Inv /\ [Next]_vars => Inv'
  BY QStep, OpStep, OneCommandStep, OwnStep DEF QDefined
<1>3. Inv => EndsItsOwn
  BY DEF OwnInv, EndsItsOwn
<1> QED BY <1>1, <1>2, <1>3, PTL DEF Spec

===============================================================================
