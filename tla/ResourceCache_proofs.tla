------------------------ MODULE ResourceCache_proofs ------------------------
(* Proofs about ResourceCache, for every set of windows and of calls. *)
EXTENDS ResourceCache, TLAPS

-----------------------------------------------------------------------------
(* Type correctness *)

\* The partial writes and the write-backs of earlier copies keep the stored
\* value a Resource in every window.
LEMMA TypeStep == TypeOK /\ [Next]_vars => TypeOK'
<1> USE HomeAssumption, BoundsAssumption, NoConnAssumption
<1> SUFFICES ASSUME TypeOK, [Next]_vars PROVE TypeOK'
  OBVIOUS
<1>0. Default \in Resource /\ NoGot \in Got
  BY DEF Default, Resource, NoGot, Got
<1> USE DEF TypeOK, Phase, Found, GoTo
<1>1. ASSUME NEW c \in Caller, FastHit(c) PROVE TypeOK'
  <2>1. view[Home[c]].result \in Result \cup {None} /\ conn[Home[c]] \in Conn \cup {NoConn}
    BY <1>1 DEF FastHit, Resource
  <2>2. [result |-> view[Home[c]].result, lookedUp |-> now, by |-> conn[Home[c]]] \in Got
    BY <2>1 DEF Got
  <2> QED BY <1>1, <2>2 DEF FastHit
<1>2. ASSUME NEW c \in Caller, FastMiss(c) PROVE TypeOK'
  BY <1>2, <1>0 DEF FastMiss
<1>3. ASSUME NEW c \in Caller, TryLock(c) PROVE TypeOK'
  <2>1. Home[c] \in Window /\ view[Home[c]] \in Resource
    BY <1>3
  <2>2. Locked(view[Home[c]]) \in Resource
    BY <2>1 DEF Locked, Resource
  <2> QED BY <1>3, <2>1, <2>2 DEF TryLock, Write, Update
<1>4. ASSUME NEW c \in Caller, LockedHit(c) PROVE TypeOK'
  <2>1. base[c].result \in Result \cup {None} /\ conn[Home[c]] \in Conn \cup {NoConn}
    BY <1>4 DEF LockedHit, Resource
  <2>2. [result |-> base[c].result, lookedUp |-> now, by |-> conn[Home[c]]] \in Got
    BY <2>1 DEF Got
  <2> QED BY <1>4, <1>0, <2>2 DEF LockedHit, Write, Update
<1>5. ASSUME NEW c \in Caller, LockedMiss(c) PROVE TypeOK'
  BY <1>5, <1>0 DEF LockedMiss, StartPull
<1>6. ASSUME NEW c \in Caller, GiveUp(c) PROVE TypeOK'
  BY <1>6, <1>0 DEF GiveUp, StartPull
<1>7. ASSUME NEW c \in Caller, PullOk(c) PROVE TypeOK'
  <2>1. Latest(c) \in Resource /\ Latest(c).result \in Result
    BY <1>7 DEF Latest, Resource, Result
  <2>2. [result |-> Latest(c).result, lookedUp |-> now, by |-> pull[c]] \in Got
    BY <2>1 DEF Got
  <2> QED BY <1>7, <2>1, <2>2 DEF PullOk, Write, Update
<1>8. ASSUME NEW c \in Caller, PullFails(c) PROVE TypeOK'
  <2>1. Home[c] \in Window /\ Unlocked(view[Home[c]]) \in Resource
    BY <1>8 DEF Unlocked, Resource
  <2> QED BY <1>8, <2>1 DEF PullFails, Write, Update
<1>9. ASSUME NEW c \in Caller, Finish(c) PROVE TypeOK'
  BY <1>9 DEF Finish
<1>10. ASSUME NEW c \in Caller, PullWriteFails(c) PROVE TypeOK'
  <2>1. Home[c] \in Window /\ Unlocked(view[Home[c]]) \in Resource
    BY <1>10 DEF Unlocked, Resource
  <2> QED BY <1>10, <2>1 DEF PullWriteFails, Write, Update
<1>11. ASSUME NEW c \in Caller, WriteFails(c) PROVE TypeOK'
  BY <1>11, <1>0 DEF WriteFails
<1>12. ASSUME NEW w \in Window, Connect(w) PROVE TypeOK'
  BY <1>12 DEF Connect
<1>13. ASSUME NEW w \in Window, Disconnect(w) PROVE TypeOK'
  BY <1>13 DEF Disconnect
<1>14. ASSUME NEW w \in Window, ClearCache(w) PROVE TypeOK'
  BY <1>14, <1>0 DEF ClearCache, Update
<1>15. ASSUME NEW w \in Window, Flush(w) PROVE TypeOK'
  BY <1>15 DEF Flush
<1>16. ASSUME NEW w \in Window, Sync(w) PROVE TypeOK'
  BY <1>16 DEF Sync
<1>17. ASSUME Tick PROVE TypeOK'
  BY <1>17 DEF Tick
<1>18. ASSUME NEW w \in Window, Restart(w) PROVE TypeOK'
  BY <1>18, <1>0 DEF Restart
<1>19. CASE UNCHANGED vars
  BY <1>19 DEF vars
<1> QED
  BY <1>1, <1>2, <1>3, <1>4, <1>5, <1>6, <1>7, <1>8, <1>9, <1>10, <1>11,
     <1>12, <1>13, <1>14, <1>15, <1>16, <1>17, <1>18, <1>19
     DEF Next, CallerStep, WindowStep

\* The default of readCacheOrDefault is a Resource.
LEMMA TypeInit == Init => TypeOK
<1>1. Default \in Resource /\ NoGot \in Got
  BY DEF Default, Resource, NoGot, Got
<1> SUFFICES ASSUME Init PROVE TypeOK
  OBVIOUS
<1>2. /\ now \in Nat /\ storage \in Resource /\ view \in [Window -> Resource]
      /\ base \in [Caller -> Resource] /\ got \in [Caller -> Got] /\ restarts \in Nat
  BY <1>1 DEF Init
<1>3. /\ dirty \in [Window -> BOOLEAN] /\ clearing \in [Window -> BOOLEAN]
      /\ conn \in [Window -> Conn \cup {NoConn}] /\ pull \in [Caller -> Conn \cup {NoConn}]
      /\ phase \in [Caller -> Phase] /\ waived \in BOOLEAN
  BY DEF Init, Phase
<1>4. awaiting \subseteq Caller /\ owners \subseteq Caller
  BY DEF Init
<1> QED BY <1>2, <1>3, <1>4 DEF TypeOK

\* The value in every window's globalState is always a well-formed Resource.
THEOREM TypeCorrect == Spec => []TypeOK
BY TypeInit, TypeStep, PTL DEF Spec

-----------------------------------------------------------------------------
(* Freshness *)

\* What one stored value has to satisfy for TimestampOfResult.
Paired(r) == r.result # None => r.timestamp = r.result.at /\ r.result.at <= now

\* TimestampOfResult copy by copy, and FreshResult.
FreshInv ==
    /\ Paired(storage)
    /\ \A w \in Window : Paired(view[w])
    /\ \A c \in Caller : Paired(base[c])
    /\ FreshResult

\* Taking and dropping the lock touch neither result nor timestamp.
LEMMA PairedLock ==
    ASSUME NEW r \in Resource, Paired(r)
    PROVE  Paired(Locked(r)) /\ Paired(Unlocked(r))
BY DEF Paired, Locked, Unlocked, Resource

\* Every step keeps the pairing and the freshness of what calls found.
LEMMA FreshStep == TypeOK /\ FreshInv /\ [Next]_vars => FreshInv'
<1> USE HomeAssumption, ExpiryAssumption
<1> SUFFICES ASSUME TypeOK, FreshInv, [Next]_vars PROVE FreshInv'
  OBVIOUS
<1>0. Paired(Default)
  BY DEF Paired, Default
<1>d. ASSUME now' = now, NEW r PROVE Paired(r)' <=> Paired(r)
  BY <1>d DEF Paired
<1> USE DEF GoTo, Found
<1>g. NoGot.result = None
  BY DEF NoGot
<1>1. ASSUME NEW c \in Caller, FastHit(c) PROVE FreshInv'
  <2>1. Paired(view[Home[c]]) /\ now - view[Home[c]].timestamp < Expiry
        /\ view[Home[c]].result # None
    BY <1>1 DEF FastHit, FreshInv, TypeOK, Usable
  <2>2. FreshResult'
    BY <1>1, <2>1 DEF FastHit, FreshInv, FreshResult, TypeOK, Paired
  <2> QED BY <1>1, <2>2 DEF FastHit, FreshInv, Paired
<1>2. ASSUME NEW c \in Caller, FastMiss(c) PROVE FreshInv'
  BY <1>2, <1>g DEF FastMiss, FreshInv, Paired, FreshResult, TypeOK
<1>3. ASSUME NEW c \in Caller, TryLock(c) PROVE FreshInv'
  <2>1. Home[c] \in Window /\ view[Home[c]] \in Resource /\ Paired(view[Home[c]])
    BY DEF FreshInv, TypeOK
  <2>2. Paired(Locked(view[Home[c]]))
    BY <2>1, PairedLock
  <2> QED BY <1>3, <2>1, <2>2, <1>d DEF TryLock, Write, Update, FreshInv, FreshResult, TypeOK
<1>4. ASSUME NEW c \in Caller, LockedHit(c) PROVE FreshInv'
  <2>1. Paired(base[c]) /\ now - base[c].timestamp < Expiry /\ base[c].result # None
    BY <1>4 DEF LockedHit, FreshInv, TypeOK, Usable
  <2>2. FreshResult'
    BY <1>4, <2>1 DEF LockedHit, FreshInv, FreshResult, TypeOK, Paired
  <2>3. (\A w \in Window : Paired(view[w]))' /\ (\A d \in Caller : Paired(base[d]))' /\ Paired(storage)'
    BY <1>4, <2>1, <1>0, <1>d DEF LockedHit, Write, Update, FreshInv, TypeOK
  <2> QED BY <2>2, <2>3 DEF FreshInv
<1>5. ASSUME NEW c \in Caller, LockedMiss(c) PROVE FreshInv'
  BY <1>5, <1>0, <1>d DEF LockedMiss, StartPull, FreshInv, FreshResult, TypeOK
<1>6. ASSUME NEW c \in Caller, GiveUp(c) PROVE FreshInv'
  BY <1>6, <1>0, <1>d DEF GiveUp, StartPull, FreshInv, FreshResult, TypeOK
<1>7. ASSUME NEW c \in Caller, PullOk(c) PROVE FreshInv'
  <2>1. Paired(Latest(c)) /\ Latest(c).result.at = now /\ now \in Nat
    BY DEF Latest, Paired, TypeOK
  <2>2. FreshResult'
    BY <1>7, <2>1 DEF PullOk, FreshInv, FreshResult, TypeOK
  <2>3. (\A w \in Window : Paired(view[w]))' /\ (\A d \in Caller : Paired(base[d]))' /\ Paired(storage)'
    BY <1>7, <2>1, <1>d DEF PullOk, Write, Update, FreshInv, TypeOK
  <2> QED BY <2>2, <2>3 DEF FreshInv
<1>8. ASSUME NEW c \in Caller, PullFails(c) \/ PullWriteFails(c) PROVE FreshInv'
  <2>1. Home[c] \in Window /\ view[Home[c]] \in Resource /\ Paired(view[Home[c]])
    BY DEF FreshInv, TypeOK
  <2>2. Paired(Unlocked(view[Home[c]]))
    BY <2>1, PairedLock
  <2> QED BY <1>8, <2>1, <2>2, <1>d
          DEF PullFails, PullWriteFails, Write, Update, FreshInv, FreshResult, TypeOK
<1>9. ASSUME NEW c \in Caller, Finish(c) PROVE FreshInv'
  BY <1>9 DEF Finish, FreshInv, FreshResult, Paired
<1>10. ASSUME NEW c \in Caller, WriteFails(c) PROVE FreshInv'
  BY <1>10, <1>0, <1>d DEF WriteFails, FreshInv, FreshResult, TypeOK
<1>11. ASSUME NEW w \in Window, Connect(w) \/ Disconnect(w) PROVE FreshInv'
  BY <1>11 DEF Connect, Disconnect, FreshInv, FreshResult, Paired
<1>12. ASSUME NEW w \in Window, ClearCache(w) PROVE FreshInv'
  BY <1>12, <1>0, <1>d DEF ClearCache, Update, FreshInv, FreshResult, TypeOK
<1>13. ASSUME NEW w \in Window, Flush(w) PROVE FreshInv'
  BY <1>13, <1>d DEF Flush, FreshInv, FreshResult, TypeOK
<1>14. ASSUME NEW w \in Window, Sync(w) PROVE FreshInv'
  BY <1>14, <1>d DEF Sync, FreshInv, FreshResult, TypeOK
<1>15. ASSUME Tick PROVE FreshInv'
  <2>1. now \in Nat /\ now' = now + 1
    BY <1>15 DEF Tick, TypeOK
  <2>2. ASSUME NEW r \in Resource, Paired(r) PROVE Paired(r)'
    BY <2>1, <2>2, NoneAssumption DEF Paired, Resource, Result
  <2> QED BY <1>15, <2>2 DEF Tick, FreshInv, FreshResult, TypeOK
<1>16. ASSUME NEW w \in Window, Restart(w) PROVE FreshInv'
  BY <1>16, <1>0, <1>d DEF Restart, FreshInv, FreshResult, TypeOK
<1>17. CASE UNCHANGED vars
  BY <1>17 DEF vars, FreshInv, FreshResult, Paired
<1> QED
  BY <1>1, <1>2, <1>3, <1>4, <1>5, <1>6, <1>7, <1>8, <1>9, <1>10, <1>11,
     <1>12, <1>13, <1>14, <1>15, <1>16, <1>17
     DEF Next, CallerStep, WindowStep

\* Nothing is stored at first.
LEMMA FreshInit == Init => FreshInv
BY DEF Init, FreshInv, FreshResult, Paired, Default, NoGot

\* FreshInv is an invariant.
LEMMA FreshInvariant == Spec => []FreshInv
BY TypeCorrect, FreshInit, FreshStep, PTL DEF Spec

\* getResource() never answers with a result that had reached its expiration:
\* for any number of windows and calls, any expiration, any loss or delay of
\* globalState writes and any crash.
THEOREM Freshness == Spec => []FreshResult
<1>1. FreshInv => FreshResult
  BY DEF FreshInv
<1> QED BY <1>1, FreshInvariant, PTL

\* No interleaving of partial writes separates a timestamp from its result.
THEOREM TimestampsPaired == Spec => []TimestampOfResult
<1>1. FreshInv => TimestampOfResult
  BY DEF FreshInv, TimestampOfResult, Stored, Paired
<1> QED BY <1>1, FreshInvariant, PTL

-----------------------------------------------------------------------------
(* The lock within one window *)

\* While the protocol has not been waived, the calls past the lock are exactly
\* the owners, an owner sees its window's copy locked, the copy it read was
\* not, and no two owners share a window.
OwnerInv ==
    ~waived =>
        /\ \A c \in Caller : c \in owners <=> phase[c] \in {"locking", "pulling"}
        /\ \A c \in owners : view[Home[c]].locked
        /\ OneOwnerPerWindow

\* Every step keeps OwnerInv: steps outside the protocol set waived.
LEMMA OwnerStep == TypeOK /\ OwnerInv /\ [Next]_vars => OwnerInv'
<1> USE HomeAssumption
<1> SUFFICES ASSUME TypeOK, OwnerInv, [Next]_vars, ~waived' PROVE OwnerInv'
  BY DEF OwnerInv
<1> USE DEF OwnerInv, OneOwnerPerWindow, TypeOK, GoTo
<1>1. ASSUME NEW c \in Caller, FastHit(c) PROVE OwnerInv'
  BY <1>1 DEF FastHit
<1>2. ASSUME NEW c \in Caller, FastMiss(c) PROVE OwnerInv'
  BY <1>2 DEF FastMiss
<1>3. ASSUME NEW c \in Caller, TryLock(c) PROVE OwnerInv'
  <2>1. ~waived /\ Home[c] \in Window /\ view[Home[c]] \in Resource
    BY <1>3 DEF TryLock
  <2>2. Locked(view[Home[c]]).locked
    BY <2>1 DEF Locked, Resource
  <2>3. \A d \in owners : Home[d] # Home[c]
    BY <1>3, <2>1 DEF TryLock
  <2> QED BY <1>3, <2>1, <2>2, <2>3 DEF TryLock, Write, Update
<1>4. ASSUME NEW c \in Caller, LockedHit(c) PROVE OwnerInv'
  <2>1. ~waived /\ c \in owners /\ \A d \in owners : Home[d] = Home[c] => d = c
    BY <1>4 DEF LockedHit
  <2> QED BY <1>4, <2>1 DEF LockedHit, Write, Update
<1>5. ASSUME NEW c \in Caller, LockedMiss(c) PROVE OwnerInv'
  BY <1>5 DEF LockedMiss, StartPull
<1>6. ASSUME NEW c \in Caller, GiveUp(c) PROVE FALSE
  BY <1>6 DEF GiveUp
<1>7. ASSUME NEW c \in Caller, PullOk(c) \/ PullFails(c) PROVE OwnerInv'
  <2>1. ~waived /\ c \in owners /\ \A d \in owners : Home[d] = Home[c] => d = c
    BY <1>7 DEF PullOk, PullFails
  <2> QED BY <1>7, <2>1 DEF PullOk, PullFails, Write, Update
<1>8. ASSUME NEW c \in Caller, Finish(c) PROVE OwnerInv'
  BY <1>8 DEF Finish
<1>9. ASSUME NEW c \in Caller, PullWriteFails(c) PROVE FALSE
  BY <1>9 DEF PullWriteFails
<1>10. ASSUME NEW c \in Caller, WriteFails(c) PROVE OwnerInv'
  BY <1>10 DEF WriteFails
<1>11. ASSUME NEW w \in Window, Connect(w) \/ Disconnect(w) \/ Flush(w) PROVE OwnerInv'
  BY <1>11 DEF Connect, Disconnect, Flush
<1>12. ASSUME NEW w \in Window, ClearCache(w) \/ Sync(w) \/ Restart(w) PROVE FALSE
  BY <1>12 DEF ClearCache, Sync, Restart
<1>13. ASSUME Tick PROVE OwnerInv'
  BY <1>13 DEF Tick
<1>14. CASE UNCHANGED vars
  BY <1>14 DEF vars
<1> QED
  BY <1>1, <1>2, <1>3, <1>4, <1>5, <1>6, <1>7, <1>8, <1>9, <1>10, <1>11,
     <1>12, <1>13, <1>14 DEF Next, CallerStep, WindowStep

\* Polling and locking in one synchronous step suffices for one owner per
\* window, however many calls there are.
THEOREM OneOwner == Spec => []OneOwnerPerWindow
<1>1. Init => OwnerInv
  BY DEF Init, OwnerInv, OneOwnerPerWindow
<1>2. OwnerInv => OneOwnerPerWindow
  BY DEF OwnerInv, OneOwnerPerWindow
<1> QED BY <1>1, <1>2, TypeCorrect, OwnerStep, PTL DEF Spec
=============================================================================
