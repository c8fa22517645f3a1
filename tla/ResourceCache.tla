---------------------------- MODULE ResourceCache ----------------------------
(***************************************************************************)
(* CachedResource<V> (shared/utilities/resourceCache.ts): a result that is *)
(* expensive to pull, kept in VS Code's globalState so that every window   *)
(* can use it, together with a "locked" flag that is meant to let one      *)
(* caller pull while the others wait.  Its user is RegionProfileManager    *)
(* (the Amazon Q profiles of the connected account), which also clears it  *)
(* when the account disconnects.                                           *)
(*                                                                         *)
(* globalState is external (a vscode.Memento).  As the code uses it, a     *)
(* read is synchronous and served by the window's own copy, an update      *)
(* changes that copy at once and resolves when it has reached the shared   *)
(* storage; another window's update is seen some time later.               *)
(*                                                                         *)
(* waitUntil's 15 s budget is not timed: a caller that finds the lock held *)
(* (or whose lock write is slow) may give up at any moment.                *)
(***************************************************************************)
EXTENDS Integers, FiniteSets

CONSTANTS Window,       \* VS Code windows (extension host processes)
          Caller,       \* concurrent calls of getResource()
          Home,         \* Home[c]: the window call c is made in
          Conn,         \* connections whose profiles can be listed
          NoConn,       \* "not connected": the provider then returns []
          None,         \* result: undefined
          Expiry,       \* expirationInMilli
          MaxTime,      \* bound on the clock
          MaxRestarts   \* bound on window crashes

ASSUME HomeAssumption    == Home \in [Caller -> Window]
ASSUME ExpiryAssumption  == Expiry \in Nat /\ Expiry > 0
ASSUME BoundsAssumption  == MaxTime \in Nat /\ MaxRestarts \in Nat
ASSUME NoConnAssumption  == NoConn \notin Conn
\* A pull result is a record, so it is never the value standing for undefined.
ASSUME NoneAssumption    ==
    None \notin [conn : Conn \cup {NoConn}, at : Nat]

VARIABLES
    now,       \* globals.clock.Date.now()
    storage,   \* the globalState value all windows share
    view,      \* view[w]: window w's in-memory copy of it
    dirty,     \* dirty[w]: view[w] holds an update not yet in storage
    awaiting,  \* calls whose last update has not resolved
    conn,      \* conn[w]: the connection connectionProvider() returns in w
    clearing,  \* clearing[w]: a connection-change handler has yet to run
    phase,     \* phase[c]: where call c of getResource() is
    base,      \* base[c]: cachedValue, the copy c read when it took the lock
    pull,      \* pull[c]: the connection c's resourceProvider() call captured
    got,       \* history, got[c]: what call c found and when it looked it up
    owners,    \* history: calls that took the lock free and still count on it
    waived,    \* history: TRUE once a step outside the lock protocol has run
    restarts

vars == <<now, storage, view, dirty, awaiting, conn, clearing, phase, base,
          pull, got, owners, waived, restarts>>

Phase == {"idle", "acquiring", "locking", "pulling",
          "hitRelease", "pullRelease", "errRelease"}

\* V (a pull's result: whose profiles, and when they were pulled) and Resource<V>.
Result   == [conn : Conn \cup {NoConn}, at : Nat]
Resource == [result : Result \cup {None}, locked : BOOLEAN, timestamp : Nat]
Default  == [result |-> None, locked |-> FALSE, timestamp |-> 0]

\* The locals of a call that has not read anything yet.
NoGot == [result |-> None, lookedUp |-> 0, by |-> NoConn]
Got == [result : Result \cup {None}, lookedUp : Nat, by : Conn \cup {NoConn}]

TypeOK ==
    /\ now \in Nat
    /\ storage \in Resource
    /\ view \in [Window -> Resource]
    /\ dirty \in [Window -> BOOLEAN]
    /\ awaiting \subseteq Caller
    /\ conn \in [Window -> Conn \cup {NoConn}]
    /\ clearing \in [Window -> BOOLEAN]
    /\ phase \in [Caller -> Phase]
    /\ base \in [Caller -> Resource]
    /\ pull \in [Caller -> Conn \cup {NoConn}]
    /\ got \in [Caller -> Got]
    /\ owners \subseteq Caller
    /\ waived \in BOOLEAN
    /\ restarts \in Nat

Init ==
    /\ now = 0
    /\ storage = Default
    /\ view = [w \in Window |-> Default]
    /\ dirty = [w \in Window |-> FALSE]
    /\ awaiting = {}
    /\ conn \in [Window -> Conn \cup {NoConn}]
    /\ clearing = [w \in Window |-> FALSE]
    /\ phase = [c \in Caller |-> "idle"]
    /\ base = [c \in Caller |-> Default]
    /\ pull = [c \in Caller |-> NoConn]
    /\ got = [c \in Caller |-> NoGot]
    /\ owners = {}
    /\ waived = FALSE
    /\ restarts = 0

-----------------------------------------------------------------------------
(* Helpers *)

\* A result that is not undefined and younger than the expiration ([], the
\* answer for NoConn, is a result).
UsableAtExpiry(r) == r.result # None /\ now - r.timestamp <= Expiry
Usable(r) == r.result # None /\ now - r.timestamp < Expiry

\* globalState.update(key, r): the window's copy changes now, storage later.
Update(w, r) ==
    /\ view' = [view EXCEPT ![w] = r]
    /\ dirty' = [dirty EXCEPT ![w] = TRUE]

\* A call makes an update and awaits it.
Write(c, r) == Update(Home[c], r) /\ awaiting' = awaiting \cup {c}

LockDropped(r) == r
Locked(r) == [r EXCEPT !.locked = TRUE]

LockUndefined(r) == [r EXCEPT !.locked = None]
Unlocked(r) == [r EXCEPT !.locked = FALSE]

\* What a successful pull of call c stores, releasing the lock.
LatestTimeKept(c) == [result |-> [conn |-> pull[c], at |-> now], locked |-> FALSE,
                      timestamp |-> view[Home[c]].timestamp]
LatestLockKept(c) == [result |-> [conn |-> pull[c], at |-> now],
                      locked |-> view[Home[c]].locked, timestamp |-> now]
Latest(c) == [result |-> [conn |-> pull[c], at |-> now], locked |-> FALSE,
              timestamp |-> now]

\* waitUntil may end without a lock: it is held by another call, or the write
\* that takes it has not resolved.
WaitsForWriteOnly(c) == phase[c] = "locking" /\ c \in awaiting
WaitIsOver(c) ==
    \/ phase[c] = "acquiring" /\ view[Home[c]].locked
    \/ phase[c] = "locking" /\ c \in awaiting

GoTo(c, p) == phase' = [phase EXCEPT ![c] = p]

\* Call c, working for connection k, has found r.
Found(c, r, k) ==
    got' = [got EXCEPT ![c] = [result |-> r, lookedUp |-> now, by |-> k]]

-----------------------------------------------------------------------------
(* getResource() *)

\* The look at the cache without locking: a hit returns there and then.
FastHit(c) ==
    /\ phase[c] = "idle"
    /\ ~view[Home[c]].locked
    /\ Usable(view[Home[c]])
    /\ Found(c, view[Home[c]].result, conn[Home[c]])
    /\ UNCHANGED <<now, storage, view, dirty, awaiting, conn, clearing, phase,
                   base, pull, owners, waived, restarts>>

FastMiss(c) ==
    /\ phase[c] = "idle"
    /\ view[Home[c]].locked \/ ~Usable(view[Home[c]])
    /\ GoTo(c, "acquiring")
    /\ got' = [got EXCEPT ![c] = NoGot]
    /\ UNCHANGED <<now, storage, view, dirty, awaiting, conn, clearing, base,
                   pull, owners, waived, restarts>>

\* A poll of tryLoadResourceAndLock that finds the lock free takes it.
TryLock(c) ==
    LET w == Home[c] IN
    /\ phase[c] = "acquiring"
    /\ ~view[w].locked
    /\ base' = [base EXCEPT ![c] = view[w]]
    /\ Write(c, Locked(view[w]))
    /\ GoTo(c, "locking")
    /\ owners' = owners \cup {c}
    /\ UNCHANGED <<now, storage, conn, clearing, pull, got, waived, restarts>>

\* The call to resourceProvider(); cachedValue is not used any more.
StartPull(c) ==
    /\ pull' = [pull EXCEPT ![c] = conn[Home[c]]]
    /\ base' = [base EXCEPT ![c] = Default]
    /\ GoTo(c, "pulling")

\* The lock write has resolved and what was read with it is fresh: write it
\* back, which also releases the lock.
LockedHit(c) ==
    /\ phase[c] = "locking"
    /\ c \notin awaiting
    /\ Usable(base[c])
    /\ Write(c, base[c])
    /\ Found(c, base[c].result, conn[Home[c]])
    /\ GoTo(c, "hitRelease")
    /\ base' = [base EXCEPT ![c] = Default]
    /\ owners' = owners \ {c}
    /\ UNCHANGED <<now, storage, conn, clearing, pull, waived, restarts>>

LockedMiss(c) ==
    /\ phase[c] = "locking"
    /\ c \notin awaiting
    /\ ~Usable(base[c])
    /\ StartPull(c)
    /\ UNCHANGED <<now, storage, view, dirty, awaiting, conn, clearing, got,
                   owners, waived, restarts>>

\* The wait is over without the lock: pull anyway.
GiveUp(c) ==
    /\ WaitIsOver(c)
    /\ StartPull(c)
    /\ awaiting' = awaiting \ {c}
    /\ owners' = owners \ {c}
    /\ waived' = TRUE
    /\ UNCHANGED <<now, storage, view, dirty, conn, clearing, got,
                   restarts>>

\* resourceProvider() resolved: store the result and release the lock.
PullOk(c) ==
    /\ phase[c] = "pulling"
    /\ Write(c, Latest(c))
    /\ Found(c, Latest(c).result, pull[c])
    /\ GoTo(c, "pullRelease")
    /\ pull' = [pull EXCEPT ![c] = NoConn]
    /\ owners' = owners \ {c}
    /\ UNCHANGED <<now, storage, conn, clearing, base, waived, restarts>>

\* resourceProvider() rejected (never so when it found no connection).
PullFails(c) ==
    /\ phase[c] = "pulling"
    /\ pull[c] # NoConn
    /\ Write(c, Unlocked(view[Home[c]]))
    /\ GoTo(c, "errRelease")
    /\ pull' = [pull EXCEPT ![c] = NoConn]
    /\ owners' = owners \ {c}
    /\ UNCHANGED <<now, storage, conn, clearing, base, got, waived,
                   restarts>>

\* The last write of the call has resolved: it returns, or throws.
Finish(c) ==
    /\ phase[c] \in {"hitRelease", "pullRelease", "errRelease"}
    /\ c \notin awaiting
    /\ GoTo(c, "idle")
    /\ UNCHANGED <<now, storage, view, dirty, awaiting, conn, clearing, base,
                   pull, got, owners, waived, restarts>>

\* The write of a pulled result rejects inside the try block: its handler
\* releases the lock once more, whoever holds it by then.
PullWriteFails(c) ==
    /\ phase[c] = "pullRelease"
    /\ c \in awaiting
    /\ Write(c, Unlocked(view[Home[c]]))
    /\ GoTo(c, "errRelease")
    /\ waived' = TRUE
    /\ UNCHANGED <<now, storage, conn, clearing, base, pull, got, owners,
                   restarts>>

\* Any other write rejects: the call throws, a lock it has taken stays taken.
WriteFails(c) ==
    /\ phase[c] \in {"locking", "hitRelease", "errRelease"}
    /\ c \in awaiting
    /\ awaiting' = awaiting \ {c}
    /\ owners' = owners \ {c}
    /\ base' = [base EXCEPT ![c] = Default]
    /\ GoTo(c, "idle")
    /\ UNCHANGED <<now, storage, view, dirty, conn, clearing, pull, got, waived,
                  restarts>>

-----------------------------------------------------------------------------
(* The connection of a window and clearCache() *)

\* A sign-in goes through the browser: the handler of the sign-out before it
\* has long ended.
Connect(w) ==
    /\ conn[w] = NoConn
    /\ ~clearing[w]
    /\ \E k \in Conn : conn' = [conn EXCEPT ![w] = k]
    /\ UNCHANGED <<now, storage, view, dirty, awaiting, clearing, phase, base,
                   pull, got, owners, waived, restarts>>

Disconnect(w) ==
    /\ conn[w] # NoConn
    /\ conn' = [conn EXCEPT ![w] = NoConn]
    /\ clearing' = [clearing EXCEPT ![w] = TRUE]
    /\ UNCHANGED <<now, storage, view, dirty, awaiting, phase, base, pull, got,
                   owners, waived, restarts>>

\* The connection-change handler, several awaits after the disconnection.
ClearCache(w) ==
    /\ clearing[w]
    /\ clearing' = [clearing EXCEPT ![w] = FALSE]
    /\ Update(w, Default)
    /\ waived' = TRUE
    /\ UNCHANGED <<now, storage, awaiting, conn, phase, base, pull, got, owners,
                   restarts>>

-----------------------------------------------------------------------------
(* Environment: storage, the clock, crashes *)

\* The pending update of w reaches the storage; the promises waiting on it
\* resolve.
Flush(w) ==
    /\ dirty[w]
    /\ storage' = view[w]
    /\ dirty' = [dirty EXCEPT ![w] = FALSE]
    /\ awaiting' = {c \in awaiting : Home[c] # w}
    /\ UNCHANGED <<now, view, conn, clearing, phase, base, pull, got, owners,
                   waived, restarts>>

\* Another window's update becomes visible in w.
Sync(w) ==
    /\ ~dirty[w]
    /\ view[w] # storage
    /\ view' = [view EXCEPT ![w] = storage]
    /\ waived' = TRUE
    /\ UNCHANGED <<now, storage, dirty, awaiting, conn, clearing, phase, base,
                   pull, got, owners, restarts>>

Tick ==
    /\ now < MaxTime
    /\ now' = now + 1
    /\ UNCHANGED <<storage, view, dirty, awaiting, conn, clearing, phase, base,
                   pull, got, owners, waived, restarts>>

\* The window dies and is opened again: its calls are gone, a lock that
\* reached the storage is not.
Restart(w) ==
    LET here == {c \in Caller : Home[c] = w} IN
    /\ restarts < MaxRestarts
    /\ restarts' = restarts + 1
    /\ view' = [view EXCEPT ![w] = storage]
    /\ dirty' = [dirty EXCEPT ![w] = FALSE]
    /\ awaiting' = awaiting \ here
    /\ clearing' = [clearing EXCEPT ![w] = FALSE]
    /\ phase' = [c \in Caller |-> IF c \in here THEN "idle" ELSE phase[c]]
    /\ base' = [c \in Caller |-> IF c \in here THEN Default ELSE base[c]]
    /\ pull' = [c \in Caller |-> IF c \in here THEN NoConn ELSE pull[c]]
    /\ owners' = owners \ here
    /\ waived' = TRUE
    /\ UNCHANGED <<now, storage, conn, got>>

-----------------------------------------------------------------------------

CallerStep(c) ==
    \/ FastHit(c) \/ FastMiss(c) \/ TryLock(c) \/ LockedHit(c) \/ LockedMiss(c)
    \/ GiveUp(c) \/ PullOk(c) \/ PullFails(c) \/ Finish(c)
    \/ PullWriteFails(c) \/ WriteFails(c)

WindowStep(w) ==
    \/ Connect(w) \/ Disconnect(w) \/ ClearCache(w)
    \/ Flush(w) \/ Sync(w) \/ Restart(w)

Next ==
    \/ \E c \in Caller : CallerStep(c)
    \/ \E w \in Window : WindowStep(w)
    \/ Tick

Spec == Init /\ [][Next]_vars

\* A started call is driven by the event loop of its window: a poll, the end of
\* waitUntil, the provider settling, a write resolving.  Nobody has to call.
Fairness ==
    /\ \A c \in Caller :
        /\ WF_vars(LockedHit(c) \/ LockedMiss(c))
        /\ WF_vars(TryLock(c) \/ GiveUp(c))
        /\ WF_vars(PullOk(c) \/ PullFails(c))
        /\ WF_vars(Finish(c))
    /\ \A w \in Window : WF_vars(Flush(w))

FairSpec == Spec /\ Fairness

-----------------------------------------------------------------------------
(* Properties *)

\* No call returns a result that was older than the expiration when it looked
\* it up, whatever mixture of reads, partial writes, write-backs of an earlier
\* copy and crashes put it into the cache.
FreshResult ==
    \A c \in Caller :
        got[c].result # None => got[c].lookedUp - got[c].result.at < Expiry

Stored == {storage} \cup {view[w] : w \in Window} \cup {base[c] : c \in Caller}

\* A timestamp in the cache always belongs to the result next to it: merging a
\* partial Resource into a base copy never tears the two apart.
TimestampOfResult ==
    \A r \in Stored : r.result # None => /\ r.timestamp = r.result.at
                                         /\ r.result.at <= now

\* Within one window one call at a time owns the lock, as long as nobody gave
\* up waiting, the cache was not cleared, no write of a result failed, and
\* neither a restart nor another window's update replaced the window's copy:
\* polling and locking are one synchronous step, and only the owner releases.
OneOwnerPerWindow ==
    ~waived => \A c, d \in owners : Home[c] = Home[d] => c = d

\* Every call of getResource() ends, even when the lock was leaked by a window
\* that died holding it.
EveryCallEnds == \A c \in Caller : phase[c] # "idle" ~> phase[c] = "idle"

\* A lock leaked by a dead window does not outlive the next call: once windows
\* stop dying, a call that has to wait sees its window's copy unlocked.
LockRecovers ==
    \A c \in Caller :
        phase[c] = "acquiring" /\ restarts = MaxRestarts
            ~> ~view[Home[c]].locked

\* "while the lock is acquired by one process, the other can't access to it
\* until it's released by the previous": two calls that found the lock free
\* and took it never both count on it.
LockIsExclusive == \A c, d \in owners : c = d

\* clearCache() runs on disconnection "in case users change to a different
\* connection and use the wrong resultset": profiles listed for one connection
\* are not found in the cache by a call made under another.
NoWrongResultset ==
    \A c \in Caller :
        got[c].result # None /\ got[c].by # NoConn /\ got[c].result.conn # NoConn
            => got[c].result.conn = got[c].by
=============================================================================
