-------------------------- MODULE SessionStore_proofs --------------------------
(* Proofs about SessionStore, for every set of connections and clients.   *)
EXTENDS SessionStore, SequenceTheorems, FiniteSetTheorems, TLAPS

-------------------------------------------------------------------------------
(* Type correctness and the write queue                                    *)

\* Operations are served while there are any.
Served == queue # <<>> \/ current # None => isWriting

\* A queued operation is the only one of a handler that waits for it ...
Queued ==
    \A i \in 1 .. Len(queue) :
        /\ at[queue[i].by] \in Writing
        /\ \A j \in 1 .. Len(queue) : queue[i].by = queue[j].by => i = j

\* ... and so is the one being served.
Awaited ==
    current # None =>
        /\ at[current.by] \in Writing
        /\ \A i \in 1 .. Len(queue) : queue[i].by # current.by

\* No handler waits for an operation that is not there.
Waited ==
    \A h \in Handler : at[h] \in Writing =>
        \/ current # None /\ current.by = h
        \/ \E i \in 1 .. Len(queue) : queue[i].by = h

\* Only a poll takes a session.
SaveOnly == \A c \in Client : at[S(c)] \in {"none", "save", "saving"}

\* A link has loaded a mapping before it saves one.
Loaded == \A n \in Conn : link[n] = "loaded" => loaded[n] # None

TypeInv == TypeOK /\ Served /\ Queued /\ Awaited /\ Waited /\ SaveOnly /\ Loaded

\* The bounds count up to themselves.
LEMMA CountType ==
    ASSUME TypeOK
    PROVE  LET Count == [links : 0 .. MaxLinks, fails : 0 .. MaxFails, exits : 0 .. MaxExits]
           IN  /\ count.links < MaxLinks => [count EXCEPT !.links = @ + 1] \in Count
               /\ count.fails < MaxFails => [count EXCEPT !.fails = @ + 1] \in Count
               /\ count.exits < MaxExits => [count EXCEPT !.exits = @ + 1] \in Count
<1>1. MaxLinks \in Nat /\ MaxFails \in Nat /\ MaxExits \in Nat
  BY BoundAssumption
<1>2. count \in [links : 0 .. MaxLinks, fails : 0 .. MaxFails, exits : 0 .. MaxExits]
  BY DEF TypeOK
<1> QED BY <1>1, <1>2

\* The requests a step writes are requests.
LEMMA RequestTypes ==
    /\ Missing \in Request /\ Pending \in Request
    /\ \A s \in Session : FreshOf(s) \in Request
    /\ \A r \in Request : ConsumedOf(r) \in Request
    /\ NoRequests \in [Key -> Request] /\ Empty \in Mapping
BY DEF Missing, Pending, FreshOf, ConsumedOf, Request, Status, Session, NoRequests,
       Empty, Mapping

\* Replacing one request, or one entry, of a mapping gives a mapping.
LEMMA MappingTypes ==
    ASSUME NEW m \in Mapping, NEW n \in Conn
    PROVE  /\ \A k \in Key, r \in Request : WithRequest(m, n, k, r) \in Mapping
           /\ \A s \in Session : WithLink(m, n, s) \in Mapping
           /\ [m EXCEPT ![n] = NoRequests] \in Mapping
           /\ \A k \in Key : m[n][k] \in Request
BY RequestTypes DEF Mapping, WithRequest, WithLink, Key

LEMMA NextSessionType == ASSUME TypeOK PROVE NextSession \in Session
BY DEF TypeOK, NextSession, Session

LEMMA Handlers == \A c \in Client : P(c) \in Handler /\ S(c) \in Handler
BY DEF P, S, Handler

\* The operations of the queue are writes of handlers.
LEMMA QueueType ==
    ASSUME TypeOK
    PROVE  /\ \A i \in 1 .. Len(queue) : queue[i] \in Write /\ queue[i].by \in Handler
           /\ current # None => current \in Write /\ current.by \in Handler
           /\ Len(queue) \in Nat
<1>1. queue \in Seq(Write) /\ (current # None => current \in Write)
  BY DEF TypeOK
<1>2. \A i \in 1 .. Len(queue) : queue[i] \in Write
  BY <1>1, ElementOfSeq
<1>3. \A v \in Write : v.by \in Handler
  BY DEF Write
<1> QED BY <1>1, <1>2, <1>3, LenProperties

\* Pushing the operation of a handler that did not wait for one.
LEMMA EnqueueType ==
    ASSUME TypeInv, NEW h \in Handler, NEW m \in Mapping, NEW x \in Writing,
           at[h] \notin Writing, Enqueue(h, m), at' = [at EXCEPT ![h] = x]
    PROVE  /\ queue' \in Seq(Write) /\ current' \in Write \cup {None}
           /\ isWriting' \in BOOLEAN
           /\ Served' /\ Queued' /\ Awaited' /\ Waited'
<1> DEFINE w == [by |-> h, mapping |-> m]
<1> USE DEF TypeInv, TypeOK
<1>1. w \in Write /\ w # None /\ w.by = h
  BY NoneAssumption DEF Write
<1>2. \A g \in Handler : at'[g] = IF g = h THEN x ELSE at[g]
  OBVIOUS
<1>3. /\ \A i \in 1 .. Len(queue) : queue[i].by \in Handler
      /\ current # None => current.by \in Handler
      /\ Len(queue) \in Nat
  BY QueueType
<1>4. CASE isWriting
  <2>1. queue' = Append(queue, w) /\ UNCHANGED <<current, isWriting>>
    BY <1>4 DEF Enqueue
  <2>2. /\ queue' \in Seq(Write) /\ Len(queue') = Len(queue) + 1
        /\ \A i \in 1 .. Len(queue) : queue'[i] = queue[i]
        /\ queue'[Len(queue) + 1] = w
    BY <1>1, <2>1, AppendProperties
  <2>3. \A i \in 1 .. Len(queue') : i \in 1 .. Len(queue) \/ i = Len(queue) + 1
    BY <1>3, <2>2
  <2>4. Served'
    BY <1>4, <2>1 DEF Served
  <2>5. \A i \in 1 .. Len(queue) : queue[i].by # h
    BY DEF Queued
  <2>6. Queued'
    <3>1. \A i \in 1 .. Len(queue') : at'[queue'[i].by] \in Writing
      BY ZenonT(60), <1>1, <1>2, <1>3, <2>2, <2>3 DEF Queued
    <3>2. ASSUME NEW i \in 1 .. Len(queue'), NEW j \in 1 .. Len(queue'),
                 queue'[i].by = queue'[j].by
          PROVE  i = j
      <4>1. CASE i \in 1 .. Len(queue) /\ j \in 1 .. Len(queue)
        BY <2>2, <3>2, <4>1 DEF Queued
      <4>2. CASE i \in 1 .. Len(queue) /\ j = Len(queue) + 1
        BY <1>1, <2>2, <2>5, <3>2, <4>2
      <4>3. CASE i = Len(queue) + 1 /\ j \in 1 .. Len(queue)
        BY <1>1, <2>2, <2>5, <3>2, <4>3
      <4> QED BY <2>3, <4>1, <4>2, <4>3
    <3> QED BY <3>1, <3>2 DEF Queued
  <2>7. Awaited'
    BY <1>1, <1>2, <1>3, <2>1, <2>2, <2>3 DEF Awaited
  <2>8. Waited'
    BY <1>1, <1>2, <2>1, <2>2, <2>3 DEF Waited
  <2> QED BY <2>1, <2>2, <2>4, <2>6, <2>7, <2>8
<1>5. CASE ~isWriting
  <2>1. queue = <<>> /\ current = None
    BY <1>5 DEF Served
  <2>2. queue' = <<>> /\ current' = w /\ isWriting' = TRUE
    <3>1. Append(queue, w) = <<w>>
      BY <2>1
    <3>2. Head(<<w>>) = w /\ Tail(<<w>>) = <<>>
      OBVIOUS
    <3> QED BY <1>5, <3>1, <3>2 DEF Enqueue
  <2> QED BY <1>1, <1>2, <2>1, <2>2 DEF Served, Queued, Awaited, Waited
<1> QED BY <1>4, <1>5

\* A handler that neither waited for a write nor comes to wait for one.
LEMMA GotoType ==
    ASSUME TypeInv, NEW h \in Handler, NEW x, x \notin Writing, at[h] \notin Writing,
           at' = [at EXCEPT ![h] = x], UNCHANGED <<queue, current, isWriting>>
    PROVE  Served' /\ Queued' /\ Awaited' /\ Waited'
<1> USE DEF TypeInv, TypeOK
<1>1. \A g \in Handler : at'[g] = IF g = h THEN x ELSE at[g]
  OBVIOUS
<1>2. /\ \A i \in 1 .. Len(queue) : queue[i].by \in Handler
      /\ current # None => current.by \in Handler
  BY QueueType
<1>3. Served' /\ Waited'
  BY <1>1 DEF Served, Waited
<1>4. Queued'
  BY <1>1, <1>2 DEF Queued
<1>5. Awaited'
  BY <1>1, <1>2 DEF Awaited
<1> QED BY <1>3, <1>4, <1>5

\* The end of the process.
LEMMA DownType ==
    ASSUME TypeInv, NEW how \in {"down", "up", "crashed"}, Down(how),
           UNCHANGED <<polls, origin, opened>>, file' \in Mapping,
           link' \in [Conn -> {"idle", "loaded", "saved"}],
           loaded' \in [Conn -> Mapping \cup {None}],
           count' \in [links : 0 .. MaxLinks, fails : 0 .. MaxFails, exits : 0 .. MaxExits],
           Loaded'
    PROVE  TypeInv'
<1> USE DEF TypeInv, TypeOK, Down
<1>1. /\ at' = [h \in Handler |-> "none"] /\ queue' = <<>> /\ current' = None
      /\ \A h \in Handler : at'[h] \notin Writing
  BY DEF Writing
<1>2. Served' /\ Queued' /\ Awaited' /\ Waited' /\ SaveOnly'
  BY <1>1, Handlers DEF Served, Queued, Awaited, Waited, SaveOnly
<1>3. TypeOK'
  <2>1. client' \in [Client -> {"new"} \cup Asking \cup Ended]
    BY DEF Ended
  <2>2. took' \in [Client -> Session]
    BY DEF Session
  <2>3. held' \in [Handler -> Mapping \cup {None}] /\ pages' \in [Client -> Nat]
    OBVIOUS
  <2>4. at' \in [Handler -> Reading \cup Writing \cup Between]
    BY <1>1 DEF Between
  <2>5. queue' \in Seq(Write) /\ current' \in Write \cup {None} /\ isWriting' \in BOOLEAN
    <3>1. <<>> \in Seq(Write)
      OBVIOUS
    <3> QED BY <1>1, <3>1
  <2> QED BY <2>1, <2>2, <2>3, <2>4, <2>5
<1> QED BY <1>2, <1>3

\* What a step of a poll does to the handlers and the queue, without a write ...
LEMMA PollGoto ==
    ASSUME TypeInv, NEW c \in Client, NEW x \in Reading \cup Between,
           at[P(c)] \notin Writing, Goto(P(c), x), UNCHANGED <<queue, current, isWriting>>
    PROVE  /\ at' \in [Handler -> Reading \cup Writing \cup Between]
           /\ held' \in [Handler -> Mapping \cup {None}]
           /\ Served' /\ Queued' /\ Awaited' /\ Waited' /\ SaveOnly'
<1> USE DEF TypeInv, TypeOK, Goto
<1>1. P(c) \in Handler /\ \A d \in Client : S(d) \in Handler /\ S(d) # P(c)
  BY Handlers DEF P, S
<1>2. x \notin Writing
  BY DEF Reading, Between, Writing
<1>3. Served' /\ Queued' /\ Awaited' /\ Waited'
  BY <1>1, <1>2, GotoType
<1>4. SaveOnly'
  BY <1>1 DEF SaveOnly
<1> QED BY <1>1, <1>3, <1>4

\* ... and with one.
LEMMA PollEnqueue ==
    ASSUME TypeInv, NEW c \in Client, NEW x \in Writing, NEW m \in Mapping,
           at[P(c)] \notin Writing, Goto(P(c), x), Enqueue(P(c), m)
    PROVE  /\ at' \in [Handler -> Reading \cup Writing \cup Between]
           /\ held' \in [Handler -> Mapping \cup {None}]
           /\ queue' \in Seq(Write) /\ current' \in Write \cup {None}
           /\ isWriting' \in BOOLEAN
           /\ Served' /\ Queued' /\ Awaited' /\ Waited' /\ SaveOnly'
<1>1. P(c) \in Handler /\ \A d \in Client : S(d) \in Handler /\ S(d) # P(c)
  BY Handlers DEF P, S
<1>2. at' = [at EXCEPT ![P(c)] = x] /\ held' = [held EXCEPT ![P(c)] = None]
  BY DEF Goto
<1>3. /\ queue' \in Seq(Write) /\ current' \in Write \cup {None}
      /\ isWriting' \in BOOLEAN
      /\ Served' /\ Queued' /\ Awaited' /\ Waited'
  BY <1>1, <1>2, EnqueueType
<1>4. SaveOnly'
  BY <1>1, <1>2 DEF SaveOnly, TypeInv, TypeOK
<1> QED BY <1>1, <1>2, <1>3, <1>4 DEF TypeInv, TypeOK

\* GET /get_session_async keeps the types and the queue.
LEMMA PollType == ASSUME TypeInv, NEW c \in Client, Poll(c) PROVE TypeInv'
<1> DEFINE m == held[P(c)]
<1> DEFINE n == ConnOf[c]
<1>0. /\ P(c) \in Handler /\ n \in Conn /\ c \in Key /\ "initial" \in Key
      /\ m # None => m \in Mapping
  BY Handlers, ConnAssumption DEF TypeInv, TypeOK, Key
<1> HIDE DEF m, n
<1>1. ASSUME NEW where \in {"fresh", "consume", "status", "url"}, NotLinked(c, where)
      PROVE  TypeInv'
  <2>1. at[P(c)] \notin Writing /\ "none" \in Reading \cup Between
    BY <1>1 DEF NotLinked, HasRead, Writing, Between
  <2>2. Goto(P(c), "none") /\ UNCHANGED <<queue, current, isWriting>>
    BY <1>1 DEF NotLinked, store
  <2> QED BY <1>1, <2>1, <2>2, PollGoto
          DEF NotLinked, Answer, store, links, TypeInv, TypeOK, Loaded, Session, Ended
<1>2. CASE GetFreshEntry(c)
  <2>1. at[P(c)] \notin Writing /\ m # None
    BY <1>2 DEF GetFreshEntry, HasRead, Writing, m
  <2>2. m[n]["initial"] \in Request /\ m[n][c] \in Request
        /\ WithRequest(m, n, c, Missing) \in Mapping
    BY <1>0, <2>1, MappingTypes, RequestTypes
  <2>3. CASE /\ took' = [took EXCEPT ![c] = m[n]["initial"].session]
             /\ Goto(P(c), "consume") /\ UNCHANGED store
    BY <1>2, <2>1, <2>2, <2>3, PollGoto
       DEF GetFreshEntry, Reading, Request, store, script, links, TypeInv, TypeOK, Loaded
  <2>4. CASE /\ took' = [took EXCEPT ![c] = m[n][c].session]
             /\ Enqueue(P(c), WithRequest(m, n, c, Missing))
             /\ Goto(P(c), "taking") /\ UNCHANGED file
    BY <1>2, <2>1, <2>2, <2>4, PollEnqueue
       DEF GetFreshEntry, Writing, Request, script, links, TypeInv, TypeOK, Loaded
  <2>5. CASE Goto(P(c), "status") /\ UNCHANGED <<store, took>>
    BY <1>2, <2>1, <2>5, PollGoto
       DEF GetFreshEntry, Reading, store, script, links, TypeInv, TypeOK, Loaded
  <2> QED BY <1>2, <2>3, <2>4, <2>5 DEF GetFreshEntry, m, n
<1>3. CASE MarkConsumed(c)
  <2>1. at[P(c)] \notin Writing /\ m # None
    BY <1>3 DEF MarkConsumed, HasRead, Writing, m
  <2>2. WithRequest(m, n, "initial", ConsumedOf(m[n]["initial"])) \in Mapping
    BY <1>0, <2>1, MappingTypes, RequestTypes
  <2>3. /\ Enqueue(P(c), WithRequest(m, n, "initial", ConsumedOf(m[n]["initial"])))
        /\ Goto(P(c), "taking")
    BY <1>3 DEF MarkConsumed, m, n
  <2> QED BY <1>3, <2>1, <2>2, <2>3, PollEnqueue
          DEF MarkConsumed, Writing, script, links, TypeInv, TypeOK, Loaded
<1>4. CASE HandOut(c) \/ AnswerExpired(c) \/ OpenFails(c)
  <2>1. at[P(c)] \notin Writing
    BY <1>4 DEF HandOut, AnswerExpired, OpenFails, Writing
  <2>2. Goto(P(c), "none") /\ UNCHANGED <<queue, current, isWriting>>
    BY <1>4 DEF HandOut, AnswerExpired, OpenFails, store
  <2> QED BY <1>4, <2>1, <2>2, PollGoto
          DEF HandOut, AnswerExpired, OpenFails, Answer, Between, Ended, store, links,
              TypeInv, TypeOK, Loaded
<1>5. CASE GetStatus(c) \/ GetRefreshUrl(c)
  <2>1. at[P(c)] \notin Writing
    BY <1>5 DEF GetStatus, GetRefreshUrl, HasRead, Writing
  <2>2. PICK x \in {"none", "url", "cleanup", "open"} : Goto(P(c), x)
    BY <1>5 DEF GetStatus, GetRefreshUrl
  <2>3. /\ UNCHANGED <<store, took, polls, links, server, pages, count, origin, opened>>
        /\ client' \in [Client -> {"new"} \cup Asking \cup Ended]
    BY <1>5 DEF GetStatus, GetRefreshUrl, script, Answer, Asking, TypeInv, TypeOK
  <2> QED BY <2>1, <2>2, <2>3, PollGoto
          DEF Reading, Between, store, links, TypeInv, TypeOK, Loaded
<1>6. CASE CleanupExpiredConnection(c)
  <2>1. at[P(c)] \notin Writing /\ m # None
    BY <1>6 DEF CleanupExpiredConnection, HasRead, Writing, m
  <2>2. [m EXCEPT ![n] = NoRequests] \in Mapping
    BY <1>0, <2>1, MappingTypes
  <2>3. CASE /\ Enqueue(P(c), [m EXCEPT ![n] = NoRequests])
             /\ Goto(P(c), "cleaning") /\ UNCHANGED file
    BY <1>6, <2>1, <2>2, <2>3, PollEnqueue
       DEF CleanupExpiredConnection, Writing, script, links, TypeInv, TypeOK, Loaded
  <2>4. CASE Goto(P(c), "expired") /\ UNCHANGED store
    BY <1>6, <2>1, <2>4, PollGoto
       DEF CleanupExpiredConnection, Between, store, script, links, TypeInv, TypeOK, Loaded
  <2> QED BY <1>6, <2>3, <2>4 DEF CleanupExpiredConnection, m, n
<1>7. CASE OpenPage(c)
  <2>1. at[P(c)] \notin Writing
    BY <1>7 DEF OpenPage, Writing
  <2>2. Goto(P(c), "mark") /\ UNCHANGED <<queue, current, isWriting>>
    BY <1>7 DEF OpenPage, store
  <2> QED BY <1>7, <2>1, <2>2, PollGoto
          DEF OpenPage, Answer, Reading, Asking, store, links, TypeInv, TypeOK, Loaded
<1>8. CASE MarkPending(c)
  <2>1. at[P(c)] \notin Writing /\ m # None
    BY <1>8 DEF MarkPending, HasRead, Writing, m
  <2>2. WithRequest(m, n, c, Pending) \in Mapping
    BY <1>0, <2>1, MappingTypes, RequestTypes
  <2>3. Enqueue(P(c), WithRequest(m, n, c, Pending)) /\ Goto(P(c), "marking")
    BY <1>8 DEF MarkPending, m, n
  <2> QED BY <1>8, <2>1, <2>2, <2>3, PollEnqueue
          DEF MarkPending, Writing, script, links, TypeInv, TypeOK, Loaded
<1>9. CASE MarkThrows(c)
  BY <1>9, DownType DEF MarkThrows, links, TypeInv, TypeOK, Loaded
<1> QED BY <1>1, <1>2, <1>3, <1>4, <1>5, <1>6, <1>7, <1>8, <1>9, Poll(c) DEF Poll

\* The script and GET /refresh_token keep them.
LEMMA ScriptType ==
    ASSUME TypeInv, NEW c \in Client, Ask(c) \/ GiveUp(c) \/ Login(c) \/ SetSession(c)
    PROVE  TypeInv'
<1> DEFINE m == held[S(c)]
<1> DEFINE n == ConnOf[c]
<1>0. /\ S(c) \in Handler /\ n \in Conn /\ c \in Key
      /\ m # None => m \in Mapping
  BY Handlers, ConnAssumption DEF TypeInv, TypeOK, Key
<1> HIDE DEF m, n
<1>1. CASE Ask(c)
  <2>1. at[P(c)] \notin Writing
    BY <1>1 DEF Ask, Writing
  <2>2. Goto(P(c), "fresh") /\ UNCHANGED <<queue, current, isWriting>>
    BY <1>1 DEF Ask, store
  <2>3. polls' \in [Client -> 0 .. MaxPolls]
    BY <1>1, BoundAssumption DEF Ask, TypeInv, TypeOK
  <2> QED BY <1>1, <2>1, <2>2, <2>3, PollGoto
          DEF Ask, Answer, Reading, Asking, store, links, TypeInv, TypeOK, Loaded
<1>2. CASE GiveUp(c)
  BY <1>2 DEF GiveUp, Answer, Ended, store, handler, links, TypeInv, TypeOK, Loaded, Served,
              Queued, Awaited, Waited, SaveOnly
<1>3. ASSUME NEW x \in {"none", "save"}, Goto(S(c), x), at[S(c)] \notin Writing,
             UNCHANGED <<queue, current, isWriting>>
      PROVE  /\ at' \in [Handler -> Reading \cup Writing \cup Between]
             /\ held' \in [Handler -> Mapping \cup {None}]
             /\ Served' /\ Queued' /\ Awaited' /\ Waited' /\ SaveOnly'
  <2>1. x \notin Writing
    BY DEF Writing
  <2>2. at' = [at EXCEPT ![S(c)] = x] /\ held' = [held EXCEPT ![S(c)] = None]
    BY <1>3 DEF Goto
  <2>3. Served' /\ Queued' /\ Awaited' /\ Waited'
    BY <1>0, <1>3, <2>1, <2>2, GotoType
  <2>4. SaveOnly'
    BY <2>2, Handlers DEF SaveOnly, TypeInv, TypeOK
  <2> QED BY <2>2, <2>3, <2>4 DEF Reading, Between, TypeInv, TypeOK
<1>4. CASE Login(c)
  <2>1. at[S(c)] \notin Writing /\ Goto(S(c), "save") /\ UNCHANGED <<queue, current, isWriting>>
    BY <1>4 DEF Login, Writing, store
  <2>2. pages' \in [Client -> Nat]
    BY <1>4 DEF Login, TypeInv, TypeOK
  <2> QED BY <1>3, <1>4, <2>1, <2>2 DEF Login, store, script, links, TypeInv, TypeOK, Loaded
<1>5. CASE SetSession(c)
  <2>1. at[S(c)] \notin Writing /\ m # None
    BY <1>5 DEF SetSession, HasRead, Writing, m
  <2>2. CASE Goto(S(c), "none") /\ UNCHANGED <<store, origin>>
    BY <1>3, <1>5, <2>1, <2>2 DEF SetSession, store, script, links, TypeInv, TypeOK, Loaded
  <2>3. CASE /\ origin' = Append(origin, <<n, c>>)
             /\ Enqueue(S(c), WithRequest(m, n, c, FreshOf(NextSession)))
             /\ Goto(S(c), "saving") /\ UNCHANGED file
    <3>1. WithRequest(m, n, c, FreshOf(NextSession)) \in Mapping
      BY <1>0, <2>1, MappingTypes, RequestTypes, NextSessionType DEF TypeInv
    <3>2. at' = [at EXCEPT ![S(c)] = "saving"] /\ held' = [held EXCEPT ![S(c)] = None]
          /\ "saving" \in Writing
      BY <2>3 DEF Goto, Writing
    <3>3. /\ queue' \in Seq(Write) /\ current' \in Write \cup {None}
          /\ isWriting' \in BOOLEAN
          /\ Served' /\ Queued' /\ Awaited' /\ Waited'
      BY <1>0, <2>1, <2>3, <3>1, <3>2, EnqueueType
    <3>4. SaveOnly'
      BY <3>2, Handlers DEF SaveOnly, TypeInv, TypeOK
    <3>5. origin' \in Seq(Conn \X Key)
      BY <1>0, <2>3, AppendProperties DEF TypeInv, TypeOK
    <3> QED BY <1>5, <2>3, <3>2, <3>3, <3>4, <3>5
            DEF SetSession, script, links, TypeInv, TypeOK, Loaded
  <2> QED BY <1>5, <2>2, <2>3 DEF SetSession, m, n
<1> QED BY <1>1, <1>2, <1>4, <1>5

\* Reads, and the end of a write, keep them.
LEMMA FileType ==
    ASSUME TypeInv, (\E h \in Handler : ReadMapping(h)) \/ WriteMapping \/ WriteFails \/ NextWrite
    PROVE  TypeInv'
<1>0. /\ current # None => current \in Write /\ current.by \in Handler
      /\ \A i \in 1 .. Len(queue) : queue[i].by \in Handler
      /\ Len(queue) \in Nat
  BY QueueType DEF TypeInv
<1>1. CASE \E h \in Handler : ReadMapping(h)
  BY <1>1 DEF ReadMapping, store, script, links, TypeInv, TypeOK, Loaded, Served, Queued,
              Awaited, Waited, SaveOnly
\* The operation ends and its handler goes on.
<1>2. ASSUME current # None, current' = None, UNCHANGED <<queue, isWriting>>,
             NEW x \in Between, at' = [at EXCEPT ![current.by] = x]
      PROVE  Served' /\ Queued' /\ Awaited' /\ Waited'
  <2>1. x \notin Writing
    BY DEF Between, Writing
  <2>2. \A g \in Handler : at'[g] = IF g = current.by THEN x ELSE at[g]
    BY <1>0, <1>2 DEF TypeInv, TypeOK
  <2>3. at[current.by] \in Writing /\ \A i \in 1 .. Len(queue) : queue[i].by # current.by
    BY <1>2 DEF TypeInv, Awaited
  <2>4. Queued' /\ Served' /\ Awaited'
    BY <1>0, <1>2, <2>2, <2>3 DEF TypeInv, Queued, Served, Awaited
  <2>5. Waited'
    BY <1>0, <1>2, <2>1, <2>2, <2>3 DEF TypeInv, Waited
  <2> QED BY <2>4, <2>5
<1>3. CASE WriteMapping
  <2>1. at[current.by] \in Writing /\ current \in Write /\ current.by \in Handler
    BY <1>0, <1>3 DEF WriteMapping, TypeInv, Awaited
  <2>2. AfterWrite[at[current.by]] \in Between
    BY <2>1 DEF AfterWrite, Writing, Between
  <2>3. at' = [at EXCEPT ![current.by] = AfterWrite[at[current.by]]]
    BY <1>3 DEF WriteMapping
  <2>4. Served' /\ Queued' /\ Awaited' /\ Waited'
    BY <1>2, <1>3, <2>2, <2>3 DEF WriteMapping
  <2>5. SaveOnly'
    <3>1. ASSUME NEW c \in Client, S(c) = current.by PROVE at'[S(c)] = "none"
      <4>1. at[S(c)] = "saving"
        BY <2>1, <3>1 DEF TypeInv, SaveOnly, Writing
      <4> QED BY <2>1, <2>3, <3>1, <4>1 DEF AfterWrite, TypeInv, TypeOK
    <3>2. ASSUME NEW c \in Client, S(c) # current.by PROVE at'[S(c)] = at[S(c)]
      BY <2>3, <3>2, Handlers DEF TypeInv, TypeOK
    <3> QED BY <3>1, <3>2 DEF TypeInv, SaveOnly
  <2>6. file' \in Mapping
    BY <1>3, <2>1 DEF WriteMapping, Write
  <2> QED BY <1>3, <2>1, <2>2, <2>3, <2>4, <2>5, <2>6
          DEF WriteMapping, script, links, TypeInv, TypeOK, Loaded
<1>4. CASE WriteFails
  <2> DEFINE h == current.by
  <2>1. /\ current # None /\ at[h] \in Writing /\ h \in Handler /\ h[2] \in Client
        /\ count' \in [links : 0 .. MaxLinks, fails : 0 .. MaxFails, exits : 0 .. MaxExits]
    BY <1>0, <1>4, CountType DEF WriteFails, TypeInv, Awaited, Handler
  <2> HIDE DEF h
  <2>2. CASE at[h] = "marking" /\ Down("crashed")
    BY <1>4, <2>1, <2>2, DownType DEF WriteFails, links, TypeInv, TypeOK, Loaded
  <2>3. ASSUME NEW x \in {"none", "expired"}, Goto(h, x), current' = None,
               UNCHANGED <<queue, isWriting>>
        PROVE  /\ at' \in [Handler -> Reading \cup Writing \cup Between]
               /\ held' \in [Handler -> Mapping \cup {None}]
               /\ Served' /\ Queued' /\ Awaited' /\ Waited'
               /\ (x = "none" \/ at[h] = "cleaning") => SaveOnly'
    <3>1. at' = [at EXCEPT ![current.by] = x] /\ held' = [held EXCEPT ![h] = None]
      BY <2>3 DEF Goto, h
    <3>2. Served' /\ Queued' /\ Awaited' /\ Waited'
      BY <1>2, <2>1, <2>3, <3>1 DEF Between
    <3>3. (x = "none" \/ at[h] = "cleaning") => SaveOnly'
      BY <2>1, <3>1, Handlers DEF h, TypeInv, TypeOK, SaveOnly
    <3> QED BY <2>1, <3>1, <3>2, <3>3 DEF h, Between, TypeInv, TypeOK
  <2>4. CASE /\ at[h] = "taking"
             /\ Answer(h[2], "failed") /\ Goto(h, "none")
             /\ took' = [took EXCEPT ![h[2]] = 0]
             /\ current' = None /\ UNCHANGED <<queue, isWriting, server, pages>>
    BY <1>4, <2>1, <2>3, <2>4
       DEF WriteFails, Answer, Ended, Session, links, TypeInv, TypeOK, Loaded
  <2>5. CASE /\ at[h] \in {"cleaning", "saving"}
             /\ Goto(h, IF at[h] = "cleaning" THEN "expired" ELSE "none")
             /\ current' = None /\ UNCHANGED <<took, client, queue, isWriting, server, pages>>
    <3>1. PICK x \in {"none", "expired"} : Goto(h, x) /\ (x = "none" \/ at[h] = "cleaning")
      BY <2>5
    <3> QED BY <1>4, <2>1, <2>3, <2>5, <3>1 DEF WriteFails, links, TypeInv, TypeOK, Loaded
  <2> QED BY <1>4, <2>2, <2>4, <2>5 DEF WriteFails, h
<1>5. CASE NextWrite
  <2>1. CASE queue = <<>>
    <3>1. queue' = <<>> /\ current' = None /\ isWriting' = FALSE
      BY <1>5, <2>1 DEF NextWrite
    <3>2. 1 .. Len(queue') = {}
      BY <3>1
    <3>3. queue' \in Seq(Write)
      BY <3>1
    <3> QED BY <1>5, <2>1, <3>1, <3>2, <3>3
            DEF NextWrite, handler, script, links, TypeInv, TypeOK, Loaded, Served, Queued,
                Awaited, Waited, SaveOnly
  <2>2. CASE queue # <<>>
    <3>1. /\ current = None /\ isWriting /\ isWriting' = isWriting
          /\ current' = Head(queue) /\ queue' = Tail(queue)
          /\ UNCHANGED <<file, handler, script, links, server, pages, count, origin, opened>>
      BY <1>5, <2>2 DEF NextWrite
    <3>2. queue \in Seq(Write)
      BY DEF TypeInv, TypeOK
    <3>3. /\ queue' \in Seq(Write) /\ current' = queue[1] /\ current' \in Write
          /\ Len(queue') = Len(queue) - 1 /\ Len(queue) > 0
          /\ \A i \in 1 .. Len(queue') : i + 1 \in 1 .. Len(queue) /\ queue'[i] = queue[i + 1]
      BY <1>0, <2>2, <3>1, <3>2, HeadTailProperties, ElementOfSeq
    <3>4. at' = at /\ current' # None
      BY <3>1, <3>3, NoneAssumption DEF handler
    <3>5. Served'
      BY <3>1, <3>3 DEF Served
    <3>6. Queued'
      BY <1>0, <3>3, <3>4 DEF TypeInv, Queued
    <3>7. Awaited'
      BY <1>0, <3>3, <3>4 DEF TypeInv, Queued, Awaited
    <3>8. Waited'
      <4> SUFFICES ASSUME NEW g \in Handler, at[g] \in Writing
                   PROVE  \/ current'.by = g
                          \/ \E i \in 1 .. Len(queue') : queue'[i].by = g
        BY <3>4 DEF Waited
      <4>1. PICK i \in 1 .. Len(queue) : queue[i].by = g
        BY <3>1 DEF TypeInv, Waited
      <4>2. CASE i = 1
        BY <3>3, <4>1, <4>2
      <4>3. CASE i # 1
        <5>1. i - 1 \in 1 .. Len(queue') /\ (i - 1) + 1 = i
          BY <1>0, <3>3, <4>3
        <5> QED BY <3>3, <4>1, <5>1
      <4> QED BY <4>2, <4>3
    <3> QED BY <3>1, <3>3, <3>4, <3>5, <3>6, <3>7, <3>8
            DEF handler, script, links, TypeInv, TypeOK, Loaded, SaveOnly
  <2> QED BY <2>1, <2>2
<1> QED BY <1>1, <1>3, <1>4, <1>5

\* The extension and the end of the server keep them.
LEMMA LinkType ==
    ASSUME TypeInv,
           \/ \E n \in Conn : LinkLoad(n) \/ LinkSave(n) \/ LinkSaveFails(n) \/ StartLocalServer(n)
           \/ Exit
    PROVE  TypeInv'
<1>1. ASSUME UNCHANGED <<at, queue, current, isWriting>>
      PROVE  Served' /\ Queued' /\ Awaited' /\ Waited' /\ SaveOnly'
  BY <1>1 DEF TypeInv, Served, Queued, Awaited, Waited, SaveOnly
<1>0. \A m \in Mapping : m # None
  BY NoneAssumption
<1>2. ASSUME NEW n \in Conn, LinkLoad(n) PROVE TypeInv'
  <2>1. loaded' \in [Conn -> Mapping \cup {None}] /\ Loaded'
    BY <1>0, <1>2, RequestTypes DEF LinkLoad, TypeInv, TypeOK, Loaded
  <2>2. count' \in [links : 0 .. MaxLinks, fails : 0 .. MaxFails, exits : 0 .. MaxExits]
    BY <1>2, CountType DEF LinkLoad, TypeInv
  <2> QED BY <1>1, <1>2, <2>1, <2>2 DEF LinkLoad, store, handler, script, TypeInv, TypeOK, Loaded
<1>3. ASSUME NEW n \in Conn, LinkSave(n) PROVE TypeInv'
  <2>0. loaded[n] \in Mapping
    BY <1>3 DEF LinkSave, TypeInv, TypeOK, Loaded
  <2>1. file' \in Mapping
    BY <1>3, <2>0, MappingTypes, NextSessionType DEF LinkSave, TypeInv
  <2>2. origin' \in Seq(Conn \X Key)
    BY <1>3, AppendProperties DEF LinkSave, TypeInv, TypeOK, Key
  <2> QED BY <1>1, <1>3, <2>1, <2>2 DEF LinkSave, handler, script, TypeInv, TypeOK, Loaded
<1>4. ASSUME NEW n \in Conn, LinkSaveFails(n) PROVE TypeInv'
  <2>1. count' \in [links : 0 .. MaxLinks, fails : 0 .. MaxFails, exits : 0 .. MaxExits]
    BY <1>4, CountType DEF LinkSaveFails, TypeInv
  <2> QED BY <1>1, <1>4, <2>1 DEF LinkSaveFails, store, handler, script, TypeInv, TypeOK, Loaded
<1>5. ASSUME NEW n \in Conn, StartLocalServer(n) PROVE TypeInv'
  <2>1. link' \in [Conn -> {"idle", "loaded", "saved"}] /\ Down("up")
        /\ UNCHANGED <<file, polls, loaded, count, origin, opened>>
    BY <1>5 DEF StartLocalServer, TypeInv, TypeOK
  <2>2. Loaded'
    BY <1>5, <2>1 DEF StartLocalServer, TypeInv, TypeOK, Loaded
  <2> QED BY <2>1, <2>2, DownType DEF TypeInv, TypeOK
<1>6. CASE Exit
  <2>1. count' \in [links : 0 .. MaxLinks, fails : 0 .. MaxFails, exits : 0 .. MaxExits]
    BY <1>6, CountType DEF Exit, TypeInv
  <2>2. Down("down") /\ UNCHANGED <<file, polls, links, origin, opened>>
    BY <1>6 DEF Exit
  <2> QED BY <2>1, <2>2, DownType DEF links, TypeInv, TypeOK, Loaded
<1> QED BY <1>2, <1>3, <1>4, <1>5, <1>6

\* Every step keeps the types and the queue.
LEMMA TypeStep == TypeInv /\ [Next]_vars => TypeInv'
<1> SUFFICES ASSUME TypeInv, [Next]_vars PROVE TypeInv'
  OBVIOUS
<1>1. CASE UNCHANGED vars
  BY <1>1 DEF vars, store, handler, script, links, TypeInv, TypeOK, Served, Queued,
              Awaited, Waited, SaveOnly, Loaded
<1> QED BY <1>1, PollType, ScriptType, FileType, LinkType DEF Next

\* They hold at the start.
LEMMA TypeInit == Init => TypeInv
<1> SUFFICES ASSUME Init PROVE TypeInv
  OBVIOUS
<1>1. /\ at = [h \in Handler |-> "none"] /\ queue = <<>> /\ current = None
      /\ \A h \in Handler : at[h] \notin Writing
  BY DEF Init, Writing
<1>2. Served /\ Queued /\ Awaited /\ Waited /\ SaveOnly /\ Loaded
  BY <1>1, Handlers DEF Init, Served, Queued, Awaited, Waited, SaveOnly, Loaded
<1>3. queue \in Seq(Write) /\ origin \in Seq(Conn \X Key)
  BY <1>1 DEF Init
<1>4. count \in [links : 0 .. MaxLinks, fails : 0 .. MaxFails, exits : 0 .. MaxExits]
      /\ polls \in [Client -> 0 .. MaxPolls]
  BY BoundAssumption DEF Init
<1> QED BY <1>1, <1>2, <1>3, <1>4, RequestTypes
        DEF Init, TypeInv, TypeOK, Between, Session

\* The state keeps its types, whatever requests overlap and fail.
THEOREM TypeCorrect == Spec => []TypeOK
<1>1. TypeInv => TypeOK
  BY DEF TypeInv
<1> QED BY <1>1, TypeInit, TypeStep, PTL DEF Spec

\* Every handler that waits for a write has exactly one operation in the queue
\* or being served, and the queue is served: processWriteQueue() loses none.
THEOREM QueueServed == Spec => []QueueNotStuck
<1>1. TypeInv => QueueNotStuck
  <2> DEFINE Operations(h) == {i \in 1 .. Len(queue) : queue[i].by = h}
  <2> DEFINE Current(h) == IF current # None /\ current.by = h THEN 1 ELSE 0
  <2> SUFFICES ASSUME TypeInv, NEW h \in Handler
               PROVE  Cardinality(Operations(h)) + Current(h) = IF at[h] \in Writing THEN 1 ELSE 0
    BY DEF TypeInv, Served, QueueNotStuck
  <2>1. CASE at[h] \notin Writing
    <3>1. Operations(h) = {} /\ Current(h) = 0
      BY <2>1 DEF TypeInv, Queued, Awaited
    <3>2. Cardinality(Operations(h)) = 0
      BY <3>1, FS_EmptySet
    <3> QED BY <2>1, <3>1, <3>2
  <2>2. CASE at[h] \in Writing /\ current # None /\ current.by = h
    <3>1. Operations(h) = {} /\ Current(h) = 1
      BY <2>2 DEF TypeInv, Awaited
    <3>2. Cardinality(Operations(h)) = 0
      BY <3>1, FS_EmptySet
    <3> QED BY <2>2, <3>1, <3>2
  <2>3. CASE at[h] \in Writing /\ ~(current # None /\ current.by = h)
    <3>1. PICK i \in 1 .. Len(queue) : queue[i].by = h
      BY <2>3 DEF TypeInv, Waited
    <3>2. Operations(h) = {i} /\ Current(h) = 0
      BY <2>3, <3>1 DEF TypeInv, Queued
    <3>3. Cardinality(Operations(h)) = 1
      BY <3>2, FS_Singleton
    <3> QED BY <2>3, <3>2, <3>3
  <2> QED BY <2>1, <2>2, <2>3
<1> QED BY <1>1, TypeInit, TypeStep, PTL DEF Spec

-------------------------------------------------------------------------------
(* Whose session it is, and who was asked to log in                        *)

\* Session s was stored for request k of connection n.
StoredFor(s, n, k, o) == s \in 1 .. Len(o) /\ o[s] = <<n, k>>

\* With the history o and the pages p: every fresh session of a mapping is where
\* it was stored, and no request is pending without a page.
Good(m, o, p) ==
    /\ \A n \in Conn, k \in Key : IsFresh(m[n][k]) => StoredFor(m[n][k].session, n, k, o)
    /\ \A n \in Conn, c \in Client : m[n][c].status = "pending" => c \in p

\* All the mappings there are: in the file, read, loaded, queued or being written.
GoodMappings ==
    /\ Good(file, origin, opened)
    /\ \A h \in Handler : held[h] # None => Good(held[h], origin, opened)
    /\ \A n \in Conn : loaded[n] # None => Good(loaded[n], origin, opened)
    /\ \A i \in 1 .. Len(queue) : Good(queue[i].mapping, origin, opened)
    /\ current # None => Good(current.mapping, origin, opened)

\* What a handler is about to return is there, and its client's.
Taken ==
    \A c \in Client :
        /\ took[c] # 0 => \/ StoredFor(took[c], ConnOf[c], "initial", origin)
                         \/ StoredFor(took[c], ConnOf[c], c, origin)
        /\ at[P(c)] \in {"consume", "taking", "taken"} \/ client[c] = "got" => took[c] # 0

\* A request is marked after its page was opened.
PageFirst == \A c \in Client : at[P(c)] = "mark" => c \in opened

OwnInv == TypeInv /\ GoodMappings /\ Taken /\ PageFirst

\* More history and more pages: what was stored stays stored.
LEMMA Grow ==
    ASSUME NEW o \in Seq(Conn \X Key), NEW x \in Conn \X Key, NEW p, NEW q, p \subseteq q
    PROVE  /\ \A s, n, k : StoredFor(s, n, k, o) => StoredFor(s, n, k, Append(o, x))
           /\ \A m \in Mapping : Good(m, o, p) => Good(m, o, q) /\ Good(m, Append(o, x), q)
<1>1. /\ Len(Append(o, x)) = Len(o) + 1 /\ Len(o) \in Nat
      /\ \A i \in 1 .. Len(o) : Append(o, x)[i] = o[i]
  BY AppendProperties, LenProperties
<1>2. \A s, n, k : StoredFor(s, n, k, o) => StoredFor(s, n, k, Append(o, x))
  BY <1>1 DEF StoredFor
<1> QED BY <1>2 DEF Good

\* A step only adds to the history and to the pages.
LEMMA Grown ==
    ASSUME TypeInv, [Next]_vars
    PROVE  /\ \A s, n, k : StoredFor(s, n, k, origin) => StoredFor(s, n, k, origin')
           /\ \A m \in Mapping : Good(m, origin, opened) => Good(m, origin', opened')
           /\ opened \subseteq opened'
<1>1. origin \in Seq(Conn \X Key)
  BY DEF TypeInv, TypeOK
<1>2. opened \subseteq opened'
  BY DEF Next, vars, Ask, GiveUp, Poll, NotLinked, GetFreshEntry, MarkConsumed, HandOut,
         GetStatus, GetRefreshUrl, CleanupExpiredConnection, AnswerExpired, OpenPage,
         OpenFails, MarkPending, MarkThrows, Login, SetSession, ReadMapping, WriteMapping,
         WriteFails, NextWrite, LinkLoad, LinkSave, LinkSaveFails, StartLocalServer, Exit
<1>3. origin' = origin \/ \E x \in Conn \X Key : origin' = Append(origin, x)
  <2>1. ASSUME NEW c \in Client, SetSession(c)
        PROVE  origin' = origin \/ \E x \in Conn \X Key : origin' = Append(origin, x)
    <3>1. <<ConnOf[c], c>> \in Conn \X Key
      BY ConnAssumption DEF Key
    <3> QED BY <2>1, <3>1 DEF SetSession
  <2>2. ASSUME NEW n \in Conn, LinkSave(n) PROVE \E x \in Conn \X Key : origin' = Append(origin, x)
    <3>1. <<n, "initial">> \in Conn \X Key
      BY DEF Key
    <3> QED BY <2>2, <3>1 DEF LinkSave
  <2>3. CASE ~(\E c \in Client : SetSession(c)) /\ ~(\E n \in Conn : LinkSave(n))
    BY <2>3
       DEF Next, vars, Ask, GiveUp, Poll, NotLinked, GetFreshEntry, MarkConsumed, HandOut,
           GetStatus, GetRefreshUrl, CleanupExpiredConnection, AnswerExpired, OpenPage,
           OpenFails, MarkPending, MarkThrows, Login, ReadMapping, WriteMapping,
           WriteFails, NextWrite, LinkLoad, LinkSaveFails, StartLocalServer, Exit
  <2> QED BY <2>1, <2>2, <2>3
<1>4. CASE origin' = origin
  <2>1. \A m \in Mapping : Good(m, origin, opened) => Good(m, origin, opened')
    BY <1>2 DEF Good
  <2> QED BY <1>2, <1>4, <2>1
<1>5. CASE \E x \in Conn \X Key : origin' = Append(origin, x)
  <2>1. PICK x \in Conn \X Key : origin' = Append(origin, x)
    BY <1>5
  <2>2. \A s, n, k : StoredFor(s, n, k, origin) => StoredFor(s, n, k, Append(origin, x))
    BY <1>1, Grow
  <2>3. \A m \in Mapping :
           Good(m, origin, opened) => Good(m, Append(origin, x), opened')
    BY <1>1, <1>2, Grow
  <2> QED BY <1>2, <2>1, <2>2, <2>3
<1> QED BY <1>3, <1>4, <1>5

\* What the handlers and the links write is good.
LEMMA GoodWrites ==
    ASSUME NEW o \in Seq(Conn \X Key), NEW p, NEW m \in Mapping, Good(m, o, p),
           NEW n \in Conn, NEW c \in Client
    PROVE  /\ Good(WithRequest(m, n, "initial", ConsumedOf(m[n]["initial"])), o, p)
           /\ Good(WithRequest(m, n, c, Missing), o, p)
           /\ Good([m EXCEPT ![n] = NoRequests], o, p)
           /\ c \in p => Good(WithRequest(m, n, c, Pending), o, p)
           /\ Good(WithRequest(m, n, c, FreshOf(Len(o) + 1)), Append(o, <<n, c>>), p)
<1> USE DEF Mapping, Request, Status, Key, WithRequest, IsFresh
<1>1. /\ Len(Append(o, <<n, c>>)) = Len(o) + 1 /\ Len(o) \in Nat
      /\ Append(o, <<n, c>>)[Len(o) + 1] = <<n, c>>
  BY AppendProperties, LenProperties
<1>2. Good(WithRequest(m, n, "initial", ConsumedOf(m[n]["initial"])), o, p)
  BY KeyAssumption DEF Good, ConsumedOf
<1>3. Good(WithRequest(m, n, c, Missing), o, p)
  BY DEF Good, Missing
<1>4. Good([m EXCEPT ![n] = NoRequests], o, p)
  BY DEF Good, NoRequests, Missing
<1>5. c \in p => Good(WithRequest(m, n, c, Pending), o, p)
  BY DEF Good, Pending
<1>6. Good(WithRequest(m, n, c, FreshOf(Len(o) + 1)), Append(o, <<n, c>>), p)
  <2>1. Good(m, Append(o, <<n, c>>), p)
    BY Grow
  <2>2. StoredFor(Len(o) + 1, n, c, Append(o, <<n, c>>))
    BY <1>1 DEF StoredFor
  <2> QED BY <2>1, <2>2 DEF Good, FreshOf
<1> QED BY <1>2, <1>3, <1>4, <1>5, <1>6

\* ... and so is what a link stores.
LEMMA GoodLink ==
    ASSUME NEW o \in Seq(Conn \X Key), NEW p, NEW m \in Mapping, Good(m, o, p), NEW n \in Conn
    PROVE  Good(WithLink(m, n, Len(o) + 1), Append(o, <<n, "initial">>), p)
<1>1. /\ Len(Append(o, <<n, "initial">>)) = Len(o) + 1 /\ Len(o) \in Nat
      /\ Append(o, <<n, "initial">>)[Len(o) + 1] = <<n, "initial">>
  BY AppendProperties, LenProperties
<1>2. StoredFor(Len(o) + 1, n, "initial", Append(o, <<n, "initial">>))
  BY <1>1 DEF StoredFor
<1>3. Good(m, Append(o, <<n, "initial">>), p)
  BY Grow DEF Key
<1> QED BY <1>2, <1>3, KeyAssumption
        DEF Good, Mapping, Key, WithLink, NoRequests, Missing, FreshOf, IsFresh

\* Pushing a good mapping leaves good ones in the queue.
LEMMA EnqueueGood ==
    ASSUME TypeInv, NEW h \in Handler, NEW m \in Mapping, Enqueue(h, m), NEW o, NEW p,
           Good(m, o, p),
           \A i \in 1 .. Len(queue) : Good(queue[i].mapping, o, p),
           current # None => Good(current.mapping, o, p)
    PROVE  /\ \A i \in 1 .. Len(queue') : Good(queue'[i].mapping, o, p)
           /\ current' # None => Good(current'.mapping, o, p)
<1> DEFINE w == [by |-> h, mapping |-> m]
<1>1. queue \in Seq(Write) /\ Len(queue) \in Nat /\ w \in Write /\ w.mapping = m
  BY LenProperties DEF TypeInv, TypeOK, Write
<1>2. CASE isWriting
  <2>1. queue' = Append(queue, w) /\ current' = current
    BY <1>2 DEF Enqueue
  <2>2. /\ Len(queue') = Len(queue) + 1 /\ queue'[Len(queue) + 1] = w
        /\ \A i \in 1 .. Len(queue) : queue'[i] = queue[i]
    BY <1>1, <2>1, AppendProperties
  <2>3. \A i \in 1 .. Len(queue') : i \in 1 .. Len(queue) \/ i = Len(queue) + 1
    BY <1>1, <2>2
  <2> QED BY <1>1, <2>1, <2>2, <2>3
<1>3. CASE ~isWriting
  <2>1. queue = <<>>
    BY <1>3 DEF TypeInv, Served
  <2>2. Append(queue, w) = <<w>> /\ Head(<<w>>) = w /\ Tail(<<w>>) = <<>>
    BY <2>1
  <2>3. queue' = <<>> /\ current' = w
    BY <1>3, <2>2 DEF Enqueue
  <2> QED BY <1>1, <2>3
<1> QED BY <1>2, <1>3

\* No step makes a mapping bad.
LEMMA GoodStep == ASSUME OwnInv, [Next]_vars PROVE GoodMappings'
<1> DEFINE G(m) == Good(m, origin', opened')
<1>0. TypeInv /\ GoodMappings
  BY DEF OwnInv
<1>1. \A m \in Mapping : Good(m, origin, opened) => G(m)
  BY <1>0, Grown
<1>2. /\ G(file)
      /\ \A h \in Handler : held[h] # None => held[h] \in Mapping /\ G(held[h])
      /\ \A n \in Conn : loaded[n] # None => loaded[n] \in Mapping /\ G(loaded[n])
      /\ \A i \in 1 .. Len(queue) : G(queue[i].mapping)
      /\ current # None => G(current.mapping)
  <2>1. \A v \in Write : v.mapping \in Mapping
    BY DEF Write
  <2>2. /\ \A i \in 1 .. Len(queue) : queue[i].mapping \in Mapping
        /\ current # None => current.mapping \in Mapping
    BY <1>0, <2>1, QueueType DEF TypeInv
  <2> QED BY <1>0, <1>1, <2>2 DEF GoodMappings, TypeInv, TypeOK
<1> DEFINE Files   == G(file')
           Helds   == \A h \in Handler : held'[h] # None => G(held'[h])
           Loadeds == \A n \in Conn : loaded'[n] # None => G(loaded'[n])
           Queueds == /\ \A i \in 1 .. Len(queue') : G(queue'[i].mapping)
                      /\ current' # None => G(current'.mapping)
<1> HIDE DEF G
<1>3. SUFFICES Files /\ Helds /\ Loadeds /\ Queueds
  BY DEF GoodMappings, G
\* The parts a step leaves alone stay good.
<1>4. /\ UNCHANGED file => Files
      /\ UNCHANGED held => Helds
      /\ UNCHANGED loaded => Loadeds
      /\ UNCHANGED <<queue, current>> => Queueds
  BY <1>2
<1>5. ASSUME NEW h \in Handler, NEW x, Goto(h, x) PROVE Helds
  BY <1>0, <1>2, <1>5 DEF Goto, TypeInv, TypeOK
<1>6. ASSUME NEW h \in Handler, NEW m \in Mapping, Enqueue(h, m), G(m) PROVE Queueds
  BY <1>0, <1>2, <1>6, EnqueueGood DEF G
<1>7. ASSUME NEW how, Down(how) PROVE Helds /\ Queueds
  BY <1>7 DEF Down
<1>8. ASSUME NEW c \in Client, Poll(c) PROVE Files /\ Helds /\ Loadeds /\ Queueds
  <2> DEFINE m == held[P(c)]
  <2> DEFINE n == ConnOf[c]
  <2>0. P(c) \in Handler /\ n \in Conn
    BY Handlers, ConnAssumption
  <2>1. m # None => m \in Mapping /\ Good(m, origin, opened)
    BY <1>0, <2>0 DEF GoodMappings, TypeInv, TypeOK
  <2>2. origin \in Seq(Conn \X Key)
    BY <1>0 DEF TypeInv, TypeOK
  <2> HIDE DEF m, n
  <2>3. CASE \/ \E where \in {"fresh", "consume", "status", "url"} : NotLinked(c, where)
             \/ HandOut(c) \/ GetStatus(c) \/ GetRefreshUrl(c) \/ AnswerExpired(c)
             \/ OpenPage(c) \/ OpenFails(c)
    <3>1. /\ \E x : Goto(P(c), x)
          /\ UNCHANGED <<file, queue, current, loaded>>
      BY <2>3 DEF NotLinked, HandOut, GetStatus, GetRefreshUrl, AnswerExpired, OpenPage,
                  OpenFails, store, links
    <3> QED BY <1>4, <1>5, <2>0, <3>1
  <2>4. CASE GetFreshEntry(c)
    <3>1. m # None /\ UNCHANGED loaded /\ \E x : Goto(P(c), x)
      BY <2>4 DEF GetFreshEntry, HasRead, links, m
    <3>2. CASE UNCHANGED store
      BY <1>4, <1>5, <2>0, <3>1, <3>2 DEF store
    <3>3. CASE Enqueue(P(c), WithRequest(m, n, c, Missing)) /\ UNCHANGED file
      <4>1. Good(WithRequest(m, n, c, Missing), origin, opened)
        BY <2>0, <2>1, <2>2, <3>1, GoodWrites
      <4>2. WithRequest(m, n, c, Missing) \in Mapping
        BY <2>0, <2>1, <3>1, MappingTypes, RequestTypes DEF Key
      <4> QED BY <1>1, <1>4, <1>5, <1>6, <2>0, <3>1, <3>3, <4>1, <4>2
    <3> QED BY <2>4, <3>2, <3>3 DEF GetFreshEntry, m, n
  <2>5. CASE MarkConsumed(c)
    <3> DEFINE w == WithRequest(m, n, "initial", ConsumedOf(m[n]["initial"]))
    <3>1. /\ m # None /\ UNCHANGED <<file, loaded>> /\ \E x : Goto(P(c), x)
          /\ Enqueue(P(c), w)
      BY <2>5 DEF MarkConsumed, HasRead, links, m, n
    <3>2. Good(w, origin, opened)
      BY <2>0, <2>1, <2>2, <3>1, GoodWrites
    <3>3. w \in Mapping
      BY <2>0, <2>1, <3>1, MappingTypes, RequestTypes DEF Key
    <3> QED BY <1>1, <1>4, <1>5, <1>6, <2>0, <3>1, <3>2, <3>3
  <2>6. CASE CleanupExpiredConnection(c)
    <3>1. m # None /\ UNCHANGED loaded /\ \E x : Goto(P(c), x)
      BY <2>6 DEF CleanupExpiredConnection, HasRead, links, m
    <3>2. CASE UNCHANGED store
      BY <1>4, <1>5, <2>0, <3>1, <3>2 DEF store
    <3>3. CASE Enqueue(P(c), [m EXCEPT ![n] = NoRequests]) /\ UNCHANGED file
      <4>1. Good([m EXCEPT ![n] = NoRequests], origin, opened)
        BY <2>0, <2>1, <2>2, <3>1, GoodWrites
      <4>2. [m EXCEPT ![n] = NoRequests] \in Mapping
        BY <2>0, <2>1, <3>1, MappingTypes
      <4> QED BY <1>1, <1>4, <1>5, <1>6, <2>0, <3>1, <3>3, <4>1, <4>2
    <3> QED BY <2>6, <3>2, <3>3 DEF CleanupExpiredConnection, m, n
  <2>7. CASE MarkPending(c)
    <3> DEFINE w == WithRequest(m, n, c, Pending)
    <3>1. /\ m # None /\ UNCHANGED <<file, loaded>> /\ \E x : Goto(P(c), x)
          /\ Enqueue(P(c), w) /\ at[P(c)] = "mark"
      BY <2>7 DEF MarkPending, HasRead, links, m, n
    <3>2. c \in opened
      BY <3>1 DEF OwnInv, PageFirst
    <3>3. Good(w, origin, opened)
      BY <2>0, <2>1, <2>2, <3>1, <3>2, GoodWrites
    <3>4. w \in Mapping
      BY <2>0, <2>1, <3>1, MappingTypes, RequestTypes DEF Key
    <3> QED BY <1>1, <1>4, <1>5, <1>6, <2>0, <3>1, <3>3, <3>4
  <2>8. CASE MarkThrows(c)
    <3>1. Down("crashed") /\ UNCHANGED <<file, loaded>>
      BY <2>8 DEF MarkThrows, links
    <3> QED BY <1>4, <1>7, <3>1
  <2> QED BY <1>8, <2>3, <2>4, <2>5, <2>6, <2>7, <2>8 DEF Poll
<1>9. ASSUME NEW c \in Client, SetSession(c) PROVE Files /\ Helds /\ Loadeds /\ Queueds
  <2> DEFINE m == held[S(c)]
  <2> DEFINE n == ConnOf[c]
  <2>0. S(c) \in Handler /\ n \in Conn
    BY Handlers, ConnAssumption
  <2>1. m # None => m \in Mapping /\ Good(m, origin, opened)
    BY <1>0, <2>0 DEF GoodMappings, TypeInv, TypeOK
  <2> HIDE DEF m, n
  <2>2. m # None /\ UNCHANGED <<loaded, opened>> /\ \E x : Goto(S(c), x)
    BY <1>9 DEF SetSession, HasRead, links, m
  <2>3. CASE UNCHANGED store
    BY <1>4, <1>5, <2>0, <2>2, <2>3 DEF store
  <2>4. CASE /\ Enqueue(S(c), WithRequest(m, n, c, FreshOf(NextSession)))
             /\ origin' = Append(origin, <<n, c>>) /\ UNCHANGED file
    <3>1. G(WithRequest(m, n, c, FreshOf(NextSession)))
      BY <1>0, <2>0, <2>1, <2>2, <2>4, GoodWrites DEF G, NextSession, TypeInv, TypeOK
    <3>2. WithRequest(m, n, c, FreshOf(NextSession)) \in Mapping
      BY <1>0, <2>0, <2>1, <2>2, MappingTypes, RequestTypes, NextSessionType DEF Key, TypeInv
    <3> QED BY <1>4, <1>5, <1>6, <2>0, <2>2, <2>4, <3>1, <3>2
  <2> QED BY <1>9, <2>3, <2>4 DEF SetSession, m, n
<1>10. ASSUME NEW c \in Client, Ask(c) \/ GiveUp(c) \/ Login(c)
       PROVE  Files /\ Helds /\ Loadeds /\ Queueds
  <2>1. UNCHANGED <<file, queue, current, loaded>>
    BY <1>10 DEF Ask, GiveUp, Login, store, links
  <2>2. UNCHANGED held \/ \E h \in Handler : \E x : Goto(h, x)
    BY <1>10, Handlers DEF Ask, GiveUp, Login, handler
  <2> QED BY <1>4, <1>5, <2>1, <2>2
<1>11. ASSUME NEW h \in Handler, ReadMapping(h)
       PROVE  Files /\ Helds /\ Loadeds /\ Queueds
  <2>1. UNCHANGED <<file, queue, current, loaded>> /\ held' = [held EXCEPT ![h] = file]
    BY <1>11 DEF ReadMapping, store, links
  <2>2. Helds
    BY <1>0, <1>2, <2>1 DEF TypeInv, TypeOK
  <2> QED BY <1>4, <2>1, <2>2
<1>12. CASE WriteMapping
  <2>1. /\ file' = current.mapping /\ current # None /\ current' = None
        /\ UNCHANGED <<queue, held, loaded>>
    BY <1>12 DEF WriteMapping, links
  <2> QED BY <1>2, <1>4, <2>1
<1>13. CASE WriteFails
  <2>1. UNCHANGED <<file, loaded>>
    BY <1>13 DEF WriteFails, links
  <2>2. \/ Down("crashed")
        \/ current' = None /\ UNCHANGED queue /\ \E x : Goto(current.by, x)
    BY <1>13 DEF WriteFails
  <2>3. current.by \in Handler
    BY <1>0, <1>13, QueueType DEF WriteFails, TypeInv
  <2>4. CASE Down("crashed")
    BY <1>4, <1>7, <2>1, <2>4
  <2>5. CASE current' = None /\ UNCHANGED queue /\ \E x : Goto(current.by, x)
    BY <1>2, <1>4, <1>5, <2>1, <2>3, <2>5
  <2> QED BY <2>2, <2>4, <2>5
<1>14. CASE NextWrite
  <2>1. UNCHANGED <<file, held, loaded>>
    BY <1>14 DEF NextWrite, handler, links
  <2>2. CASE queue = <<>>
    <3>1. UNCHANGED <<queue, current>>
      BY <1>14, <2>2 DEF NextWrite
    <3> QED BY <1>4, <2>1, <3>1
  <2>3. CASE queue # <<>>
    <3>1. current' = Head(queue) /\ queue' = Tail(queue)
      BY <1>14, <2>3 DEF NextWrite
    <3>2. queue \in Seq(Write)
      BY <1>0 DEF TypeInv, TypeOK
    <3>3. /\ current' = queue[1] /\ 1 \in 1 .. Len(queue)
          /\ \A i \in 1 .. Len(queue') : i + 1 \in 1 .. Len(queue) /\ queue'[i] = queue[i + 1]
      BY <2>3, <3>1, <3>2, HeadTailProperties, LenProperties
    <3>4. Queueds
      BY <1>2, <3>3
    <3> QED BY <1>4, <2>1, <3>4
  <2> QED BY <2>2, <2>3
<1>15. ASSUME NEW n \in Conn, LinkLoad(n) PROVE Files /\ Helds /\ Loadeds /\ Queueds
  <2>1. UNCHANGED <<file, queue, current, held>>
    BY <1>15 DEF LinkLoad, store, handler
  <2>2. PICK m \in {file, Empty} : loaded' = [loaded EXCEPT ![n] = m]
    BY <1>15 DEF LinkLoad
  <2>3. G(Empty)
    BY DEF G, Good, Empty, NoRequests, Missing, IsFresh, Key
  <2>4. Loadeds
    BY <1>0, <1>2, <2>2, <2>3 DEF TypeInv, TypeOK
  <2> QED BY <1>4, <2>1, <2>4
<1>16. ASSUME NEW n \in Conn, LinkSave(n) PROVE Files /\ Helds /\ Loadeds /\ Queueds
  <2>1. /\ UNCHANGED <<queue, current, held, opened>> /\ loaded' = [loaded EXCEPT ![n] = None]
        /\ file' = WithLink(loaded[n], n, NextSession) /\ link[n] = "loaded"
        /\ origin' = Append(origin, <<n, "initial">>)
    BY <1>16 DEF LinkSave, handler
  <2>2. Loadeds
    BY <1>0, <1>2, <2>1 DEF TypeInv, TypeOK
  <2>3. loaded[n] \in Mapping /\ Good(loaded[n], origin, opened)
    BY <1>0, <2>1 DEF GoodMappings, TypeInv, TypeOK, Loaded
  <2>4. Files
    BY <1>0, <2>1, <2>3, GoodLink DEF G, NextSession, TypeInv, TypeOK
  <2> QED BY <1>4, <2>1, <2>2, <2>4
<1>17. ASSUME NEW n \in Conn, LinkSaveFails(n) \/ StartLocalServer(n)
       PROVE  Files /\ Helds /\ Loadeds /\ Queueds
  <2>1. CASE LinkSaveFails(n)
    <3>1. UNCHANGED <<file, queue, current, held>> /\ loaded' = [loaded EXCEPT ![n] = None]
      BY <2>1 DEF LinkSaveFails, store, handler
    <3>2. Loadeds
      BY <1>0, <1>2, <3>1 DEF TypeInv, TypeOK
    <3> QED BY <1>4, <3>1, <3>2
  <2>2. CASE StartLocalServer(n)
    BY <1>4, <1>7, <2>2 DEF StartLocalServer
  <2> QED BY <1>17, <2>1, <2>2
<1>18. CASE Exit
  BY <1>4, <1>7, <1>18 DEF Exit, links
<1>19. CASE UNCHANGED vars
  BY <1>4, <1>19 DEF vars, store, handler, links
<1> QED BY <1>8, <1>9, <1>10, <1>11, <1>12, <1>13, <1>14, <1>15, <1>16, <1>17, <1>18,
           <1>19 DEF Next

\* No step hands out, or is about to hand out, a session of somebody else; none
\* comes to mark a request whose page was not opened.
LEMMA TakenStep == ASSUME OwnInv, [Next]_vars PROVE Taken' /\ PageFirst'
<1> DEFINE Mine(c, s) == \/ StoredFor(s, ConnOf[c], "initial", origin')
                         \/ StoredFor(s, ConnOf[c], c, origin')
           Holding    == {"consume", "taking", "taken"}
           Kept(c)    == /\ took'[c] # 0 => Mine(c, took'[c])
                         /\ at'[P(c)] \in Holding \/ client'[c] = "got" => took'[c] # 0
                         /\ at'[P(c)] = "mark" => c \in opened'
<1>0. TypeInv /\ GoodMappings /\ Taken /\ PageFirst
  BY DEF OwnInv
<1>1. /\ \A c \in Client : took[c] # 0 => Mine(c, took[c])
      /\ opened \subseteq opened'
  BY <1>0, Grown DEF Taken
<1> HIDE DEF Mine
\* A client that a step does not concern keeps what it has.
<1>2. ASSUME NEW c \in Client, took'[c] = took[c],
             client'[c] = "got" => client[c] = "got" \/ at[P(c)] = "taken",
             at'[P(c)] \in Holding => at[P(c)] \in Holding,
             at'[P(c)] = "mark" => at[P(c)] = "mark"
      PROVE  Kept(c)
  BY <1>0, <1>1, <1>2 DEF Taken, PageFirst
<1>3. SUFFICES \A c \in Client : Kept(c)
  BY DEF Taken, PageFirst, Mine
<1>4. ASSUME NEW how, Down(how), NEW c \in Client PROVE Kept(c)
  <2>1. at'[P(c)] = "none"
    BY <1>4, Handlers DEF Down
  <2>2. client'[c] = "got" => client[c] = "got"
    BY <1>4 DEF Down
  <2>3. took'[c] = IF client[c] = "got" THEN took[c] ELSE 0
    BY <1>4 DEF Down
  <2>4. client[c] = "got" => client'[c] = "got"
    BY <1>4 DEF Down, Asking
  <2> QED BY <1>0, <1>1, <2>1, <2>2, <2>3, <2>4 DEF Taken
<1>5. ASSUME NEW c \in Client, Poll(c) PROVE \A d \in Client : Kept(d)
  <2>0. \A d \in Client : P(d) \in Handler /\ (d # c => P(d) # P(c))
    BY Handlers DEF P
  <2>1. CASE MarkThrows(c)
    BY <1>4, <2>1 DEF MarkThrows
  <2>2. CASE ~MarkThrows(c)
    <3>1. \E x : at' = [at EXCEPT ![P(c)] = x]
      BY <1>5, <2>2
         DEF Poll, NotLinked, GetFreshEntry, MarkConsumed, HandOut, GetStatus,
             GetRefreshUrl, CleanupExpiredConnection, AnswerExpired, OpenPage, OpenFails,
             MarkPending, Goto
    <3>2. /\ UNCHANGED took \/ \E s : took' = [took EXCEPT ![c] = s]
          /\ UNCHANGED client \/ \E x : client' = [client EXCEPT ![c] = x]
      BY <1>5, <2>2
         DEF Poll, NotLinked, GetFreshEntry, MarkConsumed, HandOut, GetStatus,
             GetRefreshUrl, CleanupExpiredConnection, AnswerExpired, OpenPage, OpenFails,
             MarkPending, Answer, script
    <3>3. ASSUME NEW d \in Client, d # c PROVE Kept(d)
      <4>1. at'[P(d)] = at[P(d)] /\ took'[d] = took[d] /\ client'[d] = client[d]
        BY <1>0, <2>0, <3>1, <3>2, <3>3 DEF TypeInv, TypeOK
      <4> QED BY <1>2, <4>1
    <3> DEFINE m == held[P(c)]
    <3> DEFINE n == ConnOf[c]
    <3>4. /\ P(c) \in Handler /\ n \in Conn /\ c \in Key /\ "initial" \in Key
          /\ m # None => m \in Mapping /\ Good(m, origin', opened')
      <4>1. /\ P(c) \in Handler /\ n \in Conn /\ c \in Key /\ "initial" \in Key
            /\ m # None => m \in Mapping /\ Good(m, origin, opened)
        BY <1>0, Handlers, ConnAssumption DEF GoodMappings, TypeInv, TypeOK, Key
      <4>2. \A x \in Mapping : Good(x, origin, opened) => Good(x, origin', opened')
        BY <1>0, Grown
      <4> QED BY <4>1, <4>2
    <3> HIDE DEF m, n
    <3>5. /\ \A x : Goto(P(c), x) => at'[P(c)] = x
          /\ \A x : Answer(c, x) => client'[c] = x
          /\ \A s : took' = [took EXCEPT ![c] = s] => took'[c] = s
      BY <1>0, <3>4 DEF Goto, Answer, TypeInv, TypeOK
    <3>6. CASE \E where \in {"fresh", "consume", "status", "url"} : NotLinked(c, where)
      <4>1. at'[P(c)] = "none" /\ client'[c] = "failed" /\ took'[c] = 0
        BY <3>5, <3>6 DEF NotLinked
      <4> QED BY <3>3, <4>1
    <3>7. CASE GetFreshEntry(c)
      <4>1. m # None /\ client' = client
        BY <3>7 DEF GetFreshEntry, HasRead, script, m
      <4>2. \A k \in Key : IsFresh(m[n][k]) =>
               StoredFor(m[n][k].session, n, k, origin') /\ m[n][k].session # 0
        BY <3>4, <4>1 DEF Good, StoredFor
      <4>3. CASE /\ IsFresh(m[n]["initial"])
                 /\ took' = [took EXCEPT ![c] = m[n]["initial"].session]
                 /\ Goto(P(c), "consume")
        BY <3>3, <3>4, <3>5, <4>2, <4>3 DEF Mine, n
      <4>4. CASE /\ IsFresh(m[n][c])
                 /\ took' = [took EXCEPT ![c] = m[n][c].session]
                 /\ Goto(P(c), "taking")
        BY <3>3, <3>4, <3>5, <4>2, <4>4 DEF Mine, n
      <4>5. CASE Goto(P(c), "status") /\ UNCHANGED took
        <5>1. at'[P(c)] = "status" /\ took'[c] = took[c] /\ client'[c] = client[c]
          BY <3>5, <4>1, <4>5
        <5> QED BY <1>2, <3>3, <5>1
      <4> QED BY <3>7, <4>3, <4>4, <4>5 DEF GetFreshEntry, m, n
    <3>8. CASE \/ MarkConsumed(c) \/ HandOut(c) \/ GetStatus(c) \/ GetRefreshUrl(c)
               \/ CleanupExpiredConnection(c) \/ AnswerExpired(c) \/ OpenFails(c)
               \/ MarkPending(c)
      <4>1. took' = took
        BY <3>8 DEF MarkConsumed, HandOut, GetStatus, GetRefreshUrl, AnswerExpired,
                    CleanupExpiredConnection, OpenFails, MarkPending
      <4>2. client'[c] = "got" => client[c] = "got" \/ at[P(c)] = "taken"
        BY <3>5, <3>8
           DEF MarkConsumed, HandOut, GetStatus, GetRefreshUrl, AnswerExpired,
               CleanupExpiredConnection, OpenFails, MarkPending, script
      <4>3. /\ at'[P(c)] \in Holding => at[P(c)] \in Holding
            /\ at'[P(c)] = "mark" => at[P(c)] = "mark"
        BY <3>5, <3>8
           DEF MarkConsumed, HandOut, GetStatus, GetRefreshUrl, AnswerExpired, HasRead,
               CleanupExpiredConnection, OpenFails, MarkPending
      <4> QED BY <1>2, <3>3, <4>1, <4>2, <4>3
    <3>9. CASE OpenPage(c)
      <4>1. /\ took' = took /\ at'[P(c)] = "mark" /\ client'[c] = "waiting"
            /\ c \in opened'
        BY <3>5, <3>9 DEF OpenPage
      <4> QED BY <1>1, <3>3, <4>1
    <3> QED BY <1>5, <2>2, <3>6, <3>7, <3>8, <3>9 DEF Poll
  <2> QED BY <2>1, <2>2
<1>6. ASSUME NEW c \in Client, Ask(c) \/ GiveUp(c) PROVE \A d \in Client : Kept(d)
  <2>1. took' = took /\ \A d \in Client : client'[d] = "got" => client[d] = "got"
    BY <1>0, <1>6 DEF Ask, GiveUp, Answer, handler, TypeInv, TypeOK
  <2>2. \A d \in Client : at'[P(d)] = at[P(d)] \/ at'[P(d)] = "fresh"
    BY <1>0, <1>6, Handlers DEF Ask, GiveUp, Goto, handler, TypeInv, TypeOK
  <2> QED BY <1>2, <2>1, <2>2
<1>7. ASSUME NEW c \in Client, Login(c) \/ SetSession(c) PROVE \A d \in Client : Kept(d)
  <2>1. took' = took /\ client' = client /\ \E x : Goto(S(c), x)
    BY <1>7 DEF Login, SetSession, script
  <2>2. \A d \in Client : P(d) \in Handler /\ P(d) # S(c)
    BY Handlers DEF P, S
  <2>3. \A d \in Client : at'[P(d)] = at[P(d)]
    BY <1>0, <2>1, <2>2 DEF Goto, TypeInv, TypeOK
  <2> QED BY <1>2, <2>1, <2>3
<1>8. CASE WriteMapping
  <2>1. took' = took /\ client' = client
    BY <1>8 DEF WriteMapping, script
  <2>2. current.by \in Handler /\ at[current.by] \in Writing
    BY <1>0, <1>8, QueueType DEF WriteMapping, TypeInv, Awaited
  <2>3. at' = [at EXCEPT ![current.by] = AfterWrite[at[current.by]]]
    BY <1>8 DEF WriteMapping
  <2>4. ASSUME NEW d \in Client
        PROVE  /\ at'[P(d)] \in Holding => at[P(d)] \in Holding
               /\ at'[P(d)] = "mark" => at[P(d)] = "mark"
    <3>1. CASE P(d) = current.by
      BY <1>0, <2>2, <2>3, <3>1 DEF AfterWrite, Writing, TypeInv, TypeOK
    <3>2. CASE P(d) # current.by
      BY <1>0, <2>3, <3>2, Handlers DEF TypeInv, TypeOK
    <3> QED BY <3>1, <3>2
  <2> QED BY <1>2, <2>1, <2>4
<1>9. CASE WriteFails
  <2> DEFINE h == current.by
  <2>0. current # None /\ h \in Handler
    BY <1>0, <1>9, QueueType DEF WriteFails, TypeInv
  <2> HIDE DEF h
  <2>1. CASE Down("crashed")
    BY <1>4, <2>1
  <2>2. CASE /\ at[h] = "taking" /\ Answer(h[2], "failed") /\ Goto(h, "none")
             /\ took' = [took EXCEPT ![h[2]] = 0]
    <3>1. PICK c \in Client : h = P(c) /\ h[2] = c
      <4>1. PICK c \in Client : h = P(c) \/ h = S(c)
        BY <2>0 DEF Handler, P, S
      <4>2. h # S(c)
        BY <1>0, <2>2 DEF TypeInv, SaveOnly
      <4> QED BY <4>1, <4>2 DEF P
    <3>2. \A d \in Client : d # c => P(d) # P(c) /\ P(d) \in Handler
      BY Handlers DEF P
    <3>3. ASSUME NEW d \in Client, d # c PROVE Kept(d)
      <4>1. at'[P(d)] = at[P(d)] /\ took'[d] = took[d] /\ client'[d] = client[d]
        BY <1>0, <2>0, <2>2, <3>1, <3>2, <3>3 DEF Goto, Answer, TypeInv, TypeOK
      <4> QED BY <1>2, <4>1
    <3>4. at'[P(c)] = "none" /\ took'[c] = 0 /\ client'[c] = "failed"
      BY <1>0, <2>0, <2>2, <3>1 DEF Goto, Answer, TypeInv, TypeOK
    <3> QED BY <3>3, <3>4
  <2>3. CASE /\ Goto(h, IF at[h] = "cleaning" THEN "expired" ELSE "none")
             /\ UNCHANGED <<took, client>>
    <3>1. \A d \in Client : at'[P(d)] \in {at[P(d)], "expired", "none"}
      BY <1>0, <2>0, <2>3, Handlers DEF Goto, TypeInv, TypeOK
    <3> QED BY <1>2, <2>3, <3>1
  <2> QED BY <1>9, <2>1, <2>2, <2>3 DEF WriteFails, h
<1>10. CASE \/ \E h \in Handler : ReadMapping(h)
            \/ NextWrite
            \/ \E n \in Conn : LinkLoad(n) \/ LinkSave(n) \/ LinkSaveFails(n)
            \/ UNCHANGED vars
  <2>1. UNCHANGED <<at, took, client>>
    BY <1>10 DEF ReadMapping, NextWrite, LinkLoad, LinkSave, LinkSaveFails, vars, handler,
                 script
  <2> QED BY <1>2, <2>1
<1>11. CASE Exit \/ \E n \in Conn : StartLocalServer(n)
  BY <1>4, <1>11 DEF Exit, StartLocalServer
<1> QED BY <1>5, <1>6, <1>7, <1>8, <1>9, <1>10, <1>11 DEF Next

\* The invariant holds at the start.
LEMMA OwnInit == Init => OwnInv
<1> SUFFICES ASSUME Init PROVE OwnInv
  OBVIOUS
<1>1. /\ file = Empty /\ origin = <<>> /\ queue = <<>> /\ current = None
      /\ \A h \in Handler : at[h] = "none" /\ held[h] = None
      /\ \A n \in Conn : loaded[n] = None
      /\ \A c \in Client : took[c] = 0 /\ client[c] = "new"
  BY DEF Init
<1>2. Good(Empty, origin, opened)
  BY DEF Good, Empty, NoRequests, Missing, IsFresh, Key
<1>3. 1 .. Len(queue) = {}
  BY <1>1
<1>4. GoodMappings
  BY <1>1, <1>2, <1>3 DEF GoodMappings
<1>5. Taken /\ PageFirst
  BY <1>1, Handlers DEF Taken, PageFirst
<1> QED BY <1>4, <1>5, TypeInit DEF OwnInv

\* Every step keeps the invariant.
LEMMA OwnStep == OwnInv /\ [Next]_vars => OwnInv'
BY TypeStep, GoodStep, TakenStep DEF OwnInv

\* However requests, logins and links overlap and overwrite each other's changes,
\* nobody is given a session that was stored for another request.
THEOREM SessionsAreOwn == Spec => []OwnSession
<1>1. OwnInv => OwnSession
  BY DEF OwnInv, Taken, OwnSession, StoredFor
<1> QED BY <1>1, OwnInit, OwnStep, PTL DEF Spec

\* A request in the file is pending only if a page was opened for it.
THEOREM PendingHasItsPage == Spec => []PendingHasPage
<1>1. OwnInv => PendingHasPage
  BY DEF OwnInv, GoodMappings, Good, PendingHasPage
<1> QED BY <1>1, OwnInit, OwnStep, PTL DEF Spec
=============================================================================
