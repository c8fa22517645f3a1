----------------------------- MODULE SessionStore -----------------------------
(***************************************************************************)
(* The local server of SageMaker remote connections                        *)
(* (awsService/sagemaker/detached-server) and what talks to it:            *)
(*                                                                         *)
(*  - a client is one run of resources/sagemaker_connect for a connection: *)
(*    it polls GET /get_session_async under its own request id until it is *)
(*    given a session;                                                     *)
(*  - a page is a browser tab the server opened for a request; when the    *)
(*    user has logged in there it calls GET /refresh_token with a session; *)
(*  - a link is the extension handling a deep link (model.ts,              *)
(*    credentialMapping.ts): it stores the link's session as the           *)
(*    'initial-connection' request and restarts the server.                *)
(*                                                                         *)
(* All of them read, change and write one file, .sagemaker-space-profiles. *)
(* A handler is one request being served; every await in it is a boundary  *)
(* between two actions, and a read of the file is a step of its own: what  *)
(* was read is used in the next one.  Writes go through the queue of       *)
(* utils.ts.  Sessions are numbered in the order they are stored.          *)
(***************************************************************************)
EXTENDS Naturals, Sequences, FiniteSets

CONSTANTS Conn,        \* connection identifiers (spaces)
          Client,      \* runs of the connect script; a client is its request id
          ConnOf,      \* ConnOf[c]: the connection client c asks for
          Smus,        \* connections without a refreshUrl
          Overlap,     \* requests and links may overlap; otherwise one at a time
          None,        \* undefined
          Unreadable,  \* loadMappings() may fail to read the file
          MaxPolls,    \* max_retries of the script
          MaxLinks,    \* bound on the deep links
          MaxFails,    \* bound on the writes that fail
          MaxExits     \* bound on the exits of the server

ASSUME ConnAssumption  == ConnOf \in [Client -> Conn] /\ Smus \subseteq Conn
ASSUME KeyAssumption   == "initial" \notin Client
ASSUME FlagAssumption  == Overlap \in BOOLEAN /\ Unreadable \in BOOLEAN
ASSUME BoundAssumption == {MaxPolls, MaxLinks, MaxFails, MaxExits} \subseteq Nat

VARIABLES
    file,       \* deepLink of the mapping file: the requests of each connection
    at,         \* at[h]: where handler h is, "none" if there is no such request
    held,       \* held[h]: the mapping h has read and not used yet
    took,       \* took[c]: the session c's handler is about to return, or c was given
    queue,      \* writeQueue
    current,    \* the write operation being awaited, None between two
    isWriting,  \* isWriting
    server,     \* "down", "up", or "crashed": ended by an unhandled rejection
    client,     \* client[c]: what the script of c is doing
    polls,      \* polls[c]: attempts of the script
    pages,      \* pages[c]: tabs opened for c that have not called back
    link,       \* link[n]: where the deep link for n is
    loaded,     \* loaded[n]: the mapping it has loaded
    count,      \* links, failed writes and exits so far
    origin,     \* history: connection and request each session was stored for
    opened      \* history: requests a page was opened for

store   == <<file, queue, current, isWriting>>
handler == <<at, held, took>>
script  == <<client, polls>>
links   == <<link, loaded>>
vars    == <<store, handler, script, links, server, pages, count, origin, opened>>
-------------------------------------------------------------------------------
(* The mapping.  deepLink[n] is absent when it has no initial request: a   *)
(* link always stores one and nothing but the whole entry is ever removed. *)
Key     == Client \cup {"initial"}
Session == Nat
Status  == {"not-started", "pending", "fresh", "consumed"}
Request == [status : Status, session : Session]
Mapping == [Conn -> [Key -> Request]]

Missing    == [status |-> "not-started", session |-> 0]
Pending    == [status |-> "pending", session |-> 0]
FreshOf(s) == [status |-> "fresh", session |-> s]
NoRequests == [k \in Key |-> Missing]
Empty      == [n \in Conn |-> NoRequests]

Linked(m, n)  == m[n]["initial"] # Missing
IsFresh(r)    == r.status = "fresh"
Requests(m)   == {m[p[1]][p[2]] : p \in Conn \X Key}
FreshIn(m)    == {r.session : r \in {q \in Requests(m) : IsFresh(q)}}
NextSession   == Len(origin) + 1

\* setSession(), markPending(), markConsumed() and the delete of a request that
\* was taken: one request of the mapping read before is replaced.  (Variants for
\* the mutants: another key is written; the status is unknown or not changed.)
WithInitial(m, n, k, r) == [m EXCEPT ![n]["initial"] = r]
WithRequest(m, n, k, r) == [m EXCEPT ![n][k] = r]
UsedOf(r)               == [r EXCEPT !.status = "used"]
StillFresh(r)           == r
ConsumedOf(r)           == [r EXCEPT !.status = "consumed"]

\* setSpaceCredentials(): the entry of the connection is replaced as a whole.
\* (Variants: all that was loaded is dropped; every connection gets the session.)
WithLinkToAll(m, n, s) == [x \in Conn |-> [NoRequests EXCEPT !["initial"] = FreshOf(s)]]
WithLinkOnly(m, n, s) == [Empty EXCEPT ![n] = [NoRequests EXCEPT !["initial"] = FreshOf(s)]]
WithLink(m, n, s) == [m EXCEPT ![n] = [NoRequests EXCEPT !["initial"] = FreshOf(s)]]
-------------------------------------------------------------------------------
Handler == {"poll", "save"} \X Client
P(c) == <<"poll", c>>     \* GET /get_session_async
S(c) == <<"save", c>>     \* GET /refresh_token

Reading == {"fresh", "consume", "status", "url", "cleanup", "mark", "save"}
Writing == {"taking", "cleaning", "marking", "saving"}
Between == {"none", "taken", "expired", "open"}
Write   == [by : Handler, mapping : Mapping]

ASSUME NoneAssumption == None \notin Mapping /\ None \notin Write

Asking == {"asking", "waiting"}
Ended  == {"got", "failed", "timedout"}

Init ==
    /\ file = Empty
    /\ at = [h \in Handler |-> "none"]
    /\ held = [h \in Handler |-> None]
    /\ took = [c \in Client |-> 0]
    /\ queue = <<>> /\ current = None /\ isWriting = FALSE
    /\ server = "down"
    /\ client = [c \in Client |-> "new"]
    /\ polls = [c \in Client |-> 0]
    /\ pages = [c \in Client |-> 0]
    /\ link = [n \in Conn |-> "idle"]
    /\ loaded = [n \in Conn |-> None]
    /\ count = [links |-> 0, fails |-> 0, exits |-> 0]
    /\ origin = <<>>
    /\ opened = {}

\* The handler goes on to `where`; what it had read is used up.
Goto(h, where) ==
    /\ at' = [at EXCEPT ![h] = where]
    /\ held' = [held EXCEPT ![h] = None]

\* The response of a poll: what the script makes of it.
Answer(c, outcome) == client' = [client EXCEPT ![c] = outcome]

\* writeMapping(): push the operation, then processWriteQueue().
Enqueue(h, m) ==
    LET q == Append(queue, [by |-> h, mapping |-> m])
    IN  IF isWriting
        THEN queue' = q /\ UNCHANGED <<current, isWriting>>
        ELSE queue' = Tail(q) /\ current' = Head(q) /\ isWriting' = TRUE

\* The process ends: requests are cut off, queued writes are lost, and the port
\* the scripts and the pages call is gone.
Down(how) ==
    /\ server' = how
    /\ at' = [h \in Handler |-> "none"]
    /\ held' = [h \in Handler |-> None]
    /\ queue' = <<>> /\ current' = None /\ isWriting' = FALSE
    /\ client' = [c \in Client |-> IF client[c] \in Asking THEN "failed" ELSE client[c]]
    /\ took' = [c \in Client |-> IF client[c] = "got" THEN took[c] ELSE 0]
    /\ pages' = [c \in Client |-> 0]

\* The workload without overlap: nothing begins before all else has ended.
Quiet ==
    \/ Overlap
    \/ /\ \A h \in Handler : at[h] = "none"
       /\ \A n \in Conn : link[n] = "idle"
-------------------------------------------------------------------------------
(* The connect script.                                                     *)

\* curl: the next attempt.  The interval outlasts the marking that follows a 202.
Ask(c) ==
    /\ server = "up" /\ Quiet
    /\ client[c] \in {"new", "waiting"} /\ polls[c] < MaxPolls
    /\ at[P(c)] = "none"
    /\ Answer(c, "asking")
    /\ polls' = [polls EXCEPT ![c] = @ + 1]
    /\ Goto(P(c), "fresh")
    /\ UNCHANGED <<store, took, links, server, pages, count, origin, opened>>

\* max_retries attempts were answered with 202 or 204.
GiveUp(c) ==
    /\ client[c] = "waiting" /\ polls[c] = MaxPolls
    /\ Answer(c, "timedout")
    /\ UNCHANGED <<store, handler, polls, links, server, pages, count, origin, opened>>
-------------------------------------------------------------------------------
(* GET /get_session_async and the store's methods it calls.                *)

\* readMapping(): the file as it is now, for the step that follows.
ReadMapping(h) ==
    /\ at[h] \in Reading /\ held[h] = None
    /\ held' = [held EXCEPT ![h] = file]
    /\ UNCHANGED <<store, at, took, script, links, server, pages, count, origin, opened>>

HasRead(h, where) == at[h] = where /\ held[h] # None

\* "No mapping found for connectionId": the handler answers 500.
NotLinked(c, where) ==
    /\ HasRead(P(c), where) /\ ~Linked(held[P(c)], ConnOf[c])
    /\ Answer(c, "failed") /\ Goto(P(c), "none")
    /\ took' = [took EXCEPT ![c] = 0]
    /\ UNCHANGED <<store, polls, links, server, pages, count, origin, opened>>

GetFreshEntry(c) ==
    LET m == held[P(c)]
        n == ConnOf[c]
    IN  /\ HasRead(P(c), "fresh") /\ Linked(m, n)
        /\ \/ /\ IsFresh(m[n]["initial"])
              /\ took' = [took EXCEPT ![c] = m[n]["initial"].session]
              /\ Goto(P(c), "consume")
              /\ UNCHANGED store
           \/ /\ ~IsFresh(m[n]["initial"]) /\ IsFresh(m[n][c])
              /\ took' = [took EXCEPT ![c] = m[n][c].session]
              /\ Enqueue(P(c), WithRequest(m, n, c, Missing))
              /\ Goto(P(c), "taking")
              /\ UNCHANGED file
           \/ /\ ~IsFresh(m[n]["initial"]) /\ ~IsFresh(m[n][c])
              /\ Goto(P(c), "status")
              /\ UNCHANGED <<store, took>>
        /\ UNCHANGED <<script, links, server, pages, count, origin, opened>>

MarkConsumed(c) ==
    LET m == held[P(c)]
        n == ConnOf[c]
    IN  /\ HasRead(P(c), "consume") /\ Linked(m, n)
        /\ Enqueue(P(c), WithRequest(m, n, "initial", ConsumedOf(m[n]["initial"])))
        /\ Goto(P(c), "taking")
        /\ UNCHANGED <<file, took, script, links, server, pages, count, origin, opened>>

\* 200 with the session found before the write.
HandOut(c) ==
    /\ at[P(c)] = "taken"
    /\ Answer(c, "got") /\ Goto(P(c), "none")
    /\ UNCHANGED <<store, took, polls, links, server, pages, count, origin, opened>>

\* (variant: the poll of a pending session is left without a response)
SilentWhenPending(c) ==
    LET status == held[P(c)][ConnOf[c]][c].status
    IN  /\ HasRead(P(c), "status") /\ Linked(held[P(c)], ConnOf[c])
        /\ Goto(P(c), IF status = "not-started" THEN "url" ELSE "none")
        /\ UNCHANGED <<store, took, script, links, server, pages, count, origin, opened>>

\* 204 when pending; a status that has become fresh since is not answered at all.
GetStatus(c) ==
    LET status == held[P(c)][ConnOf[c]][c].status
    IN  /\ HasRead(P(c), "status") /\ Linked(held[P(c)], ConnOf[c])
        /\ \/ status = "pending" /\ Answer(c, "waiting") /\ Goto(P(c), "none")
           \/ status = "not-started" /\ Goto(P(c), "url") /\ UNCHANGED client
           \/ status \in {"fresh", "consumed"} /\ Goto(P(c), "none") /\ UNCHANGED client
        /\ UNCHANGED <<store, took, polls, links, server, pages, count, origin, opened>>

GetRefreshUrl(c) ==
    /\ HasRead(P(c), "url") /\ Linked(held[P(c)], ConnOf[c])
    /\ Goto(P(c), IF ConnOf[c] \in Smus THEN "cleanup" ELSE "open")
    /\ UNCHANGED <<store, took, script, links, server, pages, count, origin, opened>>

CleanupExpiredConnection(c) ==
    LET m == held[P(c)]
        n == ConnOf[c]
    IN  /\ HasRead(P(c), "cleanup")
        /\ \/ /\ Linked(m, n)
              /\ Enqueue(P(c), [m EXCEPT ![n] = NoRequests])
              /\ Goto(P(c), "cleaning") /\ UNCHANGED file
           \/ ~Linked(m, n) /\ Goto(P(c), "expired") /\ UNCHANGED store
        /\ UNCHANGED <<took, script, links, server, pages, count, origin, opened>>

\* 400: the SMUS session has expired.
AnswerExpired(c) ==
    /\ at[P(c)] = "expired"
    /\ Answer(c, "failed") /\ Goto(P(c), "none")
    /\ UNCHANGED <<store, took, polls, links, server, pages, count, origin, opened>>

\* open(url), then 202; the handler goes on after the response.
OpenPage(c) ==
    /\ at[P(c)] = "open"
    /\ pages' = [pages EXCEPT ![c] = @ + 1]
    /\ opened' = opened \cup {c}
    /\ Answer(c, "waiting") /\ Goto(P(c), "mark")
    /\ UNCHANGED <<store, took, polls, links, server, count, origin>>

\* open(url) or readServerInfo() rejects: 500.
OpenFails(c) ==
    /\ at[P(c)] = "open"
    /\ Answer(c, "failed") /\ Goto(P(c), "none")
    /\ UNCHANGED <<store, took, polls, links, server, pages, count, origin, opened>>

MarkPending(c) ==
    LET m == held[P(c)]
        n == ConnOf[c]
    IN  /\ HasRead(P(c), "mark") /\ Linked(m, n)
        /\ Enqueue(P(c), WithRequest(m, n, c, Pending))
        /\ Goto(P(c), "marking")
        /\ UNCHANGED <<file, took, script, links, server, pages, count, origin, opened>>

\* markPending() throws after the response has ended: writeHead(500) in the catch
\* throws as well, nobody handles the rejection, and the process dies of it.
MarkThrows(c) ==
    /\ HasRead(P(c), "mark") /\ ~Linked(held[P(c)], ConnOf[c])
    /\ Down("crashed")
    /\ UNCHANGED <<file, polls, links, count, origin, opened>>

Poll(c) ==
    \/ \E where \in {"fresh", "consume", "status", "url"} : NotLinked(c, where)
    \/ GetFreshEntry(c) \/ MarkConsumed(c) \/ HandOut(c)
    \/ GetStatus(c) \/ GetRefreshUrl(c)
    \/ CleanupExpiredConnection(c) \/ AnswerExpired(c)
    \/ OpenPage(c) \/ OpenFails(c) \/ MarkPending(c) \/ MarkThrows(c)
-------------------------------------------------------------------------------
(* GET /refresh_token.                                                     *)

\* The user has logged in and the page calls back.
Login(c) ==
    /\ server = "up" /\ Quiet
    /\ pages[c] > 0 /\ at[S(c)] = "none"
    /\ pages' = [pages EXCEPT ![c] = @ - 1]
    /\ Goto(S(c), "save")
    /\ UNCHANGED <<store, took, script, links, server, count, origin, opened>>

SetSession(c) ==
    LET m == held[S(c)]
        n == ConnOf[c]
    IN  /\ HasRead(S(c), "save")
        /\ \/ /\ Linked(m, n)
              /\ origin' = Append(origin, <<n, c>>)
              /\ Enqueue(S(c), WithRequest(m, n, c, FreshOf(NextSession)))
              /\ Goto(S(c), "saving")
              /\ UNCHANGED file
           \/ /\ ~Linked(m, n)
              /\ Goto(S(c), "none")
              /\ UNCHANGED <<store, origin>>
        /\ UNCHANGED <<took, script, links, server, pages, count, opened>>
-------------------------------------------------------------------------------
(* The write queue.                                                        *)

\* Where a handler goes on when its write has succeeded.
AfterWrite == [taking |-> "taken", cleaning |-> "expired", marking |-> "none", saving |-> "none"]

\* writeFile and rename: the file is replaced at once and the promise resolves.
WriteMapping ==
    /\ current # None
    /\ file' = current.mapping
    /\ at' = [at EXCEPT ![current.by] = AfterWrite[@]]
    /\ current' = None
    /\ UNCHANGED <<held, took, queue, isWriting, script, links, server, pages, count, origin, opened>>

\* The promise rejects: 500, except that a failed cleanup is ignored, and that
\* after a 202 there is nobody to answer (see MarkThrows).
WriteFails ==
    /\ current # None /\ count.fails < MaxFails
    /\ count' = [count EXCEPT !.fails = @ + 1]
    /\ LET h == current.by
       IN  \/ /\ at[h] = "taking"
              /\ Answer(h[2], "failed") /\ Goto(h, "none")
              /\ took' = [took EXCEPT ![h[2]] = 0]
              /\ current' = None /\ UNCHANGED <<queue, isWriting, server, pages>>
           \/ /\ at[h] \in {"cleaning", "saving"}
              /\ Goto(h, IF at[h] = "cleaning" THEN "expired" ELSE "none")
              /\ current' = None /\ UNCHANGED <<took, client, queue, isWriting, server, pages>>
           \/ at[h] = "marking" /\ Down("crashed")
    /\ UNCHANGED <<file, polls, links, origin, opened>>

\* (variant: one operation per call, no loop)
WriteNoMore ==
    /\ isWriting /\ current = None
    /\ isWriting' = FALSE
    /\ UNCHANGED <<file, queue, current, handler, script, links, server, pages, count, origin, opened>>

\* The loop of processWriteQueue() after an operation.
NextWrite ==
    /\ isWriting /\ current = None
    /\ IF queue # <<>>
       THEN current' = Head(queue) /\ queue' = Tail(queue) /\ UNCHANGED isWriting
       ELSE isWriting' = FALSE /\ UNCHANGED <<queue, current>>
    /\ UNCHANGED <<file, handler, script, links, server, pages, count, origin, opened>>
-------------------------------------------------------------------------------
(* The extension: persistSSMConnection() and startLocalServer().           *)

\* loadMappings(): an error is taken for an empty mapping.
LinkLoad(n) ==
    /\ link[n] = "idle" /\ Quiet /\ count.links < MaxLinks
    /\ \E m \in {file} \cup (IF Unreadable THEN {Empty} ELSE {}) :
          loaded' = [loaded EXCEPT ![n] = m]
    /\ link' = [link EXCEPT ![n] = "loaded"]
    /\ count' = [count EXCEPT !.links = @ + 1]
    /\ UNCHANGED <<store, handler, script, server, pages, origin, opened>>

LinkSave(n) ==
    /\ link[n] = "loaded"
    /\ file' = WithLink(loaded[n], n, NextSession)
    /\ origin' = Append(origin, <<n, "initial">>)
    /\ link' = [link EXCEPT ![n] = "saved"]
    /\ loaded' = [loaded EXCEPT ![n] = None]
    /\ UNCHANGED <<queue, current, isWriting, handler, script, server, pages, count, opened>>

\* saveMappings(): an error is logged, and the link goes on without its session.
LinkSaveFails(n) ==
    /\ link[n] = "loaded" /\ count.fails < MaxFails
    /\ count' = [count EXCEPT !.fails = @ + 1]
    /\ link' = [link EXCEPT ![n] = "saved"]
    /\ loaded' = [loaded EXCEPT ![n] = None]
    /\ UNCHANGED <<store, handler, script, server, pages, origin, opened>>

\* stopLocalServer(), then a new process on a new port.
StartLocalServer(n) ==
    /\ link[n] = "saved"
    /\ link' = [link EXCEPT ![n] = "idle"]
    /\ Down("up")
    /\ UNCHANGED <<file, polls, loaded, count, origin, opened>>

\* monitorVSCodeAndExit(): no IDE is found, or the listing of processes failed.
Exit ==
    /\ server = "up" /\ count.exits < MaxExits
    /\ count' = [count EXCEPT !.exits = @ + 1]
    /\ Down("down")
    /\ UNCHANGED <<file, polls, links, origin, opened>>
-------------------------------------------------------------------------------
Next ==
    \/ \E c \in Client : Ask(c) \/ GiveUp(c) \/ Poll(c) \/ Login(c) \/ SetSession(c)
    \/ \E h \in Handler : ReadMapping(h)
    \/ WriteMapping \/ WriteFails \/ NextWrite
    \/ \E n \in Conn : LinkLoad(n) \/ LinkSave(n) \/ LinkSaveFails(n) \/ StartLocalServer(n)
    \/ Exit

Spec == Init /\ [][Next]_vars

\* The scripts, the event loop of the server and its file operations keep going;
\* users, links and exits owe nothing.
FairSpec ==
    /\ Spec
    /\ \A c \in Client : /\ WF_vars(Ask(c)) /\ WF_vars(GiveUp(c))
                         /\ WF_vars(Poll(c)) /\ WF_vars(SetSession(c))
    /\ \A h \in Handler : WF_vars(ReadMapping(h))
    /\ WF_vars(WriteMapping \/ WriteFails) /\ WF_vars(NextWrite)
    /\ \A n \in Conn : WF_vars(LinkSave(n) \/ LinkSaveFails(n)) /\ WF_vars(StartLocalServer(n))
-------------------------------------------------------------------------------
(* Types of the state, and which handler waits for which write.            *)
TypeOK ==
    /\ file \in Mapping
    /\ at \in [Handler -> Reading \cup Writing \cup Between]
    /\ held \in [Handler -> Mapping \cup {None}]
    /\ took \in [Client -> Session]
    /\ queue \in Seq(Write) /\ current \in Write \cup {None} /\ isWriting \in BOOLEAN
    /\ server \in {"down", "up", "crashed"}
    /\ client \in [Client -> {"new"} \cup Asking \cup Ended]
    /\ polls \in [Client -> 0 .. MaxPolls]
    /\ pages \in [Client -> Nat]
    /\ link \in [Conn -> {"idle", "loaded", "saved"}]
    /\ loaded \in [Conn -> Mapping \cup {None}]
    /\ count \in [links : 0 .. MaxLinks, fails : 0 .. MaxFails, exits : 0 .. MaxExits]
    /\ origin \in Seq(Conn \X Key)
    /\ opened \subseteq Client

(* A handler that waits for a write is in the queue or is being served, at *)
(* most once, and the queue is not left unserved when operations are       *)
(* pushed while another ends (utils.ts, processWriteQueue).                *)
QueueNotStuck ==
    LET Waits(h) == Cardinality({i \in 1 .. Len(queue) : queue[i].by = h})
                    + (IF current # None /\ current.by = h THEN 1 ELSE 0)
    IN  /\ queue # <<>> \/ current # None => isWriting
        /\ \A h \in Handler : Waits(h) = IF at[h] \in Writing THEN 1 ELSE 0

(* A request is marked pending only after a page was opened for it: a     *)
(* script told to wait (204) waits for a login somebody was asked for.     *)
PendingHasPage ==
    \A n \in Conn, c \in Client : file[n][c].status = "pending" => c \in opened

(* A client is given a session of its own connection, stored by a link or  *)
(* for its own request (getFreshEntry).                                    *)
OwnSession ==
    \A c \in Client : client[c] = "got" =>
        origin[took[c]] \in {<<ConnOf[c], "initial">>, <<ConnOf[c], c>>}

(* A session is given to one client only (getFreshEntry marks the initial  *)
(* request consumed and deletes the other before it returns them).         *)
TokenOnce ==
    \A c, d \in Client :
        client[c] = "got" /\ client[d] = "got" /\ took[c] = took[d] => c = d

(* A session leaves the file only because a handler has taken it or a new  *)
(* link for its connection replaces it: no write undoes another one's.     *)
FreshIsNotLost ==
    [][\A s \in FreshIn(file) \ FreshIn(file)' :
          \/ \E c \in Client : took[c] = s
          \/ \E n \in Conn : origin[s][1] = n /\ link[n] = "loaded" /\ link'[n] = "saved"]_vars

(* Overlap aside, the store is the desk of SessionDesk: a session it holds *)
(* is on offer until it is given to one client it was stored for or        *)
(* dropped, and no write, failure or restart puts it back (getFreshEntry   *)
(* takes a session out of the file before it returns it).  On offer are    *)
(* the fresh sessions of the file, one that is being stored and one that a *)
(* poll has taken and not yet returned.                                    *)
Unwritten == {queue[i] : i \in DOMAIN queue} \cup ({current} \ {None})
Saving == {w \in Unwritten : at[w.by] = "saving"}
Arriving == UNION {FreshIn(w.mapping) : w \in Saving}
Leaving  == {took[c] : c \in {d \in Client : at[P(d)] \in {"consume", "taking", "taken"}}}
Offer    == FreshIn(file) \cup Arriving \cup Leaving
Given    == [c \in Client |-> IF client[c] = "got" THEN took[c] ELSE 0]

Desk == INSTANCE SessionDesk WITH issued <- origin, offer <- Offer, given <- Given

ImplementsDesk == Desk!Spec

(* Every run of the script ends: with a session, an error or its timeout.  *)
ClientsEnd ==
    \A c \in Client : client[c] \in Asking ~> client[c] \in Ended

(* An error in a handler is answered; none ends the server.                *)
ErrorsAreAnswered == server # "crashed"
=============================================================================
