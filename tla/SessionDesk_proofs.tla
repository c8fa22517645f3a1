-------------------------- MODULE SessionDesk_proofs --------------------------
(* When requests do not overlap, SessionStore implements SessionDesk, so    *)
(* gives no session twice, and loses none: for any connections and clients. *)
EXTENDS SessionStore_proofs

-------------------------------------------------------------------------------
(* The fresh sessions of a mapping                                         *)

LEMMA InFresh ==
    ASSUME NEW m, NEW s
    PROVE  s \in FreshIn(m) <=> \E n \in Conn, k \in Key : IsFresh(m[n][k]) /\ m[n][k].session = s
<1>1. \A r : r \in Requests(m) <=> \E n \in Conn, k \in Key : r = m[n][k]
  <2>1. ASSUME NEW r, r \in Requests(m) PROVE \E n \in Conn, k \in Key : r = m[n][k]
    BY <2>1 DEF Requests
  <2>2. ASSUME NEW n \in Conn, NEW k \in Key PROVE m[n][k] \in Requests(m)
    <3>1. <<n, k>> \in Conn \X Key /\ <<n, k>>[1] = n /\ <<n, k>>[2] = k
      OBVIOUS
    <3> QED BY <3>1 DEF Requests
  <2> QED BY <2>1, <2>2
<1> QED BY <1>1 DEF FreshIn

\* In a good mapping a fresh session is found where it was stored, and only there.
LEMMA FreshStored ==
    ASSUME NEW m, NEW o, NEW p, Good(m, o, p), NEW s \in FreshIn(m)
    PROVE  \E n \in Conn, k \in Key : StoredFor(s, n, k, o) /\ IsFresh(m[n][k]) /\ m[n][k].session = s
BY InFresh DEF Good

\* Replacing the request k of n concerns no session stored for another request, adds
\* at most the new one and leaves nothing fresh of the old one.
LEMMA FreshRequest ==
    ASSUME NEW m \in Mapping, NEW o, NEW p, Good(m, o, p), NEW n \in Conn, NEW k \in Key,
           NEW r \in Request
    PROVE  /\ \A s \in FreshIn(m) : s \in FreshIn(WithRequest(m, n, k, r)) \/ o[s] = <<n, k>>
           /\ \A s \in FreshIn(WithRequest(m, n, k, r)) :
                 s \in FreshIn(m) \/ (IsFresh(r) /\ s = r.session)
           /\ IsFresh(r) => r.session \in FreshIn(WithRequest(m, n, k, r))
           /\ IsFresh(m[n][k]) /\ ~IsFresh(r) =>
                 m[n][k].session \notin FreshIn(WithRequest(m, n, k, r))
<1> DEFINE x == WithRequest(m, n, k, r)
<1>1. \A a \in Conn, b \in Key : x[a][b] = IF a = n /\ b = k THEN r ELSE m[a][b]
  BY DEF WithRequest, Mapping
<1> HIDE DEF x
<1>2. ASSUME NEW s \in FreshIn(m) PROVE s \in FreshIn(x) \/ o[s] = <<n, k>>
  <2>1. PICK a \in Conn, b \in Key :
           StoredFor(s, a, b, o) /\ IsFresh(m[a][b]) /\ m[a][b].session = s
    BY FreshStored
  <2>2. CASE a = n /\ b = k
    BY <2>1, <2>2 DEF StoredFor
  <2>3. CASE ~(a = n /\ b = k)
    <3>1. x[a][b] = m[a][b]
      BY <1>1, <2>3
    <3> QED BY <2>1, <3>1, InFresh
  <2> QED BY <2>2, <2>3
<1>3. ASSUME NEW s \in FreshIn(x) PROVE s \in FreshIn(m) \/ (IsFresh(r) /\ s = r.session)
  <2>1. PICK a \in Conn, b \in Key : IsFresh(x[a][b]) /\ x[a][b].session = s
    BY InFresh
  <2>2. CASE a = n /\ b = k
    BY <1>1, <2>1, <2>2
  <2>3. CASE ~(a = n /\ b = k)
    <3>1. IsFresh(m[a][b]) /\ m[a][b].session = s
      BY <1>1, <2>1, <2>3
    <3>2. s \in FreshIn(m)
      BY <3>1, InFresh
    <3> QED BY <3>2
  <2> QED BY <2>2, <2>3
<1>4. IsFresh(r) => r.session \in FreshIn(x)
  BY <1>1, InFresh
<1>5. ASSUME IsFresh(m[n][k]), ~IsFresh(r), m[n][k].session \in FreshIn(x) PROVE FALSE
  <2> DEFINE s == m[n][k].session
  <2>1. PICK a \in Conn, b \in Key : IsFresh(x[a][b]) /\ x[a][b].session = s
    BY <1>5, InFresh
  <2>2. ~(a = n /\ b = k) /\ IsFresh(m[a][b]) /\ m[a][b].session = s
    BY <1>1, <1>5, <2>1
  <2>3. StoredFor(s, n, k, o) /\ StoredFor(s, a, b, o)
    BY <1>5, <2>2 DEF Good
  <2> QED BY <2>2, <2>3 DEF StoredFor
<1> QED BY <1>2, <1>3, <1>4, <1>5 DEF x

\* Clearing the entry of n, and clearing it for a new initial request.
LEMMA FreshCleared ==
    ASSUME NEW m \in Mapping, NEW o, NEW p, Good(m, o, p), NEW n \in Conn, NEW t \in Session
    PROVE  /\ \A s \in FreshIn(m) :
                 /\ s \in FreshIn([m EXCEPT ![n] = NoRequests]) \/ o[s][1] = n
                 /\ s \in FreshIn(WithLink(m, n, t)) \/ o[s][1] = n
           /\ FreshIn([m EXCEPT ![n] = NoRequests]) \subseteq FreshIn(m)
           /\ FreshIn(WithLink(m, n, t)) \subseteq FreshIn(m) \cup {t}
           /\ t \in FreshIn(WithLink(m, n, t))
<1> DEFINE x == [m EXCEPT ![n] = NoRequests]
           y == WithLink(m, n, t)
<1>1. /\ \A a \in Conn, b \in Key : a # n => x[a][b] = m[a][b] /\ y[a][b] = m[a][b]
      /\ \A b \in Key : ~IsFresh(x[n][b])
      /\ \A b \in Key \ {"initial"} : ~IsFresh(y[n][b])
      /\ "initial" \in Key /\ IsFresh(y[n]["initial"]) /\ y[n]["initial"].session = t
  BY DEF Mapping, WithLink, NoRequests, Missing, FreshOf, IsFresh, Key
<1> HIDE DEF x, y
<1>2. ASSUME NEW s \in FreshIn(m), o[s][1] # n PROVE s \in FreshIn(x) /\ s \in FreshIn(y)
  <2>1. PICK a \in Conn, b \in Key :
           StoredFor(s, a, b, o) /\ IsFresh(m[a][b]) /\ m[a][b].session = s
    BY FreshStored
  <2>2. a # n
    BY <1>2, <2>1 DEF StoredFor
  <2>3. x[a][b] = m[a][b] /\ y[a][b] = m[a][b]
    BY <1>1, <2>2
  <2> QED BY <2>1, <2>3, InFresh
<1>3. ASSUME NEW s \in FreshIn(x) PROVE s \in FreshIn(m)
  <2>1. PICK a \in Conn, b \in Key : IsFresh(x[a][b]) /\ x[a][b].session = s
    BY InFresh
  <2>2. a # n /\ x[a][b] = m[a][b]
    BY <1>1, <2>1
  <2> QED BY <2>1, <2>2, InFresh
<1>4. ASSUME NEW s \in FreshIn(y), s # t PROVE s \in FreshIn(m)
  <2>1. PICK a \in Conn, b \in Key : IsFresh(y[a][b]) /\ y[a][b].session = s
    BY InFresh
  <2>2. a # n /\ y[a][b] = m[a][b]
    BY <1>1, <1>4, <2>1
  <2> QED BY <2>1, <2>2, InFresh
<1>5. t \in FreshIn(y)
  BY <1>1, InFresh
<1> QED BY <1>2, <1>3, <1>4, <1>5 DEF x, y

-------------------------------------------------------------------------------
(* The invariant of the workload without overlap                           *)

\* One request, or one link, at a time.
OneAtATime ==
    /\ \A g, h \in Handler : at[g] # "none" /\ at[h] # "none" => g = h
    /\ \A h \in Handler, n \in Conn : at[h] # "none" => link[n] = "idle"
    /\ \A m, n \in Conn : link[m] # "idle" /\ link[n] # "idle" => m = n

\* So what was read is still what the file holds.
UpToDate ==
    /\ \A h \in Handler : held[h] # None => at[h] \in Reading /\ held[h] = file
    /\ \A n \in Conn : loaded[n] # None => link[n] = "loaded" /\ loaded[n] = file

\* An operation replaces sessions of its own connection; the new session it
\* may add comes from a login, and a session taken is not in it.
OwnConn(h, sessions) == \A s \in sessions : origin[s][1] = ConnOf[h[2]]

Consistent(w) ==
    /\ OwnConn(w.by, FreshIn(file) \ FreshIn(w.mapping))
    /\ OwnConn(w.by, FreshIn(w.mapping) \ FreshIn(file))
    /\ at[w.by] # "saving" => FreshIn(w.mapping) \subseteq FreshIn(file)
    /\ at[w.by] = "taking" => took[w.by[2]] \notin FreshIn(w.mapping)

\* A session is taken where it is, and gone from the file before it is returned.
TakenOut ==
    \A c \in Client :
        /\ at[P(c)] # "none" => client[c] # "got" /\ at[P(c)] \notin {"save", "saving"}
        /\ at[P(c)] = "consume" => /\ IsFresh(file[ConnOf[c]]["initial"])
                                   /\ file[ConnOf[c]]["initial"].session = took[c]
        /\ at[P(c)] = "taken" => took[c] \notin FreshIn(file)

DeskInv ==
    /\ OwnInv /\ OneAtATime /\ UpToDate /\ TakenOut
    /\ \A w \in Unwritten : Consistent(w)

\* Every operation is that of the one handler there is.
LEMMA OneOperation ==
    ASSUME TypeInv, OneAtATime
    PROVE  /\ \A w \in Unwritten : w \in Write /\ w.by \in Handler /\ at[w.by] \in Writing
           /\ \A v, w \in Unwritten : v = w
           /\ \A h \in Handler : at[h] \in Writing <=> \E w \in Unwritten : w.by = h
           /\ current # None => current \in Unwritten
<1>1. /\ \A i \in 1 .. Len(queue) : queue[i] \in Write /\ queue[i].by \in Handler
      /\ current # None => current \in Write /\ current.by \in Handler
      /\ DOMAIN queue = 1 .. Len(queue)
  BY QueueType DEF TypeInv, TypeOK
<1>2. \A w \in Unwritten : w \in Write /\ w.by \in Handler /\ at[w.by] \in Writing
  BY <1>1 DEF Unwritten, TypeInv, Queued, Awaited
<1>3. \A v, w \in Unwritten : v.by = w.by
  BY <1>2 DEF OneAtATime, Writing
<1>4. \A v, w \in Unwritten : v = w
  BY <1>1, <1>3 DEF Unwritten, TypeInv, Queued, Awaited
<1>5. \A h \in Handler : at[h] \in Writing => \E w \in Unwritten : w.by = h
  BY <1>1 DEF Unwritten, TypeInv, Waited
<1> QED BY <1>2, <1>4, <1>5 DEF Unwritten

\* What a step makes of the operations.
LEMMA UnwrittenChange ==
    ASSUME TypeInv, OneAtATime
    PROVE  /\ \A h \in Handler, m \in Mapping :
                 Enqueue(h, m) => Unwritten' = Unwritten \cup {[by |-> h, mapping |-> m]}
           /\ \A how : Down(how) => Unwritten' = {}
           /\ current # None /\ current' = None /\ UNCHANGED queue => Unwritten' = {}
           /\ NextWrite => Unwritten' = Unwritten
           /\ UNCHANGED <<queue, current>> => Unwritten' = Unwritten
<1>1. queue \in Seq(Write) /\ Len(queue) \in Nat /\ DOMAIN queue = 1 .. Len(queue)
  BY LenProperties DEF TypeInv, TypeOK
<1>2. ASSUME NEW h \in Handler, NEW m \in Mapping, Enqueue(h, m)
      PROVE  Unwritten' = Unwritten \cup {[by |-> h, mapping |-> m]}
  <2> DEFINE w == [by |-> h, mapping |-> m]
  <2>0. w \in Write /\ w # None
    BY NoneAssumption DEF Write
  <2>1. CASE isWriting
    <3>1. queue' = Append(queue, w) /\ current' = current
      BY <1>2, <2>1 DEF Enqueue
    <3>2. /\ queue' \in Seq(Write) /\ Len(queue') = Len(queue) + 1 /\ queue'[Len(queue) + 1] = w
          /\ \A i \in 1 .. Len(queue) : queue'[i] = queue[i]
      BY <1>1, <2>0, <3>1, AppendProperties
    <3>3. DOMAIN queue' = 1 .. (Len(queue) + 1)
      BY <1>1, <3>2, LenProperties
    <3>4. /\ \A i \in DOMAIN queue' : i \in DOMAIN queue \/ i = Len(queue) + 1
          /\ \A i \in DOMAIN queue : i \in DOMAIN queue'
          /\ Len(queue) + 1 \in DOMAIN queue'
      BY <1>1, <3>3
    <3> QED BY <1>1, <3>1, <3>2, <3>4 DEF Unwritten
  <2>2. CASE ~isWriting
    <3>1. queue = <<>> /\ current = None
      BY <2>2 DEF TypeInv, Served
    <3>2. Append(queue, w) = <<w>> /\ Head(<<w>>) = w /\ Tail(<<w>>) = <<>>
      BY <3>1
    <3>3. queue' = <<>> /\ current' = w
      BY <1>2, <2>2, <3>2 DEF Enqueue
    <3>4. DOMAIN queue = {} /\ DOMAIN queue' = {}
      BY <3>1, <3>3
    <3> QED BY <2>0, <3>1, <3>3, <3>4 DEF Unwritten
  <2> QED BY <2>1, <2>2
<1>3. ASSUME NEW how, Down(how) PROVE Unwritten' = {}
  <2>1. queue' = <<>> /\ current' = None /\ DOMAIN <<>> = {}
    BY <1>3 DEF Down
  <2> QED BY <2>1 DEF Unwritten
<1>4. ASSUME current # None, current' = None, UNCHANGED queue PROVE Unwritten' = {}
  <2>1. \A i \in DOMAIN queue : queue[i] = current
    BY <1>4, OneOperation DEF Unwritten
  <2>2. DOMAIN queue = {}
    BY <1>1, <1>4, <2>1 DEF TypeInv, Awaited
  <2> QED BY <1>4, <2>2 DEF Unwritten
<1>5. ASSUME NextWrite PROVE Unwritten' = Unwritten
  <2>1. CASE queue # <<>>
    <3>1. current = None /\ current' = Head(queue) /\ queue' = Tail(queue)
      BY <1>5, <2>1 DEF NextWrite
    <3>2. /\ queue' \in Seq(Write) /\ current' = queue[1] /\ current' \in Write
          /\ Len(queue') = Len(queue) - 1 /\ Len(queue) > 0
          /\ \A i \in 1 .. Len(queue') : i + 1 \in 1 .. Len(queue) /\ queue'[i] = queue[i + 1]
      BY <1>1, <2>1, <3>1, HeadTailProperties, ElementOfSeq
    <3>3. current' # None /\ 1 \in DOMAIN queue /\ DOMAIN queue' = 1 .. Len(queue')
      BY <1>1, <3>2, NoneAssumption, LenProperties
    <3>4. \A i \in DOMAIN queue : i = 1 \/ (i - 1 \in DOMAIN queue' /\ queue'[i - 1] = queue[i])
      <4>1. \A i \in 1 .. Len(queue) : i = 1 \/ (i - 1 \in 1 .. Len(queue') /\ (i - 1) + 1 = i)
        BY <1>1, <3>2
      <4> QED BY <1>1, <3>2, <3>3, <4>1
    <3>5. ASSUME NEW w PROVE w \in Unwritten' <=> w \in Unwritten
      <4>1. w \in Unwritten <=> \E i \in DOMAIN queue : w = queue[i]
        BY <3>1 DEF Unwritten
      <4>2. w \in Unwritten' <=> (w = queue[1] \/ \E i \in DOMAIN queue' : w = queue'[i])
        BY <3>2, <3>3 DEF Unwritten
      <4> QED BY <1>1, <3>2, <3>3, <3>4, <4>1, <4>2
    <3> QED BY <3>5
  <2>2. CASE queue = <<>>
    BY <1>5, <2>2 DEF NextWrite, Unwritten
  <2> QED BY <2>1, <2>2
<1>6. UNCHANGED <<queue, current>> => Unwritten' = Unwritten
  BY DEF Unwritten
<1> QED BY <1>2, <1>3, <1>4, <1>5, <1>6

-------------------------------------------------------------------------------
(* The steps: the invariant is kept and the desk takes a step or none      *)

DeskStep ==
    /\ OneAtATime' /\ UpToDate' /\ TakenOut'
    /\ \A w \in Unwritten' : Consistent(w)'
    /\ Desk!Next \/ UNCHANGED <<origin, Offer, Given>>

InHand == {"consume", "taking", "taken"}
Hand(c) == IF at[P(c)] \in InHand THEN {took[c]} ELSE {}

\* With one handler, what is on offer is in the file or in that handler's hands.
LEMMA OfferOf ==
    ASSUME TypeInv, OneAtATime, TakenOut
    PROVE  /\ \A c \in Client : at[P(c)] # "none" => Offer = FreshIn(file) \cup Hand(c)
           /\ (\A h \in Handler : at[h] = "none") => Offer = FreshIn(file) /\ Unwritten = {}
           /\ \A c \in Client : at[S(c)] # "none" =>
                 Offer = FreshIn(file) \cup UNION {FreshIn(w.mapping) : w \in Unwritten}
<1>1. /\ \A w \in Unwritten : w.by \in Handler /\ at[w.by] \in Writing
      /\ \A h \in Handler : h = P(h[2]) \/ h = S(h[2])
      /\ \A h \in Handler : h[2] \in Client
      /\ \A c \in Client : P(c) \in Handler /\ S(c) \in Handler
      /\ \A c, d \in Client : P(c) # S(d) /\ (P(c) = P(d) => c = d)
  BY OneOperation, Handlers DEF Handler, P, S
<1>2. ASSUME NEW c \in Client, at[P(c)] # "none" PROVE Offer = FreshIn(file) \cup Hand(c)
  <2>1. \A h \in Handler : at[h] # "none" => h = P(c)
    BY <1>1, <1>2 DEF OneAtATime
  <2>2. at[P(c)] # "saving"
    BY <1>2 DEF TakenOut
  <2>3. Saving = {}
    BY <1>1, <2>1, <2>2 DEF Saving, Writing
  <2>4. \A d \in Client : at[P(d)] \in InHand => d = c
    BY <1>1, <2>1 DEF InHand
  <2>5. Leaving = Hand(c)
    <3>1. CASE at[P(c)] \in InHand
      BY <2>4, <3>1 DEF Leaving, Hand, InHand
    <3>2. CASE at[P(c)] \notin InHand
      BY <2>4, <3>2 DEF Leaving, Hand, InHand
    <3> QED BY <3>1, <3>2
  <2>6. Arriving = {}
    BY <2>3 DEF Arriving
  <2> QED BY <2>5, <2>6 DEF Offer
<1>3. ASSUME \A h \in Handler : at[h] = "none" PROVE Offer = FreshIn(file) /\ Unwritten = {}
  <2>1. Unwritten = {} /\ Saving = {}
    BY <1>1, <1>3 DEF Saving, Writing
  <2>2. \A d \in Client : at[P(d)] \notin {"consume", "taking", "taken"}
    BY <1>1, <1>3
  <2>3. Arriving = {} /\ Leaving = {}
    BY <2>1, <2>2 DEF Arriving, Leaving
  <2> QED BY <2>1, <2>3 DEF Offer
<1>4. ASSUME NEW c \in Client, at[S(c)] # "none"
      PROVE  Offer = FreshIn(file) \cup UNION {FreshIn(w.mapping) : w \in Unwritten}
  <2>1. \A h \in Handler : at[h] # "none" => h = S(c)
    BY <1>1, <1>4 DEF OneAtATime
  <2>2. \A d \in Client : at[P(d)] \notin {"consume", "taking", "taken"}
    BY <1>1, <2>1
  <2>3. Saving = Unwritten
    BY <1>1, <2>1 DEF Saving, Writing, TypeInv, SaveOnly
  <2>4. Leaving = {}
    BY <2>2 DEF Leaving
  <2> QED BY <2>3, <2>4 DEF Offer, Arriving
<1> QED BY <1>2, <1>3, <1>4

\* Nobody is given anything, and what is no longer on offer is n's.
LEMMA Withdrawn ==
    ASSUME NEW n \in Conn, UNCHANGED origin, Given' = Given, Offer' \subseteq Offer,
           \A s \in Offer \ Offer' : origin[s][1] = n
    PROVE  Desk!Next
<1>1. Offer \ Offer' \in SUBSET Desk!Of(n) /\ Offer' = Offer \ (Offer \ Offer')
  BY DEF Desk!Of
<1> QED BY <1>1 DEF Desk!Next, Desk!Withdraw

\* Nobody who was given a session loses it, and nobody else gets one.
LEMMA SameGiven ==
    ASSUME \A c \in Client : /\ client'[c] = "got" <=> client[c] = "got"
                             /\ client[c] = "got" => took'[c] = took[c]
    PROVE  Given' = Given
BY DEF Given

\* A handler begins.
LEMMA Begun ==
    ASSUME TypeInv, Quiet, ~Overlap, NEW g \in Handler, NEW x, x \notin Writing, at' = [at EXCEPT ![g] = x],
           held' = [held EXCEPT ![g] = None],
           UNCHANGED <<file, queue, current, link, loaded>>, UpToDate
    PROVE  /\ OneAtATime /\ OneAtATime' /\ UpToDate' /\ Unwritten = {} /\ Unwritten' = {}
           /\ at'[g] = x /\ \A h \in Handler : at[h] = "none" /\ (h # g => at'[h] = "none")
<1>1. /\ \A h \in Handler : at[h] = "none" /\ at'[h] = (IF h = g THEN x ELSE "none")
      /\ \A h \in Handler : held'[h] = IF h = g THEN None ELSE held[h]
      /\ \A n \in Conn : link[n] = "idle"
  BY DEF Quiet, TypeInv, TypeOK
<1>2. OneAtATime /\ OneAtATime'
  BY <1>1 DEF OneAtATime
<1>3. UpToDate'
  BY <1>1 DEF UpToDate, Reading
<1>4. Unwritten = {} /\ Unwritten' = {}
  BY <1>1, <1>2, OneOperation, UnwrittenChange DEF Writing
<1> QED BY <1>1, <1>2, <1>3, <1>4

\* The handler goes on without a write, or pushes one.
LEMMA Moved ==
    ASSUME TypeInv, OneAtATime, UpToDate, NEW g \in Handler, at[g] # "none", at[g] \notin Writing,
           NEW x, at' = [at EXCEPT ![g] = x], held' = [held EXCEPT ![g] = None],
           UNCHANGED <<file, link, loaded>>,
           \/ UNCHANGED <<queue, current>>
           \/ \E m \in Mapping : Enqueue(g, m)
    PROVE  /\ OneAtATime' /\ UpToDate' /\ Unwritten = {}
           /\ at'[g] = x /\ \A h \in Handler : h # g => at[h] = "none" /\ at'[h] = "none"
           /\ UNCHANGED <<queue, current>> => Unwritten' = {}
           /\ \A m \in Mapping : Enqueue(g, m) => Unwritten' = {[by |-> g, mapping |-> m]}
<1>1. /\ \A h \in Handler : at'[h] = IF h = g THEN x ELSE at[h]
      /\ \A h \in Handler : held'[h] = IF h = g THEN None ELSE held[h]
      /\ \A h \in Handler : h # g => at[h] = "none"
  BY DEF TypeInv, TypeOK, OneAtATime
<1>2. OneAtATime'
  BY <1>1 DEF OneAtATime
<1>3. UpToDate'
  BY <1>1 DEF UpToDate, Reading
<1>4. Unwritten = {}
  BY <1>1, OneOperation DEF Writing
<1> QED BY <1>1, <1>2, <1>3, <1>4, UnwrittenChange

\* A poll: what is left to show when the handler has moved on.
LEMMA PollMoved ==
    ASSUME DeskInv, NEW c \in Client, at[P(c)] # "none", at[P(c)] \notin Writing,
           NEW x, x \notin {"save", "saving"},
           at' = [at EXCEPT ![P(c)] = x], held' = [held EXCEPT ![P(c)] = None],
           UNCHANGED <<file, link, loaded, origin>>,
           \/ UNCHANGED <<queue, current>> \/ \E m \in Mapping : Enqueue(P(c), m)
    PROVE  /\ OneAtATime' /\ UpToDate' /\ at'[P(c)] = x
           /\ UNCHANGED <<queue, current>> => Unwritten' = {}
           /\ \A m \in Mapping : Enqueue(P(c), m) => Unwritten' = {[by |-> P(c), mapping |-> m]}
           /\ Offer = FreshIn(file) \cup Hand(c)
           /\ Offer' = FreshIn(file) \cup (IF x \in InHand THEN {took'[c]} ELSE {})
           /\ \A d \in Client : d # c => at'[P(d)] = "none"
<1>1. /\ TypeInv /\ OneAtATime /\ UpToDate /\ TakenOut
      /\ \A d \in Client : P(d) \in Handler /\ S(d) \in Handler /\ (d # c => P(d) # P(c))
      /\ \A d, e \in Client : P(d) # S(e)
      /\ \A h \in Handler : \E d \in Client : h = P(d) \/ h = S(d)
  BY Handlers DEF DeskInv, OwnInv, P, S, Handler
<1>2. /\ OneAtATime' /\ UpToDate' /\ Unwritten = {}
      /\ at'[P(c)] = x /\ \A h \in Handler : h # P(c) => at[h] = "none" /\ at'[h] = "none"
      /\ UNCHANGED <<queue, current>> => Unwritten' = {}
      /\ \A m \in Mapping : Enqueue(P(c), m) => Unwritten' = {[by |-> P(c), mapping |-> m]}
  BY <1>1, Moved
<1>3. Offer = FreshIn(file) \cup Hand(c)
  BY <1>1, OfferOf
<1>4. Offer' = FreshIn(file) \cup (IF x \in InHand THEN {took'[c]} ELSE {})
  <2>1. \A w \in Unwritten' : w.by = P(c)
    BY <1>2
  <2>2. Saving' = {}
    BY <1>2, <2>1 DEF Saving
  <2>3. Leaving' = IF x \in InHand THEN {took'[c]} ELSE {}
    <3>0. \A d \in Client : at'[P(d)] = IF d = c THEN x ELSE "none"
      BY <1>1, <1>2
    <3>1. CASE x \in InHand
      BY <3>0, <3>1 DEF Leaving, InHand
    <3>2. CASE x \notin InHand
      BY <3>0, <3>2 DEF Leaving, InHand
    <3> QED BY <3>1, <3>2
  <2>4. Arriving' = {}
    BY <2>2 DEF Arriving
  <2> QED BY <2>3, <2>4 DEF Offer
<1> QED BY <1>1, <1>2, <1>3, <1>4

\* A step of a poll that gives nothing away.
LEMMA PollKeeps ==
    ASSUME DeskInv, NEW c \in Client, at[P(c)] # "none", at[P(c)] \notin Writing,
           NEW x, x \notin {"save", "saving", "taken"}, Goto(P(c), x),
           UNCHANGED <<file, link, loaded, origin>>,
           \A d \in Client : d # c => client'[d] = client[d] /\ took'[d] = took[d],
           client'[c] # "got",
           x = "consume" => /\ IsFresh(file[ConnOf[c]]["initial"])
                            /\ file[ConnOf[c]]["initial"].session = took'[c],
           x \in InHand => took'[c] \in FreshIn(file) \cup Hand(c),
           \/ UNCHANGED <<queue, current>>
           \/ \E m \in Mapping :
                 /\ Enqueue(P(c), m)
                 /\ \A s \in FreshIn(file) \ FreshIn(m) : origin[s][1] = ConnOf[c]
                 /\ FreshIn(m) \subseteq FreshIn(file)
                 /\ x = "taking" => took'[c] \notin FreshIn(m)
    PROVE  DeskStep
<1>0. /\ TakenOut /\ Taken /\ TypeInv /\ OneAtATime
      /\ P(c)[2] = c /\ ConnOf[c] \in Conn
  BY ConnAssumption DEF DeskInv, OwnInv, P
<1>1. /\ OneAtATime' /\ UpToDate' /\ at'[P(c)] = x
      /\ UNCHANGED <<queue, current>> => Unwritten' = {}
      /\ \A m \in Mapping : Enqueue(P(c), m) => Unwritten' = {[by |-> P(c), mapping |-> m]}
      /\ Offer = FreshIn(file) \cup Hand(c)
      /\ Offer' = FreshIn(file) \cup (IF x \in InHand THEN {took'[c]} ELSE {})
      /\ \A d \in Client : d # c => at'[P(d)] = "none"
  BY PollMoved DEF Goto
<1>2. TakenOut'
  <2> SUFFICES ASSUME NEW d \in Client
               PROVE  /\ at'[P(d)] # "none" => client'[d] # "got" /\ at'[P(d)] \notin {"save", "saving"}
                      /\ at'[P(d)] = "consume" => /\ IsFresh(file'[ConnOf[d]]["initial"])
                                                  /\ file'[ConnOf[d]]["initial"].session = took'[d]
                      /\ at'[P(d)] = "taken" => took'[d] \notin FreshIn(file')
    BY DEF TakenOut
  <2>1. CASE d = c
    BY <1>1, <2>1
  <2>2. CASE d # c
    BY <1>1, <2>2
  <2> QED BY <2>1, <2>2
<1>3. \A w \in Unwritten' : Consistent(w)'
  <2>1. CASE UNCHANGED <<queue, current>>
    BY <1>1, <2>1
  <2>2. CASE ~UNCHANGED <<queue, current>>
    <3>1. PICK m \in Mapping :
             /\ Enqueue(P(c), m)
             /\ \A s \in FreshIn(file) \ FreshIn(m) : origin[s][1] = ConnOf[c]
             /\ FreshIn(m) \subseteq FreshIn(file)
             /\ x = "taking" => took'[c] \notin FreshIn(m)
      BY <2>2
    <3>2. Unwritten' = {[by |-> P(c), mapping |-> m]}
      BY <1>1, <3>1
    <3>3. Consistent([by |-> P(c), mapping |-> m])'
      BY <1>0, <1>1, <3>1 DEF Consistent, OwnConn
    <3> QED BY <3>2, <3>3
  <2> QED BY <2>1, <2>2
<1>4. Desk!Next
  <2>1. Offer' \subseteq Offer
    BY <1>1
  <2>2. \A s \in Offer \ Offer' : origin[s][1] = ConnOf[c]
    <3>1. \A s \in Hand(c) : at[P(c)] \in InHand /\ s = took[c]
      BY DEF Hand
    <3>2. at[P(c)] \in InHand => origin[took[c]][1] = ConnOf[c]
      BY <1>0 DEF Taken, StoredFor, InHand
    <3> QED BY <1>1, <3>1, <3>2
  <2>3. Given' = Given
    <3>1. client[c] # "got"
      BY <1>0 DEF TakenOut
    <3> QED BY <3>1, SameGiven
  <2> QED BY <1>0, <2>1, <2>2, <2>3, Withdrawn
<1> QED BY <1>1, <1>2, <1>3, <1>4 DEF DeskStep

\* The steps of a poll, but for the one that ends the process.
LEMMA PollDesk ==
    ASSUME DeskInv, NEW c \in Client, Poll(c), ~MarkThrows(c)
    PROVE  DeskStep
<1> DEFINE m == held[P(c)]
           n == ConnOf[c]
<1>0. /\ TypeInv /\ OneAtATime /\ UpToDate /\ TakenOut /\ Taken
      /\ n \in Conn /\ c \in Key /\ "initial" \in Key /\ P(c) \in Handler
      /\ file \in Mapping /\ Good(file, origin, opened)
      /\ m # None => m = file
      /\ client \in [Client -> {"new"} \cup Asking \cup Ended] /\ took \in [Client -> Session]
      /\ at[P(c)] # "none" => client[c] # "got"
      /\ Missing \in Request /\ Pending \in Request
      /\ ~IsFresh(Missing) /\ ~IsFresh(Pending)
  BY Handlers, ConnAssumption, RequestTypes
     DEF DeskInv, OwnInv, GoodMappings, UpToDate, TypeInv, TypeOK, Key, TakenOut, IsFresh,
         Missing, Pending
<1> HIDE DEF m, n
<1> DEFINE Others == \A d \in Client : d # c => client'[d] = client[d] /\ took'[d] = took[d]
\* What is written for a request of n differs from the file there.
<1>1. ASSUME NEW k \in {"initial", c}, NEW r \in Request, ~IsFresh(r)
      PROVE  /\ WithRequest(file, n, k, r) \in Mapping
             /\ \A s \in FreshIn(file) \ FreshIn(WithRequest(file, n, k, r)) : origin[s][1] = n
             /\ FreshIn(WithRequest(file, n, k, r)) \subseteq FreshIn(file)
             /\ IsFresh(file[n][k]) =>
                   file[n][k].session \notin FreshIn(WithRequest(file, n, k, r))
  <2>1. k \in Key
    BY <1>0
  <2>2. WithRequest(file, n, k, r) \in Mapping
    BY <1>0, <2>1, MappingTypes
  <2>3. /\ \A s \in FreshIn(file) : s \in FreshIn(WithRequest(file, n, k, r)) \/ origin[s] = <<n, k>>
        /\ \A s \in FreshIn(WithRequest(file, n, k, r)) :
              s \in FreshIn(file) \/ (IsFresh(r) /\ s = r.session)
        /\ IsFresh(file[n][k]) /\ ~IsFresh(r) =>
              file[n][k].session \notin FreshIn(WithRequest(file, n, k, r))
    BY <1>0, <2>1, FreshRequest
  <2> QED BY <1>1, <2>2, <2>3
<1>2. CASE \E where \in {"fresh", "consume", "status", "url"} : NotLinked(c, where)
  <2>1. /\ at[P(c)] \in {"fresh", "consume", "status", "url"} /\ Goto(P(c), "none")
        /\ client' = [client EXCEPT ![c] = "failed"] /\ took' = [took EXCEPT ![c] = 0]
        /\ UNCHANGED <<file, queue, current, link, loaded, origin>>
    BY <1>2 DEF NotLinked, HasRead, Answer, store, links
  <2>2. Others /\ client'[c] # "got"
    BY <1>0, <2>1
  <2> QED BY <2>1, <2>2, PollKeeps DEF Writing, InHand
<1>3. CASE GetFreshEntry(c)
  <2>0. /\ at[P(c)] = "fresh" /\ m # None /\ m = file
        /\ client' = client /\ UNCHANGED <<file, link, loaded, origin>>
    BY <1>0, <1>3 DEF GetFreshEntry, HasRead, script, links, store, m
  <2>1. CASE /\ IsFresh(file[n]["initial"]) /\ Goto(P(c), "consume") /\ UNCHANGED store
             /\ took' = [took EXCEPT ![c] = file[n]["initial"].session]
    <3>1. file[n]["initial"].session \in FreshIn(file)
      BY <1>0, <2>1, InFresh
    <3>2. Others /\ client'[c] # "got" /\ took'[c] = file[n]["initial"].session
      BY <1>0, <2>0, <2>1
    <3> QED BY <2>0, <2>1, <3>1, <3>2, PollKeeps DEF Writing, InHand, store, n
  <2>2. CASE /\ IsFresh(file[n][c]) /\ Goto(P(c), "taking")
             /\ took' = [took EXCEPT ![c] = file[n][c].session]
             /\ Enqueue(P(c), WithRequest(file, n, c, Missing))
    <3>1. file[n][c].session \in FreshIn(file)
      BY <1>0, <2>2, InFresh
    <3>2. Others /\ client'[c] # "got" /\ took'[c] = file[n][c].session
      BY <1>0, <2>0, <2>2
    <3>3. /\ WithRequest(file, n, c, Missing) \in Mapping
          /\ \A s \in FreshIn(file) \ FreshIn(WithRequest(file, n, c, Missing)) : origin[s][1] = n
          /\ FreshIn(WithRequest(file, n, c, Missing)) \subseteq FreshIn(file)
          /\ took'[c] \notin FreshIn(WithRequest(file, n, c, Missing))
      BY <1>0, <1>1, <2>2, <3>2
    <3> QED BY <2>0, <2>2, <3>1, <3>2, <3>3, PollKeeps DEF Writing, InHand, n
  <2>3. CASE Goto(P(c), "status") /\ UNCHANGED <<store, took>>
    <3>1. Others /\ client'[c] # "got"
      BY <1>0, <2>0, <2>3
    <3> QED BY <2>0, <2>3, <3>1, PollKeeps DEF Writing, InHand, store
  <2> QED BY <1>3, <2>0, <2>1, <2>2, <2>3 DEF GetFreshEntry, m, n
<1>4. CASE MarkConsumed(c)
  <2> DEFINE r == ConsumedOf(file[n]["initial"])
  <2>1. /\ at[P(c)] = "consume" /\ m = file /\ Goto(P(c), "taking")
        /\ Enqueue(P(c), WithRequest(file, n, "initial", r))
        /\ UNCHANGED <<file, client, took, link, loaded, origin>>
    BY <1>0, <1>4 DEF MarkConsumed, HasRead, script, links, m, n
  <2>2. /\ IsFresh(file[n]["initial"]) /\ file[n]["initial"].session = took[c]
        /\ took[c] \in Hand(c)
    BY <1>0, <2>1 DEF TakenOut, Hand, InHand, n
  <2>3. r \in Request /\ ~IsFresh(r)
    <3>1. file[n]["initial"] \in Request
      BY <1>0, MappingTypes
    <3> QED BY <3>1, RequestTypes DEF ConsumedOf, IsFresh, Request
  <2>4. /\ WithRequest(file, n, "initial", r) \in Mapping
        /\ \A s \in FreshIn(file) \ FreshIn(WithRequest(file, n, "initial", r)) : origin[s][1] = n
        /\ FreshIn(WithRequest(file, n, "initial", r)) \subseteq FreshIn(file)
        /\ took[c] \notin FreshIn(WithRequest(file, n, "initial", r))
    BY <1>1, <2>2, <2>3
  <2>5. Others /\ client'[c] # "got"
    BY <1>0, <2>1
  <2> HIDE DEF r
  <2> QED BY <2>1, <2>2, <2>4, <2>5, PollKeeps DEF Writing, InHand, n
\* Steps that touch no session and write nothing.
<1>5. ASSUME at[P(c)] \in {"status", "url", "expired", "open"}, NEW x \in {"none", "url", "open", "cleanup", "mark"},
             Goto(P(c), x), UNCHANGED <<file, queue, current, took, link, loaded, origin>>,
             \/ client' = client
             \/ \E y \in {"waiting", "failed"} : client' = [client EXCEPT ![c] = y]
      PROVE  DeskStep
  <2>1. Others /\ client'[c] # "got"
    BY <1>0, <1>5
  <2> QED BY <1>5, <2>1, PollKeeps DEF Writing, InHand
<1>6. CASE HandOut(c)
  <2>1. /\ at[P(c)] = "taken" /\ Goto(P(c), "none") /\ client' = [client EXCEPT ![c] = "got"]
        /\ UNCHANGED <<file, queue, current, isWriting, took, link, loaded, origin>>
    BY <1>6 DEF HandOut, Answer, store, links
  <2>2. /\ OneAtATime' /\ UpToDate' /\ at'[P(c)] = "none" /\ Unwritten' = {}
        /\ Offer = FreshIn(file) \cup Hand(c) /\ Offer' = FreshIn(file)
        /\ \A d \in Client : d # c => at'[P(d)] = "none"
    BY <2>1, PollMoved DEF Writing, Goto, InHand
  <2>3. TakenOut'
    <3>1. \A d \in Client : at'[P(d)] = "none"
      BY <2>2
    <3> QED BY <3>1 DEF TakenOut
  <2>4. /\ took[c] \in Session /\ took[c] \notin FreshIn(file) /\ Hand(c) = {took[c]}
        /\ \E k \in {"initial", c} : origin[took[c]] = <<n, k>>
    BY <1>0, <2>1 DEF TakenOut, Taken, StoredFor, Hand, InHand, n
  <2>5. Given[c] = 0 /\ Given' = [Given EXCEPT ![c] = took[c]]
    BY <1>0, <2>1 DEF Given
  <2>6. Desk!Give(c)
    <3>1. took[c] \in Desk!Of(ConnOf[c])
      BY <2>2, <2>4 DEF Desk!Of, n
    <3>2. origin[took[c]][2] \in {"initial", c}
      BY <2>4
    <3>3. Offer' = Offer \ {took[c]}
      BY <2>2, <2>4
    <3> QED BY <2>1, <2>5, <3>1, <3>2, <3>3 DEF Desk!Give
  <2> QED BY <2>2, <2>3, <2>6 DEF DeskStep, Desk!Next
<1>7. CASE GetStatus(c)
  <2>1. /\ at[P(c)] = "status" /\ UNCHANGED <<file, queue, current, took, link, loaded, origin>>
        /\ \/ client' = [client EXCEPT ![c] = "waiting"] /\ Goto(P(c), "none")
           \/ Goto(P(c), "url") /\ client' = client
           \/ Goto(P(c), "none") /\ client' = client
    BY <1>7 DEF GetStatus, HasRead, Answer, store, links
  <2> QED BY <1>5, <2>1
<1>8. CASE GetRefreshUrl(c)
  <2>1. /\ at[P(c)] = "url" /\ UNCHANGED <<file, queue, current, took, link, loaded, origin, client>>
        /\ Goto(P(c), "cleanup") \/ Goto(P(c), "open")
    BY <1>8 DEF GetRefreshUrl, HasRead, script, store, links
  <2> QED BY <1>5, <2>1
<1>9. CASE CleanupExpiredConnection(c)
  <2>1. /\ at[P(c)] = "cleanup" /\ m = file /\ UNCHANGED <<file, took, client, link, loaded, origin>>
        /\ \/ Enqueue(P(c), [file EXCEPT ![n] = NoRequests]) /\ Goto(P(c), "cleaning")
           \/ Goto(P(c), "expired") /\ UNCHANGED <<queue, current>>
    BY <1>0, <1>9 DEF CleanupExpiredConnection, HasRead, script, store, links, m, n
  <2>2. /\ [file EXCEPT ![n] = NoRequests] \in Mapping
        /\ \A s \in FreshIn(file) \ FreshIn([file EXCEPT ![n] = NoRequests]) : origin[s][1] = n
        /\ FreshIn([file EXCEPT ![n] = NoRequests]) \subseteq FreshIn(file)
    <3>1. 0 \in Session
      BY DEF Session
    <3> QED BY <1>0, <3>1, FreshCleared, MappingTypes
  <2>3. Others /\ client'[c] # "got"
    BY <1>0, <2>1
  <2> QED BY <2>1, <2>2, <2>3, PollKeeps DEF Writing, InHand, n
<1>10. CASE AnswerExpired(c)
  <2>1. /\ at[P(c)] = "expired" /\ UNCHANGED <<file, queue, current, took, link, loaded, origin>>
        /\ client' = [client EXCEPT ![c] = "failed"] /\ Goto(P(c), "none")
    BY <1>10 DEF AnswerExpired, Answer, store, links
  <2> QED BY <1>5, <2>1
<1>11. CASE OpenPage(c)
  <2>1. /\ at[P(c)] = "open" /\ UNCHANGED <<file, queue, current, took, link, loaded, origin>>
        /\ client' = [client EXCEPT ![c] = "waiting"] /\ Goto(P(c), "mark")
    BY <1>11 DEF OpenPage, Answer, store, links
  <2> QED BY <1>5, <2>1
<1>12. CASE OpenFails(c)
  <2>1. /\ at[P(c)] = "open" /\ UNCHANGED <<file, queue, current, took, link, loaded, origin>>
        /\ client' = [client EXCEPT ![c] = "failed"] /\ Goto(P(c), "none")
    BY <1>12 DEF OpenFails, Answer, store, links
  <2> QED BY <1>5, <2>1
<1>13. CASE MarkPending(c)
  <2>1. /\ at[P(c)] = "mark" /\ m = file /\ UNCHANGED <<file, took, client, link, loaded, origin>>
        /\ Enqueue(P(c), WithRequest(file, n, c, Pending)) /\ Goto(P(c), "marking")
    BY <1>0, <1>13 DEF MarkPending, HasRead, script, store, links, m, n
  <2>2. /\ WithRequest(file, n, c, Pending) \in Mapping
        /\ \A s \in FreshIn(file) \ FreshIn(WithRequest(file, n, c, Pending)) : origin[s][1] = n
        /\ FreshIn(WithRequest(file, n, c, Pending)) \subseteq FreshIn(file)
    BY <1>0, <1>1
  <2>3. Others /\ client'[c] # "got"
    BY <1>0, <2>1
  <2> QED BY <2>1, <2>2, <2>3, PollKeeps DEF Writing, InHand, n
<1> QED BY <1>2, <1>3, <1>4, <1>6, <1>7, <1>8, <1>9, <1>10, <1>11, <1>12, <1>13 DEF Poll

\* A page calls back, and its handler stores the session.
LEMMA SaveDesk ==
    ASSUME DeskInv, ~Overlap, NEW c \in Client, Login(c) \/ SetSession(c)
    PROVE  DeskStep
<1> DEFINE m == held[S(c)]
           n == ConnOf[c]
           w == [by |-> S(c), mapping |-> WithRequest(file, n, c, FreshOf(NextSession))]
<1>0. /\ TypeInv /\ OneAtATime /\ UpToDate /\ TakenOut
      /\ n \in Conn /\ c \in Key /\ S(c) \in Handler /\ S(c)[2] = c
      /\ file \in Mapping /\ Good(file, origin, opened)
      /\ m # None => m = file
      /\ NextSession \in Session /\ FreshOf(NextSession) \in Request /\ IsFresh(FreshOf(NextSession))
      /\ FreshOf(NextSession).session = NextSession
      /\ \A d \in Client : P(d) \in Handler /\ P(d) # S(c)
  BY Handlers, ConnAssumption, RequestTypes, NextSessionType
     DEF DeskInv, OwnInv, GoodMappings, UpToDate, TypeInv, TypeOK, Key, P, S, IsFresh, FreshOf
<1> HIDE DEF m, n, w
<1>1. CASE Login(c)
  <2>1. /\ Quiet /\ at' = [at EXCEPT ![S(c)] = "save"] /\ held' = [held EXCEPT ![S(c)] = None]
        /\ UNCHANGED <<file, queue, current, took, client, link, loaded, origin>>
    BY <1>1 DEF Login, Goto, store, script, links
  <2>2. /\ OneAtATime /\ OneAtATime' /\ UpToDate' /\ Unwritten = {} /\ Unwritten' = {}
        /\ at'[S(c)] = "save" /\ \A h \in Handler : at[h] = "none" /\ (h # S(c) => at'[h] = "none")
    BY <1>0, <2>1, Begun DEF Writing
  <2>3. \A d \in Client : at'[P(d)] = "none"
    BY <1>0, <2>2
  <2>4. Offer = FreshIn(file) /\ Offer' = FreshIn(file)
    <3>1. Saving' = {} /\ Arriving' = {} /\ Leaving' = {}
      BY <2>2, <2>3 DEF Saving, Arriving, Leaving
    <3> QED BY <1>0, <2>1, <2>2, <3>1, OfferOf DEF Offer
  <2>5. Given' = Given
    BY <2>1 DEF Given
  <2>6. TakenOut'
    BY <2>3 DEF TakenOut
  <2> QED BY <2>1, <2>2, <2>4, <2>5, <2>6 DEF DeskStep
<1>2. CASE SetSession(c) /\ ~Linked(m, n)
  <2>1. /\ at[S(c)] = "save" /\ at' = [at EXCEPT ![S(c)] = "none"] /\ held' = [held EXCEPT ![S(c)] = None]
        /\ UNCHANGED <<file, queue, current, took, client, link, loaded, origin>>
    BY <1>2 DEF SetSession, HasRead, Goto, store, script, links, m, n
  <2>2. /\ OneAtATime' /\ UpToDate' /\ Unwritten = {} /\ at'[S(c)] = "none" /\ Unwritten' = {}
        /\ \A h \in Handler : h # S(c) => at[h] = "none" /\ at'[h] = "none"
    BY <1>0, <2>1, Moved DEF Writing
  <2>3. \A d \in Client : at'[P(d)] = "none"
    BY <1>0, <2>2
  <2>4. Offer = FreshIn(file) /\ Offer' = FreshIn(file)
    <3>1. Saving' = {} /\ Arriving' = {} /\ Leaving' = {}
      BY <2>2, <2>3 DEF Saving, Arriving, Leaving
    <3>2. Offer = FreshIn(file) \cup UNION {FreshIn(v.mapping) : v \in Unwritten}
      BY <1>0, <2>1, OfferOf
    <3> QED BY <2>1, <2>2, <3>1, <3>2 DEF Offer
  <2>5. Given' = Given
    BY <2>1 DEF Given
  <2>6. TakenOut'
    BY <2>3 DEF TakenOut
  <2> QED BY <2>1, <2>2, <2>4, <2>5, <2>6 DEF DeskStep
<1>3. CASE SetSession(c) /\ Linked(m, n)
  <2>1. /\ at[S(c)] = "save" /\ at' = [at EXCEPT ![S(c)] = "saving"] /\ held' = [held EXCEPT ![S(c)] = None]
        /\ Enqueue(S(c), WithRequest(file, n, c, FreshOf(NextSession)))
        /\ origin' = Append(origin, <<n, c>>)
        /\ UNCHANGED <<file, took, client, link, loaded>>
    BY <1>0, <1>3 DEF SetSession, HasRead, Goto, script, links, m, n
  <2>2. WithRequest(file, n, c, FreshOf(NextSession)) \in Mapping
    BY <1>0, MappingTypes
  <2>3. /\ OneAtATime' /\ UpToDate' /\ Unwritten = {} /\ at'[S(c)] = "saving" /\ Unwritten' = {w}
        /\ \A h \in Handler : h # S(c) => at[h] = "none" /\ at'[h] = "none"
    BY <1>0, <2>1, <2>2, Moved DEF Writing, w
  <2>4. \A d \in Client : at'[P(d)] = "none"
    BY <1>0, <2>3
  <2>5. /\ \A s \in FreshIn(file) : s \in FreshIn(w.mapping) \/ origin[s] = <<n, c>>
        /\ FreshIn(w.mapping) \subseteq FreshIn(file) \cup {NextSession}
        /\ NextSession \in FreshIn(w.mapping)
    BY <1>0, FreshRequest DEF w
  <2>6. Offer = FreshIn(file) /\ Offer' = FreshIn(file) \cup {NextSession}
    <3>1. Offer = FreshIn(file) \cup UNION {FreshIn(v.mapping) : v \in Unwritten}
      BY <1>0, <2>1, OfferOf
    <3>2. w.by = S(c)
      BY DEF w
    <3>3. Saving' = {w} /\ Leaving' = {}
      BY <2>3, <2>4, <3>2 DEF Saving, Leaving
    <3>4. Arriving' = FreshIn(w.mapping)
      BY <3>3 DEF Arriving
    <3> QED BY <2>1, <2>3, <2>5, <3>1, <3>3, <3>4 DEF Offer
  <2>7. Given' = Given
    BY <2>1 DEF Given
  <2>8. TakenOut'
    BY <2>4 DEF TakenOut
  <2>9. /\ \A s \in FreshIn(file) : s \in 1 .. Len(origin) /\ origin'[s] = origin[s]
        /\ origin'[NextSession] = <<n, c>>
    <3>1. origin \in Seq(Conn \X Key) /\ <<n, c>> \in Conn \X Key
      BY <1>0 DEF TypeInv, TypeOK
    <3>2. \A s \in FreshIn(file) : s \in 1 .. Len(origin)
      BY <1>0, FreshStored DEF StoredFor
    <3> QED BY <2>1, <3>1, <3>2, AppendProperties DEF NextSession
  <2>10. \A v \in Unwritten' : Consistent(v)'
    <3> SUFFICES ASSUME NEW v, v = w PROVE Consistent(v)'
      BY <2>3
    <3>1. v.by = S(c) /\ at'[v.by] = "saving"
      BY <2>3 DEF w
    <3>2. \A s \in FreshIn(file) \ FreshIn(v.mapping) : origin'[s][1] = n
      BY <2>5, <2>9
    <3>3. \A s \in FreshIn(v.mapping) \ FreshIn(file) : origin'[s][1] = n
      BY <2>5, <2>9
    <3>4. ConnOf[v.by[2]] = n
      BY <1>0, <3>1 DEF n
    <3> QED BY <2>1, <3>1, <3>2, <3>3, <3>4 DEF Consistent, OwnConn
  <2>11. Desk!Issue(n, c)
    <3>1. Offer' = (Offer \ {}) \cup {Len(origin) + 1} /\ {} \in SUBSET Desk!Of(n)
      BY <2>6 DEF NextSession
    <3> QED BY <2>1, <2>7, <3>1 DEF Desk!Issue
  <2> QED BY <1>0, <2>3, <2>8, <2>10, <2>11 DEF DeskStep, Desk!Next
<1> QED BY <1>1, <1>2, <1>3

\* A poll begins or is given up, and a file is read: nothing is left or taken.
LEMMA QuietDesk ==
    ASSUME DeskInv, ~Overlap,
           \/ \E c \in Client : Ask(c) \/ GiveUp(c)
           \/ \E h \in Handler : ReadMapping(h)
           \/ NextWrite
           \/ UNCHANGED vars
    PROVE  DeskStep
<1>0. /\ TypeInv /\ OneAtATime /\ UpToDate /\ TakenOut /\ \A w \in Unwritten : Consistent(w)
      /\ \A c \in Client : P(c) \in Handler /\ S(c) \in Handler
      /\ \A c, d \in Client : P(c) # S(d) /\ (P(c) = P(d) => c = d)
  BY Handlers DEF DeskInv, OwnInv, P, S
<1>1. ASSUME NEW c \in Client, Ask(c) PROVE DeskStep
  <2>1. /\ Quiet /\ at' = [at EXCEPT ![P(c)] = "fresh"] /\ held' = [held EXCEPT ![P(c)] = None]
        /\ client' = [client EXCEPT ![c] = "asking"] /\ client[c] \in {"new", "waiting"}
        /\ UNCHANGED <<file, queue, current, took, link, loaded, origin>>
    BY <1>1 DEF Ask, Answer, Goto, store, links
  <2>2. /\ OneAtATime' /\ UpToDate' /\ Unwritten = {} /\ Unwritten' = {}
        /\ at'[P(c)] = "fresh" /\ \A h \in Handler : at[h] = "none" /\ (h # P(c) => at'[h] = "none")
    BY <1>0, <2>1, Begun DEF Writing
  <2>3. \A d \in Client : at'[P(d)] = IF d = c THEN "fresh" ELSE "none"
    BY <1>0, <2>2
  <2>4. Offer = FreshIn(file) /\ Offer' = FreshIn(file)
    <3>1. Saving' = {} /\ Arriving' = {} /\ Leaving' = {}
      BY <2>2, <2>3 DEF Saving, Arriving, Leaving
    <3> QED BY <1>0, <2>1, <2>2, <3>1, OfferOf DEF Offer
  <2>5. /\ client \in [Client -> {"new"} \cup Asking \cup Ended]
        /\ client'[c] = "asking" /\ \A d \in Client : d # c => client'[d] = client[d]
    BY <1>0, <2>1 DEF TypeInv, TypeOK
  <2>6. Given' = Given
    BY <2>1, <2>5, SameGiven
  <2>7. TakenOut'
    BY <2>3, <2>5 DEF TakenOut
  <2> QED BY <2>1, <2>2, <2>4, <2>6, <2>7 DEF DeskStep
\* Nothing of what is on offer depends on the step.
<1>2. ASSUME \A c \in Client : (client'[c] = "got" <=> client[c] = "got"),
             UNCHANGED <<file, at, took, link, origin>>, Unwritten' = Unwritten
      PROVE  /\ OneAtATime' /\ TakenOut' /\ \A w \in Unwritten' : Consistent(w)'
             /\ UNCHANGED <<origin, Offer, Given>>
  <2>1. OneAtATime' /\ TakenOut'
    BY <1>0, <1>2 DEF OneAtATime, TakenOut
  <2>2. \A w \in Unwritten' : Consistent(w)'
    BY <1>0, <1>2 DEF Consistent, OwnConn
  <2>3. Saving' = Saving /\ Leaving' = Leaving
    BY <1>2 DEF Saving, Leaving
  <2>4. Offer' = Offer
    BY <1>2, <2>3 DEF Offer, Arriving
  <2>5. Given' = Given
    BY <1>2, SameGiven
  <2> QED BY <1>2, <2>1, <2>2, <2>4, <2>5
<1>3. ASSUME NEW c \in Client, GiveUp(c) PROVE DeskStep
  <2>1. /\ client[c] = "waiting" /\ client' = [client EXCEPT ![c] = "timedout"]
        /\ UNCHANGED <<file, queue, current, at, held, took, link, loaded, origin>>
    BY <1>3 DEF GiveUp, Answer, store, handler, links
  <2>2. \A d \in Client : client'[d] = "got" <=> client[d] = "got"
    BY <1>0, <2>1 DEF TypeInv, TypeOK
  <2>3. UpToDate' /\ Unwritten' = Unwritten
    BY <1>0, <2>1, UnwrittenChange DEF UpToDate
  <2> QED BY <1>2, <2>1, <2>2, <2>3 DEF DeskStep
<1>4. ASSUME NEW h \in Handler, ReadMapping(h) PROVE DeskStep
  <2>1. /\ at[h] \in Reading /\ held' = [held EXCEPT ![h] = file]
        /\ UNCHANGED <<file, queue, current, at, client, took, link, loaded, origin>>
    BY <1>4 DEF ReadMapping, store, script, links
  <2>2. UpToDate'
    <3>1. \A g \in Handler : held'[g] = IF g = h THEN file ELSE held[g]
      BY <1>0, <2>1 DEF TypeInv, TypeOK
    <3> QED BY <1>0, <2>1, <3>1 DEF UpToDate
  <2>3. Unwritten' = Unwritten
    BY <1>0, <2>1, UnwrittenChange
  <2> QED BY <1>2, <2>1, <2>2, <2>3 DEF DeskStep
<1>5. CASE NextWrite
  <2>1. UNCHANGED <<file, at, held, client, took, link, loaded, origin>>
    BY <1>5 DEF NextWrite, handler, script, links
  <2>2. UpToDate' /\ Unwritten' = Unwritten
    BY <1>0, <1>5, <2>1, UnwrittenChange DEF UpToDate
  <2> QED BY <1>2, <2>1, <2>2 DEF DeskStep
<1>6. CASE UNCHANGED vars
  <2>1. UNCHANGED <<file, queue, current, at, held, client, took, link, loaded, origin>>
    BY <1>6 DEF vars, store, handler, script, links
  <2>2. UpToDate' /\ Unwritten' = Unwritten
    BY <1>0, <2>1, UnwrittenChange DEF UpToDate
  <2> QED BY <1>2, <2>1, <2>2 DEF DeskStep
<1> QED BY <1>1, <1>3, <1>4, <1>5, <1>6

\* A write is done, or has failed and the process goes on.
LEMMA WriteDesk ==
    ASSUME DeskInv, current # None, NEW x, x \notin Reading \cup {"consume", "taking", "save", "saving"},
           at' = [at EXCEPT ![current.by] = x], current' = None,
           \A h \in Handler : held'[h] = held[h] \/ held'[h] = None,
           UNCHANGED <<queue, link, loaded, origin>>,
           file' = file \/ file' = current.mapping,
           \A c \in Client : /\ client'[c] = "got" <=> client[c] = "got"
                             /\ client[c] = "got" => took'[c] = took[c],
           x = "taken" => /\ at[current.by] = "taking" /\ file' = current.mapping
                          /\ took' = took
    PROVE  DeskStep
<1> DEFINE h == current.by
           n == ConnOf[h[2]]
<1>0. /\ TypeInv /\ OneAtATime /\ UpToDate /\ TakenOut /\ Taken
      /\ \A c \in Client : P(c) \in Handler /\ S(c) \in Handler
      /\ \A c, d \in Client : P(c) # S(d) /\ (P(c) = P(d) => c = d)
      /\ \A g \in Handler : g[2] \in Client /\ (g = P(g[2]) \/ g = S(g[2]))
      /\ \A c \in Client : P(c)[2] = c /\ S(c)[2] = c
  BY Handlers DEF DeskInv, OwnInv, P, S, Handler
<1>1. /\ h \in Handler /\ at[h] \in Writing /\ current \in Unwritten /\ Unwritten = {current}
      /\ Consistent(current)
  <2>1. current \in Unwritten /\ \A v, w \in Unwritten : v = w
    BY <1>0, OneOperation
  <2> QED BY <1>0, <2>1, OneOperation DEF DeskInv
<1>2. /\ \A g \in Handler : at'[g] = (IF g = h THEN x ELSE "none") /\ (g # h => at[g] = "none")
      /\ \A g \in Handler : held[g] = None
      /\ \A m \in Conn : link[m] = "idle" /\ loaded[m] = None
      /\ n \in Conn
  <2>1. \A g \in Handler : at'[g] = (IF g = h THEN x ELSE at[g]) /\ (g # h => at[g] = "none")
    BY <1>0, <1>1 DEF OneAtATime, Writing, TypeInv, TypeOK
  <2>2. \A g \in Handler : at[g] \notin Reading
    BY <1>1, <2>1 DEF Writing, Reading
  <2>3. \A m \in Conn : link[m] = "idle"
    BY <1>0, <1>1 DEF OneAtATime, Writing
  <2>4. n \in Conn
    BY <1>0, <1>1, ConnAssumption
  <2> QED BY <1>0, <2>1, <2>2, <2>3, <2>4 DEF UpToDate
<1>3. Unwritten' = {}
  BY <1>0, UnwrittenChange
<1>4. OneAtATime' /\ UpToDate'
  <2>1. OneAtATime'
    BY <1>2 DEF OneAtATime
  <2>2. UpToDate'
    BY <1>2 DEF UpToDate
  <2> QED BY <2>1, <2>2
<1>5. Given' = Given
  BY SameGiven
<1>6. Arriving' = {}
  BY <1>3 DEF Saving, Arriving
<1>7. CASE h = P(h[2])
  <2> DEFINE c == h[2]
  <2>1. /\ c \in Client /\ at[P(c)] # "none" /\ at[P(c)] # "saving"
        /\ \A d \in Client : at'[P(d)] = IF d = c THEN x ELSE "none"
    BY <1>0, <1>1, <1>2, <1>7 DEF TakenOut, Writing
  <2>2. /\ FreshIn(current.mapping) \subseteq FreshIn(file) /\ FreshIn(file') \subseteq FreshIn(file)
        /\ \A s \in FreshIn(file) \ FreshIn(file') : origin[s][1] = n
    BY <1>1, <1>7, <2>1 DEF Consistent, OwnConn
  <2>3. Offer = FreshIn(file) \cup Hand(c)
    BY <1>0, <2>1, OfferOf
  <2>4. x = "taken" => took'[c] = took[c] /\ Hand(c) = {took[c]} /\ took[c] \notin FreshIn(file')
    BY <1>1, <1>7, <2>1 DEF Consistent, Hand, InHand
  <2>5. Leaving' \subseteq Hand(c)
    BY <2>1, <2>4 DEF Leaving, Reading
  <2>6. Offer' \subseteq Offer /\ \A s \in Offer \ Offer' : origin[s][1] = n
    <3>1. Offer' = FreshIn(file') \cup Leaving'
      BY <1>6 DEF Offer
    <3>2. \A s \in Hand(c) : origin[s][1] = n
      BY <1>0, <1>1, <1>7, <2>1 DEF Taken, StoredFor, Hand, InHand
    <3> QED BY <2>2, <2>3, <2>5, <3>1, <3>2
  <2>7. Desk!Next
    BY <1>2, <1>5, <2>6, Withdrawn
  <2>8. TakenOut'
    <3> SUFFICES ASSUME NEW d \in Client
                 PROVE  /\ at'[P(d)] # "none" => client'[d] # "got" /\ at'[P(d)] \notin {"save", "saving"}
                        /\ at'[P(d)] # "consume"
                        /\ at'[P(d)] = "taken" => took'[d] \notin FreshIn(file')
      BY DEF TakenOut
    <3>1. CASE d = c
      BY <1>0, <2>1, <2>4, <3>1 DEF TakenOut
    <3>2. CASE d # c
      BY <2>1, <3>2
    <3> QED BY <3>1, <3>2
  <2> QED BY <1>3, <1>4, <2>7, <2>8 DEF DeskStep
<1>8. CASE h = S(h[2])
  <2> DEFINE c == h[2]
  <2>1. c \in Client /\ at[S(c)] = "saving" /\ x # "taken"
    BY <1>0, <1>1, <1>8 DEF TypeInv, SaveOnly, Writing
  <2>2. \A d \in Client : at'[P(d)] = "none"
    BY <1>0, <1>2, <1>8, <2>1
  <2>3. Offer = FreshIn(file) \cup FreshIn(current.mapping)
    <3>1. Offer = FreshIn(file) \cup UNION {FreshIn(w.mapping) : w \in Unwritten}
      BY <1>0, <2>1, OfferOf
    <3> QED BY <1>1, <3>1
  <2>4. Offer' = FreshIn(file')
    <3>1. Leaving' = {}
      BY <2>2 DEF Leaving
    <3> QED BY <1>6, <3>1 DEF Offer
  <2>5. \A s \in Offer \ Offer' : origin[s][1] = n
    BY <1>1, <2>3, <2>4 DEF Consistent, OwnConn
  <2>6. Desk!Next
    BY <1>2, <1>5, <2>3, <2>4, <2>5, Withdrawn
  <2>7. TakenOut'
    BY <2>2 DEF TakenOut
  <2> QED BY <1>3, <1>4, <2>6, <2>7 DEF DeskStep
<1> QED BY <1>0, <1>1, <1>7, <1>8

\* The process ends: what a handler held of one connection is gone.
LEMMA DownDesk ==
    ASSUME DeskInv, NEW how, Down(how), UNCHANGED <<file, loaded, origin>>,
           \/ UNCHANGED link
           \/ \E n \in Conn : link[n] = "saved" /\ link' = [link EXCEPT ![n] = "idle"]
    PROVE  DeskStep
<1>0. /\ TypeInv /\ OneAtATime /\ UpToDate /\ TakenOut /\ Taken
      /\ \A w \in Unwritten : Consistent(w) /\ w.by \in Handler /\ at[w.by] # "none"
      /\ \A h \in Handler : h[2] \in Client /\ ConnOf[h[2]] \in Conn
      /\ \A h \in Handler : h = P(h[2]) \/ h = S(h[2])
      /\ \A c \in Client : P(c) \in Handler
  BY Handlers, OneOperation, ConnAssumption DEF DeskInv, OwnInv, Writing, Handler, P, S
<1>1. /\ \A h \in Handler : at'[h] = "none" /\ held'[h] = None
      /\ Unwritten' = {}
  BY <1>0, UnwrittenChange DEF Down
<1>2. OneAtATime' /\ UpToDate' /\ TakenOut'
  <2>1. link \in [Conn -> {"idle", "loaded", "saved"}]
    BY <1>0 DEF TypeInv, TypeOK
  <2>2. \A n \in Conn : /\ link'[n] # "idle" => link[n] # "idle"
                        /\ link[n] = "loaded" => link'[n] = "loaded"
    BY <2>1
  <2>3. OneAtATime'
    BY <1>0, <1>1, <2>2 DEF OneAtATime
  <2>4. UpToDate'
    BY <1>0, <1>1, <2>2 DEF UpToDate
  <2>5. TakenOut'
    BY <1>0, <1>1 DEF TakenOut
  <2> QED BY <2>3, <2>4, <2>5
<1>3. Given' = Given
  <2>1. \A c \in Client : /\ client'[c] = "got" <=> client[c] = "got"
                          /\ client[c] = "got" => took'[c] = took[c]
    BY DEF Down, Asking
  <2> QED BY <2>1, SameGiven
<1>4. Offer' = FreshIn(file) /\ Offer' \subseteq Offer
  <2>1. Arriving' = {} /\ Leaving' = {}
    BY <1>0, <1>1 DEF Saving, Arriving, Leaving
  <2> QED BY <2>1 DEF Offer
<1>5. CASE \A h \in Handler : at[h] = "none"
  <2>1. Offer = FreshIn(file)
    BY <1>0, <1>5, OfferOf
  <2> QED BY <1>1, <1>2, <1>3, <1>4, <2>1 DEF DeskStep
<1>6. CASE \E h \in Handler : at[h] # "none"
  <2>1. PICK h \in Handler : at[h] # "none"
    BY <1>6
  <2>2. \A s \in Offer \ Offer' : origin[s][1] = ConnOf[h[2]]
    <3>1. CASE h = P(h[2])
      <4>1. Offer = FreshIn(file) \cup Hand(h[2])
        BY <1>0, <2>1, <3>1, OfferOf
      <4>2. \A s \in Hand(h[2]) : origin[s][1] = ConnOf[h[2]]
        BY <1>0 DEF Taken, StoredFor, Hand, InHand
      <4> QED BY <1>4, <4>1, <4>2
    <3>2. CASE h = S(h[2])
      <4>1. Offer = FreshIn(file) \cup UNION {FreshIn(w.mapping) : w \in Unwritten}
        BY <1>0, <2>1, <3>2, OfferOf
      <4>2. \A w \in Unwritten : w.by = h
        BY <1>0, <2>1 DEF OneAtATime
      <4>3. ASSUME NEW w \in Unwritten, NEW s \in FreshIn(w.mapping) \ FreshIn(file)
            PROVE  origin[s][1] = ConnOf[h[2]]
        BY <1>0, <4>2 DEF Consistent, OwnConn
      <4> QED BY <1>4, <4>1, <4>3
    <3> QED BY <1>0, <3>1, <3>2
  <2>3. Desk!Next
    BY <1>0, <1>3, <1>4, <2>2, Withdrawn
  <2> QED BY <1>1, <1>2, <2>3 DEF DeskStep
<1> QED BY <1>5, <1>6

\* A link loads the mapping, and stores its session.
LEMMA LinkDesk ==
    ASSUME DeskInv, ~Overlap, ~Unreadable, NEW n \in Conn,
           LinkLoad(n) \/ LinkSave(n) \/ LinkSaveFails(n)
    PROVE  DeskStep
<1>0. /\ TypeInv /\ OneAtATime /\ UpToDate /\ TakenOut
      /\ link \in [Conn -> {"idle", "loaded", "saved"}] /\ DOMAIN loaded = Conn
      /\ file \in Mapping /\ Good(file, origin, opened)
      /\ \A c \in Client : P(c) \in Handler
  BY Handlers DEF DeskInv, OwnInv, GoodMappings, TypeInv, TypeOK
<1>1. /\ \A h \in Handler : at[h] = "none" /\ held[h] = None /\ at' = at /\ held' = held
      /\ \A m \in Conn : m # n => link[m] = "idle" /\ loaded[m] = None
      /\ UNCHANGED <<queue, current, client, took>>
  <2>1. CASE LinkLoad(n)
    BY <1>0, <2>1 DEF LinkLoad, Quiet, UpToDate, Reading, handler, store, script
  <2>2. CASE LinkSave(n) \/ LinkSaveFails(n)
    <3>1. link[n] # "idle"
      BY <2>2 DEF LinkSave, LinkSaveFails
    <3>2. UNCHANGED <<at, held, queue, current, client, took>>
      BY <2>2 DEF LinkSave, LinkSaveFails, handler, store, script
    <3> QED BY <1>0, <3>1, <3>2 DEF OneAtATime, UpToDate, Reading
  <2> QED BY <2>1, <2>2
<1>2. Unwritten = {} /\ Unwritten' = {} /\ Offer = FreshIn(file) /\ Given' = Given
  BY <1>0, <1>1, OfferOf, UnwrittenChange DEF Given
<1>3. at' = at /\ held' = held
  BY DEF LinkLoad, LinkSave, LinkSaveFails, handler
<1>4. Offer' = FreshIn(file')
  <2>1. Arriving' = {} /\ Leaving' = {}
    BY <1>0, <1>1, <1>2, <1>3 DEF Saving, Arriving, Leaving
  <2> QED BY <2>1 DEF Offer
<1>5. TakenOut'
  BY <1>0, <1>1, <1>3 DEF TakenOut
<1>6. /\ \A m \in Conn : m # n => link'[m] = link[m] /\ loaded'[m] = loaded[m]
      /\ loaded'[n] # None => link'[n] = "loaded" /\ loaded'[n] = file'
  BY <1>0, <1>1 DEF LinkLoad, LinkSave, LinkSaveFails, store
<1>7. OneAtATime' /\ UpToDate'
  <2>1. OneAtATime'
    BY <1>1, <1>3, <1>6 DEF OneAtATime
  <2>2. UpToDate'
    BY <1>1, <1>3, <1>6 DEF UpToDate
  <2> QED BY <2>1, <2>2
<1>8. CASE LinkLoad(n) \/ LinkSaveFails(n)
  <2>1. UNCHANGED <<file, origin>>
    BY <1>8 DEF LinkLoad, LinkSaveFails, store
  <2> QED BY <1>2, <1>4, <1>5, <1>7, <2>1 DEF DeskStep
<1>9. CASE LinkSave(n)
  <2>1. loaded[n] = file
    BY <1>0, <1>9 DEF LinkSave, TypeInv, Loaded, UpToDate
  <2>2. /\ file' = WithLink(file, n, NextSession) /\ origin' = Append(origin, <<n, "initial">>)
        /\ NextSession \in Session
    BY <1>0, <1>9, <2>1, NextSessionType DEF LinkSave, TypeInv
  <2>3. /\ \A s \in FreshIn(file) : s \in FreshIn(file') \/ origin[s][1] = n
        /\ FreshIn(file') \subseteq FreshIn(file) \cup {NextSession}
        /\ NextSession \in FreshIn(file')
    <3>1. ASSUME NEW t \in Session
          PROVE  /\ \A s \in FreshIn(file) : s \in FreshIn(WithLink(file, n, t)) \/ origin[s][1] = n
                 /\ FreshIn(WithLink(file, n, t)) \subseteq FreshIn(file) \cup {t}
                 /\ t \in FreshIn(WithLink(file, n, t))
      <4>1. file \in Mapping /\ Good(file, origin, opened)
        BY <1>0
      <4> QED BY ONLY <4>1, n \in Conn, t \in Session, FreshCleared, Zenon
    <3>2. file' = WithLink(file, n, NextSession)
      BY <2>2
    <3> QED BY <2>2, <3>1, <3>2
  <2>4. NextSession \notin FreshIn(file)
    <3>1. \A s \in FreshIn(file) : s \in 1 .. Len(origin)
      BY <1>0, FreshStored DEF StoredFor
    <3>2. Len(origin) \in Nat
      BY <1>0, LenProperties DEF TypeInv, TypeOK
    <3> QED BY <3>1, <3>2 DEF NextSession
  <2>5. Desk!Issue(n, "initial")
    <3> DEFINE gone == FreshIn(file) \ FreshIn(file')
    <3>1. gone \in SUBSET Desk!Of(n)
      BY <1>2, <2>3 DEF Desk!Of
    <3>2. Offer' = (Offer \ gone) \cup {Len(origin) + 1}
      BY <1>2, <1>4, <2>3 DEF NextSession
    <3> HIDE DEF gone
    <3> QED BY <1>2, <2>2, <3>1, <3>2 DEF Desk!Issue
  <2> QED BY <1>2, <1>5, <1>7, <2>5 DEF DeskStep, Desk!Next, Key
<1> QED BY <1>8, <1>9

LEMMA DeskInit == Init => DeskInv /\ Desk!Init
<1> SUFFICES ASSUME Init PROVE DeskInv /\ Desk!Init
  OBVIOUS
<1>1. /\ OwnInv /\ \A h \in Handler : at[h] = "none" /\ held[h] = None
      /\ \A n \in Conn : link[n] = "idle" /\ loaded[n] = None
      /\ \A c \in Client : P(c) \in Handler /\ client[c] = "new"
  BY OwnInit, Handlers DEF Init
<1>2. OneAtATime /\ UpToDate /\ TakenOut
  BY <1>1 DEF OneAtATime, UpToDate, TakenOut
<1>3. Unwritten = {} /\ Offer = FreshIn(file)
  BY <1>1, <1>2, OfferOf DEF OwnInv
<1>4. FreshIn(file) = {}
  <2>1. ASSUME NEW s \in FreshIn(file) PROVE FALSE
    <3>1. PICK n \in Conn, k \in Key : IsFresh(file[n][k])
      BY InFresh
    <3> QED BY <3>1 DEF Init, Empty, NoRequests, Missing, IsFresh
  <2> QED BY <2>1
<1>5. Given = [c \in Client |-> 0]
  BY <1>1 DEF Given
<1>6. origin = <<>>
  BY DEF Init
<1> QED BY <1>1, <1>2, <1>3, <1>4, <1>5, <1>6 DEF DeskInv, Desk!Init

LEMMA DeskNext ==
    ASSUME ~Overlap, ~Unreadable, DeskInv, [Next]_vars
    PROVE  DeskInv' /\ (Desk!Next \/ UNCHANGED <<origin, Offer, Given>>)
<1>1. OwnInv'
  BY OwnStep DEF DeskInv
<1>2. TypeInv /\ OneAtATime
  BY DEF DeskInv, OwnInv
<1>3. DeskStep
  <2>1. ASSUME NEW c \in Client, Ask(c) \/ GiveUp(c) PROVE DeskStep
    BY <2>1, QuietDesk
  <2>2. ASSUME NEW c \in Client, Poll(c) PROVE DeskStep
    <3>1. CASE MarkThrows(c)
      BY <3>1, DownDesk DEF MarkThrows, links
    <3> QED BY <2>2, <3>1, PollDesk
  <2>3. ASSUME NEW c \in Client, Login(c) \/ SetSession(c) PROVE DeskStep
    BY <2>3, SaveDesk
  <2>4. ASSUME NEW h \in Handler, ReadMapping(h) PROVE DeskStep
    BY <2>4, QuietDesk
  <2>5. CASE WriteMapping
    <3>1. /\ current # None /\ current.by \in Handler /\ at[current.by] \in Writing
          /\ at \in [Handler -> Reading \cup Writing \cup Between]
      BY <1>2, <2>5, OneOperation DEF WriteMapping, Unwritten, TypeInv, TypeOK
    <3> DEFINE x == AfterWrite[at[current.by]]
    <3>2. /\ x \in {"taken", "expired", "none"} /\ (x = "taken" => at[current.by] = "taking")
          /\ at' = [at EXCEPT ![current.by] = x]
      BY <2>5, <3>1 DEF WriteMapping, AfterWrite, Writing
    <3>3. x \notin Reading \cup {"consume", "taking", "save", "saving"}
      BY <3>2 DEF Reading
    <3>4. /\ current' = None /\ file' = current.mapping
          /\ UNCHANGED <<held, took, client, queue, link, loaded, origin>>
      BY <2>5 DEF WriteMapping, links, script
    <3> HIDE DEF x
    <3> QED BY <3>1, <3>2, <3>3, <3>4, WriteDesk
  <2>6. CASE WriteFails
    <3>1. /\ current # None /\ current.by \in Handler /\ at[current.by] \in Writing
          /\ client \in [Client -> {"new"} \cup Asking \cup Ended] /\ took \in [Client -> Session]
          /\ current.by = P(current.by[2]) \/ current.by = S(current.by[2])
          /\ current.by[2] \in Client
      BY <1>2, <2>6, OneOperation DEF WriteFails, Unwritten, TypeInv, TypeOK, Handler, P, S
    <3>2. UNCHANGED <<file, link, loaded, origin>>
      BY <2>6 DEF WriteFails, links
    <3>3. CASE at[current.by] = "taking" /\ Goto(current.by, "none") /\ current' = None
               /\ client' = [client EXCEPT ![current.by[2]] = "failed"]
               /\ took' = [took EXCEPT ![current.by[2]] = 0] /\ UNCHANGED queue
      <4>1. current.by = P(current.by[2])
        <5>1. current.by # S(current.by[2])
          BY <1>2, <3>1, <3>3 DEF TypeInv, SaveOnly
        <5> QED BY <3>1, <5>1
      <4>2. client[current.by[2]] # "got"
        BY <3>1, <3>3, <4>1 DEF DeskInv, TakenOut
      <4>3. \A c \in Client : /\ client'[c] = "got" <=> client[c] = "got"
                              /\ client[c] = "got" => took'[c] = took[c]
        BY <3>1, <3>3, <4>2
      <4>4. \A h \in Handler : held'[h] = held[h] \/ held'[h] = None
        BY <1>2, <3>3 DEF Goto, TypeInv, TypeOK
      <4> QED BY <3>1, <3>2, <3>3, <4>3, <4>4, WriteDesk DEF Goto, Reading
    <3>4. CASE /\ \E x \in {"expired", "none"} : Goto(current.by, x)
               /\ current' = None /\ UNCHANGED <<took, client, queue>>
      <4>1. \A h \in Handler : held'[h] = held[h] \/ held'[h] = None
        BY <1>2, <3>4 DEF Goto, TypeInv, TypeOK
      <4> QED BY <3>1, <3>2, <3>4, <4>1, WriteDesk DEF Goto, Reading
    <3>5. CASE Down("crashed")
      BY <3>2, <3>5, DownDesk
    <3> QED BY <2>6, <3>3, <3>4, <3>5 DEF WriteFails, Answer
  <2>7. CASE NextWrite
    BY <2>7, QuietDesk
  <2>8. ASSUME NEW n \in Conn, LinkLoad(n) \/ LinkSave(n) \/ LinkSaveFails(n) PROVE DeskStep
    BY <2>8, LinkDesk
  <2>9. ASSUME NEW n \in Conn, StartLocalServer(n) PROVE DeskStep
    BY <2>9, DownDesk DEF StartLocalServer
  <2>10. CASE Exit
    BY <2>10, DownDesk DEF Exit, links
  <2>11. CASE UNCHANGED vars
    BY <2>11, QuietDesk
  <2> QED BY <2>1, <2>2, <2>3, <2>4, <2>5, <2>6, <2>7, <2>8, <2>9, <2>10, <2>11 DEF Next
<1> QED BY <1>1, <1>3 DEF DeskInv, DeskStep

\* Without overlap, and with a file that can be read, the store implements the
\* desk: sessions on offer are given once, to whom they were stored for, and
\* nothing puts a session back (sessionStore.ts, getFreshEntry, setSession).
THEOREM StoreImplementsDesk ==
    ASSUME ~Overlap, ~Unreadable
    PROVE  Spec => ImplementsDesk
<1>1. Init => DeskInv /\ Desk!Init
  BY DeskInit
<1>2. DeskInv /\ [Next]_vars => DeskInv' /\ [Desk!Next]_<<origin, Offer, Given>>
  BY DeskNext
<1> QED BY <1>1, <1>2, PTL DEF Spec, ImplementsDesk, Desk!Spec

-------------------------------------------------------------------------------
(* What the desk guarantees                                                *)

\* What is on offer and what was given are different, and nothing was given twice.
DeskSafe ==
    /\ Offer \subseteq 1 .. Len(origin)
    /\ \A c \in Client : Given[c] # 0 => Given[c] \in (1 .. Len(origin)) \ Offer
    /\ \A c, d \in Client : Given[c] # 0 /\ Given[c] = Given[d] => c = d

LEMMA DeskSafeStep ==
    ASSUME origin \in Seq(Conn \X Key), DOMAIN Given = Client, DeskSafe,
           Desk!Next \/ UNCHANGED <<origin, Offer, Given>>
    PROVE  DeskSafe'
<1>0. Len(origin) \in Nat
  BY LenProperties
<1>1. ASSUME NEW n \in Conn, Desk!Withdraw(n) PROVE DeskSafe'
  BY <1>1 DEF Desk!Withdraw, DeskSafe
<1>2. ASSUME NEW n \in Conn, NEW k \in Key, Desk!Issue(n, k) PROVE DeskSafe'
  <2>1. Len(origin') = Len(origin) + 1
    BY <1>2, AppendProperties DEF Desk!Issue
  <2>2. Offer' \subseteq Offer \cup {Len(origin) + 1} /\ Given' = Given
    BY <1>2 DEF Desk!Issue
  <2> QED BY <1>0, <2>1, <2>2 DEF DeskSafe
<1>3. ASSUME NEW c \in Client, Desk!Give(c) PROVE DeskSafe'
  <2>1. PICK s \in Offer : Given' = [Given EXCEPT ![c] = s] /\ Offer' = Offer \ {s}
    BY <1>3 DEF Desk!Give, Desk!Of
  <2>2. UNCHANGED origin /\ \A d \in Client : Given'[d] = IF d = c THEN s ELSE Given[d]
    BY <1>3, <2>1 DEF Desk!Give
  <2> QED BY <2>1, <2>2 DEF DeskSafe
<1> QED BY <1>1, <1>2, <1>3 DEF Desk!Next, DeskSafe

\* Without overlap, no session is given to two clients (sessionStore.ts,
\* getFreshEntry): the desk gives each away at most once.
THEOREM SessionsAreGivenOnce ==
    ASSUME ~Overlap, ~Unreadable
    PROVE  Spec => []TokenOnce
<1> DEFINE Inv == DeskInv /\ DeskSafe
<1>1. Init => Inv
  <2>1. Desk!Init => DeskSafe
    BY DEF Desk!Init, DeskSafe
  <2> QED BY <2>1, DeskInit
<1>2. Inv /\ [Next]_vars => Inv'
  <2>1. DeskInv => origin \in Seq(Conn \X Key) /\ DOMAIN Given = Client
    BY DEF DeskInv, OwnInv, TypeInv, TypeOK, Given
  <2> QED BY <2>1, DeskNext, DeskSafeStep
<1>3. Inv => TokenOnce
  <2> SUFFICES ASSUME Inv, NEW c \in Client, NEW d \in Client,
                      client[c] = "got", client[d] = "got", took[c] = took[d]
               PROVE  c = d
    BY DEF TokenOnce
  <2>1. took[c] # 0
    BY DEF DeskInv, OwnInv, Taken
  <2> QED BY <2>1 DEF DeskSafe, Given
<1> QED BY <1>1, <1>2, <1>3, PTL DEF Spec

-------------------------------------------------------------------------------
(* Nothing is lost                                                         *)

\* A poll that has found nothing: nobody can have stored a session for it since.
Unanswered == {"status", "url", "cleanup", "open", "mark", "marking", "cleaning"}

NothingFresh ==
    \A c \in Client :
        /\ at[P(c)] \in Unanswered =>
              ~IsFresh(file[ConnOf[c]]["initial"]) /\ ~IsFresh(file[ConnOf[c]][c])
        /\ at[P(c)] \in {"url", "open"} => file[ConnOf[c]][c].status = "not-started"

\* There is one page for a request at most, and the request is pending until the
\* page's login is stored; a new link takes the page along.
OnePage ==
    \A c \in Client :
        /\ pages[c] <= 1 /\ (at[S(c)] # "none" => pages[c] = 0)
        /\ pages[c] > 0 \/ at[S(c)] # "none" =>
              \/ file[ConnOf[c]][c].status = "pending"
              \/ at[P(c)] \in {"mark", "marking"}
              \/ link[ConnOf[c]] = "saved"

\* Nobody logs in to a connection without a page, so it has no session but the link's.
NoLogin ==
    \A c \in Client :
        /\ \A n \in Smus : ~IsFresh(file[n][c])
        /\ ConnOf[c] \in Smus => /\ pages[c] = 0 /\ at[S(c)] = "none"
                                 /\ at[P(c)] \notin {"open", "mark", "marking"}
        /\ at[P(c)] \in {"cleanup", "cleaning"} => ConnOf[c] \in Smus

\* What an operation replaces, of the file as it is now.
Replaces(w) ==
    /\ at[w.by] = "taking" =>
          \E k \in {"initial", w.by[2]}, r \in Request :
              /\ IsFresh(file[ConnOf[w.by[2]]][k]) /\ ~IsFresh(r)
              /\ file[ConnOf[w.by[2]]][k].session = took[w.by[2]]
              /\ w.mapping = WithRequest(file, ConnOf[w.by[2]], k, r)
    /\ at[w.by] = "marking" => w.mapping = WithRequest(file, ConnOf[w.by[2]], w.by[2], Pending)
    /\ at[w.by] = "saving" =>
          \E s \in Session : w.mapping = WithRequest(file, ConnOf[w.by[2]], w.by[2], FreshOf(s))
    /\ at[w.by] = "cleaning" => w.mapping = [file EXCEPT ![ConnOf[w.by[2]]] = NoRequests]

KeepInv == NothingFresh /\ OnePage /\ NoLogin /\ \A w \in Unwritten : Replaces(w)

LEMMA OneHandler ==
    ASSUME DeskInv, NEW g \in Handler, at[g] # "none"
    PROVE  /\ \A h \in Handler : h # g => at[h] = "none"
           /\ \A n \in Conn : link[n] = "idle"
BY DEF DeskInv, OneAtATime

LEMMA HandlerNames ==
    /\ \A c \in Client : P(c) \in Handler /\ S(c) \in Handler /\ P(c)[2] = c /\ S(c)[2] = c
    /\ \A c, d \in Client : P(c) # S(d) /\ (P(c) = P(d) => c = d) /\ (S(c) = S(d) => c = d)
    /\ \A h \in Handler : h[2] \in Client /\ (h = P(h[2]) \/ h = S(h[2]))
    /\ \A c \in Client : ConnOf[c] \in Conn /\ c \in Key /\ c # "initial"
    /\ "initial" \in Key
BY Handlers, ConnAssumption, KeyAssumption DEF P, S, Handler, Key

\* The poll of c moves while the file stays.
LEMMA KeepPoll ==
    ASSUME KeepInv, NEW c \in Client, NEW x, at'[P(c)] = x,
           \A h \in Handler : h # P(c) => at[h] = "none" /\ at'[h] = "none",
           \A n \in Conn : link[n] = "idle",
           UNCHANGED file,
           \A d \in Client : d # c => pages'[d] = pages[d],
           pages'[c] <= 1, ConnOf[c] \in Smus => pages'[c] = 0,
           pages'[c] > 0 => x \in {"mark", "marking"} \/ file[ConnOf[c]][c].status = "pending",
           x \in Unanswered => ~IsFresh(file[ConnOf[c]]["initial"]) /\ ~IsFresh(file[ConnOf[c]][c]),
           x \in {"url", "open"} => file[ConnOf[c]][c].status = "not-started",
           x \in {"open", "mark", "marking"} => ConnOf[c] \notin Smus,
           x \in {"cleanup", "cleaning"} => ConnOf[c] \in Smus,
           \A w \in Unwritten' : Replaces(w)'
    PROVE  KeepInv'
<1> USE HandlerNames
<1>1. \A d \in Client : /\ at'[P(d)] = (IF d = c THEN x ELSE "none") /\ at'[S(d)] = "none"
                        /\ d # c => at[P(d)] = "none"
                        /\ at[S(d)] = "none" /\ link[ConnOf[d]] # "saved"
  OBVIOUS
<1>2. NothingFresh'
  BY <1>1 DEF NothingFresh, Unanswered
<1>3. OnePage'
  <2> SUFFICES ASSUME NEW d \in Client
               PROVE  /\ pages'[d] <= 1
                      /\ pages'[d] > 0 => \/ file'[ConnOf[d]][d].status = "pending"
                                          \/ at'[P(d)] \in {"mark", "marking"}
    BY <1>1 DEF OnePage
  <2>1. CASE d = c
    BY <1>1, <2>1
  <2>2. CASE d # c
    BY <1>1, <2>2 DEF KeepInv, OnePage
  <2> QED BY <2>1, <2>2
<1>4. NoLogin'
  BY <1>1 DEF KeepInv, NoLogin
<1> QED BY <1>2, <1>3, <1>4 DEF KeepInv

\* The steps of a poll, but for the one that ends the process.
LEMMA PollKeepsAll ==
    ASSUME DeskInv, KeepInv, NEW c \in Client,
           (Ask(c) /\ ~Overlap) \/ (Poll(c) /\ ~MarkThrows(c))
    PROVE  KeepInv'
<1> USE HandlerNames
<1> DEFINE m == held[P(c)]
           n == ConnOf[c]
<1>0. /\ TypeInv /\ OneAtATime /\ UpToDate /\ TakenOut
      /\ file \in Mapping /\ (m # None => m = file) /\ pages \in [Client -> Nat]
      /\ DOMAIN at = Handler
      /\ Missing \in Request /\ Pending \in Request /\ ~IsFresh(Missing) /\ ~IsFresh(Pending)
  BY RequestTypes DEF DeskInv, OwnInv, UpToDate, TypeInv, TypeOK, IsFresh, Missing, Pending
<1> HIDE DEF m, n
\* All but the first step of a poll, with what it writes.
<1>1. ASSUME at[P(c)] # "none", at[P(c)] \notin Writing, NEW x, Goto(P(c), x),
             UNCHANGED <<file, link, loaded>>,
             \A d \in Client : d # c => pages'[d] = pages[d],
             pages' = pages \/ (pages'[c] = pages[c] + 1 /\ x = "mark" /\ at[P(c)] = "open"),
             x \in Unanswered => ~IsFresh(file[n]["initial"]) /\ ~IsFresh(file[n][c]),
             x \in {"url", "open"} => file[n][c].status = "not-started",
             x \in {"open", "mark", "marking"} => n \notin Smus,
             x \in {"cleanup", "cleaning"} => n \in Smus,
             at[P(c)] = "mark" => x = "marking",
             \/ UNCHANGED <<queue, current>>
             \/ \E v \in Mapping : Enqueue(P(c), v) /\ Replaces([by |-> P(c), mapping |-> v])'
      PROVE  KeepInv'
  <2>1. /\ at'[P(c)] = x /\ \A h \in Handler : h # P(c) => at[h] = "none" /\ at'[h] = "none"
        /\ \A d \in Conn : link[d] = "idle"
    BY <1>0, <1>1, OneHandler DEF Goto
  <2>2. /\ UNCHANGED <<queue, current>> => Unwritten' = {}
        /\ \A v \in Mapping : Enqueue(P(c), v) => Unwritten' = {[by |-> P(c), mapping |-> v]}
    BY <1>0, <1>1, Moved DEF Goto
  <2>3. \A w \in Unwritten' : Replaces(w)'
    <3>1. CASE UNCHANGED <<queue, current>>
      BY <2>2, <3>1
    <3>2. CASE ~UNCHANGED <<queue, current>>
      <4>1. PICK v \in Mapping : Enqueue(P(c), v) /\ Replaces([by |-> P(c), mapping |-> v])'
        BY <1>1, <3>2
      <4>2. Unwritten' = {[by |-> P(c), mapping |-> v]}
        BY <2>2, <4>1
      <4> QED BY <4>1, <4>2
    <3> QED BY <3>1, <3>2
  <2>4. /\ pages[c] <= 1 /\ (n \in Smus => pages[c] = 0 /\ at[P(c)] # "open") /\ pages[c] \in Nat
        /\ pages[c] > 0 => file[n][c].status = "pending" \/ at[P(c)] \in {"mark", "marking"}
        /\ at[P(c)] = "open" => pages[c] = 0
    BY <1>0, <2>1 DEF KeepInv, OnePage, NoLogin, NothingFresh, n
  <2>5. /\ pages'[c] <= 1 /\ (n \in Smus => pages'[c] = 0)
        /\ pages'[c] > 0 => x \in {"mark", "marking"} \/ file[n][c].status = "pending"
    BY <1>1, <2>4 DEF Writing
  <2> QED BY <1>1, <2>1, <2>3, <2>5, KeepPoll DEF n
<1>2. CASE Ask(c) /\ ~Overlap
  <2>1. /\ Quiet /\ Goto(P(c), "fresh") /\ UNCHANGED <<file, queue, current, link, loaded, pages>>
    BY <1>2 DEF Ask, store, links
  <2>2. /\ at'[P(c)] = "fresh" /\ Unwritten' = {}
        /\ \A h \in Handler : at[h] = "none" /\ (h # P(c) => at'[h] = "none")
    BY <1>0, <1>2, <2>1, Begun DEF Writing, Goto
  <2>3. \A d \in Conn : link[d] = "idle"
    BY <1>2, <2>1 DEF Quiet
  <2>4. /\ pages'[c] <= 1 /\ (n \in Smus => pages'[c] = 0)
        /\ pages'[c] > 0 => file[n][c].status = "pending"
    BY <2>1, <2>2, <2>3 DEF KeepInv, OnePage, NoLogin, n
  <2> QED BY <2>1, <2>2, <2>3, <2>4, KeepPoll DEF Unanswered, n
<1>3. ASSUME at[P(c)] # "none", at[P(c)] \notin Writing \cup {"mark"}, Goto(P(c), "none"),
             UNCHANGED <<file, queue, current, link, loaded, pages>>
      PROVE  KeepInv'
  BY <1>1, <1>3 DEF Unanswered
<1>4. CASE \E where \in {"fresh", "consume", "status", "url"} : NotLinked(c, where)
  <2>1. /\ at[P(c)] \in {"fresh", "consume", "status", "url"} /\ Goto(P(c), "none")
        /\ UNCHANGED <<file, queue, current, link, loaded, pages>>
    BY <1>4 DEF NotLinked, HasRead, store, links
  <2> QED BY <1>3, <2>1 DEF Writing
<1>5. CASE GetFreshEntry(c)
  <2>0. /\ at[P(c)] = "fresh" /\ m # None /\ m = file /\ UNCHANGED <<file, link, loaded, pages>>
    BY <1>0, <1>5 DEF GetFreshEntry, HasRead, script, links, store, m
  <2>1. CASE Goto(P(c), "consume") /\ UNCHANGED store
    BY <1>1, <2>0, <2>1 DEF Writing, Unanswered, store
  <2>2. CASE /\ IsFresh(file[n][c]) /\ Goto(P(c), "taking")
             /\ took' = [took EXCEPT ![c] = file[n][c].session]
             /\ Enqueue(P(c), WithRequest(file, n, c, Missing))
    <3>1. WithRequest(file, n, c, Missing) \in Mapping
      BY <1>0, MappingTypes DEF n
    <3>2. at'[P(c)] = "taking" /\ took'[c] = file[n][c].session
      BY <1>0, <2>2 DEF Goto, TypeInv, TypeOK
    <3>3. Replaces([by |-> P(c), mapping |-> WithRequest(file, n, c, Missing)])'
      BY <1>0, <2>0, <2>2, <3>2 DEF Replaces, n
    <3> QED BY <1>1, <2>0, <2>2, <3>1, <3>3 DEF Writing, Unanswered
  <2>3. CASE /\ ~IsFresh(file[n]["initial"]) /\ ~IsFresh(file[n][c])
             /\ Goto(P(c), "status") /\ UNCHANGED store
    BY <1>1, <2>0, <2>3 DEF Writing, store
  <2> QED BY <1>5, <2>0, <2>1, <2>2, <2>3 DEF GetFreshEntry, m, n
<1>6. CASE MarkConsumed(c)
  <2>1. /\ at[P(c)] = "consume" /\ Goto(P(c), "taking")
        /\ Enqueue(P(c), WithRequest(file, n, "initial", ConsumedOf(file[n]["initial"])))
        /\ UNCHANGED <<file, took, link, loaded, pages>>
    BY <1>0, <1>6 DEF MarkConsumed, HasRead, script, links, m, n
  <2>2. /\ IsFresh(file[n]["initial"]) /\ file[n]["initial"].session = took[c]
    BY <1>0, <2>1 DEF TakenOut, n
  <2>3. PICK r \in Request : r = ConsumedOf(file[n]["initial"]) /\ ~IsFresh(r)
    <3>1. file[n]["initial"] \in Request
      BY <1>0, MappingTypes DEF n
    <3>2. ASSUME NEW x \in Request PROVE ~IsFresh(ConsumedOf(x))
      BY <3>2, SMT DEF ConsumedOf, IsFresh, Request
    <3>3. \A x \in Request : ConsumedOf(x) \in Request
      BY RequestTypes
    <3> QED BY <3>1, <3>2, <3>3, Zenon
  <2>4. WithRequest(file, n, "initial", r) \in Mapping
    BY <1>0, <2>3, MappingTypes DEF n
  <2>5. at'[P(c)] = "taking"
    BY <1>0, <2>1 DEF Goto
  <2>6. Replaces([by |-> P(c), mapping |-> WithRequest(file, n, "initial", r)])'
    BY <2>1, <2>2, <2>3, <2>5 DEF Replaces, n
  <2> QED BY <1>1, <2>1, <2>3, <2>4, <2>6 DEF Writing, Unanswered
<1>7. CASE HandOut(c) \/ AnswerExpired(c) \/ OpenFails(c)
  <2>1. /\ at[P(c)] \in {"taken", "expired", "open"} /\ Goto(P(c), "none")
        /\ UNCHANGED <<file, queue, current, link, loaded, pages>>
    BY <1>7 DEF HandOut, AnswerExpired, OpenFails, store, links
  <2> QED BY <1>3, <2>1 DEF Writing
<1>8. CASE GetStatus(c)
  <2>1. /\ at[P(c)] = "status" /\ m = file /\ UNCHANGED <<file, queue, current, link, loaded, pages>>
        /\ \/ Goto(P(c), "none")
           \/ Goto(P(c), "url") /\ file[n][c].status = "not-started"
    BY <1>0, <1>8 DEF GetStatus, HasRead, store, links, m, n
  <2>2. ~IsFresh(file[n]["initial"]) /\ ~IsFresh(file[n][c])
    BY <2>1 DEF KeepInv, NothingFresh, Unanswered, n
  <2> QED BY <1>1, <1>3, <2>1, <2>2 DEF Writing
<1>9. CASE GetRefreshUrl(c)
  <2>1. /\ at[P(c)] = "url" /\ UNCHANGED <<file, queue, current, link, loaded, pages>>
        /\ \/ Goto(P(c), "cleanup") /\ n \in Smus
           \/ Goto(P(c), "open") /\ n \notin Smus
    BY <1>9 DEF GetRefreshUrl, HasRead, script, store, links, n
  <2>2. /\ ~IsFresh(file[n]["initial"]) /\ ~IsFresh(file[n][c])
        /\ file[n][c].status = "not-started"
    BY <2>1 DEF KeepInv, NothingFresh, Unanswered, n
  <2> QED BY <1>1, <2>1, <2>2 DEF Writing
<1>10. CASE CleanupExpiredConnection(c)
  <2>1. /\ at[P(c)] = "cleanup" /\ UNCHANGED <<file, link, loaded, pages>>
        /\ \/ Enqueue(P(c), [file EXCEPT ![n] = NoRequests]) /\ Goto(P(c), "cleaning")
           \/ Goto(P(c), "expired") /\ UNCHANGED <<queue, current>>
    BY <1>0, <1>10 DEF CleanupExpiredConnection, HasRead, script, store, links, m, n
  <2>2. /\ ~IsFresh(file[n]["initial"]) /\ ~IsFresh(file[n][c]) /\ n \in Smus
    BY <2>1 DEF KeepInv, NothingFresh, NoLogin, Unanswered, n
  <2>3. CASE Goto(P(c), "expired") /\ UNCHANGED <<queue, current>>
    BY <1>1, <2>1, <2>3 DEF Writing, Unanswered
  <2>4. CASE Enqueue(P(c), [file EXCEPT ![n] = NoRequests]) /\ Goto(P(c), "cleaning")
    <3>1. [file EXCEPT ![n] = NoRequests] \in Mapping
      BY <1>0, MappingTypes DEF n
    <3>2. at'[P(c)] = "cleaning"
      BY <1>0, <2>4 DEF Goto
    <3>3. Replaces([by |-> P(c), mapping |-> [file EXCEPT ![n] = NoRequests]])'
      BY <2>1, <3>2 DEF Replaces, n
    <3> QED BY <1>1, <2>1, <2>2, <2>4, <3>1, <3>3 DEF Writing
  <2> QED BY <2>1, <2>3, <2>4
<1>11. CASE OpenPage(c)
  <2>1. /\ at[P(c)] = "open" /\ UNCHANGED <<file, queue, current, link, loaded>>
        /\ Goto(P(c), "mark") /\ pages' = [pages EXCEPT ![c] = @ + 1]
    BY <1>11 DEF OpenPage, store, links
  <2>2. /\ ~IsFresh(file[n]["initial"]) /\ ~IsFresh(file[n][c]) /\ n \notin Smus
    BY <2>1 DEF KeepInv, NothingFresh, NoLogin, Unanswered, n
  <2>3. pages'[c] = pages[c] + 1 /\ \A d \in Client : d # c => pages'[d] = pages[d]
    BY <1>0, <2>1
  <2> QED BY <1>1, <2>1, <2>2, <2>3 DEF Writing
<1>12. CASE MarkPending(c)
  <2>1. /\ at[P(c)] = "mark" /\ UNCHANGED <<file, took, link, loaded, pages>>
        /\ Enqueue(P(c), WithRequest(file, n, c, Pending)) /\ Goto(P(c), "marking")
    BY <1>0, <1>12 DEF MarkPending, HasRead, script, store, links, m, n
  <2>2. /\ ~IsFresh(file[n]["initial"]) /\ ~IsFresh(file[n][c]) /\ n \notin Smus
    BY <2>1 DEF KeepInv, NothingFresh, NoLogin, Unanswered, n
  <2>3. WithRequest(file, n, c, Pending) \in Mapping
    BY <1>0, MappingTypes DEF n
  <2>4. at'[P(c)] = "marking"
    BY <1>0, <2>1 DEF Goto
  <2>5. Replaces([by |-> P(c), mapping |-> WithRequest(file, n, c, Pending)])'
    BY <2>1, <2>4 DEF Replaces, n
  <2> QED BY <1>1, <2>1, <2>2, <2>3, <2>5 DEF Writing
<1> QED BY <1>2, <1>4, <1>5, <1>6, <1>7, <1>8, <1>9, <1>10, <1>11, <1>12 DEF Poll

\* A page calls back, and its handler stores the session.
LEMMA SaveKeepsAll ==
    ASSUME DeskInv, KeepInv, ~Overlap, NEW c \in Client, Login(c) \/ SetSession(c)
    PROVE  KeepInv'
<1> USE HandlerNames
<1> DEFINE n == ConnOf[c]
<1>0. /\ TypeInv /\ OneAtATime /\ UpToDate
      /\ file \in Mapping /\ (held[S(c)] # None => held[S(c)] = file) /\ pages \in [Client -> Nat]
      /\ DOMAIN at = Handler /\ NextSession \in Session /\ FreshOf(NextSession) \in Request
  BY RequestTypes, NextSessionType DEF DeskInv, OwnInv, UpToDate, TypeInv, TypeOK
<1> HIDE DEF n
\* What is left to show of a step of the handler.
<1>1. ASSUME NEW x \in {"none", "save", "saving"}, at'[S(c)] = x, UNCHANGED <<file, link>>,
             \A h \in Handler : h # S(c) => at[h] = "none" /\ at'[h] = "none",
             \A d \in Conn : link[d] = "idle",
             at[S(c)] # "none" \/ pages[c] > 0,
             \A d \in Client : pages'[d] = IF d = c THEN 0 ELSE pages[d],
             \A w \in Unwritten' : Replaces(w)'
      PROVE  KeepInv'
  <2>1. /\ \A d \in Client : at[P(d)] = "none" /\ at'[P(d)] = "none" /\ link[ConnOf[d]] # "saved"
        /\ \A d \in Client : at'[S(d)] = IF d = c THEN x ELSE "none"
    BY <1>1
  <2>2. file[n][c].status = "pending" /\ n \notin Smus
    BY <1>0, <1>1, <2>1 DEF KeepInv, OnePage, NoLogin, n
  <2>3. NothingFresh'
    BY <2>1 DEF NothingFresh, Unanswered
  <2>4. OnePage'
    <3> SUFFICES ASSUME NEW d \in Client
                 PROVE  /\ pages'[d] <= 1 /\ (at'[S(d)] # "none" => pages'[d] = 0)
                        /\ pages'[d] > 0 \/ at'[S(d)] # "none" =>
                              file'[ConnOf[d]][d].status = "pending"
      BY DEF OnePage
    <3>1. CASE d = c
      BY <1>1, <2>2, <3>1 DEF n
    <3>2. CASE d # c
      BY <1>1, <2>1, <3>2 DEF KeepInv, OnePage
    <3> QED BY <3>1, <3>2
  <2>5. NoLogin'
    <3> SUFFICES ASSUME NEW d \in Client
                 PROVE  /\ \A e \in Smus : ~IsFresh(file'[e][d])
                        /\ ConnOf[d] \in Smus => pages'[d] = 0 /\ at'[S(d)] = "none"
      BY <2>1 DEF NoLogin
    <3>1. CASE d = c
      BY <1>1, <2>2, <3>1 DEF KeepInv, NoLogin, n
    <3>2. CASE d # c
      BY <1>1, <2>1, <3>2 DEF KeepInv, NoLogin
    <3> QED BY <3>1, <3>2
  <2> QED BY <1>1, <2>3, <2>4, <2>5 DEF KeepInv
<1>2. CASE Login(c)
  <2>1. /\ Quiet /\ Goto(S(c), "save") /\ pages[c] > 0 /\ pages' = [pages EXCEPT ![c] = @ - 1]
        /\ UNCHANGED <<file, queue, current, link, loaded>>
    BY <1>2 DEF Login, store, links
  <2>2. /\ at'[S(c)] = "save" /\ Unwritten' = {}
        /\ \A h \in Handler : at[h] = "none" /\ (h # S(c) => at'[h] = "none")
    BY <1>0, <2>1, Begun DEF Writing, Goto
  <2>3. \A d \in Conn : link[d] = "idle"
    BY <2>1 DEF Quiet
  <2>4. \A d \in Client : pages'[d] = IF d = c THEN 0 ELSE pages[d]
    <3>1. pages[c] = 1
      BY <1>0, <2>1 DEF KeepInv, OnePage
    <3> QED BY <1>0, <2>1, <3>1
  <2> QED BY <1>1, <2>1, <2>2, <2>3, <2>4
<1>3. CASE SetSession(c)
  <2>1. /\ at[S(c)] = "save" /\ held[S(c)] = file /\ UNCHANGED <<file, link, loaded, pages, took>>
        /\ \/ /\ Goto(S(c), "saving")
              /\ Enqueue(S(c), WithRequest(file, n, c, FreshOf(NextSession)))
           \/ Goto(S(c), "none") /\ UNCHANGED <<queue, current>>
    BY <1>0, <1>3 DEF SetSession, HasRead, script, store, links, n
  <2>2. /\ \A h \in Handler : h # S(c) => at[h] = "none"
        /\ \A d \in Conn : link[d] = "idle"
    BY <2>1, OneHandler
  <2>3. \A d \in Client : pages'[d] = IF d = c THEN 0 ELSE pages[d]
    BY <2>1 DEF KeepInv, OnePage
  <2>4. CASE Goto(S(c), "none") /\ UNCHANGED <<queue, current>>
    <3>1. /\ at'[S(c)] = "none" /\ Unwritten' = {}
          /\ \A h \in Handler : h # S(c) => at'[h] = "none"
      BY <1>0, <2>1, <2>4, Moved DEF Writing, Goto
    <3> QED BY <1>1, <2>1, <2>2, <2>3, <3>1
  <2>5. CASE /\ Goto(S(c), "saving")
             /\ Enqueue(S(c), WithRequest(file, n, c, FreshOf(NextSession)))
    <3>1. PICK s \in Session : s = NextSession
      BY <1>0
    <3>2. PICK v \in Mapping : v = WithRequest(file, n, c, FreshOf(s))
      BY <1>0, <3>1, MappingTypes DEF n
    <3>3. /\ at'[S(c)] = "saving" /\ Unwritten' = {[by |-> S(c), mapping |-> v]}
          /\ \A h \in Handler : h # S(c) => at'[h] = "none"
      BY <1>0, <2>1, <2>5, <3>1, <3>2, Moved DEF Writing, Goto
    <3>4. Replaces([by |-> S(c), mapping |-> v])'
      BY <2>1, <3>2, <3>3 DEF Replaces, n
    <3>5. \A w \in Unwritten' : Replaces(w)'
      BY <3>3, <3>4
    <3> QED BY <1>1, <2>1, <2>2, <2>3, <3>3, <3>5
  <2> QED BY <2>1, <2>4, <2>5
<1> QED BY <1>2, <1>3

\* The write of an operation, done or not.
LEMMA WriteKeepsAll ==
    ASSUME DeskInv, KeepInv, current # None, NEW x \in {"taken", "expired", "none"},
           at' = [at EXCEPT ![current.by] = x], current' = None,
           UNCHANGED <<queue, link, pages>>,
           x # "none" => at[current.by] \in {"taking", "cleaning"},
           file' = current.mapping \/ (file' = file /\ at[current.by] # "marking")
    PROVE  KeepInv'
<1> USE HandlerNames
<1> DEFINE h == current.by
           c == h[2]
           n == ConnOf[c]
<1>0. TypeInv /\ OneAtATime /\ file \in Mapping /\ DOMAIN at = Handler /\ pages \in [Client -> Nat]
  BY DEF DeskInv, OwnInv, TypeInv, TypeOK
<1>1. /\ h \in Handler /\ at[h] \in Writing /\ current \in Unwritten /\ Replaces(current)
      /\ c \in Client /\ n \in Conn
  <2>1. current \in Unwritten
    BY <1>0, OneOperation
  <2> QED BY <1>0, <2>1, OneOperation DEF KeepInv
<1>2. /\ \A g \in Handler : at'[g] = (IF g = h THEN x ELSE "none") /\ (g # h => at[g] = "none")
      /\ \A d \in Conn : link[d] = "idle"
  BY <1>0, <1>1, OneHandler DEF Writing
<1>3. \A w \in Unwritten' : Replaces(w)'
  BY <1>0, UnwrittenChange
<1>4. \A d \in Client : /\ at'[P(d)] \notin Unanswered \cup {"cleanup", "cleaning"}
                        /\ at'[S(d)] = "none"
  <2>1. h = S(c) => at[h] = "saving"
    BY <1>0, <1>1 DEF TypeInv, SaveOnly, Writing
  <2> QED BY <1>1, <1>2, <2>1 DEF Unanswered
<1>5. NothingFresh'
  BY <1>4 DEF NothingFresh, Unanswered
\* A page's request is pending before the write, unless the write makes it so.
<1>6. ASSUME NEW d \in Client, pages[d] > 0
      PROVE  /\ file[ConnOf[d]][d].status = "pending" \/ (d = c /\ at[h] = "marking" /\ h = P(c))
             /\ h # S(d) /\ ConnOf[d] \notin Smus
  <2>1. /\ \/ file[ConnOf[d]][d].status = "pending"
           \/ at[P(d)] \in {"mark", "marking"}
           \/ link[ConnOf[d]] = "saved"
        /\ at[S(d)] = "none" /\ ConnOf[d] \notin Smus /\ pages[d] \in Nat /\ pages[d] # 0
    BY <1>0, <1>6 DEF KeepInv, OnePage, NoLogin
  <2>2. at[P(d)] \in {"mark", "marking"} => h = P(d)
    BY <1>2
  <2> QED BY <1>1, <1>2, <2>1, <2>2 DEF Writing
\* What the write makes of the requests.
<1>7. CASE file' = file /\ at[h] # "marking"
  BY <1>3, <1>4, <1>5, <1>6, <1>7 DEF KeepInv, OnePage, NoLogin
<1>8. ASSUME NEW k \in Key, NEW r \in Request, ~IsFresh(r) \/ (k = c /\ n \notin Smus),
             file' = WithRequest(file, n, k, r),
             \A d \in Client : pages[d] > 0 /\ d = k /\ ConnOf[d] = n => r.status = "pending",
             at[h] = "marking" => k = c
      PROVE  KeepInv'
  <2>1. \A a \in Conn, b \in Key : file'[a][b] = IF a = n /\ b = k THEN r ELSE file[a][b]
    BY <1>0, <1>1, <1>8 DEF WithRequest, Mapping
  <2>2. \A d \in Client : pages[d] > 0 => file'[ConnOf[d]][d].status = "pending"
    <3> SUFFICES ASSUME NEW d \in Client, pages[d] > 0
                 PROVE  file'[ConnOf[d]][d].status = "pending"
      OBVIOUS
    <3>1. CASE ConnOf[d] = n /\ d = k
      BY <1>1, <1>8, <2>1, <3>1
    <3>2. CASE ~(ConnOf[d] = n /\ d = k)
      <4>1. file'[ConnOf[d]][d] = file[ConnOf[d]][d]
        BY <2>1, <3>2
      <4> QED BY <1>6, <1>8, <3>2, <4>1
    <3> QED BY <3>1, <3>2
  <2>3. \A d \in Client, e \in Smus : ~IsFresh(file'[e][d])
    <3>1. \A d \in Client, e \in Smus : ~IsFresh(file[e][d]) /\ e \in Conn
      BY ConnAssumption DEF KeepInv, NoLogin
    <3> QED BY <1>8, <2>1, <3>1
  <2> QED BY <1>3, <1>4, <1>5, <2>2, <2>3 DEF KeepInv, OnePage, NoLogin
<1>9. CASE file' = current.mapping /\ at[h] = "taking"
  <2>1. PICK k \in {"initial", c}, r \in Request :
           /\ IsFresh(file[n][k]) /\ ~IsFresh(r) /\ file' = WithRequest(file, n, k, r)
    BY <1>1, <1>9 DEF Replaces
  <2>2. \A d \in Client : pages[d] > 0 => ~IsFresh(file[ConnOf[d]][d])
    BY <1>6, <1>9 DEF IsFresh
  <2> QED BY <1>1, <1>8, <1>9, <2>1, <2>2
<1>10. CASE file' = current.mapping /\ at[h] = "marking"
  <2>1. file' = WithRequest(file, n, c, Pending)
    BY <1>1, <1>10 DEF Replaces
  <2>2. Pending \in Request /\ Pending.status = "pending" /\ ~IsFresh(Pending)
    BY RequestTypes DEF Pending, IsFresh
  <2> QED BY <1>1, <1>8, <2>1, <2>2
<1>11. CASE file' = current.mapping /\ at[h] = "saving"
  <2>1. PICK s \in Session : file' = WithRequest(file, n, c, FreshOf(s))
    BY <1>1, <1>11 DEF Replaces
  <2>2. h = S(c)
    BY <1>1, <1>11 DEF DeskInv, TakenOut
  <2>3. n \notin Smus /\ ~(pages[c] > 0)
    BY <1>1, <1>6, <1>11, <2>2 DEF KeepInv, NoLogin
  <2>4. FreshOf(s) \in Request
    BY RequestTypes
  <2> QED BY <1>1, <1>8, <1>11, <2>1, <2>3, <2>4
<1>12. CASE file' = current.mapping /\ at[h] = "cleaning"
  <2>1. file' = [file EXCEPT ![n] = NoRequests]
    BY <1>1, <1>12 DEF Replaces
  <2>2. h = P(c) /\ n \in Smus
    <3>1. h # S(c)
      BY <1>0, <1>1, <1>12 DEF TypeInv, SaveOnly
    <3> QED BY <1>1, <1>12, <3>1 DEF KeepInv, NoLogin
  <2>3. /\ \A a \in Conn, b \in Key : a # n => file'[a][b] = file[a][b]
        /\ \A b \in Key : ~IsFresh(file'[n][b])
    BY <1>0, <1>1, <2>1 DEF Mapping, NoRequests, Missing, IsFresh
  <2>4. \A d \in Client : pages[d] > 0 => file'[ConnOf[d]][d].status = "pending"
    BY <1>6, <1>12, <2>2, <2>3
  <2>5. \A d \in Client, e \in Smus : ~IsFresh(file'[e][d])
    BY <2>3, ConnAssumption DEF KeepInv, NoLogin
  <2> QED BY <1>3, <1>4, <1>5, <2>4, <2>5 DEF KeepInv, OnePage, NoLogin
<1> QED BY <1>1, <1>7, <1>9, <1>10, <1>11, <1>12 DEF Writing

\* The process ends.
LEMMA DownKeepsAll ==
    ASSUME DeskInv, KeepInv, NEW how, Down(how), UNCHANGED file
    PROVE  KeepInv'
<1> USE HandlerNames
<1>1. /\ \A h \in Handler : at'[h] = "none"
      /\ \A c \in Client : pages'[c] = 0
      /\ Unwritten' = {}
  BY UnwrittenChange DEF Down, DeskInv, OwnInv
<1> QED BY <1>1 DEF KeepInv, NothingFresh, OnePage, NoLogin, Unanswered

\* Steps that leave the file, the handlers and the pages alone.
LEMMA StillKeepsAll ==
    ASSUME KeepInv, UNCHANGED <<file, at, took, pages>>, Unwritten' = Unwritten,
           \A n \in Conn : link[n] = "saved" => link'[n] = "saved"
    PROVE  KeepInv'
<1>1. NothingFresh' /\ NoLogin'
  BY DEF KeepInv, NothingFresh, NoLogin
<1>2. OnePage'
  BY HandlerNames DEF KeepInv, OnePage
<1>3. \A w \in Unwritten' : Replaces(w)'
  BY DEF KeepInv, Replaces
<1> QED BY <1>1, <1>2, <1>3 DEF KeepInv

\* A link stores its session.
LEMMA LinkKeepsAll ==
    ASSUME DeskInv, KeepInv, NEW n \in Conn, LinkSave(n)
    PROVE  KeepInv'
<1> USE HandlerNames
<1>0. /\ TypeInv /\ OneAtATime /\ UpToDate /\ file \in Mapping
      /\ link \in [Conn -> {"idle", "loaded", "saved"}] /\ link[n] = "loaded"
      /\ loaded[n] # None
  BY DEF DeskInv, OwnInv, TypeInv, TypeOK, LinkSave, Loaded
<1>1. /\ file' = WithLink(file, n, NextSession) /\ UNCHANGED <<at, took, pages, queue, current>>
      /\ link'[n] = "saved" /\ \A a \in Conn : a # n => link'[a] = link[a]
  BY <1>0 DEF LinkSave, UpToDate, handler
<1>2. \A h \in Handler : at[h] = "none"
  BY <1>0 DEF OneAtATime
<1>3. /\ \A a \in Conn, b \in Key : a # n => file'[a][b] = file[a][b]
      /\ \A c \in Client : ~IsFresh(file'[n][c])
  BY <1>0, <1>1 DEF WithLink, Mapping, NoRequests, Missing, FreshOf, IsFresh, Key
<1>4. Unwritten' = {}
  <2>1. Unwritten = {}
    BY <1>0, <1>2, OneOperation DEF Writing
  <2> QED BY <1>0, <1>1, <2>1, UnwrittenChange
<1>5. NothingFresh'
  BY <1>1, <1>2 DEF NothingFresh, Unanswered
<1>6. OnePage'
  <2> SUFFICES ASSUME NEW c \in Client, pages[c] > 0
               PROVE  file'[ConnOf[c]][c].status = "pending" \/ link'[ConnOf[c]] = "saved"
    BY <1>1, <1>2 DEF KeepInv, OnePage
  <2>1. file[ConnOf[c]][c].status = "pending" \/ link[ConnOf[c]] = "saved"
    BY <1>2 DEF KeepInv, OnePage
  <2> QED BY <1>1, <1>3, <2>1
<1>7. NoLogin'
  BY <1>1, <1>2, <1>3, ConnAssumption DEF KeepInv, NoLogin
<1> QED BY <1>4, <1>5, <1>6, <1>7 DEF KeepInv


LEMMA KeepInit == Init => KeepInv
<1> SUFFICES ASSUME Init PROVE KeepInv
  OBVIOUS
<1> USE HandlerNames
<1>1. /\ \A h \in Handler : at[h] = "none"
      /\ \A c \in Client : pages[c] = 0
      /\ \A n \in Conn, k \in Key : ~IsFresh(file[n][k])
  BY DEF Init, Empty, NoRequests, Missing, IsFresh
<1>2. Unwritten = {}
  <2>1. TypeInv /\ OneAtATime
    BY <1>1, DeskInit DEF DeskInv, OwnInv
  <2> QED BY <1>1, <2>1, OneOperation DEF Writing
<1> QED BY <1>1, <1>2, ConnAssumption DEF KeepInv, NothingFresh, OnePage, NoLogin, Unanswered

LEMMA KeepStep ==
    ASSUME ~Overlap, ~Unreadable, DeskInv, KeepInv, [Next]_vars
    PROVE  KeepInv'
<1>1. /\ TypeInv /\ OneAtATime
      /\ UNCHANGED <<queue, current>> => Unwritten' = Unwritten
      /\ NextWrite => Unwritten' = Unwritten
      /\ link \in [Conn -> {"idle", "loaded", "saved"}]
  BY UnwrittenChange DEF DeskInv, OwnInv, TypeInv, TypeOK
<1>2. ASSUME NEW c \in Client, Ask(c) \/ (Poll(c) /\ ~MarkThrows(c)) PROVE KeepInv'
  <2>1. (Ask(c) /\ ~Overlap) \/ (Poll(c) /\ ~MarkThrows(c))
    BY <1>2
  <2> QED BY <2>1, PollKeepsAll
<1>3. ASSUME NEW c \in Client, MarkThrows(c) PROVE KeepInv'
  BY <1>3, DownKeepsAll DEF MarkThrows
<1>4. ASSUME NEW c \in Client, Login(c) \/ SetSession(c) PROVE KeepInv'
  BY <1>4, SaveKeepsAll
<1>5. ASSUME \/ \E c \in Client : GiveUp(c)
             \/ \E h \in Handler : ReadMapping(h)
             \/ NextWrite
             \/ \E n \in Conn : LinkLoad(n) \/ LinkSaveFails(n)
             \/ UNCHANGED vars
      PROVE  KeepInv'
  <2>1. UNCHANGED <<file, at, took, pages>> /\ Unwritten' = Unwritten
    BY <1>1, <1>5 DEF GiveUp, ReadMapping, NextWrite, LinkLoad, LinkSaveFails,
                      vars, store, handler, links
  <2>2. \A n \in Conn : link[n] = "saved" => link'[n] = "saved"
    BY <1>1, <1>5 DEF GiveUp, ReadMapping, NextWrite, LinkLoad, LinkSaveFails, vars, links
  <2> QED BY <2>1, <2>2, StillKeepsAll
<1>6. CASE WriteMapping
  <2>1. /\ current # None /\ current.by \in Handler /\ at[current.by] \in Writing
    BY <1>1, <1>6, OneOperation DEF WriteMapping, Unwritten
  <2> DEFINE x == AfterWrite[at[current.by]]
  <2>2. /\ x \in {"taken", "expired", "none"} /\ at' = [at EXCEPT ![current.by] = x]
        /\ x # "none" => at[current.by] \in {"taking", "cleaning"}
    BY <1>1, <1>6, <2>1 DEF WriteMapping, AfterWrite, Writing, TypeInv, TypeOK
  <2>3. current' = None /\ file' = current.mapping /\ UNCHANGED <<queue, link, pages>>
    BY <1>6 DEF WriteMapping, links
  <2> HIDE DEF x
  <2> QED BY <2>1, <2>2, <2>3, WriteKeepsAll
<1>7. CASE WriteFails
  <2>1. /\ current # None /\ UNCHANGED <<file, link>>
        /\ \/ Down("crashed")
           \/ /\ current' = None /\ UNCHANGED <<queue, pages>>
              /\ \/ at[current.by] \in {"taking", "saving", "cleaning"} /\ Goto(current.by, "none")
                 \/ at[current.by] = "cleaning" /\ Goto(current.by, "expired")
    BY <1>7 DEF WriteFails, links
  <2>2. CASE Down("crashed")
    BY <2>1, <2>2, DownKeepsAll
  <2>3. CASE ~Down("crashed")
    BY <2>1, <2>3, WriteKeepsAll DEF Goto
  <2> QED BY <2>2, <2>3
<1>8. ASSUME NEW n \in Conn, LinkSave(n) PROVE KeepInv'
  BY <1>8, LinkKeepsAll
<1>9. ASSUME Exit \/ \E n \in Conn : StartLocalServer(n) PROVE KeepInv'
  BY <1>9, DownKeepsAll DEF Exit, StartLocalServer
<1> QED BY <1>2, <1>3, <1>4, <1>5, <1>6, <1>7, <1>8, <1>9 DEF Next, Poll

\* A session that goes with the request k of n was the one of that request.
LEMMA LostRequest ==
    ASSUME NEW m \in Mapping, NEW n \in Conn, NEW k \in Key, NEW r \in Request,
           NEW s, s \in FreshIn(m), s \notin FreshIn(WithRequest(m, n, k, r))
    PROVE  IsFresh(m[n][k]) /\ s = m[n][k].session
<1> DEFINE x == WithRequest(m, n, k, r)
<1>1. \A a \in Conn, b \in Key : ~(a = n /\ b = k) => x[a][b] = m[a][b]
  BY DEF WithRequest, Mapping
<1> HIDE DEF x
<1>2. PICK a \in Conn, b \in Key : IsFresh(m[a][b]) /\ m[a][b].session = s
  BY InFresh
<1>3. a = n /\ b = k
  <2>1. s \notin FreshIn(x)
    BY DEF x
  <2> QED BY <1>1, <1>2, <2>1, InFresh
<1> QED BY <1>2, <1>3

\* What FreshIsNotLost says of a step.
Lossless ==
    \A s \in FreshIn(file) \ FreshIn(file)' :
       \/ \E c \in Client : took[c] = s
       \/ \E n \in Conn : origin[s][1] = n /\ link[n] = "loaded" /\ link'[n] = "saved"

\* The write of an operation loses at most the session its handler has taken.
LEMMA WriteLosesNothing ==
    ASSUME DeskInv, KeepInv, WriteMapping
    PROVE  Lossless
<1> USE HandlerNames
<1> DEFINE h == current.by
           c == h[2]
           n == ConnOf[c]
<1>0. TypeInv /\ OneAtATime /\ TakenOut /\ file \in Mapping /\ file' = current.mapping
  BY DEF DeskInv, OwnInv, TypeInv, TypeOK, WriteMapping
<1>1. /\ h \in Handler /\ at[h] \in Writing /\ Replaces(current)
      /\ c \in Client /\ n \in Conn
  <2>1. current \in Unwritten
    BY <1>0, OneOperation DEF WriteMapping
  <2> QED BY <1>0, <2>1, OneOperation DEF KeepInv
<1>2. /\ \A g \in Handler : g # h => at[g] = "none"
      /\ \A d \in Conn : link[d] = "idle"
  BY <1>1, OneHandler DEF Writing
<1>3. h = IF at[h] = "saving" THEN S(c) ELSE P(c)
  <2>1. h = S(c) => at[h] = "saving"
    BY <1>0, <1>1 DEF TypeInv, SaveOnly, Writing
  <2>2. h = P(c) => at[h] # "saving"
    BY <1>0, <1>1 DEF TakenOut, Writing
  <2> QED BY <1>1, <2>1, <2>2
<1> HIDE DEF h, c, n
<1> SUFFICES ASSUME NEW s \in FreshIn(file), s \notin FreshIn(file')
             PROVE  \E d \in Client : took[d] = s
  BY DEF Lossless
<1>4. CASE at[h] = "taking"
  <2>1. PICK k \in {"initial", c}, r \in Request :
           file[n][k].session = took[c] /\ file' = WithRequest(file, n, k, r)
    BY <1>0, <1>1, <1>4 DEF Replaces, h, c, n
  <2>2. s = file[n][k].session
    BY <1>0, <1>1, <2>1, LostRequest
  <2> QED BY <1>1, <2>1, <2>2
<1>5. CASE at[h] \in {"marking", "saving"}
  <2>1. PICK r \in Request : file' = WithRequest(file, n, c, r)
    <3>1. Pending \in Request /\ \A t \in Session : FreshOf(t) \in Request
      BY RequestTypes
    <3> QED BY <1>0, <1>1, <1>5, <3>1 DEF Replaces, h, c, n
  <2>2. IsFresh(file[n][c])
    BY <1>0, <1>1, <2>1, LostRequest
  <2>3. CASE at[h] = "marking"
    BY <1>1, <1>3, <2>2, <2>3 DEF KeepInv, NothingFresh, Unanswered, n
  <2>4. CASE at[h] = "saving"
    <3>1. at[S(c)] = "saving" /\ at[P(c)] = "none" /\ link[n] = "idle"
      BY <1>1, <1>2, <1>3, <2>4
    <3>2. file[n][c].status = "pending"
      BY <1>1, <3>1 DEF KeepInv, OnePage, n
    <3> QED BY <2>2, <3>2 DEF IsFresh
  <2> QED BY <1>5, <2>3, <2>4
<1>6. CASE at[h] = "cleaning"
  <2>1. file' = [file EXCEPT ![n] = NoRequests]
    BY <1>0, <1>1, <1>6 DEF Replaces, h, c, n
  <2>2. at[P(c)] = "cleaning"
    BY <1>3, <1>6
  <2>3. n \in Smus /\ ~IsFresh(file[n]["initial"])
    BY <1>1, <2>2 DEF KeepInv, NothingFresh, NoLogin, Unanswered, n
  <2>4. \A k \in Key : ~IsFresh(file[n][k])
    BY <2>3 DEF KeepInv, NoLogin, Key
  <2>5. \A a \in Conn, b \in Key : a # n => file'[a][b] = file[a][b]
    BY <1>0, <2>1 DEF Mapping
  <2>6. PICK a \in Conn, b \in Key : IsFresh(file[a][b]) /\ file[a][b].session = s
    BY InFresh
  <2>7. s \in FreshIn(file')
    BY <2>4, <2>5, <2>6, InFresh
  <2> QED BY <2>7
<1> QED BY <1>1, <1>4, <1>5, <1>6 DEF Writing

\* A link replaces the sessions of its own connection.
LEMMA LinkLosesOwn ==
    ASSUME DeskInv, NEW n \in Conn, LinkSave(n)
    PROVE  Lossless
<1>1. /\ TypeInv /\ UpToDate /\ file \in Mapping /\ Good(file, origin, opened)
      /\ link \in [Conn -> {"idle", "loaded", "saved"}] /\ loaded[n] # None
  BY DEF DeskInv, OwnInv, GoodMappings, TypeInv, TypeOK, LinkSave, Loaded
<1>2. file' = WithLink(file, n, NextSession) /\ NextSession \in Session
  BY <1>1, NextSessionType DEF LinkSave, UpToDate, TypeInv
<1>3. link[n] = "loaded" /\ link'[n] = "saved"
  BY <1>1 DEF LinkSave
<1>4. ASSUME NEW t \in Session
      PROVE  \A s \in FreshIn(file) : s \in FreshIn(WithLink(file, n, t)) \/ origin[s][1] = n
  <2>1. file \in Mapping /\ Good(file, origin, opened)
    BY <1>1
  <2> QED BY ONLY <2>1, n \in Conn, t \in Session, FreshCleared, Zenon
<1>5. \A s \in FreshIn(file) : s \in FreshIn(file') \/ origin[s][1] = n
  BY <1>2, <1>4
<1> QED BY <1>3, <1>5 DEF Lossless

LEMMA LosslessStep ==
    ASSUME DeskInv, KeepInv, [Next]_vars
    PROVE  Lossless
<1>1. CASE WriteMapping
  BY <1>1, WriteLosesNothing
<1>2. ASSUME NEW n \in Conn, LinkSave(n) PROVE Lossless
  BY <1>2, LinkLosesOwn
<1>3. CASE file' = file
  BY <1>3 DEF Lossless
<1>4. ASSUME NEW c \in Client,
             Ask(c) \/ GiveUp(c) \/ Poll(c) \/ Login(c) \/ SetSession(c)
      PROVE  file' = file
  <2>1. CASE Ask(c) \/ GiveUp(c) \/ Login(c)
    BY <2>1, Zenon DEF Ask, GiveUp, Login, store
  <2>2. CASE SetSession(c)
    BY <2>2, Zenon DEF SetSession, store
  <2>3. CASE \E where \in {"fresh", "consume", "status", "url"} : NotLinked(c, where)
    BY <2>3, Zenon DEF NotLinked, store
  <2>4. CASE GetFreshEntry(c) \/ MarkConsumed(c)
    BY <2>4, Zenon DEF GetFreshEntry, MarkConsumed, store
  <2>5. CASE HandOut(c) \/ GetStatus(c) \/ GetRefreshUrl(c)
    BY <2>5, Zenon DEF HandOut, GetStatus, GetRefreshUrl, store
  <2>6. CASE CleanupExpiredConnection(c) \/ AnswerExpired(c)
    BY <2>6, Zenon DEF CleanupExpiredConnection, AnswerExpired, store
  <2>7. CASE OpenPage(c) \/ OpenFails(c) \/ MarkPending(c) \/ MarkThrows(c)
    BY <2>7, Zenon DEF OpenPage, OpenFails, MarkPending, MarkThrows, store
  <2> QED
    BY <1>4, <2>1, <2>2, <2>3, <2>4, <2>5, <2>6, <2>7, Zenon DEF Poll
<1>5. ASSUME NEW h \in Handler, ReadMapping(h) PROVE file' = file
  BY <1>5, Zenon DEF ReadMapping, store
<1>6. ASSUME WriteFails \/ NextWrite PROVE file' = file
  BY <1>6, SMT DEF WriteFails, NextWrite
<1>7. ASSUME Exit \/ UNCHANGED vars PROVE file' = file
  BY <1>7, SMT DEF Exit, vars, store
<1>8. ASSUME NEW n \in Conn, LinkLoad(n) \/ LinkSaveFails(n) \/ StartLocalServer(n)
      PROVE  file' = file
  BY <1>8, Zenon DEF LinkLoad, LinkSaveFails, StartLocalServer, store
<1> QED BY <1>1, <1>2, <1>3, <1>4, <1>5, <1>6, <1>7, <1>8 DEF Next

\* Without overlap, a fresh session leaves the file only with a handler that took
\* it or for a new link of its connection (sessionStore.ts, getFreshEntry and
\* setSession; credentialMapping.ts, setSpaceCredentials): a poll marks or cleans
\* up only what it has found empty, and a login finds its request pending.
THEOREM FreshSessionsAreNotLost ==
    ASSUME ~Overlap, ~Unreadable
    PROVE  Spec => FreshIsNotLost
<1> DEFINE Inv == DeskInv /\ KeepInv
<1>1. Init => Inv
  BY DeskInit, KeepInit
<1>2. Inv /\ [Next]_vars => Inv'
  BY DeskNext, KeepStep
<1>3. Inv /\ [Next]_vars => Lossless
  BY LosslessStep
<1> QED BY <1>1, <1>2, <1>3, PTL DEF Spec, FreshIsNotLost, Lossless

=============================================================================
