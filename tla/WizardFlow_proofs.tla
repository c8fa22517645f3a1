-------------------------- MODULE WizardFlow_proofs --------------------------
(* Theorems about WizardFlow and their proofs. *)
EXTENDS WizardFlow, SequenceTheorems, TLAPS

-----------------------------------------------------------------------------
(* Lists of steps *)

\* Nothing in b comes twice.
Once(b) == \A i, j \in 1..Len(b) : b[i] = b[j] => i = j

LEMMA FirstPart ==
    ASSUME NEW S, NEW c \in Seq(S), NEW m \in 0..Len(c)
    PROVE  /\ SubSeq(c, 1, m) \in Seq(S)
           /\ Len(SubSeq(c, 1, m)) = m
           /\ \A i \in 1..m : SubSeq(c, 1, m)[i] = c[i]
  OBVIOUS

LEMMA LastPart ==
    ASSUME NEW S, NEW c \in Seq(S), NEW m \in 0..Len(c)
    PROVE  /\ SubSeq(c, m + 1, Len(c)) \in Seq(S)
           /\ Len(SubSeq(c, m + 1, Len(c))) = Len(c) - m
           /\ \A i \in 1..(Len(c) - m) : SubSeq(c, m + 1, Len(c))[i] = c[m + i]
  OBVIOUS

\* c is b with new put in after step k.
Spliced(b, k, new, c) ==
    /\ Len(c) = Len(b) + Len(new)
    /\ \A i \in 1..k : c[i] = b[i]
    /\ \A i \in 1..Len(new) : c[k + i] = new[i]
    /\ \A i \in (k + 1)..Len(b) : c[i + Len(new)] = b[i]

\* What splice() puts in, and where everything else is then.
LEMMA InsertPlaces ==
    ASSUME NEW S, NEW b \in Seq(S), NEW new \in Seq(S), NEW k \in 0..Len(b)
    PROVE  Insert(b, k, new) \in Seq(S) /\ Spliced(b, k, new, Insert(b, k, new))
  <1> DEFINE front == SubSeq(b, 1, k)
             back == SubSeq(b, k + 1, Len(b))
  <1>1. /\ front \in Seq(S) /\ Len(front) = k
        /\ \A i \in 1..k : front[i] = b[i]
    OBVIOUS
  <1>2. /\ back \in Seq(S) /\ Len(back) = Len(b) - k
        /\ \A i \in 1..(Len(b) - k) : back[i] = b[k + i]
    OBVIOUS
  <1> HIDE DEF front, back
  <1>3. /\ front \o new \in Seq(S) /\ Len(front \o new) = k + Len(new)
        /\ \A i \in 1..k : (front \o new)[i] = b[i]
        /\ \A i \in 1..Len(new) : (front \o new)[k + i] = new[i]
    BY <1>1
  <1> DEFINE fn == front \o new
  <1>f. fn \in Seq(S) /\ Len(fn) = k + Len(new)
    BY <1>3
  <1> HIDE DEF fn
  <1>4. /\ fn \o back \in Seq(S) /\ Len(fn \o back) = Len(b) + Len(new)
        /\ \A i \in 1..(k + Len(new)) : (fn \o back)[i] = fn[i]
        /\ \A i \in 1..(Len(b) - k) : (fn \o back)[k + Len(new) + i] = b[k + i]
    <2>1. /\ fn \o back \in Seq(S) /\ Len(fn \o back) = Len(fn) + Len(back)
          /\ \A i \in 1..(Len(fn) + Len(back)) :
                (fn \o back)[i] = IF i <= Len(fn) THEN fn[i] ELSE back[i - Len(fn)]
      BY <1>2, <1>f, ConcatProperties
    <2>2. Len(new) \in Nat /\ Len(fn) + Len(back) = Len(b) + Len(new)
      BY <1>2, <1>f
    <2>3. \A i \in 1..(Len(b) - k) :
             /\ k + Len(new) + i \in 1..(Len(fn) + Len(back))
             /\ (k + Len(new) + i) - Len(fn) = i
             /\ ~ k + Len(new) + i <= Len(fn)
      BY <1>2, <1>f, <2>2
    <2>4. \A i \in 1..(k + Len(new)) :
             i \in 1..(Len(fn) + Len(back)) /\ i <= Len(fn)
      BY <1>2, <1>f, <2>2
    <2> QED BY <1>2, <2>1, <2>2, <2>3, <2>4
  <1>5. Insert(b, k, new) = fn \o back
    BY DEF Insert, fn, front, back
  <1>6. \A i \in (k + 1)..Len(b) : (fn \o back)[i + Len(new)] = b[i]
    <2> TAKE i \in (k + 1)..Len(b)
    <2>1. i - k \in 1..(Len(b) - k) /\ k + Len(new) + (i - k) = i + Len(new)
          /\ k + (i - k) = i
      OBVIOUS
    <2> QED BY <2>1, <1>4
  <1> QED BY <1>3, <1>4, <1>5, <1>6 DEF fn, Spliced

\* Taking out what was put in gives the list it was put into.
LEMMA RemoveInserted ==
    ASSUME NEW S, NEW b \in Seq(S), NEW new \in Seq(S), NEW k \in 0..Len(b)
    PROVE  Remove(Insert(b, k, new), k, Len(new)) = b
  <1> DEFINE c == Insert(b, k, new)
             n == Len(new)
             front == SubSeq(c, 1, k)
             back == SubSeq(c, k + n + 1, Len(c))
  <1>0. c \in Seq(S) /\ Spliced(b, k, new, c)
    BY InsertPlaces
  <1> HIDE DEF c
  <1>1. /\ c \in Seq(S) /\ Len(c) = Len(b) + n
        /\ \A i \in 1..k : c[i] = b[i]
        /\ \A i \in (k + 1)..Len(b) : c[i + n] = b[i]
    BY <1>0 DEF Spliced
  <1>2. n \in Nat
    OBVIOUS
  <1> HIDE DEF n
  <1>3. /\ front \in Seq(S) /\ Len(front) = k
        /\ \A i \in 1..k : front[i] = b[i]
    <2>1. k \in 0..Len(c)
      BY <1>1, <1>2
    <2>2. front \in Seq(S) /\ Len(front) = k /\ \A i \in 1..k : front[i] = c[i]
      BY <1>1, <2>1, FirstPart
    <2> QED BY <1>1, <2>2
  <1>4. /\ back \in Seq(S) /\ Len(back) = Len(b) - k
        /\ \A i \in 1..(Len(b) - k) : back[i] = c[k + n + i]
    <2>1. k + n \in 0..Len(c) /\ Len(c) - (k + n) = Len(b) - k
      BY <1>1, <1>2
    <2>2. /\ back \in Seq(S) /\ Len(back) = Len(c) - (k + n)
          /\ \A i \in 1..(Len(c) - (k + n)) : back[i] = c[(k + n) + i]
      BY <1>1, <1>2, <2>1, LastPart
    <2> QED BY <2>1, <2>2
  <1>5. \A i \in 1..(Len(b) - k) : back[i] = b[k + i]
    <2> TAKE i \in 1..(Len(b) - k)
    <2>1. k + i \in (k + 1)..Len(b) /\ (k + i) + n = k + n + i
      BY <1>2
    <2> QED BY <2>1, <1>1, <1>4
  <1> HIDE DEF front, back
  <1>6. /\ front \o back \in Seq(S) /\ Len(front \o back) = Len(b)
        /\ \A i \in 1..k : (front \o back)[i] = front[i]
        /\ \A i \in 1..(Len(b) - k) : (front \o back)[k + i] = back[i]
    BY <1>3, <1>4
  <1>e. ASSUME NEW i \in 1..Len(b) PROVE (front \o back)[i] = b[i]
    <2>1. CASE i <= k
      <3>1. i \in 1..k
        BY <2>1
      <3>2. (front \o back)[i] = front[i] /\ front[i] = b[i]
        BY <3>1, <1>3, <1>6, Zenon
      <3> QED BY <3>2
    <2>2. CASE i > k
      <3>1. i - k \in 1..(Len(b) - k) /\ k + (i - k) = i
        BY <2>2
      <3>2. (front \o back)[k + (i - k)] = back[i - k] /\ back[i - k] = b[k + (i - k)]
        BY <3>1, <1>5, <1>6, Zenon
      <3> QED BY <3>1, <3>2
    <2>3. i <= k \/ i > k
      OBVIOUS
    <2> QED BY <2>1, <2>2, <2>3, Zenon
  <1>7. front \o back = b
    BY <1>6, <1>e, SeqEqual
  <1> QED BY <1>7 DEF Remove, c, n, front, back

\* An insertion keeps what was in a list.
LEMMA InsertKeeps ==
    ASSUME NEW S, NEW b \in Seq(S), NEW new \in Seq(S), NEW k \in 0..Len(b)
    PROVE  /\ InSteps(b) \subseteq InSteps(Insert(b, k, new))
           /\ InSteps(new) \subseteq InSteps(Insert(b, k, new))
  <1> DEFINE c == Insert(b, k, new)
  <1>0. c \in Seq(S) /\ Spliced(b, k, new, c)
    BY InsertPlaces
  <1> HIDE DEF c
  <1>1. /\ Len(c) = Len(b) + Len(new)
        /\ \A i \in 1..k : c[i] = b[i]
        /\ \A i \in 1..Len(new) : c[k + i] = new[i]
        /\ \A i \in (k + 1)..Len(b) : c[i + Len(new)] = b[i]
    BY <1>0 DEF Spliced
  <1>2. ASSUME NEW i \in 1..Len(b) PROVE b[i] \in InSteps(c)
    <2>1. CASE i <= k
      BY <2>1, <1>1 DEF InSteps
    <2>2. CASE i > k
      <3>1. i + Len(new) \in 1..Len(c) /\ c[i + Len(new)] = b[i]
        BY <2>2, <1>1
      <3> QED BY <3>1 DEF InSteps
    <2> QED BY <2>1, <2>2
  <1>3. ASSUME NEW i \in 1..Len(new) PROVE new[i] \in InSteps(c)
    <2>1. k + i \in 1..Len(c) /\ c[k + i] = new[i]
      BY <1>1
    <2> QED BY <2>1 DEF InSteps
  <1> QED BY <1>2, <1>3 DEF InSteps, c

\* An insertion of new steps, each once, leaves every step once.
LEMMA InsertOnce ==
    ASSUME NEW S, NEW b \in Seq(S), NEW new \in Seq(S), NEW k \in 0..Len(b),
           Once(b), Once(new), InSteps(b) \cap InSteps(new) = {}
    PROVE  Once(Insert(b, k, new))
  <1> DEFINE c == Insert(b, k, new)
             n == Len(new)
  <1>0. c \in Seq(S) /\ Spliced(b, k, new, c)
    BY InsertPlaces
  <1> HIDE DEF c
  <1>1. /\ Len(c) = Len(b) + n
        /\ \A i \in 1..k : c[i] = b[i]
        /\ \A i \in 1..n : c[k + i] = new[i]
        /\ \A i \in (k + 1)..Len(b) : c[i + n] = b[i]
    BY <1>0 DEF Spliced
  <1>2. n \in Nat /\ Len(b) \in Nat /\ k \in Nat /\ k <= Len(b)
    OBVIOUS
  <1>3. \A i \in 1..Len(b), j \in 1..n : b[i] # new[j]
    BY DEF InSteps
  <1> HIDE DEF n
  <1>4. ASSUME NEW i \in 1..Len(c)
        PROVE  \/ i \in 1..k /\ c[i] = b[i]
               \/ i - k \in 1..n /\ c[i] = new[i - k]
               \/ i - n \in (k + 1)..Len(b) /\ c[i] = b[i - n]
    <2>1. CASE i <= k
      BY <2>1, <1>1, <1>2
    <2>2. CASE i > k /\ i <= k + n
      <3>1. i - k \in 1..n /\ k + (i - k) = i
        BY <2>2, <1>2
      <3> QED BY <3>1, <1>1
    <2>3. CASE i > k + n
      <3>1. i - n \in (k + 1)..Len(b) /\ (i - n) + n = i
        BY <2>3, <1>1, <1>2
      <3> QED BY <3>1, <1>1
    <2> QED BY <2>1, <2>2, <2>3, <1>2
  <1>5. ASSUME NEW i \in 1..Len(c), NEW j \in 1..Len(c), c[i] = c[j]
        PROVE  i = j
    <2>j. \/ j \in 1..k /\ c[j] = b[j]
          \/ j - k \in 1..n /\ c[j] = new[j - k]
          \/ j - n \in (k + 1)..Len(b) /\ c[j] = b[j - n]
      BY <1>4
    <2>1. CASE i \in 1..k /\ c[i] = b[i]
      BY <2>1, <1>3, <2>j, <1>5, <1>2, <1>1 DEF Once
    <2>2. CASE i - k \in 1..n /\ c[i] = new[i - k]
      <3>1. CASE j \in 1..k /\ c[j] = b[j]
        <4>1. j \in 1..Len(b)
          BY <3>1, <1>2
        <4> QED BY <2>2, <3>1, <4>1, <1>3, <1>5
      <3>2. CASE j - k \in 1..n /\ c[j] = new[j - k]
        <4>1. i - k = j - k
          BY <2>2, <3>2, <1>5 DEF Once, n
        <4> QED BY <4>1
      <3>3. CASE j - n \in (k + 1)..Len(b) /\ c[j] = b[j - n]
        <4>1. j - n \in 1..Len(b)
          BY <3>3, <1>2
        <4> QED BY <2>2, <3>3, <4>1, <1>3, <1>5
      <3> QED BY <2>j, <3>1, <3>2, <3>3
    <2>3. CASE i - n \in (k + 1)..Len(b) /\ c[i] = b[i - n]
      <3>i. i - n \in 1..Len(b)
        BY <2>3, <1>2
      <3>1. CASE j \in 1..k /\ c[j] = b[j]
        <4>1. j \in 1..Len(b)
          BY <3>1, <1>2
        <4>2. i - n = j
          BY <2>3, <3>i, <3>1, <4>1, <1>5 DEF Once
        <4> QED BY <2>3, <3>1, <4>2, <1>2
      <3>2. CASE j - k \in 1..n /\ c[j] = new[j - k]
        BY <2>3, <3>i, <3>2, <1>3, <1>5
      <3>3. CASE j - n \in (k + 1)..Len(b) /\ c[j] = b[j - n]
        <4>1. j - n \in 1..Len(b)
          BY <3>3, <1>2
        <4>2. i - n = j - n
          BY <2>3, <3>3, <3>i, <4>1, <1>5 DEF Once
        <4> QED BY <4>2, <1>2
      <3> QED BY <2>j, <3>1, <3>2, <3>3
    <2> QED BY <2>1, <2>2, <2>3, <1>4
  <1> QED BY <1>5 DEF Once, c

-----------------------------------------------------------------------------
(* The invariant *)

\* Wizard w, in state s with the steps b of which n are passed, has what it
\* needs: for s and for the state it begins with.
Fits(w, s, b, n) ==
    /\ Unasked(w, s, b) = {}
    /\ Unasked(w, Given[w], b) = {}
    /\ Once(b)
    /\ \A p \in Prop : s[p] # Given[w][p] => \E i \in 1..n : b[i] = p

\* What an insertion, or none, after step k made of the steps b.
Extended(b, k, e) == IF k \in DOMAIN e THEN Insert(b, k, e[k]) ELSE b

\* The steps w had when k - 1 of them were passed.
StepsBefore(w, k) == IF k = at[w] + 1 THEN steps[w] ELSE shown[w][k].steps

\* The history of w agrees with what it will restore.
Path(w) ==
    /\ \A k \in 1..at[w] :
          /\ previous[w][k + 1] = shown[w][k].state
          /\ k <= Len(shown[w][k].steps)
          /\ Exit \notin InSteps(shown[w][k].steps)
          /\ Fits(w, shown[w][k].state, shown[w][k].steps, k - 1)
          /\ StepsBefore(w, k + 1) = Extended(shown[w][k].steps, k, extra[w])
    /\ \A i \in 1..Len(steps[w]) : steps[w][i] = Exit => i = at[w] + 1
    /\ \/ steps[w] = <<>> /\ state[w] = Given[w] /\ phase[w] = "idle"
       \/ Fits(w, state[w], steps[w], at[w])

\* Insertions after some of the n steps that are passed.
MarksOK(e, n) == \E K \in SUBSET (1..n) : e \in [K -> Seq(Step)]

\* The types of all but the phase; extra is a function and nothing else.
MachineOK ==
    /\ state \in [Wizard -> States]
    /\ previous \in [Wizard -> Seq(States)]
    /\ steps \in [Wizard -> Seq(Step)]
    /\ at \in [Wizard -> Nat]
    /\ direction \in [Wizard -> {"Forward", "Backward"}]
    /\ extra = [w \in Wizard |-> extra[w]]
    /\ shown \in [Wizard -> Seq([state : States, steps : Seq(Step)])]
    /\ \A w \in Wizard :
          /\ at[w] <= Len(steps[w])
          /\ Len(previous[w]) = at[w] + 1 /\ Len(shown[w]) = at[w]
          /\ MarksOK(extra[w], at[w])
PhaseOK == phase \in [Wizard -> {"idle", "asking", "nested"} \cup Ended]

\* A wizard whose step runs another one is at that step.
Nesting(w) ==
    phase[w] = "nested" => at[w] < Len(steps[w]) /\ Current(w) \in Nests

Inv == MachineOK /\ PhaseOK /\ \A w \in Wizard : Path(w) /\ Nesting(w)

\* What BackRestores says of one wizard.
Restores(w) ==
    at'[w] < at[w] =>
      /\ at'[w] = at[w] - 1
      /\ state'[w] = shown[w][at[w]].state
      /\ steps'[w] = shown[w][at[w]].steps

\* Nothing happened to v.
Same(v) ==
    /\ state'[v] = state[v] /\ previous'[v] = previous[v] /\ steps'[v] = steps[v]
    /\ extra'[v] = extra[v] /\ at'[v] = at[v] /\ direction'[v] = direction[v]
    /\ shown'[v] = shown[v]

\* A step of w that keeps the invariant of w and leaves the others alone.
Moved(w) ==
    MachineOK' /\ Path(w)' /\ Restores(w) /\ \A v \in Wizard \ {w} : Same(v)

\* To insert nothing changes nothing.
LEMMA InsertNothing ==
    ASSUME NEW S, NEW b \in Seq(S), NEW k \in 0..Len(b)
    PROVE  Insert(b, k, <<>>) = b
  <1> DEFINE c == Insert(b, k, <<>>)
  <1>0. <<>> \in Seq(S)
    OBVIOUS
  <1>1. c \in Seq(S) /\ Spliced(b, k, <<>>, c)
    BY <1>0, InsertPlaces
  <1>3. Len(<<>>) = 0 /\ Len(b) \in Nat /\ k \in Nat
    OBVIOUS
  <1> HIDE DEF c
  <1>4. /\ Len(c) = Len(b) /\ \A i \in 1..k : c[i] = b[i]
        /\ \A i \in (k + 1)..Len(b) : c[i] = b[i]
    <2>1. \A i \in (k + 1)..Len(b) : i + Len(<<>>) = i
      BY <1>3
    <2> QED BY <1>1, <1>3, <2>1 DEF Spliced
  <1>5. ASSUME NEW i \in 1..Len(c) PROVE c[i] = b[i]
    <2>1. i \in 1..k \/ i \in (k + 1)..Len(b)
      BY <1>3, <1>4
    <2> QED BY <2>1, <1>1, <1>4
  <1>6. c = b
    BY <1>1, <1>4, <1>5, SeqEqual
  <1> QED BY <1>6 DEF c

\* A step that is passed.
LEMMA AdvanceKeeps ==
    ASSUME MachineOK, NEW w \in Wizard, Path(w), at[w] < Len(steps[w]),
           NEW s \in States, NEW new \in Seq(Step), Advance(w, s, new),
           Current(w) # Exit, Once(new), InSteps(steps[w]) \cap InSteps(new) = {},
           \A i \in 1..Len(new) : new[i] = Exit => i = 1,
           Unasked(w, s, Insert(steps[w], at[w] + 1, new)) = {},
           \A p \in Prop : s[p] # state[w][p] => p = Current(w)
    PROVE  MachineOK' /\ Path(w)' /\ \A v \in Wizard \ {w} : Same(v)
  <1> DEFINE k == at[w] + 1
             b == steps[w]
             c == Insert(b, k, new)
  <1>t. /\ steps[w] \in Seq(Step) /\ at[w] \in Nat /\ state[w] \in States
        /\ previous[w] \in Seq(States)
        /\ shown[w] \in Seq([state : States, steps : Seq(Step)])
    BY DEF MachineOK
  <1>u. /\ Len(previous[w]) = at[w] + 1 /\ Len(shown[w]) = at[w]
        /\ MarksOK(extra[w], at[w])
    BY DEF MachineOK
  <1>v. (at[w] + 1) - 1 = at[w] /\ at[w] + 1 \in Nat
    BY <1>t
  <1>1. /\ b \in Seq(Step) /\ at[w] \in Nat /\ k \in 1..Len(b) /\ k \in 0..Len(b)
        /\ state[w] \in States /\ previous[w] \in Seq(States)
        /\ shown[w] \in Seq([state : States, steps : Seq(Step)])
        /\ Len(previous[w]) = k /\ Len(shown[w]) = at[w]
        /\ at[w] = k - 1 /\ k \in Nat /\ MarksOK(extra[w], k - 1)
    BY <1>t, <1>u, <1>v
  <1>s. c \in Seq(Step) /\ Spliced(b, k, new, c)
    BY <1>1, InsertPlaces
  <1>2. /\ c \in Seq(Step) /\ Len(c) = Len(b) + Len(new)
        /\ \A i \in 1..k : c[i] = b[i]
    BY <1>s DEF Spliced
  <1>3. \A i \in 1..Len(new) : c[k + i] = new[i]
    BY <1>s DEF Spliced
  <1>4. \A i \in (k + 1)..Len(b) : c[i + Len(new)] = b[i]
    BY <1>s DEF Spliced
  <1>5. InSteps(b) \subseteq InSteps(c)
    BY <1>1, InsertKeeps
  <1>6. Once(b) => Once(c)
    BY <1>1, InsertOnce
  <1>7. Unasked(w, s, c) = {}
    OBVIOUS
  <1>8. new = <<>> => c = b
    BY <1>1, InsertNothing
  <1>9. /\ state'[w] = s /\ steps'[w] = c /\ at'[w] = k
        /\ previous'[w] = Append(previous[w], state[w])
        /\ shown'[w] = Append(shown[w], Before(w)) /\ direction'[w] = "Forward"
        /\ extra'[w] = IF new = <<>> THEN extra[w] ELSE Noted(extra[w], k, new)
        /\ \A v \in Wizard \ {w} : Same(v)
    BY DEF MachineOK, Advance, TurnsForward, Same
  <1>b. Before(w) \in [state : States, steps : Seq(Step)]
    BY <1>1 DEF Before
  <1>p. /\ Append(previous[w], state[w]) \in Seq(States)
        /\ Append(shown[w], Before(w)) \in Seq([state : States, steps : Seq(Step)])
    BY <1>1, <1>b
  <1>10. /\ state' \in [Wizard -> States]
         /\ previous' \in [Wizard -> Seq(States)]
         /\ steps' \in [Wizard -> Seq(Step)]
         /\ at' \in [Wizard -> Nat]
         /\ direction' \in [Wizard -> {"Forward", "Backward"}]
         /\ extra' = [v \in Wizard |-> extra'[v]]
         /\ shown' \in [Wizard -> Seq([state : States, steps : Seq(Step)])]
    BY <1>1, <1>2, <1>p DEF MachineOK, Advance, TurnsForward
  <1> HIDE DEF c
  <1>11. Fits(w, state[w], b, at[w])
    BY <1>1 DEF Path
  <1>12. Exit \notin InSteps(b)
    BY <1>1 DEF Path, InSteps, Current
  <1>c. Current(w) = b[k]
    BY DEF Current
  <1> HIDE DEF k, b
  <1>13. Fits(w, s, c, k)
    <2>1. Unasked(w, Given[w], c) = {}
      BY <1>5, <1>11 DEF Fits, Unasked
    <2>2. ASSUME NEW p \in Prop, s[p] # Given[w][p]
          PROVE  \E i \in 1..k : c[i] = p
      <3>1. CASE p = Current(w)
        BY <3>1, <1>1, <1>2, <1>c
      <3>2. CASE p # Current(w)
        <4>1. state[w][p] # Given[w][p]
          BY <2>2, <3>2
        <4>2. PICK i \in 1..at[w] : b[i] = p
          BY <4>1, <1>11 DEF Fits
        <4>3. i \in 1..k
          BY <1>1
        <4> QED BY <4>2, <4>3, <1>2
      <3> QED BY <3>1, <3>2
    <2> QED BY <2>1, <2>2, <1>6, <1>7, <1>11 DEF Fits
  <1>14. ASSUME NEW i \in 1..Len(c), c[i] = Exit PROVE i = k + 1
    <2>1. \A j \in 1..Len(b) : b[j] # Exit
      BY <1>12 DEF InSteps
    <2>2. ~(i <= k)
      <3>1. i <= k => i \in 1..k /\ i \in 1..Len(b)
        BY <1>1
      <3>2. i <= k => c[i] = b[i]
        BY <3>1, <1>2
      <3> QED BY <3>1, <3>2, <1>14, <2>1
    <2>3. ~(i > k + Len(new))
      <3> SUFFICES ASSUME i > k + Len(new) PROVE FALSE
        OBVIOUS
      <3>1. i - Len(new) \in (k + 1)..Len(b) /\ (i - Len(new)) + Len(new) = i
        BY <1>1, <1>2
      <3>2. c[i] = b[i - Len(new)]
        BY <3>1, <1>4
      <3>3. i - Len(new) \in 1..Len(b)
        BY <3>1, <1>1
      <3> QED BY <3>2, <3>3, <1>14, <2>1
    <2>4. i - k \in 1..Len(new) /\ k + (i - k) = i
      BY <2>2, <2>3, <1>1, <1>2
    <2>5. new[i - k] = Exit
      BY <2>4, <1>3, <1>14
    <2> QED BY <2>4, <2>5, <1>1
  <1>15. MachineOK'
    <2>1. ASSUME NEW v \in Wizard
          PROVE  /\ at'[v] <= Len(steps'[v])
                 /\ Len(previous'[v]) = at'[v] + 1 /\ Len(shown'[v]) = at'[v]
                 /\ MarksOK(extra'[v], at'[v])
      <3>1. CASE v # w
        BY <3>1, <1>9 DEF Same, MachineOK
      <3>2. CASE v = w
        <4>1. k <= Len(c) /\ Len(previous'[w]) = k + 1 /\ Len(shown'[w]) = k
          <5>1. k <= Len(c)
            BY <1>1, <1>2
          <5>2. Len(Append(previous[w], state[w])) = Len(previous[w]) + 1
            BY <1>1
          <5>3. Len(Append(shown[w], Before(w))) = Len(shown[w]) + 1
            BY <1>1
          <5>4. Len(shown[w]) + 1 = k
            BY <1>1
          <5> QED BY <5>1, <5>2, <5>3, <5>4, <1>1, <1>9
        <4>2. PICK K \in SUBSET (1..(k - 1)) : extra[w] \in [K -> Seq(Step)]
          BY <1>1 DEF MarksOK
        <4>3. K \in SUBSET (1..k) /\ K \cup {k} \in SUBSET (1..k)
          BY <1>1
        <4>4. Noted(extra[w], k, new) \in [K \cup {k} -> Seq(Step)]
          BY <4>2 DEF Noted
        <4>5. MarksOK(extra'[w], k)
          BY <1>9, <4>2, <4>3, <4>4 DEF MarksOK
        <4> QED BY <3>2, <4>1, <4>5, <1>9
      <3> QED BY <3>1, <3>2
    <2> QED BY <2>1, <1>10 DEF MachineOK
  <1>16. Path(w)'
    <2>1. ASSUME NEW j \in 1..k
          PROVE  /\ previous'[w][j + 1] = shown'[w][j].state
                 /\ j <= Len(shown'[w][j].steps)
                 /\ Exit \notin InSteps(shown'[w][j].steps)
                 /\ Fits(w, shown'[w][j].state, shown'[w][j].steps, j - 1)
                 /\ StepsBefore(w, j + 1)' = Extended(shown'[w][j].steps, j, extra'[w])
      <3>1. CASE j = k
        <4>1. /\ shown'[w][k] = Before(w) /\ previous'[w][k + 1] = state[w]
              /\ k - 1 = at[w] /\ k <= Len(b)
          BY <1>1, <1>9 DEF Before
        <4>2. StepsBefore(w, j + 1)' = c
          <5>1. StepsBefore(w, j + 1)' = IF j + 1 = at'[w] + 1 THEN steps'[w]
                                         ELSE shown'[w][j + 1].steps
            BY DEF StepsBefore
          <5> QED BY <5>1, <1>9, <3>1
        <4>3. Extended(b, k, extra'[w]) = c
          <5>1. CASE new = <<>>
            <6>1. k \notin DOMAIN extra[w]
              BY <1>1 DEF MarksOK
            <6> QED BY <5>1, <6>1, <1>8, <1>9 DEF Extended
          <5>2. CASE new # <<>>
            BY <5>2, <1>9 DEF Extended, Noted, c, b, k
          <5> QED BY <5>1, <5>2
        <4>4. shown'[w][k].state = state[w] /\ shown'[w][k].steps = b
          BY <4>1 DEF Before, b
        <4>5. Fits(w, state[w], b, k - 1)
          BY <4>1, <1>11
        <4>6. Exit \notin InSteps(shown'[w][k].steps)
          BY <4>4, <1>12
        <4>7. Fits(w, shown'[w][k].state, shown'[w][k].steps, k - 1)
          BY <4>4, <4>5
        <4>8. StepsBefore(w, j + 1)' = Extended(shown'[w][k].steps, k, extra'[w])
          BY <4>2, <4>3, <4>4
        <4>9. previous'[w][k + 1] = shown'[w][k].state /\ k <= Len(shown'[w][k].steps)
          BY <4>1, <4>4
        <4> QED BY <3>1, <4>6, <4>7, <4>8, <4>9
      <3>2. CASE j # k
        <4>1. /\ j \in 1..at[w] /\ j + 1 \in 1..k /\ j # k /\ j + 1 # k + 1
          BY <3>2, <1>1
        <4>2. shown'[w][j] = shown[w][j] /\ previous'[w][j + 1] = previous[w][j + 1]
          <5>1. j \in 1..Len(shown[w]) /\ j + 1 \in 1..Len(previous[w])
            BY <4>1, <1>1
          <5>2. Append(shown[w], Before(w))[j] = shown[w][j]
            BY <5>1, <1>1, <1>b
          <5>3. Append(previous[w], state[w])[j + 1] = previous[w][j + 1]
            BY <5>1, <1>1
          <5> QED BY <5>2, <5>3, <1>9
        <4>3. StepsBefore(w, j + 1)' = StepsBefore(w, j + 1)
          <5>1. StepsBefore(w, j + 1)' = shown'[w][j + 1].steps
            BY <4>1, <1>9 DEF StepsBefore
          <5>2. CASE j + 1 = k
            <6>1. shown'[w][k] = Before(w)
              BY <1>1, <1>9 DEF Before
            <6> QED BY <5>1, <5>2, <6>1, <1>1 DEF StepsBefore, Before
          <5>3. CASE j + 1 # k
            <6>1. j + 1 \in 1..at[w]
              BY <5>3, <4>1, <1>1
            <6>2. shown'[w][j + 1] = shown[w][j + 1]
              BY <6>1, <1>1, <1>9
            <6> QED BY <5>1, <5>3, <6>2, <1>1 DEF StepsBefore
          <5> QED BY <5>2, <5>3
        <4>4. Extended(shown[w][j].steps, j, extra'[w]) = Extended(shown[w][j].steps, j, extra[w])
          BY <4>1, <1>9 DEF Extended, Noted
        <4> QED BY <4>1, <4>2, <4>3, <4>4 DEF Path
      <3> QED BY <3>1, <3>2
    <2> QED BY <2>1, <1>9, <1>13, <1>14 DEF Path
  <1> QED BY <1>9, <1>15, <1>16

\* A step that is taken back.
LEMMA RollbackKeeps ==
    ASSUME MachineOK, NEW w \in Wizard, Path(w), at[w] # 0, RollbackState(w)
    PROVE  /\ MachineOK' /\ Path(w)' /\ \A v \in Wizard \ {w} : Same(v)
           /\ at'[w] = at[w] - 1
           /\ state'[w] = shown[w][at[w]].state
           /\ steps'[w] = shown[w][at[w]].steps
  <1> DEFINE k == at[w]
             b == shown[w][k].steps
             q == previous[w]
             h == shown[w]
  <1>t. /\ steps[w] \in Seq(Step) /\ k \in Nat /\ q \in Seq(States)
        /\ h \in Seq([state : States, steps : Seq(Step)])
        /\ Len(q) = k + 1 /\ Len(h) = k /\ MarksOK(extra[w], k)
    BY DEF MachineOK
  <1>k. k \in 1..k /\ k - 1 \in Nat /\ k - 1 \in 0..k /\ (k - 1) + 1 = k
    BY <1>t
  <1>h. h[k] \in [state : States, steps : Seq(Step)]
    <2>1. k \in 1..Len(h)
      BY <1>t, <1>k
    <2> QED BY <2>1, <1>t, ElementOfSeq
  <1>b. b \in Seq(Step) /\ h[k].state \in States
    BY <1>h
  <1>p. \A j \in 1..k :
          /\ previous[w][j + 1] = shown[w][j].state
          /\ j <= Len(shown[w][j].steps)
          /\ Exit \notin InSteps(shown[w][j].steps)
          /\ Fits(w, shown[w][j].state, shown[w][j].steps, j - 1)
          /\ StepsBefore(w, j + 1) = Extended(shown[w][j].steps, j, extra[w])
    BY DEF Path
  <1>1. /\ q[k + 1] = h[k].state /\ k <= Len(b) /\ Exit \notin InSteps(b)
        /\ Fits(w, h[k].state, b, k - 1)
        /\ steps[w] = Extended(b, k, extra[w])
    BY <1>p, <1>k DEF StepsBefore
  <1>2. k \in 0..Len(b) /\ k - 1 <= Len(b)
    BY <1>1, <1>t, <1>b
  <1>e. PICK K \in SUBSET (1..k) : extra[w] \in [K -> Seq(Step)]
    BY <1>t DEF MarksOK
  <1>r. /\ steps' = IF k \in DOMAIN extra[w]
                    THEN [steps EXCEPT ![w] = Remove(@, k, Len(extra[w][k]))] ELSE steps
        /\ state' = [state EXCEPT ![w] = q[Len(q)]]
        /\ previous' = [previous EXCEPT ![w] = SubSeq(@, 1, Len(@) - 1)]
        /\ at' = [at EXCEPT ![w] = k - 1]
        /\ direction' = [direction EXCEPT ![w] = "Backward"]
        /\ shown' = [shown EXCEPT ![w] = SubSeq(@, 1, Len(@) - 1)]
        /\ extra' = [extra EXCEPT ![w] = Forgotten(@, k)]
    BY DEF RollbackState
  <1>3. /\ steps' \in [Wizard -> Seq(Step)] /\ steps'[w] = b
        /\ \A v \in Wizard \ {w} : steps'[v] = steps[v]
    <2>1. steps \in [Wizard -> Seq(Step)]
      BY DEF MachineOK
    <2>2. CASE k \in DOMAIN extra[w]
      <3>1. extra[w][k] \in Seq(Step) /\ steps[w] = Insert(b, k, extra[w][k])
        BY <2>2, <1>e, <1>1 DEF Extended
      <3>2. Remove(steps[w], k, Len(extra[w][k])) = b
        BY <3>1, <1>b, <1>2, RemoveInserted
      <3>3. steps' = [steps EXCEPT ![w] = b]
        BY <3>2, <2>2, <1>r
      <3> QED BY <3>3, <2>1, <1>b
    <2>3. CASE k \notin DOMAIN extra[w]
      BY <2>1, <2>3, <1>r, <1>1 DEF Extended
    <2> QED BY <2>2, <2>3
  <1>4. /\ state'[w] = h[k].state /\ at'[w] = k - 1
        /\ previous'[w] = SubSeq(q, 1, k) /\ shown'[w] = SubSeq(h, 1, k - 1)
        /\ extra'[w] = Forgotten(extra[w], k)
        /\ \A v \in Wizard \ {w} : Same(v)
    <2>1. Len(q) = k + 1 /\ Len(q) - 1 = k /\ Len(h) - 1 = k - 1
      BY <1>t
    <2> QED BY <2>1, <1>r, <1>1, <1>3 DEF MachineOK, Same
  <1>5. /\ SubSeq(q, 1, k) \in Seq(States) /\ Len(SubSeq(q, 1, k)) = k
        /\ \A i \in 1..k : SubSeq(q, 1, k)[i] = q[i]
    <2>1. k \in 0..Len(q)
      BY <1>t
    <2> QED BY <2>1, <1>t, FirstPart
  <1>6. /\ SubSeq(h, 1, k - 1) \in Seq([state : States, steps : Seq(Step)])
        /\ Len(SubSeq(h, 1, k - 1)) = k - 1
        /\ \A i \in 1..(k - 1) : SubSeq(h, 1, k - 1)[i] = h[i]
    <2>1. k - 1 \in 0..k /\ Len(h) = k
      BY <1>t, <1>k, Zenon
    <2>2. k - 1 \in 0..Len(h)
      BY <2>1, Zenon
    <2> QED BY ZenonT(60), <2>2, <1>t, FirstPart
  <1>7. /\ state' \in [Wizard -> States] /\ at' \in [Wizard -> Nat]
        /\ direction' \in [Wizard -> {"Forward", "Backward"}]
        /\ extra' = [v \in Wizard |-> extra'[v]]
    BY <1>r, <1>1, <1>b, <1>k, <1>t DEF MachineOK
  <1>8. /\ previous' \in [Wizard -> Seq(States)]
        /\ shown' \in [Wizard -> Seq([state : States, steps : Seq(Step)])]
    <2>1. /\ previous' = [previous EXCEPT ![w] = SubSeq(q, 1, k)]
          /\ shown' = [shown EXCEPT ![w] = SubSeq(h, 1, k - 1)]
      <3>1. Len(q) - 1 = k /\ Len(h) - 1 = k - 1
        BY <1>t
      <3> QED BY <3>1, <1>r
    <2> QED BY <2>1, <1>5, <1>6 DEF MachineOK
  <1>9. MachineOK'
    <2>1. ASSUME NEW v \in Wizard
          PROVE  /\ at'[v] <= Len(steps'[v])
                 /\ Len(previous'[v]) = at'[v] + 1 /\ Len(shown'[v]) = at'[v]
                 /\ MarksOK(extra'[v], at'[v])
      <3>1. CASE v # w
        BY <3>1, <1>4 DEF Same, MachineOK
      <3>2. CASE v = w
        <4>1. MarksOK(extra'[w], k - 1)
          <5>1. K \ {k} \in SUBSET (1..(k - 1))
            <6>1. k \in Nat
              BY <1>t
            <6> HIDE DEF k
            <6>2. \A i \in 1..k : i # k => i \in 1..(k - 1)
              BY <6>1
            <6> QED BY <6>2
          <5>2. Forgotten(extra[w], k) \in [K \ {k} -> Seq(Step)]
            BY <1>e DEF Forgotten
          <5> QED BY <5>1, <5>2, <1>4 DEF MarksOK
        <4> QED BY <3>2, <4>1, <1>2, <1>3, <1>4, <1>5, <1>6, <1>k
      <3> QED BY <3>1, <3>2
    <2> QED BY <2>1, <1>3, <1>7, <1>8 DEF MachineOK
  <1>10. ASSUME NEW j \in 1..(k - 1)
         PROVE  /\ previous'[w][j + 1] = shown'[w][j].state
                /\ j <= Len(shown'[w][j].steps)
                /\ Exit \notin InSteps(shown'[w][j].steps)
                /\ Fits(w, shown'[w][j].state, shown'[w][j].steps, j - 1)
                /\ StepsBefore(w, j + 1)' = Extended(shown'[w][j].steps, j, extra'[w])
    <2>1. j \in 1..k /\ j + 1 \in 1..k /\ j # k /\ j + 1 # k + 1
      <3>1. k \in Nat /\ j \in 1..(k - 1)
        BY <1>t
      <3> HIDE DEF k
      <3> QED BY <3>1
    <2>2. shown'[w][j] = h[j] /\ previous'[w][j + 1] = q[j + 1]
      BY <2>1, <1>4, <1>5, <1>6
    <2>3. StepsBefore(w, j + 1) = h[j + 1].steps
      BY <2>1 DEF StepsBefore
    <2>4. StepsBefore(w, j + 1)' = IF j + 1 = at'[w] + 1 THEN steps'[w]
                                   ELSE shown'[w][j + 1].steps
      BY DEF StepsBefore
    <2>5. StepsBefore(w, j + 1)' = h[j + 1].steps
      <3>1. CASE j + 1 = k
        BY <3>1, <2>4, <1>3, <1>4, <1>k
      <3>2. CASE j + 1 # k
        <4>1. j + 1 \in 1..(k - 1) /\ j + 1 # (k - 1) + 1
          <5>1. k \in Nat /\ j \in 1..(k - 1) /\ j + 1 # k
            BY <3>2, <1>t
          <5> HIDE DEF k
          <5> QED BY <5>1
        <4> QED BY <4>1, <2>4, <1>4, <1>6
      <3> QED BY <3>1, <3>2
    <2>6. Extended(h[j].steps, j, extra'[w]) = Extended(h[j].steps, j, extra[w])
      BY <2>1, <1>4 DEF Extended, Forgotten
    <2>7. /\ previous[w][j + 1] = h[j].state /\ j <= Len(h[j].steps)
          /\ Exit \notin InSteps(h[j].steps)
          /\ Fits(w, h[j].state, h[j].steps, j - 1)
          /\ StepsBefore(w, j + 1) = Extended(h[j].steps, j, extra[w])
      BY <2>1, <1>p
    <2> HIDE DEF h, q
    <2> QED BY <2>2, <2>3, <2>5, <2>6, <2>7 DEF q
  <1>11. Path(w)'
    <2>1. \A i \in 1..Len(steps'[w]) : steps'[w][i] # Exit
      BY <1>1, <1>3 DEF InSteps
    <2>2. Fits(w, state'[w], steps'[w], at'[w])
      BY <1>1, <1>3, <1>4
    <2> QED BY <2>1, <2>2, <1>10, <1>4 DEF Path
  <1> QED BY <1>3, <1>4, <1>9, <1>11

-----------------------------------------------------------------------------
(* What each kind of step does to the wizard it is a step of *)

\* The steps that are added are those that were missing.
LEMMA MissingSteps ==
    ASSUME NEW w \in Wizard, NEW s, NEW b \in Seq(Step)
    PROVE  LET new == InOrder(Unasked(w, s, b)) IN
           /\ new \in Seq(Step) /\ Once(new)
           /\ InSteps(new) = Unasked(w, s, b) /\ Exit \notin InSteps(new)
           /\ InSteps(b) \cap InSteps(new) = {}
  <1> DEFINE P == Unasked(w, s, b)
             new == InOrder(P)
  <1>1. P \in SUBSET Prop
    BY FormAssumption DEF Unasked
  <1>2. P \cap InSteps(b) = {}
    BY DEF Unasked
  <1> HIDE DEF P
  <1>3. new \in Seq(P) /\ P = {new[i] : i \in 1..Len(new)} /\ Once(new)
    BY <1>1, OrderAssumption DEF Once
  <1>4. InSteps(new) = P
    BY <1>3 DEF InSteps
  <1>5. new \in Seq(Step)
    <2>1. P \subseteq Step
      BY <1>1 DEF Step
    <2> QED BY <2>1, <1>3
  <1>6. Exit \notin P
    BY <1>1, NamesAssumption
  <1> QED BY <1>2, <1>3, <1>4, <1>5, <1>6 DEF P

LEMMA NothingMissing == InOrder({}) = <<>>
  <1>1. InOrder({}) \in Seq({}) /\ {} = {InOrder({})[i] : i \in 1..Len(InOrder({}))}
    BY OrderAssumption
  <1>2. Len(InOrder({})) = 0
    <2>1. Len(InOrder({})) \in Nat
      BY <1>1
    <2>2. Len(InOrder({})) # 0 => 1 \in 1..Len(InOrder({}))
      BY <2>1
    <2> QED BY <1>1, <2>2
  <1> QED BY <1>1, <1>2

\* A step that is passed with an answer, or with none.
LEMMA PassMoves ==
    ASSUME MachineOK, NEW w \in Wizard, Path(w), at[w] < Len(steps[w]),
           Current(w) \in Prop, NEW s \in States, Pass(w, s),
           \A p \in Prop : s[p] # state[w][p] => p = Current(w)
    PROVE  Moved(w)
  <1> DEFINE b == steps[w]
             k == at[w] + 1
             new == InOrder(Unasked(w, s, b))
  <1>1. b \in Seq(Step) /\ at[w] \in Nat /\ k \in 0..Len(b) /\ at'[w] = k
    BY DEF MachineOK, Pass, Advance
  <1>2. /\ new \in Seq(Step) /\ Once(new) /\ InSteps(new) = Unasked(w, s, b)
        /\ Exit \notin InSteps(new) /\ InSteps(b) \cap InSteps(new) = {}
    BY <1>1, MissingSteps
  <1>3. Unasked(w, s, Insert(b, k, new)) = {}
    <2>1. /\ InSteps(b) \subseteq InSteps(Insert(b, k, new))
          /\ InSteps(new) \subseteq InSteps(Insert(b, k, new))
      BY <1>1, <1>2, InsertKeeps
    <2> QED BY <2>1, <1>2 DEF Unasked
  <1>4. Advance(w, s, new)
    BY DEF Pass, NextSteps
  <1>5. Current(w) # Exit
    BY NamesAssumption
  <1>6. \A i \in 1..Len(new) : new[i] = Exit => i = 1
    BY <1>2 DEF InSteps
  <1> HIDE DEF new
  <1>7. MachineOK' /\ Path(w)' /\ \A v \in Wizard \ {w} : Same(v)
    BY <1>2, <1>3, <1>4, <1>5, <1>6, AdvanceKeeps
  <1>8. ~(at'[w] < at[w])
    BY <1>1
  <1> QED BY <1>7, <1>8 DEF Moved, Restores

\* A prompt that is dismissed for the exit prompt.
LEMMA DismissMoves ==
    ASSUME MachineOK, NEW w \in Wizard, Path(w), at[w] < Len(steps[w]),
           Current(w) \in Prop, Advance(w, state[w], <<Exit>>)
    PROVE  Moved(w)
  <1> DEFINE b == steps[w]
             k == at[w] + 1
             new == <<Exit>>
  <1>1. /\ b \in Seq(Step) /\ at[w] \in Nat /\ k \in 0..Len(b) /\ k \in 1..Len(b)
        /\ at'[w] = k /\ state[w] \in States
    BY DEF MachineOK, Advance
  <1>2. new \in Seq(Step) /\ Once(new) /\ InSteps(new) = {Exit}
    BY DEF Step, Once, InSteps
  <1>3. Current(w) # Exit /\ Current(w) = b[k]
    BY NamesAssumption DEF Current
  <1>4. Exit \notin InSteps(b)
    BY <1>1, <1>3 DEF Path, InSteps
  <1>5. Fits(w, state[w], b, at[w])
    BY <1>1 DEF Path
  <1>6. Unasked(w, state[w], Insert(b, k, new)) = {}
    <2>1. InSteps(b) \subseteq InSteps(Insert(b, k, new))
      BY <1>1, <1>2, InsertKeeps
    <2> QED BY <2>1, <1>5 DEF Unasked, Fits
  <1>7. \A i \in 1..Len(new) : new[i] = Exit => i = 1
    OBVIOUS
  <1>8. InSteps(b) \cap InSteps(new) = {}
    BY <1>2, <1>4
  <1> HIDE DEF new
  <1>9. Advance(w, state[w], new)
    BY DEF new
  <1>10. MachineOK' /\ Path(w)' /\ \A v \in Wizard \ {w} : Same(v)
    BY <1>1, <1>2, <1>3, <1>6, <1>7, <1>8, <1>9, AdvanceKeeps
  <1>11. ~(at'[w] < at[w])
    BY <1>1
  <1> QED BY <1>10, <1>11 DEF Moved, Restores

\* A wizard to which nothing happens, in a step that does not run it.
LEMMA SamePath ==
    ASSUME NEW v \in Wizard, Path(v), Same(v),
           phase[v] # "idle" \/ phase'[v] = "idle"
    PROVE  Path(v)'
  BY DEF Path, Same, StepsBefore

LEMMA RollbackMoves ==
    ASSUME MachineOK, NEW w \in Wizard, Path(w), phase[w] # "idle", Rollback(w)
    PROVE  Moved(w)
  <1>1. CASE at[w] = 0
    <2>1. UNCHANGED machine
      BY <1>1 DEF Rollback
    <2>2. MachineOK' /\ \A v \in Wizard : Same(v)
      BY <2>1 DEF MachineOK, machine, Same
    <2>3. Path(w)'
      BY <2>2, SamePath
    <2>4. at[w] \in Nat /\ at'[w] = at[w]
      BY <2>2 DEF MachineOK, Same
    <2> QED BY <2>2, <2>3, <2>4 DEF Moved, Restores
  <1>2. CASE at[w] # 0
    BY <1>2, RollbackKeeps DEF Rollback, Moved, Restores
  <1> QED BY <1>1, <1>2

\* A run that begins, for the first time or again.
LEMMA BeginMoves ==
    ASSUME MachineOK, NEW w \in Wizard, Path(w),
           steps' = [steps EXCEPT ![w] = FirstSteps(w)],
           UNCHANGED <<state, previous, extra, at, direction, shown>>
    PROVE  Moved(w)
  <1>1. /\ steps[w] \in Seq(Step) /\ at[w] \in Nat /\ at[w] <= Len(steps[w])
        /\ steps \in [Wizard -> Seq(Step)]
    BY DEF MachineOK
  <1>2. CASE Fits(w, state[w], steps[w], at[w])
    <2>1. FirstSteps(w) = steps[w]
      BY <1>1, <1>2, NothingMissing DEF FirstSteps, Fits
    <2>2. steps' = steps
      BY <2>1, <1>1
    <2>3. MachineOK' /\ \A v \in Wizard : Same(v)
      BY <2>2 DEF MachineOK, Same
    <2>4. Path(w)'
      BY <1>2, <2>3 DEF Path, Same, StepsBefore
    <2>5. at'[w] = at[w]
      OBVIOUS
    <2> QED BY <2>3, <2>4, <2>5, <1>1 DEF Moved, Restores
  <1>3. CASE steps[w] = <<>> /\ state[w] = Given[w]
    <2> DEFINE new == InOrder(Unasked(w, Given[w], <<>>))
    <2>1. /\ new \in Seq(Step) /\ Once(new)
          /\ InSteps(new) = Unasked(w, Given[w], <<>>) /\ Exit \notin InSteps(new)
      <3>1. <<>> \in Seq(Step)
        OBVIOUS
      <3> QED BY <3>1, MissingSteps
    <2>2. FirstSteps(w) = new
      BY <1>3, <2>1 DEF FirstSteps
    <2> HIDE DEF new
    <2>3. at[w] = 0
      BY <1>1, <1>3
    <2>4. Unasked(w, Given[w], new) = {}
      <3>1. InSteps(<<>>) = {}
        BY DEF InSteps
      <3> QED BY <2>1, <3>1 DEF Unasked
    <2>5. steps' \in [Wizard -> Seq(Step)] /\ steps'[w] = new
      BY <1>1, <2>1, <2>2
    <2>6. MachineOK'
      <3>1. ASSUME NEW v \in Wizard PROVE at[v] <= Len(steps'[v])
        <4>1. CASE v = w
          BY <4>1, <2>1, <2>3, <2>5
        <4>2. CASE v # w
          BY <4>2 DEF MachineOK
        <4> QED BY <4>1, <4>2
      <3> QED BY <3>1, <2>5 DEF MachineOK
    <2>7. Fits(w, state[w], new, 0)
      BY <1>3, <2>1, <2>4 DEF Fits
    <2>8. Path(w)'
      <3>1. at'[w] = 0 /\ state'[w] = state[w]
        BY <2>3
      <3>2. \A k \in 1..at'[w] : FALSE
        BY <3>1
      <3>3. \A i \in 1..Len(steps'[w]) : steps'[w][i] # Exit
        BY <2>1, <2>5 DEF InSteps
      <3>4. Fits(w, state'[w], steps'[w], at'[w])
        BY <2>5, <2>7, <3>1
      <3> QED BY <3>2, <3>3, <3>4 DEF Path
    <2>9. \A v \in Wizard \ {w} : Same(v)
      BY <1>1 DEF Same
    <2> QED BY <2>3, <2>6, <2>8, <2>9 DEF Moved, Restores
  <1> QED BY <1>2, <1>3 DEF Path

-----------------------------------------------------------------------------
(* The invariant is inductive *)

\* One wizard moved; the phases changed as they do then.
LEMMA MovedKeeps ==
    ASSUME Inv, NEW w \in Wizard, Moved(w), PhaseOK',
           \A v \in Wizard : v # w => phase[v] # "idle" \/ phase'[v] = "idle",
           \A v \in Wizard : v # w /\ phase'[v] = "nested" => phase[v] = "nested",
           phase'[w] # "nested"
    PROVE  Inv' /\ \A v \in Wizard : Restores(v)
  <1>1. ASSUME NEW v \in Wizard, v # w PROVE Path(v)' /\ Nesting(v)' /\ Restores(v)
    <2>1. Same(v)
      BY <1>1 DEF Moved
    <2>2. Path(v)'
      BY <1>1, <2>1, SamePath DEF Inv
    <2>3. Nesting(v)'
      BY <1>1, <2>1 DEF Inv, Nesting, Same, Current
    <2>4. at[v] \in Nat
      BY DEF Inv, MachineOK
    <2> QED BY <2>1, <2>2, <2>3, <2>4 DEF Restores, Same
  <1>2. Path(w)' /\ Nesting(w)' /\ Restores(w) /\ MachineOK'
    BY DEF Moved, Nesting
  <1>3. \A v \in Wizard : Path(v)' /\ Nesting(v)' /\ Restores(v)
    BY <1>1, <1>2
  <1> QED BY <1>2, <1>3 DEF Inv

\* The machines stay as they are.
LEMMA StillKeeps ==
    ASSUME Inv, UNCHANGED machine, PhaseOK',
           \A v \in Wizard : phase[v] # "idle" \/ phase'[v] = "idle",
           \A v \in Wizard : phase'[v] = "nested" =>
              at[v] < Len(steps[v]) /\ Current(v) \in Nests
    PROVE  Inv' /\ \A v \in Wizard : Restores(v)
  <1>1. MachineOK' /\ \A v \in Wizard : Same(v)
    BY DEF Inv, MachineOK, machine, Same
  <1>2. \A v \in Wizard : Path(v)'
    BY <1>1, SamePath DEF Inv
  <1>3. \A v \in Wizard : Nesting(v)'
    BY <1>1 DEF Nesting, Same, Current
  <1>4. \A v \in Wizard : at[v] \in Nat /\ at'[v] = at[v]
    BY <1>1 DEF Inv, MachineOK, Same
  <1> QED BY <1>1, <1>2, <1>3, <1>4 DEF Inv, Restores

LEMMA InitInv == Init => Inv
  <1> SUFFICES ASSUME Init PROVE Inv
    OBVIOUS
  <1>1. MachineOK
    <2>1. <<>> \in Seq(Step) /\ <<>> \in Seq([state : States, steps : Seq(Step)])
      OBVIOUS
    <2>2. ASSUME NEW w \in Wizard PROVE <<Given[w]>> \in Seq(States)
      BY FormAssumption
    <2>3. ASSUME NEW w \in Wizard PROVE MarksOK(extra[w], at[w])
      <3>1. <<>> \in [{} -> Seq(Step)]
        OBVIOUS
      <3> QED BY <3>1 DEF Init, MarksOK
    <2>4. /\ state \in [Wizard -> States] /\ previous \in [Wizard -> Seq(States)]
          /\ steps \in [Wizard -> Seq(Step)] /\ at \in [Wizard -> Nat]
      BY <2>1, <2>2, FormAssumption DEF Init
    <2>5. /\ direction \in [Wizard -> {"Forward", "Backward"}]
          /\ extra = [w \in Wizard |-> extra[w]]
          /\ shown \in [Wizard -> Seq([state : States, steps : Seq(Step)])]
      BY <2>1 DEF Init
    <2>6. ASSUME NEW w \in Wizard
          PROVE  /\ at[w] <= Len(steps[w])
                 /\ Len(previous[w]) = at[w] + 1 /\ Len(shown[w]) = at[w]
      BY DEF Init
    <2> QED BY <2>3, <2>4, <2>5, <2>6 DEF MachineOK
  <1>2. PhaseOK
    BY DEF Init, PhaseOK
  <1>3. ASSUME NEW w \in Wizard PROVE Path(w) /\ Nesting(w)
    <2>1. /\ at[w] = 0 /\ steps[w] = <<>> /\ state[w] = Given[w] /\ phase[w] = "idle"
      BY DEF Init
    <2>2. \A k \in 1..at[w] : FALSE
      BY <2>1
    <2>3. \A i \in 1..Len(steps[w]) : FALSE
      BY <2>1
    <2> QED BY <2>1, <2>2, <2>3 DEF Path, Nesting
  <1> QED BY <1>1, <1>2, <1>3 DEF Inv

LEMMA NextKeeps ==
    ASSUME Inv, [Next]_vars
    PROVE  Inv' /\ \A v \in Wizard : Restores(v)
  <1>i. MachineOK /\ PhaseOK /\ \A w \in Wizard : Path(w) /\ Nesting(w)
    BY DEF Inv
  <1>a. \A w \in Wizard, x \in {"idle", "asking", "nested"} \cup Ended :
           [phase EXCEPT ![w] = x] \in [Wizard -> {"idle", "asking", "nested"} \cup Ended]
    BY <1>i DEF PhaseOK
  <1>b. \A w \in Wizard : AfterBack(w) \in {"undefined", "asking"}
    BY DEF AfterBack
  <1>e. "undefined" \in Ended /\ "idle" \notin Ended /\ "nested" \notin Ended
    BY DEF Ended
  <1>1. CASE Start
    <2>1. phase' = [phase EXCEPT ![Root] = "asking"] /\ phase[Root] = "idle"
      BY <1>1 DEF Start
    <2>2. Moved(Root)
      BY <1>1, <1>i, RootAssumption, BeginMoves DEF Start
    <2>3. PhaseOK'
      BY <2>1, <1>a, RootAssumption DEF PhaseOK
    <2> QED BY <2>1, <2>2, <2>3, <1>i, RootAssumption, MovedKeeps DEF PhaseOK
  <1>2. ASSUME NEW w \in Wizard, Respond(w) PROVE Inv' /\ \A v \in Wizard : Restores(v)
    <2>1. /\ phase[w] = "asking" /\ at[w] < Len(steps[w]) /\ Current(w) \in Prop
          /\ phase' = phase
      BY <1>2 DEF Respond, Prompting, Asking
    <2>2. PICK a \in Offers[Current(w)] : Pass(w, [state[w] EXCEPT ![Current(w)] = a])
      BY <1>2 DEF Respond
    <2>3. [state[w] EXCEPT ![Current(w)] = a] \in States
      <3>1. state[w] \in States /\ a \in Answer
        BY <1>i, <2>1, FormAssumption DEF MachineOK
      <3> QED BY <3>1 DEF States
    <2>4. \A p \in Prop :
             [state[w] EXCEPT ![Current(w)] = a][p] # state[w][p] => p = Current(w)
      <3>1. state[w] \in States
        BY <1>i DEF MachineOK
      <3> QED BY <3>1 DEF States
    <2>5. Moved(w)
      BY <1>i, <2>1, <2>2, <2>3, <2>4, PassMoves
    <2>6. PhaseOK'
      BY <1>i, <2>1 DEF PhaseOK
    <2> QED BY <2>1, <2>5, <2>6, MovedKeeps
  <1>3. ASSUME NEW w \in Wizard, PressBack(w) PROVE Inv' /\ \A v \in Wizard : Restores(v)
    <2>1. /\ phase[w] = "asking" /\ Rollback(w)
          /\ phase' = [phase EXCEPT ![w] = AfterBack(w)]
      BY <1>3 DEF PressBack, Prompting, Asking
    <2>2. Moved(w)
      BY <1>i, <2>1, RollbackMoves
    <2>3. PhaseOK'
      BY <2>1, <1>a, <1>b, <1>e DEF PhaseOK
    <2> QED BY <2>1, <2>2, <2>3, <1>b, <1>i, MovedKeeps DEF PhaseOK
  <1>4. ASSUME NEW w \in Wizard, Dismiss(w) PROVE Inv' /\ \A v \in Wizard : Restores(v)
    <2>1. phase[w] = "asking" /\ at[w] < Len(steps[w]) /\ Current(w) \in Prop
      BY <1>4 DEF Dismiss, Prompting, Asking
    <2>2. CASE w \in Confirms
      <3>1. Advance(w, state[w], <<Exit>>) /\ phase' = phase
        BY <1>4, <2>2 DEF Dismiss
      <3>2. Moved(w)
        BY <1>i, <2>1, <3>1, DismissMoves
      <3>3. PhaseOK'
        BY <1>i, <3>1 DEF PhaseOK
      <3> QED BY <2>1, <3>1, <3>2, <3>3, MovedKeeps
    <2>3. CASE w \notin Confirms
      <3>1. UNCHANGED machine /\ phase' = [phase EXCEPT ![w] = "undefined"]
        BY <1>4, <2>3 DEF Dismiss
      <3>2. PhaseOK'
        BY <3>1, <1>a, <1>e DEF PhaseOK
      <3> QED BY <2>1, <3>1, <3>2, <1>i, StillKeeps DEF PhaseOK, Nesting
    <2> QED BY <2>2, <2>3
  <1>5. ASSUME NEW w \in Wizard, ConfirmExit(w) PROVE Inv' /\ \A v \in Wizard : Restores(v)
    <2>1. /\ phase[w] = "asking" /\ UNCHANGED machine
          /\ phase' = [phase EXCEPT ![w] = "undefined"]
      BY <1>5 DEF ConfirmExit, Asking
    <2>2. PhaseOK'
      BY <2>1, <1>a, <1>e DEF PhaseOK
    <2> QED BY <2>1, <2>2, <1>i, StillKeeps DEF PhaseOK, Nesting
  <1>6. ASSUME NEW w \in Wizard, DeclineExit(w) PROVE Inv' /\ \A v \in Wizard : Restores(v)
    <2>1. /\ phase[w] = "asking" /\ Rollback(w)
          /\ phase' = [phase EXCEPT ![w] = AfterBack(w)]
      BY <1>6 DEF DeclineExit, Asking
    <2>2. Moved(w)
      BY <1>i, <2>1, RollbackMoves
    <2>3. PhaseOK'
      BY <2>1, <1>a, <1>b, <1>e DEF PhaseOK
    <2> QED BY <2>1, <2>2, <2>3, <1>b, <1>i, MovedKeeps DEF PhaseOK
  <1>7. ASSUME NEW w \in Wizard, Skip(w) PROVE Inv' /\ \A v \in Wizard : Restores(v)
    <2>1. phase[w] = "asking" /\ at[w] < Len(steps[w]) /\ Current(w) \in Prop
      BY <1>7, FormAssumption DEF Skip, Asking
    <2>2. CASE direction[w] = "Forward"
      <3>1. Pass(w, state[w]) /\ phase' = phase
        BY <1>7, <2>2 DEF Skip
      <3>2. state[w] \in States
        BY <1>i DEF MachineOK
      <3>3. Moved(w)
        BY <1>i, <2>1, <3>1, <3>2, PassMoves
      <3>4. PhaseOK'
        BY <1>i, <3>1 DEF PhaseOK
      <3> QED BY <2>1, <3>1, <3>3, <3>4, MovedKeeps
    <2>3. CASE direction[w] # "Forward"
      <3>1. Rollback(w) /\ phase' = [phase EXCEPT ![w] = AfterBack(w)]
        BY <1>7, <2>3 DEF Skip
      <3>2. Moved(w)
        BY <1>i, <2>1, <3>1, RollbackMoves
      <3>3. PhaseOK'
        BY <3>1, <1>a, <1>b, <1>e DEF PhaseOK
      <3> QED BY <2>1, <3>1, <3>2, <3>3, <1>b, <1>i, MovedKeeps DEF PhaseOK
    <2> QED BY <2>2, <2>3
  <1>8. ASSUME NEW w \in Wizard, Enter(w) PROVE Inv' /\ \A v \in Wizard : Restores(v)
    <2>0. PICK c : c = Child(Current(w), state[w])
      OBVIOUS
    <2>1. /\ phase[w] = "asking" /\ at[w] < Len(steps[w]) /\ Current(w) \in Nests
          /\ phase[c] = "idle"
          /\ phase' = [phase EXCEPT ![w] = "nested", ![c] = "asking"]
          /\ steps' = [steps EXCEPT ![c] = FirstSteps(c)]
          /\ UNCHANGED <<state, previous, extra, at, direction, shown>>
      BY <1>8, <2>0 DEF Enter, Asking
    <2>2. w # c
      BY <2>1
    <2>3. /\ PhaseOK' /\ phase'[w] = "nested"
          /\ \A v \in Wizard : v # w /\ v # c => phase'[v] = phase[v]
          /\ c \in Wizard => phase'[c] = "asking"
      BY <2>1, <2>2, <1>i DEF PhaseOK
    <2>4. CASE c \in Wizard
      <3>1. Moved(c)
        BY <1>i, <2>1, <2>4, BeginMoves
      <3>2. ASSUME NEW v \in Wizard, v # c
            PROVE  Path(v)' /\ Nesting(v)' /\ Restores(v)
        <4>1. Same(v)
          BY <3>1, <3>2 DEF Moved
        <4>2. Path(v)'
          BY <4>1, <3>2, <2>1, <2>3, <1>i, SamePath
        <4>3. Nesting(v)'
          <5>1. CASE v = w
            BY <5>1, <4>1, <2>1 DEF Nesting, Same, Current
          <5>2. CASE v # w
            BY <5>2, <4>1, <3>2, <2>3, <1>i DEF Nesting, Same, Current
          <5> QED BY <5>1, <5>2
        <4>4. at[v] \in Nat /\ at'[v] = at[v]
          BY <4>1, <1>i DEF MachineOK, Same
        <4> QED BY <4>2, <4>3, <4>4 DEF Restores
      <3>3. MachineOK' /\ Path(c)' /\ Nesting(c)' /\ Restores(c)
        BY <3>1, <2>3, <2>4 DEF Moved, Nesting
      <3>4. \A v \in Wizard : Path(v)' /\ Nesting(v)' /\ Restores(v)
        BY <3>2, <3>3
      <3> QED BY <3>3, <3>4, <2>3 DEF Inv
    <2>5. CASE c \notin Wizard
      <3>1. steps' = steps
        BY <2>1, <2>5, <1>i DEF MachineOK
      <3>2. UNCHANGED machine
        BY <2>1, <3>1 DEF machine
      <3>3. \A v \in Wizard : v # w => phase'[v] = phase[v]
        BY <2>3, <2>5
      <3>4. \A v \in Wizard : phase[v] # "idle" \/ phase'[v] = "idle"
        BY <3>3, <2>1
      <3>5. \A v \in Wizard : phase'[v] = "nested" =>
               at[v] < Len(steps[v]) /\ Current(v) \in Nests
        BY <3>3, <2>1, <1>i DEF Nesting
      <3> QED BY <3>2, <3>4, <3>5, <2>3, StillKeeps
    <2> QED BY <2>4, <2>5
  <1>9. ASSUME NEW w \in Wizard, Return(w) PROVE Inv' /\ \A v \in Wizard : Restores(v)
    <2> DEFINE c == Child(Current(w), state[w])
               Go(next) == phase' = [phase EXCEPT ![w] = next, ![c] = "idle"]
    <2>1. /\ phase[w] = "nested" /\ phase[c] \in Ended
          /\ at[w] < Len(steps[w]) /\ Current(w) \in Prop
      BY <1>9, <1>i, FormAssumption DEF Return, Ended, Nesting
    <2>2. w # c
      BY <2>1, <1>e
    <2>3. state[w] \in States
      BY <1>i DEF MachineOK
    <2>4. /\ Moved(w)
          /\ \E x \in {"asking", "undefined"} : Go(x)
      <3>1. CASE /\ Pass(w, [state[w] EXCEPT ![Current(w)] = Filled])
                 /\ Go("asking")
        <4>1. [state[w] EXCEPT ![Current(w)] = Filled] \in States
          BY <2>3, NamesAssumption DEF States
        <4>2. \A p \in Prop :
                 [state[w] EXCEPT ![Current(w)] = Filled][p] # state[w][p] => p = Current(w)
          BY <2>3 DEF States
        <4> QED BY <3>1, <4>1, <4>2, <1>i, <2>1, PassMoves
      <3>2. CASE Pass(w, state[w]) /\ Go("asking")
        BY <3>2, <1>i, <2>1, <2>3, PassMoves
      <3>3. CASE Rollback(w) /\ Go(AfterBack(w))
        BY <3>3, <1>b, <1>i, <2>1, RollbackMoves
      <3> QED BY <1>9, <3>1, <3>2, <3>3 DEF Return
    <2>5. PICK x \in {"asking", "undefined"} : Go(x)
      BY <2>4
    <2> HIDE DEF c
    <2>6. /\ PhaseOK' /\ phase'[w] # "nested"
          /\ \A v \in Wizard : v # w => phase'[v] = phase[v] \/ phase'[v] = "idle"
      BY <2>2, <2>5, <1>e, <1>i DEF PhaseOK
    <2>7. \A v \in Wizard : v # w => phase[v] # "idle" \/ phase'[v] = "idle"
      BY <2>6
    <2>8. \A v \in Wizard : v # w /\ phase'[v] = "nested" => phase[v] = "nested"
      BY <2>6
    <2> QED BY <2>4, <2>6, <2>7, <2>8, MovedKeeps
  <1>10. ASSUME NEW w \in Wizard, Finish(w) PROVE Inv' /\ \A v \in Wizard : Restores(v)
    <2>1. /\ phase[w] = "asking" /\ Rollback(w)
          /\ \E x \in {"skipped", "done"} : phase' = [phase EXCEPT ![w] = x]
      BY <1>10 DEF Finish
    <2>2. Moved(w)
      BY <1>i, <2>1, RollbackMoves
    <2>3. PhaseOK'
      BY <2>1, <1>a DEF PhaseOK, Ended
    <2> QED BY <2>1, <2>2, <2>3, <1>i, MovedKeeps DEF PhaseOK
  <1>11. CASE UNCHANGED vars
    <2>1. UNCHANGED machine /\ phase' = phase
      BY <1>11 DEF vars, machine
    <2>2. PhaseOK'
      BY <2>1, <1>i DEF PhaseOK
    <2> QED BY <2>1, <2>2, <1>i, StillKeeps DEF Nesting
  <1> QED
    BY <1>1, <1>2, <1>3, <1>4, <1>5, <1>6, <1>7, <1>8, <1>9, <1>10, <1>11 DEF Next

-----------------------------------------------------------------------------
(* Theorems *)

LEMMA Invariance == Spec => []Inv
  <1>1. Inv /\ [Next]_vars => Inv'
    BY NextKeeps
  <1> QED BY <1>1, InitInv, PTL DEF Spec

\* The types: in particular that a list of steps is never shorter than what has
\* been passed of it, and that the states, the histories and the insertions
\* that are kept are those of the steps passed.
THEOREM TypeCorrect == Spec => []TypeOK
  <1>1. Inv => TypeOK
    <2> SUFFICES ASSUME Inv PROVE TypeOK
      OBVIOUS
    <2>1. DOMAIN extra = Wizard
      BY DEF Inv, MachineOK
    <2> QED BY <2>1 DEF Inv, MachineOK, MarksOK, PhaseOK, TypeOK
  <1> QED BY <1>1, Invariance, PTL

\* A wizard that has been run has a step for all it would have to ask, none
\* twice, and was given its answers at the steps it has passed.
THEOREM StepsAlwaysFit == Spec => []StepsFit
  <1>1. Inv => StepsFit
    BY DEF Inv, Path, StepsFit, Fits, Once
  <1> QED BY <1>1, Invariance, PTL

\* Whatever goes back a step restores the answers and the steps before it.
THEOREM BackAlwaysRestores == Spec => BackRestores
  <1>1. Inv /\ [Next]_vars =>
          [\A w \in Wizard : at'[w] < at[w] =>
             /\ at'[w] = at[w] - 1
             /\ state'[w] = shown[w][at[w]].state
             /\ steps'[w] = shown[w][at[w]].steps]_vars
    BY NextKeeps DEF Restores
  <1> QED BY <1>1, Invariance, PTL DEF Spec, BackRestores

\* detectCycle() never finds anything, so that run() never throws for it: a
\* list without repetition has no other place of the step to come.
THEOREM NeverACycle == Spec => []NoFalseCycle
  <1>1. Inv => NoFalseCycle
    <2> SUFFICES ASSUME Inv, NEW w \in Wizard, phase[w] = "asking",
                        at[w] < Len(steps[w]), Cycle(w)
                 PROVE  FALSE
      BY DEF NoFalseCycle
    <2>1. Once(steps[w]) /\ at[w] + 1 \in 1..Len(steps[w]) /\ Len(steps[w]) \in Nat
      BY DEF Inv, MachineOK, Path, Fits
    <2>2. PICK i \in 1..Len(previous[w]) :
             i # at[w] + 1 /\ i <= Len(steps[w]) /\ steps[w][i] = steps[w][at[w] + 1]
      BY DEF Cycle
    <2>3. i \in 1..Len(steps[w])
      BY <2>1, <2>2
    <2> QED BY <2>1, <2>2, <2>3 DEF Once
  <1> QED BY <1>1, Invariance, PTL
=============================================================================
