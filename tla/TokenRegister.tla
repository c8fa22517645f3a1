---------------------------- MODULE TokenRegister ----------------------------
(***************************************************************************)
(* What SsoAccessTokenProvider (auth/sso/ssoAccessTokenProvider.ts)        *)
(* promises to the callers of getToken(), in every process: one register   *)
(* with the token of the session.  A token enters it once, and once        *)
(* cleared it never comes back.  A call comes back with the token the      *)
(* register held when it was made, with one stored while it waited, or     *)
(* with nothing: never with a token that was not in the register.          *)
(***************************************************************************)
CONSTANTS Caller, None

VARIABLES
    stored,  \* the token in the register
    used,    \* the tokens that have been in it
    call,    \* call[t]: "idle", "asking" for a token or "holding" one
    got      \* got[t]: what t read or was given, None once that is of no use

Init ==
    /\ stored = None
    /\ used = {}
    /\ call = [t \in Caller |-> "idle"]
    /\ got = [t \in Caller |-> None]

Asking == {t \in Caller : call[t] = "asking"}

\* A call is made, and reads the register.
Ask(t) ==
    /\ call[t] = "idle"
    /\ call' = [call EXCEPT ![t] = "asking"]
    /\ got' = [got EXCEPT ![t] = stored]
    /\ UNCHANGED <<stored, used>>

\* What it read has expired.
Discard(t) ==
    /\ t \in Asking
    /\ got' = [got EXCEPT ![t] = None]
    /\ UNCHANGED <<stored, used, call>>

\* It comes back with what it read.
Return(t) ==
    /\ t \in Asking
    /\ got[t] # None
    /\ call' = [call EXCEPT ![t] = "holding"]
    /\ UNCHANGED <<stored, used, got>>

\* A token is stored for the first time, and the calls of T come back with it.
Store(x, T) ==
    /\ x \notin used \cup {None}
    /\ stored' = x
    /\ used' = used \cup {x}
    /\ call' = [t \in Caller |-> IF t \in T THEN "holding" ELSE call[t]]
    /\ got' = [t \in Caller |-> IF t \in T THEN x ELSE got[t]]

\* The calls of T come back with nothing, or the holders among T are done; the
\* register may be cleared.
Leave(T) ==
    /\ stored' \in {None, stored}
    /\ call' = [t \in Caller |-> IF t \in T THEN "idle" ELSE call[t]]
    /\ got' = [t \in Caller |-> IF t \in T THEN None ELSE got[t]]
    /\ UNCHANGED used

Next ==
    \/ \E t \in Caller : Ask(t) \/ Discard(t) \/ Return(t)
    \/ \E T \in SUBSET Asking : Store(stored', T)
    \/ \E T \in SUBSET Caller : Leave(T)

Spec == Init /\ [][Next]_<<stored, used, call, got>>
=============================================================================
