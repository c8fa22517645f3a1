------------------------------ MODULE SessionDesk ------------------------------
(***************************************************************************)
(* What the session store promises (detached-server/sessionStore.ts): a    *)
(* desk where sessions are left for somebody and picked up.  A session is  *)
(* left for a connection, either for whoever asks first or for one client; *)
(* it is on offer from then until it is given to a client it was left for  *)
(* or withdrawn, and neither is ever undone.  What happens to the sessions *)
(* of one connection leaves those of the others on offer.                  *)
(***************************************************************************)
EXTENDS Naturals, Sequences

CONSTANTS Conn, Client, ConnOf, Key

VARIABLES
    issued,   \* issued[s]: the connection and the key session s was left for
    offer,    \* the sessions that can be picked up
    given     \* given[c]: the session client c was given, 0 before

Init ==
    /\ issued = <<>>
    /\ offer = {}
    /\ given = [c \in Client |-> 0]

Of(n) == {s \in offer : issued[s][1] = n}

\* A new session for n and k; it may replace others of n.
Issue(n, k) ==
    /\ issued' = Append(issued, <<n, k>>)
    /\ \E replaced \in SUBSET Of(n) :
          offer' = (offer \ replaced) \cup {Len(issued) + 1}
    /\ UNCHANGED given

\* Sessions of n are replaced late, have expired, or went down with the server.
Withdraw(n) ==
    /\ \E gone \in SUBSET Of(n) : offer' = offer \ gone
    /\ UNCHANGED <<issued, given>>

Give(c) ==
    /\ given[c] = 0
    /\ \E s \in Of(ConnOf[c]) :
          /\ issued[s][2] \in {"initial", c}
          /\ given' = [given EXCEPT ![c] = s]
          /\ offer' = offer \ {s}
    /\ UNCHANGED issued

Next ==
    \/ \E n \in Conn : Withdraw(n) \/ \E k \in Key : Issue(n, k)
    \/ \E c \in Client : Give(c)

Spec == Init /\ [][Next]_<<issued, offer, given>>
=============================================================================
