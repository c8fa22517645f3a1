---------------------------- MODULE MCSessionStore ----------------------------
(* Instances of SessionStore for TLC. *)
EXTENDS SessionStore, TLC

CONSTANTS n1, n2, c1, c2, c3, c4

\* All clients of one connection, or two of each of two.
ConnSame == [c \in Client |-> n1]
ConnPairs == (c1 :> n1) @@ (c2 :> n1) @@ (c3 :> n2) @@ (c4 :> n2)

\* The clients of one connection are interchangeable.
Clients == Permutations(Client)
=============================================================================
