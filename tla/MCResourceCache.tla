--------------------------- MODULE MCResourceCache ---------------------------
(* Instances of ResourceCache for TLC. *)
EXTENDS ResourceCache, TLC

CONSTANTS w1, w2, c1, c2, c3, k1, k2

\* c1 and c2 are calls of window w1; c3 is made in the other window, if any.
HomeTwo == (c1 :> w1) @@ (c2 :> w1) @@ (c3 :> w2)
HomePair == (c1 :> w1) @@ (c2 :> w2)
HomeOne == [c \in Caller |-> w1]
=============================================================================
