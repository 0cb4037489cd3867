------------------------------- MODULE MCList -------------------------------
(* Small lists of two payloads.                                            *)
EXTENDS List, TLC

CONSTANTS d1, d2

MCData == {d1, d2}
MCSymmetry == Permutations(MCData)

\* WithFreeRing is what the loops compute, for arrays that grow, shrink and stay,
\* and used nodes 1..first - 1 linked in order.
ASSUME FreeRingIsLoop ==
    \A capacity \in 1..8, last \in 1..8, first \in 1..9 :
        LET nodes == 0..capacity
            l == [status |-> [n \in nodes |-> IF n = 0 THEN "MASTER" ELSE "ENGAGED"],
                  data |-> [n \in nodes |-> d1],
                  next |-> [n \in nodes |-> (n + 1) % first],
                  prev |-> [n \in nodes |-> (n - 1) % first],
                  free |-> HEAD_ID, size |-> first - 1, capacity |-> capacity]
        IN  first <= capacity + 1 /\ first <= last + 1 =>
                WithFreeRing(l, first, last) = FreeRingLoop(l, first, last)
=============================================================================
