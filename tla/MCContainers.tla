----------------------------- MODULE MCContainers -----------------------------
(* Containers with three keys in two buckets, two of them with the same    *)
(* wake-up time, one with a negative hash; two items; a buffer that holds  *)
(* just the addresses that removing a key defers.                          *)
EXTENDS Containers, TLC

CONSTANTS k1, k2, k3, v1, v2, run, sleep, queue

MCHash == [k \in {k1, k2, k3} |-> IF k = k1 THEN -1 ELSE IF k = k2 THEN 0 ELSE 2]
MCRank == [k \in {k1, k2, k3} |-> IF k = k1 THEN 2 ELSE 1]
MCNode == {<<k, b>> : k \in {k1, k2, k3}, b \in {"tcb", "link"}}
            \cup {<<v, "item">> : v \in {v1, v2}}
ItemSymmetry == Permutations({v1, v2})
MCList == {0, 1, run, sleep, queue}

=============================================================================
