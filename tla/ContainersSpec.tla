---------------------------- MODULE ContainersSpec ----------------------------
(***************************************************************************)
(* What the kernel's containers promise their users: a table is a set of   *)
(* keys, a list a sequence, and an operation on one changes no other.      *)
(***************************************************************************)
EXTENDS Integers, Sequences

CONSTANTS Key, Rank, Item, Pool, Sorted, Queue

VARIABLES
  keys,   \* the keys of the table
  lists   \* the sequence of each list

Without(s, x) == SelectSeq(s, LAMBDA y : y # x)

InsertAt(s, i, x) == SubSeq(s, 1, i) \o <<x>> \o SubSeq(s, i + 1, Len(s))

(* The ways to insert k into s by rank. *)
SortedIn(s, k) ==
  {InsertAt(s, i, k) :
     i \in {i \in 0 .. Len(s) :
              /\ i > 0 => Rank[s[i]] <= Rank[k]
              /\ i < Len(s) => Rank[k] <= Rank[s[i + 1]]}}

(* The lists after k has moved from l to the end of m, or to its place in  *)
(* the sorted list.                                                        *)
Moved(L, k, l, m) ==
  LET out == [L EXCEPT ![l] = Without(@, k)]
  IN  IF m # Sorted THEN {[out EXCEPT ![m] = Append(@, k)]}
                    ELSE {[out EXCEPT ![m] = s] : s \in SortedIn(out[m], k)}

Moves(L) ==
  UNION {UNION {Moved(L, L[l][i], l, m) : i \in 1 .. Len(L[l])} : l, m \in Pool}

Rotations(L) ==
  {[L EXCEPT ![l] = Append(Tail(@), Head(@))] : l \in {l \in Pool : L[l] # <<>>}}

(* What enqueueing, pushing, taking from either end and clearing leave. *)
QueueUses(q) ==
  {<<>>} \cup {Append(q, v) : v \in Item} \cup {<<v>> \o q : v \in Item}
    \cup IF q = <<>> THEN {} ELSE {Tail(q), SubSeq(q, 1, Len(q) - 1)}

Init ==
  /\ keys = {}
  /\ lists = [l \in Pool \cup {Queue} |-> <<>>]

(* From keys K and lists L to keys K2 and lists L2. *)
Insert(K, L, K2, L2) ==
  \E k \in Key \ K :
    /\ K2 = K \cup {k}
    /\ L2 \in {L} \cup {[L EXCEPT ![l] = Append(@, k)] : l \in Pool \ {Sorted}}

Delete(K, L, K2, L2) ==
  \E k \in K :
    /\ K2 = K \ {k}
    /\ L2 = [l \in DOMAIN L |-> IF l = Queue THEN L[l] ELSE Without(L[l], k)]

Rearrange(K, L, K2, L2) ==
  /\ K2 = K
  /\ L2 \in Moves(L) \cup Rotations(L)
              \cup {[L EXCEPT ![Queue] = q] : q \in QueueUses(L[Queue])}

Next ==
  \E K \in {keys}, L \in {lists}, K2 \in {keys'}, L2 \in {lists'} :
    Insert(K, L, K2, L2) \/ Delete(K, L, K2, L2) \/ Rearrange(K, L, K2, L2)

Spec == Init /\ [][Next]_<<keys, lists>>
=============================================================================
