------------------------------ MODULE LinkedList ------------------------------
(***************************************************************************)
(* The doubly linked list of kern/data_structures/ll.c, at the level of    *)
(* its pointers.  A heap h is a record: next, prev and e of every node,    *)
(* head, tail and size of every list, and the set of freed blocks.  The    *)
(* operations take the heap they find and return the heap they leave; what *)
(* is in a freed block is Junk.                                            *)
(***************************************************************************)
EXTENDS Integers, Sequences, FiniteSets

CONSTANTS
  Node,  \* the blocks that are list nodes
  List,  \* the lists
  NULL,  \* the null pointer
  Junk   \* what is in a block that is not allocated

ASSUME NullAssumption == NULL \notin Node /\ Junk \notin Node

(* *p = v, for a pointer that may be null and then is not followed. *)
Store(f, p, v) == IF p = NULL THEN f ELSE [f EXCEPT ![p] = v]

ll_init(h, l) == [h EXCEPT !.size[l] = 0, !.head[l] = NULL, !.tail[l] = NULL]

ll_node_init(h, n, data) ==
  [h EXCEPT !.prev[n] = NULL, !.next[n] = NULL, !.e[n] = data, !.freed = @ \ {n}]

FreeNode(h, n) ==
  [h EXCEPT !.prev[n] = Junk, !.next[n] = Junk, !.e[n] = Junk,
            !.freed = @ \cup {n}]

(* The i-th pointer that a reader of l meets. *)
At(h, l, i) ==
  LET after == [p \in Node \cup {NULL, Junk} |-> IF p \in Node THEN h.next[p] ELSE NULL]
      at[j \in 1 .. i] == IF j = 1 THEN h.head[l] ELSE after[at[j - 1]]
  IN  at[i]

(* The nodes of l from its head on, and what ll_foreach is applied to: a   *)
(* reader stops at a null pointer, which comes after as many nodes as the  *)
(* size says while the list is sound.                                      *)
Walk(h, l) == [i \in 1 .. h.size[l] |-> At(h, l, i)]

ll_foreach(h, l) == [i \in 1 .. h.size[l] |-> h.e[At(h, l, i)]]

ListNodes(h, l) == {At(h, l, i) : i \in 1 .. h.size[l]}

ll_size(h, l) == h.size[l]

ll_peek(h, l) == h.e[h.head[l]]

ll_link_node_last(h, l, n) ==
  LET empty == h.head[l] = NULL
  IN  [h EXCEPT !.head[l] = IF empty THEN n ELSE @,
                !.tail[l] = n,
                !.next = IF empty THEN @ ELSE [@ EXCEPT ![h.tail[l]] = n],
                !.prev = IF empty THEN @ ELSE [@ EXCEPT ![n] = h.tail[l]],
                !.size[l] = @ + 1]

ll_link_node_first(h, l, n) ==
  LET empty == h.head[l] = NULL
  IN  [h EXCEPT !.head[l] = n,
                !.tail[l] = IF empty THEN n ELSE @,
                !.prev = IF empty THEN @ ELSE [@ EXCEPT ![h.head[l]] = n],
                !.next = IF empty THEN @ ELSE [@ EXCEPT ![n] = h.head[l]],
                !.size[l] = @ + 1]

(* The first node, but the last, between whose element and the next one's  *)
(* that of n belongs: where the search stops.                              *)
Stops(h, l, n, cmp) ==
  LET w == ll_foreach(h, l)
  IN  {i \in 1 .. Len(w) - 1 : cmp[h.e[n], w[i]] >= 0 /\ cmp[h.e[n], w[i + 1]] <= 0}

(* Mutant: what is not smaller than the head goes to the end. *)
ll_link_node_ends(h, l, n, cmp) ==
  IF h.head[l] # NULL /\ cmp[h.e[n], h.e[h.head[l]]] < 0
    THEN ll_link_node_first(h, l, n)
    ELSE ll_link_node_last(h, l, n)

ll_link_node_sorted(h, l, n, cmp) ==
  LET stops == Stops(h, l, n, cmp)
  IN  IF h.head[l] # NULL /\ cmp[h.e[n], h.e[h.head[l]]] < 0
        THEN ll_link_node_first(h, l, n)
      ELSE IF stops = {}
        THEN ll_link_node_last(h, l, n)
      ELSE LET c == Walk(h, l)[CHOOSE i \in stops : \A j \in stops : i <= j]
           IN  [h EXCEPT !.prev[h.next[c]] = n, !.next[n] = h.next[c],
                         !.next[c] = n, !.prev[n] = c, !.size[l] = @ + 1]

(* Mutant: the old links of the node stay. *)
ll_unlink_node_stale(h, l, n) ==
  IF h.size[l] = 0 THEN h
  ELSE [h EXCEPT
          !.head[l] = IF n = @ THEN h.next[n] ELSE @,
          !.tail[l] = IF n = @ THEN h.prev[n] ELSE @,
          !.prev = Store(@, h.next[n], h.prev[n]),
          !.next = Store(@, h.prev[n], h.next[n]),
          !.size[l] = @ - 1]

(* Nothing checks that n is in l. *)
ll_unlink_node(h, l, n) ==
  LET only == n = h.head[l] /\ n = h.tail[l]
  IN  IF h.size[l] = 0 THEN h
      ELSE [h EXCEPT
              !.head[l] = IF only THEN NULL ELSE IF n = @ THEN h.next[n] ELSE @,
              !.tail[l] = IF only THEN NULL
                          ELSE IF n # h.head[l] /\ n = @ THEN h.prev[n] ELSE @,
              !.prev = [Store(@, h.next[n], h.prev[n]) EXCEPT ![n] = NULL],
              !.next = [Store(@, h.prev[n], h.next[n]) EXCEPT ![n] = NULL],
              !.size[l] = @ - 1]

ll_rotate(h, l) ==
  LET o == h.head[l]
  IN  IF h.size[l] <= 1 THEN h
      ELSE [h EXCEPT !.head[l] = h.next[o], !.tail[l] = o,
                     !.prev = [@ EXCEPT ![h.next[o]] = NULL, ![o] = h.tail[l]],
                     !.next = [@ EXCEPT ![o] = NULL, ![h.tail[l]] = o]]

(* Of a list that is not empty, as is ll_remove_last. *)
ll_remove_first(h, l) ==
  LET n == h.head[l]
  IN  FreeNode([h EXCEPT !.head[l] = h.next[n],
                         !.tail[l] = IF n = @ THEN NULL ELSE @,
                         !.prev = Store(@, h.next[n], NULL),
                         !.size[l] = @ - 1], n)

ll_remove_last(h, l) ==
  LET n == h.tail[l]
  IN  FreeNode([h EXCEPT !.tail[l] = h.prev[n],
                         !.head[l] = IF n = @ THEN NULL ELSE @,
                         !.next = Store(@, h.prev[n], NULL),
                         !.size[l] = @ - 1], n)

ll_add_last(h, l, n, data) == ll_link_node_last(ll_node_init(h, n, data), l, n)

ll_add_first(h, l, n, data) == ll_link_node_first(ll_node_init(h, n, data), l, n)

(* The first node of l whose element has the key, or NULL. *)
ll_find(h, l, key) ==
  LET at == {i \in 1 .. h.size[l] : h.e[At(h, l, i)] = key}
  IN  IF at = {} THEN NULL ELSE At(h, l, CHOOSE i \in at : \A j \in at : i <= j)

ll_remove_node(h, l, n) == FreeNode(ll_unlink_node(h, l, n), n)

ll_remove(h, l, key) ==
  IF ll_find(h, l, key) = NULL THEN h ELSE ll_remove_node(h, l, ll_find(h, l, key))

(* Frees the nodes; the list's own pointers stay as they are. *)
ll_destroy(h, l) ==
  LET nodes == ListNodes(h, l)
      Wipe(f) == [n \in DOMAIN f |-> IF n \in nodes THEN Junk ELSE f[n]]
  IN  [h EXCEPT !.next = Wipe(@), !.prev = Wipe(@), !.e = Wipe(@),
                !.freed = @ \cup nodes]

=============================================================================
