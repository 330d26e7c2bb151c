------------------------------- MODULE HashTable -------------------------------
(***************************************************************************)
(* The chained hash table of kern/data_structures/ht.c over the linked     *)
(* lists of its buckets.  A key's entry and the node that links it into    *)
(* its bucket are the blocks Entry(k) and Link(k); the element of the node *)
(* is the entry, written as its key.  h.count is the table's size field.   *)
(***************************************************************************)
EXTENDS LinkedList, CircBuffer

CONSTANTS
  Key,      \* the keys in use: thread ids, process ids or addresses
  Hash,     \* what the table's hash function returns, an int
  MaxSize   \* max_size, the number of buckets

Link(k) == <<k, "link">>
Entry(k) == <<k, "entry">>
Bucket == 0 .. MaxSize - 1

ASSUME TableAssumption ==
  /\ MaxSize \in Nat \ {0}
  /\ Hash \in [Key -> Int]
  /\ Bucket \subseteq List
  /\ \A k \in Key : Link(k) \in Node /\ Entry(k) \notin Node

(* The int is converted to the unsigned type of max_size. *)
idx(k) == (Hash[k] % Word) % MaxSize

ht_get(h, k) == ll_find(h, idx(k), k)

HasKey(h, k) == ht_get(h, k) # NULL

NewEntry(h, k) == [h EXCEPT !.freed = @ \ {Entry(k)}]

FreeEntry(h, k) == [h EXCEPT !.freed = @ \cup {Entry(k)}]

(* Links an entry and a node that its caller has made. *)
ht_put_entry(h, k) ==
  IF HasKey(h, k) THEN h
  ELSE [ll_link_node_last(h, idx(k), Link(k)) EXCEPT !.count = @ + 1]

ht_put(h, k) ==
  IF HasKey(h, k) THEN h
  ELSE [ll_add_last(NewEntry(h, k), idx(k), Link(k), k) EXCEPT !.count = @ + 1]

(* ht_remove with no buffer: node and entry are freed at once. *)
ht_remove(h, k) ==
  IF ~HasKey(h, k) THEN h
  ELSE [FreeEntry(ll_remove(h, idx(k), k), k) EXCEPT !.count = @ - 1]

(* ht_remove with a buffer: the heap, and the buffer with their addresses. *)
ht_remove_deferred(h, k) ==
  [ll_unlink_node(h, idx(k), ht_get(h, k)) EXCEPT !.count = @ - 1]

ht_defer_free(h, k, c) ==
  circ_buf_write(circ_buf_write(c, ht_get(h, k)), Entry(k))

=============================================================================
