------------------------------ MODULE Containers ------------------------------
(***************************************************************************)
(* The kernel's containers as its thread pool, frame manager, semaphores   *)
(* and page directories use them: a hash table whose values are the nodes  *)
(* of lists they move between, a list used as a queue and a stack, and the *)
(* circular buffer in which the reaper keeps addresses until it may free   *)
(* them.  Every caller holds a lock, so that an operation is one step.     *)
(* ContainersSpec says what is promised: sequences and a set of keys.      *)
(***************************************************************************)
EXTENDS HashTable

CONSTANTS
  Rank,     \* what ll_link_node_sorted sorts by: the wake-up times
  Item,     \* what is put into the queue
  Pool,     \* the lists that the nodes of keys are in
  Sorted,   \* the list of Pool that is kept sorted
  Queue     \* the list of items

VARIABLES
  heap,     \* the nodes, the lists and the freed blocks
  addrs     \* addrs_to_free

vars == <<heap, addrs>>

Tcb(k) == <<k, "tcb">>
ItemNode(v) == <<v, "item">>

Block == Node \cup {Entry(k) : k \in Key}

ASSUME ContainersAssumption ==
  /\ Rank \in [Key -> Int]
  /\ Node = {Tcb(k) : k \in Key} \cup {Link(k) : k \in Key}
              \cup {ItemNode(v) : v \in Item}
  /\ List = Bucket \cup Pool \cup {Queue}
  /\ Sorted \in Pool

tcb_t_wakeup_cmp == [j, k \in Key |-> Rank[j] - Rank[k]]

ListOf(k) == {l \in Pool : Tcb(k) \in ListNodes(heap, l)}

Init ==
  /\ heap = [next |-> [n \in Node |-> Junk], prev |-> [n \in Node |-> Junk],
             e |-> [n \in Node |-> Junk],
             head |-> [l \in List |-> NULL], tail |-> [l \in List |-> NULL],
             size |-> [l \in List |-> 0], count |-> 0, freed |-> Block]
  /\ addrs = circ_buf_init

(* tcb_pool_add_runnable_tcb_safe: node, entry and link are made first. *)
Add(k, l) ==
  /\ Tcb(k) \in heap.freed /\ Link(k) \in heap.freed /\ Entry(k) \in heap.freed
  /\ heap' = ll_link_node_last(
               ht_put_entry(
                 ll_node_init(NewEntry(ll_node_init(heap, Tcb(k), k), k), Link(k), k),
                 k),
               l, Tcb(k))
  /\ UNCHANGED addrs

(* tcb_pool_make_waiting and its like: from one list to another. *)
Move(k, l, m) ==
  /\ l \in ListOf(k) /\ m # Sorted
  /\ heap' = ll_link_node_last(ll_unlink_node(heap, l, Tcb(k)), m, Tcb(k))
  /\ UNCHANGED addrs

MoveSorted(k, l) ==
  /\ l \in ListOf(k) /\ l # Sorted
  /\ heap' = ll_link_node_sorted(ll_unlink_node(heap, l, Tcb(k)), Sorted, Tcb(k),
                                 tcb_t_wakeup_cmp)
  /\ UNCHANGED addrs

Rotate(l) ==
  /\ heap.size[l] > 1
  /\ heap' = ll_rotate(heap, l)
  /\ UNCHANGED addrs

(* tcb_pool_remove_tcb by the reaper, whose buffer is empty at that point. *)
Remove(k, l) ==
  /\ l \in ListOf(k)
  /\ circ_buf_count(addrs) = 0
  /\ heap' = ll_unlink_node(ht_remove_deferred(heap, k), l, Tcb(k))
  /\ addrs' = circ_buf_write(ht_defer_free(heap, k, addrs), Tcb(k))

(* while(circ_buf_read(&addrs_to_free, &addr) >= 0) free(addr); *)
Drain ==
  LET due == Contents(addrs)
      h[i \in 0 .. Len(due)] ==
        IF i = 0 THEN heap
        ELSE IF due[i] \in Node THEN FreeNode(h[i - 1], due[i])
        ELSE [h[i - 1] EXCEPT !.freed = @ \cup {due[i]}]
      c[i \in 0 .. Len(due)] == IF i = 0 THEN addrs ELSE circ_buf_read(c[i - 1])
  IN  /\ due # <<>>
      /\ heap' = h[Len(due)]
      /\ addrs' = c[Len(due)]

(* A table used on its own, as the frame manager's are. *)
Put(k) ==
  /\ Link(k) \in heap.freed /\ Entry(k) \in heap.freed /\ Tcb(k) \in heap.freed
  /\ heap' = ht_put(heap, k)
  /\ UNCHANGED addrs

(* The other keys of the table are nobody's to take. *)
Take(k) ==
  /\ HasKey(heap, k) /\ ListOf(k) = {} /\ Tcb(k) \in heap.freed
  /\ heap' = ht_remove(heap, k)
  /\ UNCHANGED addrs

queue_enq(v) ==
  /\ ItemNode(v) \in heap.freed
  /\ heap' = ll_add_last(heap, Queue, ItemNode(v), v)
  /\ UNCHANGED addrs

stack_push(v) ==
  /\ ItemNode(v) \in heap.freed
  /\ heap' = ll_add_first(heap, Queue, ItemNode(v), v)
  /\ UNCHANGED addrs

(* queue_deq, stack_pop *)
queue_deq ==
  /\ heap.size[Queue] # 0
  /\ heap' = ll_remove_first(heap, Queue)
  /\ UNCHANGED addrs

RemoveLast ==
  /\ heap.size[Queue] # 0
  /\ heap' = ll_remove_last(heap, Queue)
  /\ UNCHANGED addrs

(* queue_destroy, and queue_init when the next pcb or semaphore is made. *)
queue_destroy ==
  /\ heap.size[Queue] # 0
  /\ heap' = ll_init(ll_destroy(heap, Queue), Queue)
  /\ UNCHANGED addrs

Next ==
  \/ \E k \in Key : Put(k) \/ Take(k) \/ \E l \in Pool :
       \/ l # Sorted /\ Add(k, l)
       \/ \E m \in Pool : Move(k, l, m)
       \/ MoveSorted(k, l)
       \/ Remove(k, l)
  \/ \E l \in Pool \ {Sorted} : Rotate(l)
  \/ Drain
  \/ \E v \in Item : queue_enq(v) \/ stack_push(v)
  \/ queue_deq \/ RemoveLast \/ queue_destroy

Spec == Init /\ [][Next]_vars

-----------------------------------------------------------------------------
(* Every list read forwards is the list read backwards: it ends at its     *)
(* tail, visits no node twice, counts its nodes right, and no node is in   *)
(* two lists, whatever moves between lists the nodes have made (ll.c).     *)
ListsSound ==
  \A l \in List :
    LET w == Walk(heap, l)
    IN  /\ \A i \in DOMAIN w : w[i] \in Node
        /\ w = <<>> => heap.head[l] = NULL /\ heap.tail[l] = NULL
        /\ w # <<>> => heap.tail[l] = w[Len(w)] /\ heap.next[w[Len(w)]] = NULL
        /\ \A i \in 1 .. Len(w) : heap.prev[w[i]] = IF i = 1 THEN NULL ELSE w[i - 1]
        /\ \A m \in List \ {l} : ListNodes(heap, l) \cap ListNodes(heap, m) = {}

(* Every block that is not free is held exactly once: by a list, by a key  *)
(* of the table, or by the reaper's buffer of addresses to free, which has *)
(* room for all of them.  A block that is lost is never freed; one that is *)
(* held twice is freed twice.                                              *)
BlocksAccounted ==
  LET listed == UNION {ListNodes(heap, l) : l \in List}
      entries == {Entry(k) : k \in {j \in Key : HasKey(heap, j)}}
      deferred == {Contents(addrs)[i] : i \in 1 .. circ_buf_count(addrs)}
  IN  /\ Block \ heap.freed = listed \cup entries \cup deferred
      /\ Cardinality(deferred) = circ_buf_count(addrs)
      /\ (listed \cup entries) \cap deferred = {}

(* The table and the lists behave as a set of keys and as sequences.       *)
Abstract == INSTANCE ContainersSpec WITH
  keys <- {k \in Key : HasKey(heap, k)},
  lists <- [l \in Pool \cup {Queue} |-> ll_foreach(heap, l)]

Implements == Abstract!Spec

=============================================================================
