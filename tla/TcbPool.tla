------------------------------- MODULE TcbPool -------------------------------
(***************************************************************************)
(* The thread pool of the kernel (kern/scheduler/tcb_pool.c): every thread *)
(* control block hangs on one linked-list node, the node is found through  *)
(* the hash table `threads`, and it is moved between the runnable, the     *)
(* waiting and the sleeping list.  The module holds the pool's state and   *)
(* its operations; the specifications that use the pool extend it.         *)
(*                                                                         *)
(* A list is the sequence of the threads whose nodes it links.  That is    *)
(* exact as long as a node is unlinked from the list it is in.             *)
(* ll_unlink_node does not check it: given a node of another list it       *)
(* rewires that list and miscounts both, and from then on the pointers     *)
(* mean nothing.  `fate` records it, and no operation is modelled after.   *)
(*                                                                         *)
(* Wake-up times are kept relative to the present: left[t] stands for      *)
(* t_wakeup - num_ticks of a thread in the sleeping list, and a tick takes *)
(* one off each.  Outside that list t_wakeup is never read; left is 0.     *)
(***************************************************************************)
EXTENDS Integers, SequencesExt

CONSTANTS
  Thread,  \* every tid a thread may ever get, the idle thread's excepted
  Idle     \* the idle thread: it has a tcb, but is in no list and no table

VARIABLES
  threads, \* the keys of the hash table of threads
  status,  \* tcb->status, of the idle thread too
  pool,    \* the three lists
  left,    \* t_wakeup - num_ticks
  fate     \* "ok", or what has become of the kernel

poolVars == <<threads, status, pool, left, fate>>

Statuses == {"UNINIT", "RUNNABLE", "RUNNING", "WAITING", "SLEEPING"}

Lists == {"runnable", "waiting", "sleeping"}

(***************************************************************************)
(* "corrupt": a node was unlinked from a list it is not in.                *)
(* "hang":    the timer handler loops for ever with interrupts disabled.   *)
(* "overwritten": the saved context of a thread has been overwritten.      *)
(***************************************************************************)
Fates == {"ok", "corrupt", "hang", "overwritten"}

In(l, t) == t \in Range(pool[l])

(* The lists p hold each thread of T once, in one list, and no other. *)
Partitioned(p, T) ==
  /\ \A l \in Lists : IsInjective(p[l])
  /\ \A l, m \in Lists : l # m => Range(p[l]) \cap Range(p[m]) = {}
  /\ T = {t \in Thread : \E l \in Lists : t \in Range(p[l])}

(* The order the sleeping list is to be in. *)
Ordered(s, key) == \A i, j \in DOMAIN s : i < j => key[s[i]] <= key[s[j]]

-----------------------------------------------------------------------------
(* The operations of the linked list that the pool uses. *)

ll_unlink_node(s, t) == RemoveAt(s, CHOOSE i \in DOMAIN s : s[i] = t)

ll_link_node_last(s, t) == Append(s, t)

ll_rotate(s) == IF Len(s) <= 1 THEN s ELSE Append(Tail(s), Head(s))

(* The first node whose successor is not smaller than the new one, or the last. *)
SortedPredecessor(s, t, key) ==
  Min({i \in DOMAIN s : \/ i = Len(s)
                        \/ key[s[i]] <= key[t] /\ key[t] <= key[s[i + 1]]})

(* Mutant: the list is not kept in order. *)
LinkSortedAsLast(s, t, key) == Append(s, t)

ll_link_node_sorted(s, t, key) ==
  IF s = <<>> \/ key[t] < key[Head(s)]
    THEN InsertAt(s, 1, t)
    ELSE InsertAt(s, SortedPredecessor(s, t, key) + 1, t)

-----------------------------------------------------------------------------
(* The operations of the pool.  Each runs with interrupts disabled. *)

(* ll_unlink_node returns an error only for an empty list. *)
UnlinkFails(l) == pool[l] = <<>>

(* Mutant: the node is linked to the new list and left in the old one. *)
MoveNodeWithoutUnlink(t, l, m) ==
  IF In(l, t)
    THEN /\ pool' = [pool EXCEPT ![m] = ll_link_node_last(@, t)]
         /\ UNCHANGED fate
    ELSE /\ fate' = "corrupt"
         /\ UNCHANGED pool

(* Relinks t's node from list l to the end of list m, or corrupts both. *)
MoveNode(t, l, m) ==
  IF In(l, t)
    THEN /\ pool' = [pool EXCEPT ![l] = ll_unlink_node(@, t),
                                 ![m] = ll_link_node_last(@, t)]
         /\ UNCHANGED fate
    ELSE /\ fate' = "corrupt"
         /\ UNCHANGED pool

tcb_pool_add_runnable_tcb_safe(t) ==
  /\ threads' = threads \cup {t}
  /\ status' = [status EXCEPT ![t] = "RUNNABLE"]
  /\ pool' = [pool EXCEPT !["runnable"] = ll_link_node_last(@, t)]
  /\ UNCHANGED <<left, fate>>

(* The list make_runnable expects the thread in, going by its status alone. *)
SuspendedIn(t) == IF status[t] = "WAITING" THEN "waiting" ELSE "sleeping"

MakeRunnableFails(t) ==
  \/ t \notin threads
  \/ status[t] = "RUNNABLE"
  \/ UnlinkFails(SuspendedIn(t))

tcb_pool_make_runnable(t) ==
  /\ MoveNode(t, SuspendedIn(t), "runnable")
  /\ left' = [left EXCEPT ![t] = 0]

MakeWaitingFails(t) == status[t] = "WAITING" \/ UnlinkFails("runnable")

tcb_pool_make_waiting(t) == MoveNode(t, "runnable", "waiting")

MakeSleepingFails == UnlinkFails("runnable")

tcb_pool_make_sleeping(t, due) ==
  IF In("runnable", t)
    THEN /\ pool' = [pool EXCEPT
              !["runnable"] = ll_unlink_node(@, t),
              !["sleeping"] = ll_link_node_sorted(@, t, due)]
         /\ UNCHANGED fate
    ELSE /\ fate' = "corrupt"
         /\ UNCHANGED pool

-----------------------------------------------------------------------------
(* tcb_pool_wakeup: after a tick, the head of the sleeping list is made    *)
(* runnable as long as its time is exactly now.                            *)

(* Mutant: num_ticks is not incremented. *)
AfterNoTick == left

AfterTick == [t \in Thread |-> IF In("sleeping", t) THEN left[t] - 1 ELSE left[t]]

(* Mutant: a node is taken off one tick too early. *)
NumDueTooEarly(s, now) == Min({k \in 0..Len(s) : k = Len(s) \/ now[s[k + 1]] > 1})

(* How many nodes the loop takes off the front of the list. *)
NumDue(s, now) == Min({k \in 0..Len(s) : k = Len(s) \/ now[s[k + 1]] # 0})

DueSleepers == SubSeq(pool["sleeping"], 1, NumDue(pool["sleeping"], AfterTick))

(* make_runnable refuses a RUNNABLE thread, and the loop tries it again.   *)
(* No thread in the sleeping list is WAITING: StatusMatchesPool.           *)
WakeupLoops == \E t \in Range(DueSleepers) : status[t] = "RUNNABLE"

(* The lists after a wake-up that ends; the statuses are left as they are. *)
PoolAfterWakeup ==
  [pool EXCEPT !["sleeping"] = SubSeq(@, Len(DueSleepers) + 1, Len(@)),
               !["runnable"] = @ \o DueSleepers]

=============================================================================
