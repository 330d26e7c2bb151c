--------------------------- MODULE LifecycleProofs ---------------------------
(***************************************************************************)
(* Proofs that the invariants of Lifecycle hold for any number of          *)
(* processes and threads, and that it implements the tree of processes.    *)
(***************************************************************************)
EXTENDS Lifecycle, SequenceTheorems, FiniteSetTheorems, TLAPS

-----------------------------------------------------------------------------
(* Types. *)

Points ==
  {"unborn", "user", "fork", "add", "count", "wait", "asleep", "dequeue", "uncount",
   "lock parent", "adopt", "leave", "report", "signal", "unlock parent", "zombie",
   "link", "gone", "lost"}

(* Where a thread in vanish has the pcb it reports to in loc. *)
VanishPoints == {"lock parent", "adopt", "leave", "report", "signal", "unlock parent"}

Report == [original_tid : Thread \cup {None}, status : Statuses \cup {None}]

Pcb == [state : {"none", "live", "freed"}, ppid : Proc \cup {None},
        original_tid : Thread \cup {None}, num_threads : Int, num_child_proc : Int,
        m : Thread \cup {None}, wait_sem : Int, status_queue : Seq(Report)]

Reaper == [at : {"wait", "asleep", "peek", "remove", "destroy"}, tcb : Thread \cup {None}]

TypeInv ==
  /\ pcb \in [Proc -> Pcb]
  /\ processes \subseteq Proc
  /\ tcb \in [Thread -> [pcb : Proc \cup {None}, exit_status : Statuses \cup {None}]]
  /\ next_pid \in Nat \ {0, 1} /\ next_tid \in Nat \ {0, 1}
  /\ pc \in [Thread -> Points]
  /\ loc \in [Thread -> Proc \cup Thread \cup {None}]
  /\ zombie_pool \in Seq(Thread)
  /\ zombies_sem \in Int
  /\ reaper \in Reaper
  /\ irq \in Thread \cup {None}
  /\ fate \in {"ok", "undefined"}
  /\ early \subseteq Thread

(* Who is where: a thread that was started has a process, the one that is  *)
(* about to be added is known to one adder only, processes and threads are *)
(* numbered in order, and what vanish has in loc is a process.             *)
Placed ==
  /\ \A t \in Thread : pc[t] # "unborn" => Mine(t) \in Proc
  /\ \A t \in Thread : Mine(t) \in Proc => t < next_tid /\ Mine(t) < next_pid
  /\ \A t \in Thread :
       pc[t] = "add" => /\ loc[t] \in Thread
                        /\ pc[loc[t]] = "unborn" /\ Mine(loc[t]) \in Proc
  /\ \A s, t \in Thread : pc[s] = "add" /\ pc[t] = "add" /\ loc[s] = loc[t] => s = t
  /\ \A t \in Thread : pc[t] \in VanishPoints => loc[t] \in Proc /\ loc[t] < next_pid
  /\ \A p \in processes : p < next_pid

(* The processes that are not made yet have no state. *)
Unmade == \A p \in Proc : p >= next_pid => pcb[p] = pcb_init

(* The reaper removes a zombie that is there. *)
Removing == reaper.at = "remove" => zombie_pool # <<>>

Shape == Placed /\ Unmade /\ Removing

(* What the reaper has is off the CPU, and so is a thread of each process  *)
(* it has freed.                                                           *)
ReapInv ==
  /\ \A i \in DOMAIN zombie_pool : pc[zombie_pool[i]] = "gone"
  /\ reaper.tcb # None => pc[reaper.tcb] = "gone"
  /\ reaper.at \in {"remove", "destroy"} => reaper.tcb # None
  /\ \A p \in Proc : ~Live(p) => \E t \in Threads(p) : pc[t] = "gone"

(* The zombies that signalled with interrupts enabled and were linked, or  *)
(* lost, since.                                                            *)
Past == {t \in early : pc[t] # "link"}

Units == IF zombies_sem > 0 THEN zombies_sem ELSE 0
Taken == IF reaper.at \in {"peek", "remove"} THEN 1 ELSE 0
Coming == IF irq # None THEN 1 ELSE 0

(* ZombiesSignalled with the thread between its signal and the zombie pool. *)
SignalInv ==
  /\ Len(zombie_pool) + Coming <= Cardinality(Past) + Units + Taken
  /\ irq # None => pc[irq] = "link" /\ irq \notin early
  /\ \A t \in Thread : pc[t] = "link" => t = irq \/ t \in early
  /\ \A t \in early : pc[t] \in {"link", "gone", "lost"}
  /\ reaper.at = "asleep" => zombies_sem = -1
  /\ reaper.at # "asleep" => zombies_sem >= 0

(* The numbers of processes and threads; None is none of them. *)
LEMMA Numbers ==
  /\ Proc \subseteq Nat /\ Thread \subseteq Nat
  /\ InitProc \in Proc /\ 1 \in Thread
  /\ None \notin Proc /\ None \notin Thread
  /\ IsFiniteSet(Thread) /\ IsFiniteSet(Proc)
<1>1. MaxProcs \in Nat \ {0} /\ MaxThreads \in Nat \ {0} /\ None \notin Int
  BY LifecycleAssumption
<1>. QED
  BY <1>1, FS_Interval DEF Proc, Thread, InitProc

(* The initial state. *)
LEMMA InitShape == Init => TypeInv /\ Shape
<1> SUFFICES ASSUME Init PROVE TypeInv /\ Shape
  OBVIOUS
<1>1. <<>> \in Seq(Report) /\ <<>> \in Seq(Thread)
  OBVIOUS
<1>2. pcb_init \in Pcb
  BY <1>1, Numbers DEF pcb_init, Pcb
<1>3. scheduler_add_init_process \in Pcb
  <2>1. [pcb_init EXCEPT !.state = "live"] \in Pcb
    BY <1>2 DEF Pcb
  <2>2. [[pcb_init EXCEPT !.state = "live"] EXCEPT !.original_tid = 1] \in Pcb
    BY <2>1, Numbers DEF Pcb
  <2>3. [[[pcb_init EXCEPT !.state = "live"] EXCEPT !.original_tid = 1]
           EXCEPT !.num_threads = 1] \in Pcb
    <3> DEFINE r == [[pcb_init EXCEPT !.state = "live"] EXCEPT !.original_tid = 1]
    <3>1. r \in Pcb
      BY <2>2
    <3> HIDE DEF r
    <3>2. [r EXCEPT !.num_threads = 1] \in Pcb
      BY <3>1 DEF Pcb
    <3>. QED
      BY <3>2 DEF r
  <2>. QED
    BY <2>3 DEF scheduler_add_init_process
<1>4. TypeInv
  BY <1>1, <1>2, <1>3, Numbers
  DEF Init, TypeInv, tcb_init, Points, scheduler_add_reaper_proc, Reaper
<1>5. Shape
  BY Numbers
  DEF Init, Shape, Placed, Unmade, Removing, Mine, tcb_init, VanishPoints, InitProc,
      scheduler_add_reaper_proc
<1>. QED
  BY <1>4, <1>5

-----------------------------------------------------------------------------
(* Steps. *)

(* A thread that takes a step has a process; the pcb it works on is one.   *)
LEMMA ActorHasProcess ==
  ASSUME TypeInv, Shape, NEW t \in Thread, pc[t] # "unborn"
  PROVE  Mine(t) \in Proc
BY DEF TypeInv, Shape, Placed

(* A new process's pcb. *)
LEMMA CopyType ==
  ASSUME NEW p \in Proc, NEW tid \in Thread PROVE pcb_copy(p, tid) \in Pcb
<1>1. <<>> \in Seq(Report)
  OBVIOUS
<1>2. pcb_init \in Pcb
  BY <1>1, Numbers DEF pcb_init, Pcb
<1>3. [pcb_init EXCEPT !.state = "live"] \in Pcb
  BY <1>2 DEF Pcb
<1>4. [[pcb_init EXCEPT !.state = "live"] EXCEPT !.ppid = p] \in Pcb
  BY <1>3 DEF Pcb
<1>5. [[[pcb_init EXCEPT !.state = "live"] EXCEPT !.ppid = p]
         EXCEPT !.original_tid = tid] \in Pcb
  BY <1>4 DEF Pcb
<1>6. [[[[pcb_init EXCEPT !.state = "live"] EXCEPT !.ppid = p]
         EXCEPT !.original_tid = tid] EXCEPT !.num_threads = 1] \in Pcb
  <2> DEFINE r == [[[pcb_init EXCEPT !.state = "live"] EXCEPT !.ppid = p]
                     EXCEPT !.original_tid = tid]
  <2>1. r \in Pcb
    BY <1>5
  <2> HIDE DEF r
  <2>2. [r EXCEPT !.num_threads = 1] \in Pcb
    BY <2>1 DEF Pcb
  <2>. QED
    BY <2>2 DEF r
<1>. QED
  BY <1>6 DEF pcb_copy

(* Every step keeps the types. *)
LEMMA TypeStep ==
  TypeInv /\ Shape /\ [Next]_vars => TypeInv'
<1> SUFFICES ASSUME TypeInv, Shape, [Next]_vars PROVE TypeInv'
  OBVIOUS
<1>pcb. pcb \in [Proc -> Pcb]
  BY DEF TypeInv
<1>tcb. tcb \in [Thread -> [pcb : Proc \cup {None}, exit_status : Statuses \cup {None}]]
  BY DEF TypeInv
<1>loc. loc \in [Thread -> Proc \cup Thread \cup {None}]
  BY DEF TypeInv
<1>rem. reaper.at = "remove" => zombie_pool # <<>>
  BY DEF Shape, Removing
<1>num. /\ next_pid \in Nat \ {0, 1} /\ next_tid \in Nat \ {0, 1}
       /\ zombies_sem \in Int
  BY DEF TypeInv
<1>reap. reaper \in Reaper
  BY DEF TypeInv
<1>1. ASSUME NEW t \in Thread, ForkFails(t) PROVE TypeInv'
  BY <1>1, Numbers
  DEF ForkFails, TypeInv, At, Goto, procVars, threadVars, reapVars, Points
<1>2. ASSUME NEW t \in Thread, scheduler_add_process(t) PROVE TypeInv'
  <2>1. Mine(t) \in Proc
    BY <1>2, ActorHasProcess DEF scheduler_add_process, At
  <2>2. next_pid \in Proc /\ next_tid \in Thread
    BY <1>2 DEF scheduler_add_process, TypeInv, Proc, Thread
  <2>3. pcb' \in [Proc -> Pcb]
    BY <1>2, <2>1, <2>2, CopyType DEF scheduler_add_process, TypeInv
  <2>4. tcb' \in [Thread -> [pcb : Proc \cup {None}, exit_status : Statuses \cup {None}]]
    BY <1>2, <1>tcb, <2>2 DEF scheduler_add_process, tcb_init
  <2>5. next_pid' \in Nat \ {0, 1} /\ next_tid' \in Nat \ {0, 1}
    BY <1>2, <1>num DEF scheduler_add_process
  <2>6. loc' \in [Thread -> Proc \cup Thread \cup {None}]
    BY <1>2, <1>loc, <2>2 DEF scheduler_add_process
  <2>. QED
    BY <1>2, <2>2, <2>3, <2>4, <2>5, <2>6
    DEF scheduler_add_process, tcb_pool_add_pcb_safe, TypeInv, At, Goto, reapVars,
        Points
<1>3. ASSUME NEW t \in Thread, tcb_pool_add_runnable_tcb_safe(t) PROVE TypeInv'
  BY <1>3, Numbers
  DEF tcb_pool_add_runnable_tcb_safe, TypeInv, At, procVars, threadVars, reapVars,
      Points
<1>4. ASSUME NEW t \in Thread, pcb_inc_children_s(t) PROVE TypeInv'
  <2>1. Mine(t) \in Proc
    BY <1>4, ActorHasProcess DEF pcb_inc_children_s, Holding, At
  <2>2. pcb[Mine(t)].num_child_proc + 1 \in Int
    BY <1>pcb, <2>1 DEF Pcb
  <2>3. pcb' \in [Proc -> Pcb]
    BY <1>4, <1>pcb, <2>1, <2>2 DEF pcb_inc_children_s, Pcb
  <2>. QED
    BY <1>4, <2>1, <2>3
    DEF pcb_inc_children_s, TypeInv, At, Holding, Goto, threadVars, reapVars, Points
<1>5. ASSUME NEW t \in Thread, WaitSem(t) PROVE TypeInv'
  <2>1. Mine(t) \in Proc
    BY <1>5, ActorHasProcess DEF WaitSem, At
  <2>2. pcb[Mine(t)].wait_sem - 1 \in Int
    BY <1>pcb, <2>1 DEF Pcb
  <2>3. pcb' \in [Proc -> Pcb]
    BY <1>5, <1>pcb, <2>1, <2>2 DEF WaitSem, Pcb
  <2>. QED
    BY <1>5, <2>1, <2>3 DEF WaitSem, TypeInv, At, Goto, threadVars, reapVars, Points
<1>6. ASSUME NEW t \in Thread, pcb_wait_on_status(t) PROVE TypeInv'
  <2>1. Mine(t) \in Proc /\ pcb[Mine(t)].status_queue \in Seq(Report)
    BY <1>6, <1>pcb, ActorHasProcess DEF pcb_wait_on_status, Holding, At, Pcb
  <2>2. pcb[Mine(t)].status_queue # <<>> => Tail(pcb[Mine(t)].status_queue) \in Seq(Report)
    BY <2>1
  <2>3. pcb' \in [Proc -> Pcb]
    <3>1. CASE pcb[Mine(t)].status_queue = <<>>
      BY <1>6, <1>pcb, <2>1, <3>1 DEF pcb_wait_on_status, Pcb
    <3>2. CASE pcb[Mine(t)].status_queue # <<>>
      BY <1>6, <1>pcb, <2>1, <2>2, <3>2 DEF pcb_wait_on_status, Pcb
    <3>. QED
      BY <3>1, <3>2
  <2>. QED
    BY <1>6, <2>1, <2>3
    DEF pcb_wait_on_status, TypeInv, At, Holding, Goto, threadVars, reapVars, Points
<1>7. ASSUME NEW t \in Thread, pcb_dec_children_s(t) PROVE TypeInv'
  <2>1. Mine(t) \in Proc
    BY <1>7, ActorHasProcess DEF pcb_dec_children_s, Holding, At
  <2>2. pcb[Mine(t)].num_child_proc - 1 \in Int
    BY <1>pcb, <2>1 DEF Pcb
  <2>3. pcb' \in [Proc -> Pcb]
    BY <1>7, <1>pcb, <2>1, <2>2 DEF pcb_dec_children_s, Pcb
  <2>. QED
    BY <1>7, <2>1, <2>3
    DEF pcb_dec_children_s, TypeInv, At, Holding, Goto, threadVars, reapVars, Points
<1>8. ASSUME NEW t \in Thread, LockParent(t) PROVE TypeInv'
  <2>1. loc[t] \in Proc /\ Mine(t) \in Proc
    BY <1>8, ActorHasProcess DEF LockParent, Holding, At, Shape, Placed, VanishPoints
  <2>2. pcb' \in [Proc -> Pcb]
    BY <1>8, <1>pcb, <2>1 DEF LockParent, Pcb
  <2>. QED
    BY <1>8, <2>1, <2>2
    DEF LockParent, TypeInv, At, Holding, Goto, threadVars, reapVars, Points
<1>9. ASSUME NEW t \in Thread, Adopt(t) PROVE TypeInv'
  <2>1. pcb[InitProc].num_child_proc + 1 \in Int
    BY <1>pcb, Numbers DEF Pcb
  <2>2. pcb' \in [Proc -> Pcb]
    BY <1>9, <1>pcb, <2>1, Numbers DEF Adopt, Pcb
  <2>. QED
    BY <1>9, <2>2 DEF Adopt, TypeInv, At, Holding, Goto, threadVars, reapVars, Points
<1>10. ASSUME NEW t \in Thread, pcb_dec_threads_s(t) PROVE TypeInv'
  <2>1. Mine(t) \in Proc
    BY <1>10, ActorHasProcess DEF pcb_dec_threads_s, Holding, At
  <2>2. pcb[Mine(t)].num_threads - 1 \in Int
    BY <1>pcb, <2>1 DEF Pcb
  <2>3. pcb' \in [Proc -> Pcb]
    BY <1>10, <1>pcb, <2>1, <2>2 DEF pcb_dec_threads_s, Pcb
  <2>. QED
    BY <1>10, <2>1, <2>3
    DEF pcb_dec_threads_s, TypeInv, At, Holding, Goto, threadVars, reapVars, Points
<1>11. ASSUME NEW t \in Thread, pcb_signal_status(t) PROVE TypeInv'
  <2>1. loc[t] \in Proc /\ Mine(t) \in Proc
    BY <1>11, ActorHasProcess DEF pcb_signal_status, At, Shape, Placed, VanishPoints
  <2>2. Metadata(t) \in Report
    BY <1>pcb, <1>tcb, <2>1 DEF Metadata, Report, Pcb
  <2>3. Append(pcb[loc[t]].status_queue, Metadata(t)) \in Seq(Report)
    BY <1>pcb, <2>1, <2>2 DEF Pcb
  <2>4. pcb' \in [Proc -> Pcb]
    BY <1>11, <1>pcb, <2>1, <2>3 DEF pcb_signal_status, Pcb
  <2>. QED
    BY <1>11, <2>1, <2>4
    DEF pcb_signal_status, TypeInv, At, Goto, threadVars, reapVars, Points
<1>12. ASSUME NEW t \in Thread, SignalStatus(t) PROVE TypeInv'
  <2>1. loc[t] \in Proc
    BY <1>12 DEF SignalStatus, At, Shape, Placed, VanishPoints
  <2>2. pcb[loc[t]].wait_sem + 1 \in Int
    BY <1>pcb, <2>1 DEF Pcb
  <2>3. pcb' \in [Proc -> Pcb]
    BY <1>12, <1>pcb, <2>1, <2>2 DEF SignalStatus, Pcb
  <2>4. pc' \in [Thread -> Points]
    BY <1>12 DEF SignalStatus, Wakes, Sleepers, TypeInv, Points, Goto
  <2>. QED
    BY <1>12, <2>3, <2>4 DEF SignalStatus, TypeInv, At, threadVars, reapVars, Points
<1>13. ASSUME NEW t \in Thread, UnlockParent(t) PROVE TypeInv'
  <2>1. loc[t] \in Proc
    BY <1>13 DEF UnlockParent, At, Shape, Placed, VanishPoints
  <2>2. CASE pcb[loc[t]].m = t
    <3>1. pcb' \in [Proc -> Pcb]
      BY <1>13, <1>pcb, <2>1, <2>2 DEF UnlockParent, Pcb
    <3>. QED
      BY <1>13, <3>1 DEF UnlockParent, TypeInv, At, Goto, threadVars, reapVars, Points
  <2>3. CASE pcb[loc[t]].m # t
    <3>1. pcb' = [pcb EXCEPT ![loc[t]].m = pcb[loc[t]].m]
      BY <1>13, <2>3 DEF UnlockParent
    <3>2. pcb' \in [Proc -> Pcb]
      BY <1>pcb, <2>1, <3>1 DEF Pcb
    <3>. QED
      BY <1>13, <3>2 DEF UnlockParent, TypeInv, At, Goto, threadVars, reapVars, Points
  <2>. QED
    BY <2>2, <2>3
<1>14. ASSUME NEW t \in Thread, SignalReaper(t) PROVE TypeInv'
  <2>1. reaper' \in Reaper
    BY <1>14, <1>reap DEF SignalReaper, Reaper
  <2>2. irq' \in Thread \cup {None}
    BY <1>14 DEF SignalReaper
  <2>3. zombies_sem' \in Int /\ early' \subseteq Thread
    BY <1>14, <1>num DEF SignalReaper, TypeInv
  <2>. QED
    BY <1>14, <2>1, <2>2, <2>3
    DEF SignalReaper, TypeInv, At, Goto, procVars, threadVars, Points
<1>15. ASSUME NEW t \in Thread, tcb_pool_make_zombie(t) PROVE TypeInv'
  <2>1. zombie_pool' \in Seq(Thread)
    BY <1>15 DEF tcb_pool_make_zombie, TypeInv
  <2>. QED
    BY <1>15, <2>1
    DEF tcb_pool_make_zombie, TypeInv, At, Goto, procVars, threadVars, Points
<1>16. ASSUME NEW t \in Thread, ZombieLost(t) PROVE TypeInv'
  BY <1>16, Numbers
  DEF ZombieLost, TypeInv, At, Goto, procVars, threadVars, reapVars, Points
<1>17. ASSUME NEW t \in Thread, syscall_fork(t) PROVE TypeInv'
  BY <1>17, Numbers
  DEF syscall_fork, TypeInv, At, Holding, Goto, procVars, threadVars, reapVars, Points
<1>18. ASSUME NEW t \in Thread, scheduler_add_new_thread(t) PROVE TypeInv'
  <2>1. Mine(t) \in Proc
    BY <1>18, ActorHasProcess DEF scheduler_add_new_thread, Holding, At
  <2>2. next_tid \in Thread
    BY <1>18 DEF scheduler_add_new_thread, TypeInv, Thread
  <2>3. pcb[Mine(t)].num_threads + 1 \in Int
    BY <1>pcb, <2>1 DEF Pcb
  <2>4. tcb' \in [Thread -> [pcb : Proc \cup {None}, exit_status : Statuses \cup {None}]]
    BY <1>18, <1>tcb, <2>1, <2>2 DEF scheduler_add_new_thread, tcb_init
  <2>5. pcb' \in [Proc -> Pcb]
    BY <1>18, <1>pcb, <2>1, <2>3 DEF scheduler_add_new_thread, Pcb
  <2>6. next_tid' \in Nat \ {0, 1}
    BY <1>18, <1>num DEF scheduler_add_new_thread
  <2>7. loc' \in [Thread -> Proc \cup Thread \cup {None}]
    BY <1>18, <1>loc, <2>2 DEF scheduler_add_new_thread
  <2>. QED
    BY <1>18, <2>2, <2>5, <2>4, <2>6, <2>7
    DEF scheduler_add_new_thread, TypeInv, At, Holding, Goto, reapVars, Points
<1>19. ASSUME NEW t \in Thread, syscall_exec(t) PROVE TypeInv'
  <2>1. Mine(t) \in Proc
    BY <1>19, ActorHasProcess DEF syscall_exec, Holding, At
  <2>2. pcb' \in [Proc -> Pcb]
    BY <1>19, <1>pcb, <2>1 DEF syscall_exec, Pcb
  <2>. QED
    BY <1>19, <2>1, <2>2
    DEF syscall_exec, TypeInv, At, Holding, threadVars, reapVars, Points
<1>20. ASSUME NEW t \in Thread, WaitCheck(t) PROVE TypeInv'
  BY <1>20, Numbers
  DEF WaitCheck, TypeInv, At, Goto, procVars, threadVars, reapVars, Points
<1>21. ASSUME NEW t \in Thread, thr_vanish(t) PROVE TypeInv'
  <2>1. Mine(t) \in Proc
    BY <1>21, ActorHasProcess DEF thr_vanish, At
  <2>2. loc' \in [Thread -> Proc \cup Thread \cup {None}]
    BY <1>21, <1>pcb, <1>loc, <2>1, Numbers
    DEF thr_vanish, TypeInv, Pcb, tcb_pool_find_pcb
  <2>. QED
    BY <1>21, <2>1, <2>2
    DEF thr_vanish, TypeInv, At, Goto, procVars, threadVars, reapVars, Points
<1>22. ASSUME NEW t \in Thread, NEW s \in Statuses, thr_set_status(t, s) PROVE TypeInv'
  BY <1>22, Numbers DEF thr_set_status, TypeInv, At, procVars, reapVars, Points
<1>23. CASE ReaperWait
  <2>1. reaper' \in Reaper
    BY <1>23, <1>reap DEF ReaperWait, Reaper
  <2>2. zombies_sem' \in Int
    BY <1>23, <1>num DEF ReaperWait
  <2>. QED
    BY <1>23, <2>1, <2>2 DEF ReaperWait, TypeInv, ReaperAt, procVars, threadVars, Points
<1>24. CASE ReaperPeek
  <2>1. zombie_pool # <<>> => Head(zombie_pool) \in Thread
    BY DEF TypeInv
  <2>2. reaper' \in Reaper
    BY <1>24, <2>1, Numbers DEF ReaperPeek, scheduler_add_reaper_proc, Reaper
  <2>. QED
    BY <1>24, <2>2 DEF ReaperPeek, TypeInv, ReaperAt, procVars, threadVars, Points
<1>25. CASE tcb_pool_reap
  <2>1. zombie_pool \in Seq(Thread) /\ zombie_pool # <<>>
    BY <1>25, <1>rem DEF tcb_pool_reap, ReaperAt, TypeInv
  <2>2. zombie_pool' \in Seq(Thread)
    BY <1>25, <2>1 DEF tcb_pool_reap, tcb_pool_remove_tcb
  <2>3. reaper' \in Reaper
    BY <1>25, <1>reap DEF tcb_pool_reap, Reaper
  <2>. QED
    BY <1>25, <2>2, <2>3
    DEF tcb_pool_reap, tcb_pool_remove_pcb, TypeInv, ReaperAt, threadVars, Points
<1>26. CASE pcb_destroy_s
  <2>1. pcb' \in [Proc -> Pcb]
    BY <1>26, <1>pcb DEF pcb_destroy_s, Pcb
  <2>2. reaper' \in Reaper
    BY <1>26, Numbers DEF pcb_destroy_s, scheduler_add_reaper_proc, Reaper
  <2>. QED
    BY <1>26, <2>1, <2>2 DEF pcb_destroy_s, TypeInv, ReaperAt, threadVars, Points
<1>27. CASE UseAfterFree
  BY <1>27, Numbers DEF UseAfterFree, TypeInv, procVars, threadVars, reapVars, Points
<1>28. CASE UNCHANGED vars
  BY <1>28, Numbers
  DEF TypeInv, At, Holding, ReaperAt, Goto, vars, procVars, threadVars, reapVars,
      Points
<1>. QED
  BY <1>1, <1>2, <1>3, <1>4, <1>5, <1>6, <1>7, <1>8, <1>9, <1>10, <1>11, <1>12, <1>13,
     <1>14, <1>15, <1>16, <1>17, <1>18, <1>19, <1>20, <1>21, <1>22, <1>23, <1>24,
     <1>25, <1>26, <1>27, <1>28
  DEF Next, KernelStep, ReaperStep

(* Every step keeps the shape. *)
LEMMA ShapeStep ==
  TypeInv /\ Shape /\ ReapInv /\ [Next]_vars => Shape'
<1> SUFFICES ASSUME TypeInv, Shape, ReapInv, [Next]_vars PROVE Shape'
  OBVIOUS
<1>pl. Placed /\ Unmade /\ Removing
  BY DEF Shape
<1>ty. /\ processes \subseteq Proc
       /\ tcb \in [Thread -> [pcb : Proc \cup {None}, exit_status : Statuses \cup {None}]]
       /\ next_pid \in Nat \ {0, 1} /\ next_tid \in Nat \ {0, 1}
       /\ pc \in [Thread -> Points] /\ loc \in [Thread -> Proc \cup Thread \cup {None}]
  BY DEF TypeInv
<1>num. next_pid \in Nat \ {0, 1} /\ next_tid \in Nat \ {0, 1}
  BY DEF TypeInv
<1>pcb. pcb \in [Proc -> Pcb]
  BY DEF TypeInv
<1>re. reaper \in Reaper /\ zombie_pool \in Seq(Thread)
  BY DEF TypeInv
<1>1. ASSUME NEW t \in Thread, ForkFails(t) PROVE Shape'
  <2>1. Placed'
    BY <1>1, <1>pl, <1>ty, Numbers
    DEF ForkFails, Placed, Mine, VanishPoints, At, Goto, procVars, threadVars,
        reapVars
  <2>2. Unmade'
    BY <1>1, <1>pl DEF ForkFails, Unmade, pcb_init, procVars
  <2>3. Removing'
    BY <1>1, <1>pl DEF ForkFails, Removing, reapVars
  <2>. QED
    BY <2>1, <2>2, <2>3 DEF Shape
<1>2. ASSUME NEW t \in Thread, scheduler_add_process(t) PROVE Shape'
  <2>1. Placed'
    <3>1. /\ next_tid \in Thread /\ next_pid \in Proc
          /\ pc[t] = "fork" /\ pc[next_tid] = "unborn" /\ tcb[next_tid].pcb \notin Proc
      BY <1>2, <1>pl, <1>num DEF scheduler_add_process, At, Placed, Mine, Thread, Proc
    <3>2. /\ pc' = [pc EXCEPT ![t] = "add"] /\ loc' = [loc EXCEPT ![t] = next_tid]
          /\ tcb' = [tcb EXCEPT ![next_tid] = tcb_init(next_pid)]
          /\ next_pid' = next_pid + 1 /\ next_tid' = next_tid + 1
          /\ processes' = processes \cup {next_pid}
      BY <1>2 DEF scheduler_add_process, Goto, tcb_pool_add_pcb_safe
    <3>3. tcb'[next_tid].pcb = next_pid /\ \A u \in Thread \ {next_tid} : tcb'[u].pcb = tcb[u].pcb
      BY <1>ty, <3>1, <3>2 DEF Mine, tcb_init
    <3>4. pc'[t] = "add" /\ \A u \in Thread \ {t} : pc'[u] = pc[u]
      BY <1>ty, <3>2
    <3>5. loc'[t] = next_tid /\ \A u \in Thread \ {t} : loc'[u] = loc[u]
      BY <1>ty, <3>2
    <3>6. /\ \A p \in Proc : p < next_pid => p < next_pid'
          /\ \A u \in Thread : u < next_tid => u < next_tid'
          /\ next_pid < next_pid' /\ next_tid < next_tid'
      <4>1. \A k, n \in Nat : k < n => k < n + 1
        OBVIOUS
      <4>. QED
        BY <1>num, <3>2, <4>1, Numbers
    <3>7. \A u \in Thread : pc'[u] # "unborn" => tcb'[u].pcb \in Proc
      BY <1>pl, <3>1, <3>3, <3>4 DEF Placed, Mine
    <3>8. \A u \in Thread : tcb'[u].pcb \in Proc => u < next_tid' /\ tcb'[u].pcb < next_pid'
      BY <1>pl, <3>6, <3>1, <3>3 DEF Placed, Mine
    <3>9. \A u \in Thread :
            pc'[u] = "add" => loc'[u] \in Thread /\ pc'[loc'[u]] = "unborn" /\ tcb'[loc'[u]].pcb \in Proc
      BY <1>pl, <3>1, <3>3, <3>4, <3>5 DEF Placed, Mine
    <3>10. \A s, u \in Thread : pc'[s] = "add" /\ pc'[u] = "add" /\ loc'[s] = loc'[u] => s = u
      BY <1>pl, <3>1, <3>4, <3>5 DEF Placed, Mine
    <3>11. \A u \in Thread : pc'[u] \in VanishPoints => loc'[u] \in Proc /\ loc'[u] < next_pid'
      BY <1>pl, <3>6, <3>4, <3>5 DEF Placed, Mine, VanishPoints
    <3>12. \A p \in processes' : p < next_pid'
      BY <1>pl, <1>num, <1>ty, <3>2, Numbers DEF Placed, Mine
    <3>. QED
      BY <3>7, <3>8, <3>9, <3>10, <3>11, <3>12 DEF Placed, Mine
  <2>2. next_pid' = next_pid + 1
    BY <1>2 DEF scheduler_add_process
  <2>3. \A q \in Proc : q # next_pid => pcb'[q] = pcb[q]
    BY <1>2, <1>pcb DEF scheduler_add_process
  <2>4. Unmade'
    BY <1>pl, <1>num, <2>2, <2>3, Numbers DEF Unmade, pcb_init
  <2>5. Removing'
    BY <1>2, <1>pl DEF scheduler_add_process, Removing, reapVars
  <2>. QED
    BY <2>1, <2>4, <2>5 DEF Shape
<1>3. ASSUME NEW t \in Thread, tcb_pool_add_runnable_tcb_safe(t) PROVE Shape'
  <2>1. Placed'
    BY <1>3, <1>pl, <1>ty, Numbers
    DEF tcb_pool_add_runnable_tcb_safe, Placed, Mine, VanishPoints, At, procVars,
        threadVars, reapVars
  <2>2. Unmade'
    BY <1>3, <1>pl DEF tcb_pool_add_runnable_tcb_safe, Unmade, pcb_init, procVars
  <2>3. Removing'
    BY <1>3, <1>pl DEF tcb_pool_add_runnable_tcb_safe, Removing, reapVars
  <2>. QED
    BY <2>1, <2>2, <2>3 DEF Shape
<1>4. ASSUME NEW t \in Thread, pcb_inc_children_s(t) PROVE Shape'
  <2>1. Placed'
    BY <1>4, <1>pl, <1>ty, Numbers
    DEF pcb_inc_children_s, Placed, Mine, VanishPoints, At, Holding, Goto, threadVars,
        reapVars
  <2>2. next_pid' = next_pid /\ Mine(t) \in Proc
    BY <1>4, <1>pl, <1>ty, Numbers
    DEF pcb_inc_children_s, Placed, VanishPoints, At, Holding
  <2>3. Mine(t) < next_pid
    BY <1>4, <1>pl, <1>num, <2>2
    DEF pcb_inc_children_s, Placed, VanishPoints, At, Holding
  <2>4. Mine(t) \in Nat
    BY <2>2, Numbers
  <2>5. \A q \in Proc : q # Mine(t) => pcb'[q] = pcb[q]
    BY <1>4, <1>pcb DEF pcb_inc_children_s
  <2>6. Unmade'
    BY <1>pl, <1>num, <2>2, <2>5, <2>3, <2>4, Numbers DEF Unmade, pcb_init
  <2>7. Removing'
    BY <1>4, <1>pl DEF pcb_inc_children_s, Removing, reapVars
  <2>. QED
    BY <2>1, <2>6, <2>7 DEF Shape
<1>5. ASSUME NEW t \in Thread, WaitSem(t) PROVE Shape'
  <2>1. Placed'
    BY <1>5, <1>pl, <1>ty, Numbers
    DEF WaitSem, Placed, Mine, VanishPoints, At, Goto, threadVars, reapVars
  <2>2. next_pid' = next_pid /\ Mine(t) \in Proc
    BY <1>5, <1>pl, <1>ty, Numbers DEF WaitSem, Placed, VanishPoints, At
  <2>3. Mine(t) < next_pid
    BY <1>5, <1>pl, <1>num, <2>2 DEF WaitSem, Placed, VanishPoints, At
  <2>4. Mine(t) \in Nat
    BY <2>2, Numbers
  <2>5. \A q \in Proc : q # Mine(t) => pcb'[q] = pcb[q]
    BY <1>5, <1>pcb DEF WaitSem
  <2>6. Unmade'
    BY <1>pl, <1>num, <2>2, <2>5, <2>3, <2>4, Numbers DEF Unmade, pcb_init
  <2>7. Removing'
    BY <1>5, <1>pl DEF WaitSem, Removing, reapVars
  <2>. QED
    BY <2>1, <2>6, <2>7 DEF Shape
<1>6. ASSUME NEW t \in Thread, pcb_wait_on_status(t) PROVE Shape'
  <2>1. Placed'
    BY <1>6, <1>pl, <1>ty, Numbers
    DEF pcb_wait_on_status, Placed, Mine, VanishPoints, At, Holding, Goto, threadVars,
        reapVars
  <2>2. next_pid' = next_pid /\ Mine(t) \in Proc
    BY <1>6, <1>pl, <1>ty, Numbers
    DEF pcb_wait_on_status, Placed, VanishPoints, At, Holding
  <2>3. Mine(t) < next_pid
    BY <1>6, <1>pl, <1>num, <2>2
    DEF pcb_wait_on_status, Placed, VanishPoints, At, Holding
  <2>4. Mine(t) \in Nat
    BY <2>2, Numbers
  <2>5. \A q \in Proc : q # Mine(t) => pcb'[q] = pcb[q]
    BY <1>6, <1>pcb DEF pcb_wait_on_status
  <2>6. Unmade'
    BY <1>pl, <1>num, <2>2, <2>5, <2>3, <2>4, Numbers DEF Unmade, pcb_init
  <2>7. Removing'
    BY <1>6, <1>pl DEF pcb_wait_on_status, Removing, reapVars
  <2>. QED
    BY <2>1, <2>6, <2>7 DEF Shape
<1>7. ASSUME NEW t \in Thread, pcb_dec_children_s(t) PROVE Shape'
  <2>1. Placed'
    BY <1>7, <1>pl, <1>ty, Numbers
    DEF pcb_dec_children_s, Placed, Mine, VanishPoints, At, Holding, Goto, threadVars,
        reapVars
  <2>2. next_pid' = next_pid /\ Mine(t) \in Proc
    BY <1>7, <1>pl, <1>ty, Numbers
    DEF pcb_dec_children_s, Placed, VanishPoints, At, Holding
  <2>3. Mine(t) < next_pid
    BY <1>7, <1>pl, <1>num, <2>2
    DEF pcb_dec_children_s, Placed, VanishPoints, At, Holding
  <2>4. Mine(t) \in Nat
    BY <2>2, Numbers
  <2>5. \A q \in Proc : q # Mine(t) => pcb'[q] = pcb[q]
    BY <1>7, <1>pcb DEF pcb_dec_children_s
  <2>6. Unmade'
    BY <1>pl, <1>num, <2>2, <2>5, <2>3, <2>4, Numbers DEF Unmade, pcb_init
  <2>7. Removing'
    BY <1>7, <1>pl DEF pcb_dec_children_s, Removing, reapVars
  <2>. QED
    BY <2>1, <2>6, <2>7 DEF Shape
<1>8. ASSUME NEW t \in Thread, LockParent(t) PROVE Shape'
  <2>1. Placed'
    BY <1>8, <1>pl, <1>ty, Numbers
    DEF LockParent, Placed, Mine, VanishPoints, At, Holding, Goto, threadVars,
        reapVars
  <2>2. next_pid' = next_pid /\ loc[t] \in Proc
    BY <1>8, <1>pl, <1>ty, Numbers DEF LockParent, Placed, VanishPoints, At, Holding
  <2>3. loc[t] < next_pid
    BY <1>8, <1>pl, <1>num, <2>2 DEF LockParent, Placed, VanishPoints, At, Holding
  <2>4. loc[t] \in Nat
    BY <2>2, Numbers
  <2>5. \A q \in Proc : q # loc[t] => pcb'[q] = pcb[q]
    BY <1>8, <1>pcb DEF LockParent
  <2>6. Unmade'
    BY <1>pl, <1>num, <2>2, <2>5, <2>3, <2>4, Numbers DEF Unmade, pcb_init
  <2>7. Removing'
    BY <1>8, <1>pl DEF LockParent, Removing, reapVars
  <2>. QED
    BY <2>1, <2>6, <2>7 DEF Shape
<1>9. ASSUME NEW t \in Thread, Adopt(t) PROVE Shape'
  <2>1. Placed'
    BY <1>9, <1>pl, <1>ty, Numbers
    DEF Adopt, Placed, Mine, VanishPoints, At, Holding, Goto, threadVars, reapVars,
        InitProc
  <2>2. next_pid' = next_pid /\ InitProc \in Proc
    BY <1>9, <1>pl, <1>ty, Numbers DEF Adopt, Placed, VanishPoints, At, Holding
  <2>3. InitProc < next_pid
    BY <1>num DEF InitProc
  <2>4. InitProc \in Nat
    BY <2>2, Numbers
  <2>5. \A q \in Proc : q # InitProc => pcb'[q] = pcb[q]
    BY <1>9, <1>pcb DEF Adopt
  <2>6. Unmade'
    BY <1>pl, <1>num, <2>2, <2>5, <2>3, <2>4, Numbers DEF Unmade, pcb_init
  <2>7. Removing'
    BY <1>9, <1>pl DEF Adopt, Removing, reapVars
  <2>. QED
    BY <2>1, <2>6, <2>7 DEF Shape
<1>10. ASSUME NEW t \in Thread, pcb_dec_threads_s(t) PROVE Shape'
  <2>1. Placed'
    BY <1>10, <1>pl, <1>ty, Numbers
    DEF pcb_dec_threads_s, Placed, Mine, VanishPoints, At, Holding, Goto, threadVars,
        reapVars
  <2>2. next_pid' = next_pid /\ Mine(t) \in Proc
    BY <1>10, <1>pl, <1>ty, Numbers
    DEF pcb_dec_threads_s, Placed, VanishPoints, At, Holding
  <2>3. Mine(t) < next_pid
    BY <1>10, <1>pl, <1>num, <2>2
    DEF pcb_dec_threads_s, Placed, VanishPoints, At, Holding
  <2>4. Mine(t) \in Nat
    BY <2>2, Numbers
  <2>5. \A q \in Proc : q # Mine(t) => pcb'[q] = pcb[q]
    BY <1>10, <1>pcb DEF pcb_dec_threads_s
  <2>6. Unmade'
    BY <1>pl, <1>num, <2>2, <2>5, <2>3, <2>4, Numbers DEF Unmade, pcb_init
  <2>7. Removing'
    BY <1>10, <1>pl DEF pcb_dec_threads_s, Removing, reapVars
  <2>. QED
    BY <2>1, <2>6, <2>7 DEF Shape
<1>11. ASSUME NEW t \in Thread, pcb_signal_status(t) PROVE Shape'
  <2>1. Placed'
    BY <1>11, <1>pl, <1>ty, Numbers
    DEF pcb_signal_status, Placed, Mine, VanishPoints, At, Goto, threadVars, reapVars
  <2>2. next_pid' = next_pid /\ loc[t] \in Proc
    BY <1>11, <1>pl, <1>ty, Numbers DEF pcb_signal_status, Placed, VanishPoints, At
  <2>3. loc[t] < next_pid
    BY <1>11, <1>pl, <1>num, <2>2 DEF pcb_signal_status, Placed, VanishPoints, At
  <2>4. loc[t] \in Nat
    BY <2>2, Numbers
  <2>5. \A q \in Proc : q # loc[t] => pcb'[q] = pcb[q]
    BY <1>11, <1>pcb DEF pcb_signal_status
  <2>6. Unmade'
    BY <1>pl, <1>num, <2>2, <2>5, <2>3, <2>4, Numbers DEF Unmade, pcb_init
  <2>7. Removing'
    BY <1>11, <1>pl DEF pcb_signal_status, Removing, reapVars
  <2>. QED
    BY <2>1, <2>6, <2>7 DEF Shape
<1>12. ASSUME NEW t \in Thread, SignalStatus(t) PROVE Shape'
  <2>1. Placed'
    <3>1. CASE Sleepers(loc[t]) = {}
      BY <1>12, <1>pl, <1>ty, <3>1
      DEF SignalStatus, Wakes, Placed, Mine, VanishPoints, At, Goto, threadVars,
          reapVars
    <3>2. CASE Sleepers(loc[t]) # {}
      <4>1. PICK u \in Thread : /\ pc[u] = "asleep"
                                /\ pc' = [pc EXCEPT ![t] = "unlock parent", ![u] = "dequeue"]
        BY <1>12, <3>2 DEF SignalStatus, Wakes, Sleepers
      <4>. QED
        BY <1>12, <1>pl, <1>ty, <4>1
        DEF SignalStatus, Placed, Mine, VanishPoints, At, threadVars, reapVars
    <3>. QED
      BY <3>1, <3>2
  <2>2. next_pid' = next_pid /\ loc[t] \in Proc
    BY <1>12, <1>pl, <1>ty, Numbers DEF SignalStatus, Placed, VanishPoints, At
  <2>3. loc[t] < next_pid
    BY <1>12, <1>pl, <1>num, <2>2 DEF SignalStatus, Placed, VanishPoints, At
  <2>4. loc[t] \in Nat
    BY <2>2, Numbers
  <2>5. \A q \in Proc : q # loc[t] => pcb'[q] = pcb[q]
    BY <1>12, <1>pcb DEF SignalStatus
  <2>6. Unmade'
    BY <1>pl, <1>num, <2>2, <2>5, <2>3, <2>4, Numbers DEF Unmade, pcb_init
  <2>7. Removing'
    BY <1>12, <1>pl DEF SignalStatus, Removing, reapVars
  <2>. QED
    BY <2>1, <2>6, <2>7 DEF Shape
<1>13. ASSUME NEW t \in Thread, UnlockParent(t) PROVE Shape'
  <2>1. Placed'
    BY <1>13, <1>pl, <1>ty, Numbers
    DEF UnlockParent, Placed, Mine, VanishPoints, At, Goto, threadVars, reapVars
  <2>2. next_pid' = next_pid /\ loc[t] \in Proc
    BY <1>13, <1>pl, <1>ty, Numbers DEF UnlockParent, Placed, VanishPoints, At
  <2>3. loc[t] < next_pid
    BY <1>13, <1>pl, <1>num, <2>2 DEF UnlockParent, Placed, VanishPoints, At
  <2>4. loc[t] \in Nat
    BY <2>2, Numbers
  <2>5. \A q \in Proc : q # loc[t] => pcb'[q] = pcb[q]
    BY <1>13, <1>pcb DEF UnlockParent
  <2>6. Unmade'
    BY <1>pl, <1>num, <2>2, <2>5, <2>3, <2>4, Numbers DEF Unmade, pcb_init
  <2>7. Removing'
    BY <1>13, <1>pl DEF UnlockParent, Removing, reapVars
  <2>. QED
    BY <2>1, <2>6, <2>7 DEF Shape
<1>14. ASSUME NEW t \in Thread, SignalReaper(t) PROVE Shape'
  <2>1. Placed'
    BY <1>14, <1>pl, <1>ty, Numbers
    DEF SignalReaper, Placed, Mine, VanishPoints, At, Goto, procVars, threadVars
  <2>2. Unmade'
    BY <1>14, <1>pl DEF SignalReaper, Unmade, pcb_init, procVars
  <2>3. Removing'
    BY <1>14, <1>pl, <1>re DEF SignalReaper, Removing, Reaper
  <2>. QED
    BY <2>1, <2>2, <2>3 DEF Shape
<1>15. ASSUME NEW t \in Thread, tcb_pool_make_zombie(t) PROVE Shape'
  <2>1. Placed'
    BY <1>15, <1>pl, <1>ty, Numbers
    DEF tcb_pool_make_zombie, Placed, Mine, VanishPoints, At, Goto, procVars,
        threadVars
  <2>2. Unmade'
    BY <1>15, <1>pl DEF tcb_pool_make_zombie, Unmade, pcb_init, procVars
  <2>3. Removing'
    BY <1>15, <1>pl, <1>re DEF tcb_pool_make_zombie, Removing
  <2>. QED
    BY <2>1, <2>2, <2>3 DEF Shape
<1>16. ASSUME NEW t \in Thread, ZombieLost(t) PROVE Shape'
  <2>1. Placed'
    BY <1>16, <1>pl, <1>ty, Numbers
    DEF ZombieLost, Placed, Mine, VanishPoints, At, Goto, procVars, threadVars,
        reapVars
  <2>2. Unmade'
    BY <1>16, <1>pl DEF ZombieLost, Unmade, pcb_init, procVars
  <2>3. Removing'
    BY <1>16, <1>pl DEF ZombieLost, Removing, reapVars
  <2>. QED
    BY <2>1, <2>2, <2>3 DEF Shape
<1>17. ASSUME NEW t \in Thread, syscall_fork(t) PROVE Shape'
  <2>1. Placed'
    BY <1>17, <1>pl, <1>ty, Numbers
    DEF syscall_fork, Placed, Mine, VanishPoints, At, Holding, Goto, procVars,
        threadVars, reapVars
  <2>2. Unmade'
    BY <1>17, <1>pl DEF syscall_fork, Unmade, pcb_init, procVars
  <2>3. Removing'
    BY <1>17, <1>pl DEF syscall_fork, Removing, reapVars
  <2>. QED
    BY <2>1, <2>2, <2>3 DEF Shape
<1>18. ASSUME NEW t \in Thread, scheduler_add_new_thread(t) PROVE Shape'
  <2>1. Placed'
    <3>1. /\ next_tid \in Thread /\ Mine(t) \in Proc /\ Mine(t) < next_pid
          /\ pc[t] = "user" /\ pc[next_tid] = "unborn" /\ tcb[next_tid].pcb \notin Proc
      BY <1>18, <1>pl, <1>num
      DEF scheduler_add_new_thread, Holding, At, Placed, Mine, Thread
    <3>2. /\ pc' = [pc EXCEPT ![t] = "add"] /\ loc' = [loc EXCEPT ![t] = next_tid]
          /\ tcb' = [tcb EXCEPT ![next_tid] = tcb_init(Mine(t))]
          /\ next_pid' = next_pid /\ next_tid' = next_tid + 1 /\ processes' = processes
      BY <1>18 DEF scheduler_add_new_thread, Goto
    <3>3. tcb'[next_tid].pcb = Mine(t) /\ \A u \in Thread \ {next_tid} : tcb'[u].pcb = tcb[u].pcb
      BY <1>ty, <3>1, <3>2 DEF Mine, tcb_init
    <3>4. pc'[t] = "add" /\ \A u \in Thread \ {t} : pc'[u] = pc[u]
      BY <1>ty, <3>2
    <3>5. loc'[t] = next_tid /\ \A u \in Thread \ {t} : loc'[u] = loc[u]
      BY <1>ty, <3>2
    <3>6. \A u \in Thread : pc'[u] # "unborn" => tcb'[u].pcb \in Proc
      BY <1>pl, <3>1, <3>3, <3>4 DEF Placed, Mine
    <3>7. \A u \in Thread : tcb'[u].pcb \in Proc => u < next_tid' /\ tcb'[u].pcb < next_pid'
      BY <1>pl, <1>num, <3>1, <3>2, <3>3, Numbers DEF Placed, Mine
    <3>8. \A u \in Thread :
            pc'[u] = "add" => loc'[u] \in Thread /\ pc'[loc'[u]] = "unborn" /\ tcb'[loc'[u]].pcb \in Proc
      BY <1>pl, <3>1, <3>3, <3>4, <3>5 DEF Placed, Mine
    <3>9. \A s, u \in Thread : pc'[s] = "add" /\ pc'[u] = "add" /\ loc'[s] = loc'[u] => s = u
      BY <1>pl, <3>1, <3>4, <3>5 DEF Placed, Mine
    <3>10. \A u \in Thread : pc'[u] \in VanishPoints => loc'[u] \in Proc /\ loc'[u] < next_pid'
      BY <1>pl, <3>2, <3>4, <3>5 DEF Placed, Mine, VanishPoints
    <3>. QED
      BY <1>pl, <3>2, <3>6, <3>7, <3>8, <3>9, <3>10 DEF Placed, Mine
  <2>2. next_pid' = next_pid /\ Mine(t) \in Proc
    BY <1>18, <1>pl, <1>ty, Numbers
    DEF scheduler_add_new_thread, Placed, VanishPoints, At, Holding
  <2>3. Mine(t) < next_pid
    BY <1>18, <1>pl, <1>num, <2>2
    DEF scheduler_add_new_thread, Placed, VanishPoints, At, Holding
  <2>4. Mine(t) \in Nat
    BY <2>2, Numbers
  <2>5. \A q \in Proc : q # Mine(t) => pcb'[q] = pcb[q]
    BY <1>18, <1>pcb DEF scheduler_add_new_thread
  <2>6. Unmade'
    BY <1>pl, <1>num, <2>2, <2>5, <2>3, <2>4, Numbers DEF Unmade, pcb_init
  <2>7. Removing'
    BY <1>18, <1>pl DEF scheduler_add_new_thread, Removing, reapVars
  <2>. QED
    BY <2>1, <2>6, <2>7 DEF Shape
<1>19. ASSUME NEW t \in Thread, syscall_exec(t) PROVE Shape'
  <2>1. Placed'
    BY <1>19, <1>pl, <1>ty, Numbers
    DEF syscall_exec, Placed, Mine, VanishPoints, At, Holding, threadVars, reapVars
  <2>2. next_pid' = next_pid /\ Mine(t) \in Proc
    BY <1>19, <1>pl, <1>ty, Numbers DEF syscall_exec, Placed, VanishPoints, At, Holding
  <2>3. Mine(t) < next_pid
    BY <1>19, <1>pl, <1>num, <2>2 DEF syscall_exec, Placed, VanishPoints, At, Holding
  <2>4. Mine(t) \in Nat
    BY <2>2, Numbers
  <2>5. \A q \in Proc : q # Mine(t) => pcb'[q] = pcb[q]
    BY <1>19, <1>pcb DEF syscall_exec
  <2>6. Unmade'
    BY <1>pl, <1>num, <2>2, <2>5, <2>3, <2>4, Numbers DEF Unmade, pcb_init
  <2>7. Removing'
    BY <1>19, <1>pl DEF syscall_exec, Removing, reapVars
  <2>. QED
    BY <2>1, <2>6, <2>7 DEF Shape
<1>20. ASSUME NEW t \in Thread, WaitCheck(t) PROVE Shape'
  <2>1. Placed'
    BY <1>20, <1>pl, <1>ty, Numbers
    DEF WaitCheck, Placed, Mine, VanishPoints, At, Goto, procVars, threadVars,
        reapVars
  <2>2. Unmade'
    BY <1>20, <1>pl DEF WaitCheck, Unmade, pcb_init, procVars
  <2>3. Removing'
    BY <1>20, <1>pl DEF WaitCheck, Removing, reapVars
  <2>. QED
    BY <2>1, <2>2, <2>3 DEF Shape
<1>21. ASSUME NEW t \in Thread, thr_vanish(t) PROVE Shape'
  <2>1. Placed'
    <3>1. PICK q \in Proc : /\ q < next_pid /\ loc' = [loc EXCEPT ![t] = q]
                            /\ \/ pc' = [pc EXCEPT ![t] = "lock parent"]
                               \/ pc' = [pc EXCEPT ![t] = "adopt"]
      <4>1. CASE pcb[Mine(t)].ppid \in processes
        BY <1>21, <1>pl, <1>ty, <4>1 DEF thr_vanish, tcb_pool_find_pcb, Placed, Goto
      <4>2. CASE pcb[Mine(t)].ppid \notin processes
        <5>1. InitProc \in Proc /\ InitProc < next_pid
          BY <1>num, Numbers DEF InitProc
        <5>. QED
          BY <1>21, <4>2, <5>1 DEF thr_vanish, tcb_pool_find_pcb, Goto
      <4>. QED
        BY <4>1, <4>2
    <3>2. /\ pc[t] = "user" /\ tcb' = tcb
          /\ next_tid' = next_tid /\ next_pid' = next_pid /\ processes' = processes
      BY <1>21 DEF thr_vanish, At, procVars, threadVars
    <3>3. pc'[t] \in {"lock parent", "adopt"} /\ \A u \in Thread \ {t} : pc'[u] = pc[u]
      BY <1>ty, <3>1
    <3>4. loc'[t] = q /\ \A u \in Thread \ {t} : loc'[u] = loc[u]
      BY <1>ty, <3>1
    <3>5. q \in Proc /\ q < next_pid
      BY <3>1
    <3>6. \A u \in Thread : pc'[u] # "unborn" => tcb'[u].pcb \in Proc
      BY <1>pl, <3>2, <3>3 DEF Placed, Mine
    <3>7. \A u \in Thread :
            pc'[u] = "add" => loc'[u] \in Thread /\ pc'[loc'[u]] = "unborn" /\ tcb'[loc'[u]].pcb \in Proc
      <4> SUFFICES ASSUME NEW u \in Thread, pc'[u] = "add"
                   PROVE  loc'[u] \in Thread /\ pc'[loc'[u]] = "unborn" /\ tcb'[loc'[u]].pcb \in Proc
        OBVIOUS
      <4>1. u # t /\ pc[u] = "add" /\ loc'[u] = loc[u]
        BY <3>3, <3>4
      <4>2. loc[u] \in Thread /\ pc[loc[u]] = "unborn" /\ tcb[loc[u]].pcb \in Proc
        BY <1>pl, <4>1 DEF Placed, Mine
      <4>. QED
        BY <3>2, <3>3, <4>1, <4>2
    <3>8. \A s, u \in Thread : pc'[s] = "add" /\ pc'[u] = "add" /\ loc'[s] = loc'[u] => s = u
      BY <1>pl, <3>3, <3>4 DEF Placed
    <3>9. \A u \in Thread : pc'[u] \in VanishPoints => loc'[u] \in Proc /\ loc'[u] < next_pid'
      BY <1>pl, <3>5, <3>2, <3>3, <3>4 DEF Placed, VanishPoints
    <3>. QED
      BY <1>pl, <3>2, <3>6, <3>7, <3>8, <3>9 DEF Placed, Mine
  <2>2. Unmade'
    BY <1>21, <1>pl DEF thr_vanish, Unmade, pcb_init, procVars
  <2>3. Removing'
    BY <1>21, <1>pl DEF thr_vanish, Removing, reapVars
  <2>. QED
    BY <2>1, <2>2, <2>3 DEF Shape
<1>22. ASSUME NEW t \in Thread, NEW s \in Statuses, thr_set_status(t, s) PROVE Shape'
  <2>1. Placed'
    BY <1>22, <1>pl, <1>ty DEF thr_set_status, Placed, Mine, At, procVars
  <2>2. Unmade' /\ Removing'
    BY <1>22, <1>pl DEF thr_set_status, Unmade, Removing, pcb_init, procVars, reapVars
  <2>. QED
    BY <2>1, <2>2 DEF Shape
<1>23. CASE ReaperWait
  <2>1. Placed'
    BY <1>23, <1>pl, <1>ty DEF ReaperWait, Placed, Mine, procVars, threadVars
  <2>2. Unmade'
    BY <1>23, <1>pl DEF ReaperWait, Unmade, pcb_init, procVars
  <2>3. Removing'
    BY <1>23, <1>pl, <1>re DEF ReaperWait, Removing, Reaper
  <2>. QED
    BY <2>1, <2>2, <2>3 DEF Shape
<1>24. CASE ReaperPeek
  <2>1. Placed'
    BY <1>24, <1>pl, <1>ty
    DEF ReaperPeek, Placed, Mine, procVars, threadVars, scheduler_add_reaper_proc
  <2>2. Unmade'
    BY <1>24, <1>pl DEF ReaperPeek, Unmade, pcb_init, procVars
  <2>3. Removing'
    BY <1>24, <1>pl, <1>re DEF ReaperPeek, Removing, Reaper, scheduler_add_reaper_proc
  <2>. QED
    BY <2>1, <2>2, <2>3 DEF Shape
<1>25. CASE tcb_pool_reap
  <2>1. Placed'
    BY <1>25, <1>pl, <1>ty
    DEF tcb_pool_reap, Placed, Mine, threadVars, tcb_pool_remove_pcb
  <2>2. Unmade'
    BY <1>25, <1>pl DEF tcb_pool_reap, Unmade, pcb_init
  <2>3. Removing'
    BY <1>25, <1>pl, <1>re DEF tcb_pool_reap, Removing, Reaper, tcb_pool_remove_pcb
  <2>. QED
    BY <2>1, <2>2, <2>3 DEF Shape
<1>26. CASE pcb_destroy_s
  <2>1. Placed'
    BY <1>26, <1>pl, <1>ty
    DEF pcb_destroy_s, Placed, Mine, threadVars, scheduler_add_reaper_proc
  <2>2. Unmade'
    <3>1. Mine(reaper.tcb) \in Proc
      BY <1>26, <1>re, <1>pl DEF pcb_destroy_s, ReaperAt, ReapInv, Reaper, Placed
    <3>2. Mine(reaper.tcb) < next_pid
      BY <1>26, <1>re, <1>pl, <3>1 DEF pcb_destroy_s, ReaperAt, ReapInv, Reaper, Placed
    <3>3. Mine(reaper.tcb) \in Nat
      BY <3>1, Numbers
    <3>4. \A q \in Proc : q # Mine(reaper.tcb) => pcb'[q] = pcb[q]
      BY <1>26, <1>pcb DEF pcb_destroy_s
    <3>5. next_pid' = next_pid
      BY <1>26 DEF pcb_destroy_s
    <3>. QED
      BY <1>pl, <1>num, <3>1, <3>2, <3>3, <3>4, <3>5, Numbers DEF Unmade, pcb_init
  <2>3. Removing'
    BY <1>26, <1>pl, <1>re
    DEF pcb_destroy_s, Removing, Reaper, scheduler_add_reaper_proc
  <2>. QED
    BY <2>1, <2>2, <2>3 DEF Shape
<1>27. CASE UseAfterFree
  <2>1. Placed'
    BY <1>27, <1>pl, <1>ty DEF UseAfterFree, Placed, Mine, procVars, threadVars
  <2>2. Unmade'
    BY <1>27, <1>pl DEF UseAfterFree, Unmade, pcb_init, procVars
  <2>3. Removing'
    BY <1>27, <1>pl, <1>re DEF UseAfterFree, Removing, Reaper, reapVars
  <2>. QED
    BY <2>1, <2>2, <2>3 DEF Shape
<1>28. CASE UNCHANGED vars
  BY <1>28
  DEF Shape, Placed, Unmade, Removing, pcb_init, Mine, vars, procVars, threadVars,
      reapVars
<1>. QED
  BY <1>1, <1>2, <1>3, <1>4, <1>5, <1>6, <1>7, <1>8, <1>9, <1>10, <1>11, <1>12, <1>13,
     <1>14, <1>15, <1>16, <1>17, <1>18, <1>19, <1>20, <1>21, <1>22, <1>23, <1>24,
     <1>25, <1>26, <1>27, <1>28
  DEF Next, KernelStep, ReaperStep

(* A thread that is off the CPU stays off, and in its process. *)
LEMMA GoneStays ==
  ASSUME TypeInv, Shape, [Next]_vars, NEW u \in Thread, pc[u] = "gone"
  PROVE  pc'[u] = "gone" /\ tcb'[u].pcb = tcb[u].pcb
<1> DEFINE G == pc'[u] = "gone" /\ tcb'[u].pcb = tcb[u].pcb
<1>pl. Placed
  BY DEF Shape
<1>ty. /\ tcb \in [Thread -> [pcb : Proc \cup {None}, exit_status : Statuses \cup {None}]]
       /\ next_tid \in Nat \ {0, 1}
       /\ pc \in [Thread -> Points]
  BY DEF TypeInv
<1>1. ASSUME NEW t \in Thread, ForkFails(t) PROVE G
  BY <1>1, <1>ty DEF ForkFails, At, Goto, threadVars
<1>2. ASSUME NEW t \in Thread, scheduler_add_process(t) PROVE G
  <2>1. u # next_tid
    BY <1>pl, <1>ty DEF Placed
  <2>. QED
    BY <1>2, <1>ty, <2>1 DEF scheduler_add_process, At, Goto
<1>3. ASSUME NEW t \in Thread, tcb_pool_add_runnable_tcb_safe(t) PROVE G
  BY <1>3, <1>pl, <1>ty DEF tcb_pool_add_runnable_tcb_safe, Placed, At, threadVars
<1>4. ASSUME NEW t \in Thread, pcb_inc_children_s(t) PROVE G
  BY <1>4, <1>ty DEF pcb_inc_children_s, At, Holding, Goto, threadVars
<1>5. ASSUME NEW t \in Thread, WaitSem(t) PROVE G
  BY <1>5, <1>ty DEF WaitSem, At, Goto, threadVars
<1>6. ASSUME NEW t \in Thread, pcb_wait_on_status(t) PROVE G
  BY <1>6, <1>ty DEF pcb_wait_on_status, At, Holding, Goto, threadVars
<1>7. ASSUME NEW t \in Thread, pcb_dec_children_s(t) PROVE G
  BY <1>7, <1>ty DEF pcb_dec_children_s, At, Holding, Goto, threadVars
<1>8. ASSUME NEW t \in Thread, LockParent(t) PROVE G
  BY <1>8, <1>ty DEF LockParent, At, Holding, Goto, threadVars
<1>9. ASSUME NEW t \in Thread, Adopt(t) PROVE G
  BY <1>9, <1>ty DEF Adopt, At, Holding, Goto, threadVars
<1>10. ASSUME NEW t \in Thread, pcb_dec_threads_s(t) PROVE G
  BY <1>10, <1>ty DEF pcb_dec_threads_s, At, Holding, Goto, threadVars
<1>11. ASSUME NEW t \in Thread, pcb_signal_status(t) PROVE G
  BY <1>11, <1>ty DEF pcb_signal_status, At, Goto, threadVars
<1>12. ASSUME NEW t \in Thread, SignalStatus(t) PROVE G
  BY <1>12, <1>ty DEF SignalStatus, Wakes, Sleepers, At, Goto, threadVars
<1>13. ASSUME NEW t \in Thread, UnlockParent(t) PROVE G
  BY <1>13, <1>ty DEF UnlockParent, At, Goto, threadVars
<1>14. ASSUME NEW t \in Thread, SignalReaper(t) PROVE G
  BY <1>14, <1>ty DEF SignalReaper, At, Goto, threadVars
<1>15. ASSUME NEW t \in Thread, tcb_pool_make_zombie(t) PROVE G
  BY <1>15, <1>ty DEF tcb_pool_make_zombie, At, Goto, threadVars
<1>16. ASSUME NEW t \in Thread, ZombieLost(t) PROVE G
  BY <1>16, <1>ty DEF ZombieLost, At, Goto, threadVars
<1>17. ASSUME NEW t \in Thread, syscall_fork(t) PROVE G
  BY <1>17, <1>ty DEF syscall_fork, At, Holding, Goto, threadVars
<1>18. ASSUME NEW t \in Thread, scheduler_add_new_thread(t) PROVE G
  <2>1. u # next_tid
    BY <1>pl, <1>ty DEF Placed
  <2>. QED
    BY <1>18, <1>ty, <2>1 DEF scheduler_add_new_thread, At, Holding, Goto
<1>19. ASSUME NEW t \in Thread, syscall_exec(t) PROVE G
  BY <1>19, <1>ty DEF syscall_exec, At, Holding, threadVars
<1>20. ASSUME NEW t \in Thread, WaitCheck(t) PROVE G
  BY <1>20, <1>ty DEF WaitCheck, At, Goto, threadVars
<1>21. ASSUME NEW t \in Thread, thr_vanish(t) PROVE G
  BY <1>21, <1>ty DEF thr_vanish, At, Goto, threadVars
<1>22. ASSUME NEW t \in Thread, NEW s \in Statuses, thr_set_status(t, s) PROVE G
  BY <1>22, <1>ty DEF thr_set_status
<1>23. CASE ReaperWait
  BY <1>23 DEF ReaperWait, threadVars
<1>24. CASE ReaperPeek
  BY <1>24 DEF ReaperPeek, threadVars
<1>25. CASE tcb_pool_reap
  BY <1>25 DEF tcb_pool_reap, threadVars
<1>26. CASE pcb_destroy_s
  BY <1>26 DEF pcb_destroy_s, threadVars
<1>27. CASE UseAfterFree
  BY <1>27 DEF UseAfterFree, threadVars
<1>28. CASE UNCHANGED vars
  BY <1>28 DEF vars, threadVars
<1>. QED
  BY <1>1, <1>2, <1>3, <1>4, <1>5, <1>6, <1>7, <1>8, <1>9, <1>10, <1>11, <1>12, <1>13,
     <1>14, <1>15, <1>16, <1>17, <1>18, <1>19, <1>20, <1>21, <1>22, <1>23, <1>24,
     <1>25, <1>26, <1>27, <1>28
  DEF Next, KernelStep, ReaperStep

(* Only pcb_destroy_s frees a process. *)
LEMMA FreedBefore ==
  ASSUME TypeInv, Shape, [Next]_vars, ~pcb_destroy_s, NEW p \in Proc, pcb'[p].state = "freed"
  PROVE  pcb[p].state = "freed"
<1>pcb. pcb \in [Proc -> Pcb]
  BY DEF TypeInv
<1>1. ASSUME NEW t \in Thread, ForkFails(t) PROVE pcb[p].state = "freed"
  BY <1>1, <1>pcb DEF ForkFails, Pcb, procVars
<1>2. ASSUME NEW t \in Thread, scheduler_add_process(t) PROVE pcb[p].state = "freed"
  <2>1. pcb_copy(Mine(t), next_tid).state = "live"
    BY DEF pcb_copy, pcb_init
  <2>. QED
    BY <1>2, <1>pcb, <2>1 DEF scheduler_add_process
<1>3. ASSUME NEW t \in Thread, tcb_pool_add_runnable_tcb_safe(t) PROVE pcb[p].state = "freed"
  BY <1>3, <1>pcb DEF tcb_pool_add_runnable_tcb_safe, Pcb, procVars
<1>4. ASSUME NEW t \in Thread, pcb_inc_children_s(t) PROVE pcb[p].state = "freed"
  BY <1>4, <1>pcb DEF pcb_inc_children_s, Pcb
<1>5. ASSUME NEW t \in Thread, WaitSem(t) PROVE pcb[p].state = "freed"
  BY <1>5, <1>pcb DEF WaitSem, Pcb
<1>6. ASSUME NEW t \in Thread, pcb_wait_on_status(t) PROVE pcb[p].state = "freed"
  <2>1. CASE pcb[Mine(t)].status_queue = <<>>
    BY <1>6, <1>pcb, <2>1 DEF pcb_wait_on_status, Pcb
  <2>2. CASE pcb[Mine(t)].status_queue # <<>>
    BY <1>6, <1>pcb, <2>2 DEF pcb_wait_on_status, Pcb
  <2>. QED
    BY <2>1, <2>2
<1>7. ASSUME NEW t \in Thread, pcb_dec_children_s(t) PROVE pcb[p].state = "freed"
  BY <1>7, <1>pcb DEF pcb_dec_children_s, Pcb
<1>8. ASSUME NEW t \in Thread, LockParent(t) PROVE pcb[p].state = "freed"
  BY <1>8, <1>pcb DEF LockParent, Pcb
<1>9. ASSUME NEW t \in Thread, Adopt(t) PROVE pcb[p].state = "freed"
  BY <1>9, <1>pcb DEF Adopt, Pcb
<1>10. ASSUME NEW t \in Thread, pcb_dec_threads_s(t) PROVE pcb[p].state = "freed"
  BY <1>10, <1>pcb DEF pcb_dec_threads_s, Pcb
<1>11. ASSUME NEW t \in Thread, pcb_signal_status(t) PROVE pcb[p].state = "freed"
  BY <1>11, <1>pcb DEF pcb_signal_status, Pcb
<1>12. ASSUME NEW t \in Thread, SignalStatus(t) PROVE pcb[p].state = "freed"
  BY <1>12, <1>pcb DEF SignalStatus, Pcb
<1>13. ASSUME NEW t \in Thread, UnlockParent(t) PROVE pcb[p].state = "freed"
  BY <1>13, <1>pcb DEF UnlockParent, Pcb
<1>14. ASSUME NEW t \in Thread, SignalReaper(t) PROVE pcb[p].state = "freed"
  BY <1>14, <1>pcb DEF SignalReaper, Pcb, procVars
<1>15. ASSUME NEW t \in Thread, tcb_pool_make_zombie(t) PROVE pcb[p].state = "freed"
  BY <1>15, <1>pcb DEF tcb_pool_make_zombie, Pcb, procVars
<1>16. ASSUME NEW t \in Thread, ZombieLost(t) PROVE pcb[p].state = "freed"
  BY <1>16, <1>pcb DEF ZombieLost, Pcb, procVars
<1>17. ASSUME NEW t \in Thread, syscall_fork(t) PROVE pcb[p].state = "freed"
  BY <1>17, <1>pcb DEF syscall_fork, Pcb, procVars
<1>18. ASSUME NEW t \in Thread, scheduler_add_new_thread(t) PROVE pcb[p].state = "freed"
  BY <1>18, <1>pcb DEF scheduler_add_new_thread, Pcb
<1>19. ASSUME NEW t \in Thread, syscall_exec(t) PROVE pcb[p].state = "freed"
  BY <1>19, <1>pcb DEF syscall_exec, Pcb
<1>20. ASSUME NEW t \in Thread, WaitCheck(t) PROVE pcb[p].state = "freed"
  BY <1>20, <1>pcb DEF WaitCheck, Pcb, procVars
<1>21. ASSUME NEW t \in Thread, thr_vanish(t) PROVE pcb[p].state = "freed"
  BY <1>21, <1>pcb DEF thr_vanish, Pcb, procVars
<1>22. ASSUME NEW t \in Thread, NEW s \in Statuses, thr_set_status(t, s) PROVE pcb[p].state = "freed"
  BY <1>22 DEF thr_set_status, procVars
<1>23. CASE ReaperWait
  BY <1>23 DEF ReaperWait, procVars
<1>24. CASE ReaperPeek
  BY <1>24 DEF ReaperPeek, procVars
<1>25. CASE tcb_pool_reap
  BY <1>25 DEF tcb_pool_reap
<1>26. CASE pcb_destroy_s
  BY <1>26
<1>27. CASE UseAfterFree
  BY <1>27 DEF UseAfterFree, procVars
<1>28. CASE UNCHANGED vars
  BY <1>28 DEF vars, procVars
<1>. QED
  BY <1>1, <1>2, <1>3, <1>4, <1>5, <1>6, <1>7, <1>8, <1>9, <1>10, <1>11, <1>12, <1>13,
     <1>14, <1>15, <1>16, <1>17, <1>18, <1>19, <1>20, <1>21, <1>22, <1>23, <1>24,
     <1>25, <1>26, <1>27, <1>28
  DEF Next, KernelStep, ReaperStep

(* The steps that leave the zombie pool and the reaper alone. *)
LEMMA QuietSteps ==
  ASSUME [Next]_vars,
         \A t \in Thread : ~SignalReaper(t) /\ ~tcb_pool_make_zombie(t),
         ~ReaperWait, ~ReaperPeek, ~tcb_pool_reap, ~pcb_destroy_s
  PROVE  /\ zombie_pool' = zombie_pool /\ reaper' = reaper
         /\ zombies_sem' = zombies_sem /\ early' = early /\ irq' = irq
BY DEF Next, KernelStep, ReaperStep, vars, reapVars, UseAfterFree, thr_set_status, ForkFails,
       scheduler_add_process, tcb_pool_add_runnable_tcb_safe, pcb_inc_children_s,
       WaitSem, pcb_wait_on_status, pcb_dec_children_s, LockParent, Adopt,
       pcb_dec_threads_s, pcb_signal_status, SignalStatus, UnlockParent, ZombieLost,
       syscall_fork, scheduler_add_new_thread, syscall_exec, WaitCheck, thr_vanish

(* Every step keeps what the reaper has off the CPU. *)
LEMMA ReapStep ==
  TypeInv /\ Shape /\ ReapInv /\ [Next]_vars => ReapInv'
<1> SUFFICES ASSUME TypeInv, Shape, ReapInv, [Next]_vars PROVE ReapInv'
  OBVIOUS
<1>ty. /\ reaper \in Reaper /\ zombie_pool \in Seq(Thread)
       /\ pc \in [Thread -> Points] /\ pcb \in [Proc -> Pcb]
  BY DEF TypeInv
<1>1. \A u \in Thread : pc[u] = "gone" => pc'[u] = "gone" /\ tcb'[u].pcb = tcb[u].pcb
  BY GoneStays
<1>2. /\ \A i \in DOMAIN zombie_pool : zombie_pool[i] \in Thread
      /\ reaper.tcb # None => reaper.tcb \in Thread
  BY <1>ty DEF Reaper
<1>3. /\ \A i \in DOMAIN zombie_pool : pc'[zombie_pool[i]] = "gone"
      /\ reaper.tcb # None => pc'[reaper.tcb] = "gone"
  BY <1>1, <1>2 DEF ReapInv
<1>4. ASSUME ~pcb_destroy_s
      PROVE  \A p \in Proc : ~Live(p)' => \E t \in Threads(p)' : pc'[t] = "gone"
  <2> SUFFICES ASSUME NEW p \in Proc, pcb'[p].state = "freed"
               PROVE  \E t \in Thread : tcb'[t].pcb = p /\ pc'[t] = "gone"
    BY DEF Live, Threads, Mine
  <2>1. pcb[p].state = "freed"
    BY <1>4, FreedBefore
  <2>2. PICK t \in Thread : tcb[t].pcb = p /\ pc[t] = "gone"
    BY <2>1 DEF ReapInv, Live, Threads, Mine
  <2>. QED
    BY <1>1, <2>2
<1>5. ASSUME NEW t \in Thread, SignalReaper(t) PROVE ReapInv'
  <2>1. ~pcb_destroy_s
    BY <1>5 DEF SignalReaper, pcb_destroy_s, At, ReaperAt, Goto, TypeInv
  <2>2. zombie_pool' = zombie_pool /\ reaper'.tcb = reaper.tcb
    BY <1>5, <1>ty DEF SignalReaper, Reaper
  <2>3. reaper'.at \in {"remove", "destroy"} => reaper.at \in {"remove", "destroy"}
    BY <1>5, <1>ty DEF SignalReaper, Reaper
  <2>. QED
    BY <1>3, <1>4, <2>1, <2>2, <2>3 DEF ReapInv
<1>6. ASSUME NEW t \in Thread, tcb_pool_make_zombie(t) PROVE ReapInv'
  <2>1. ~pcb_destroy_s
    BY <1>6 DEF tcb_pool_make_zombie, pcb_destroy_s, At, Goto, TypeInv
  <2>2. zombie_pool' = Append(zombie_pool, t) /\ reaper' = reaper /\ pc'[t] = "gone"
    BY <1>6, <1>ty DEF tcb_pool_make_zombie, Goto
  <2>3. \A i \in DOMAIN zombie_pool' : pc'[zombie_pool'[i]] = "gone"
    BY <1>3, <1>ty, <2>2
  <2>. QED
    BY <1>3, <1>4, <2>1, <2>2, <2>3 DEF ReapInv
<1>7. CASE ReaperWait
  <2>1. ~pcb_destroy_s
    BY <1>7 DEF ReaperWait, pcb_destroy_s, ReaperAt
  <2>2. /\ zombie_pool' = zombie_pool /\ reaper'.tcb = reaper.tcb
        /\ reaper'.at \in {"asleep", "peek"}
    BY <1>7, <1>ty DEF ReaperWait, Reaper
  <2>. QED
    BY <1>3, <1>4, <2>1, <2>2 DEF ReapInv
<1>8. CASE ReaperPeek
  <2>1. ~pcb_destroy_s
    BY <1>8 DEF ReaperPeek, pcb_destroy_s, ReaperAt
  <2>2. CASE zombie_pool = <<>>
    <3>1. zombie_pool' = <<>> /\ reaper' = [at |-> "wait", tcb |-> None]
      BY <1>8, <2>2 DEF ReaperPeek, scheduler_add_reaper_proc
    <3>. QED
      BY <1>4, <2>1, <3>1 DEF ReapInv
  <2>3. CASE zombie_pool # <<>>
    <3>1. zombie_pool' = zombie_pool /\ reaper' = [at |-> "remove", tcb |-> zombie_pool[1]]
      BY <1>8, <2>3 DEF ReaperPeek
    <3>2. 1 \in DOMAIN zombie_pool
      BY <1>ty, <2>3
    <3>3. zombie_pool[1] \in Thread
      BY <1>2, <3>2
    <3>. QED
      BY <1>3, <1>4, <2>1, <3>1, <3>2, <3>3, Numbers DEF ReapInv
  <2>. QED
    BY <2>2, <2>3
<1>9. CASE tcb_pool_reap
  <2>1. ~pcb_destroy_s
    BY <1>9 DEF tcb_pool_reap, pcb_destroy_s, ReaperAt
  <2>2. zombie_pool # <<>> /\ reaper.tcb # None
    BY <1>9 DEF tcb_pool_reap, ReaperAt, Shape, Removing, ReapInv
  <2>3. zombie_pool' = Tail(zombie_pool) /\ reaper'.tcb = reaper.tcb
    BY <1>9, <1>ty DEF tcb_pool_reap, tcb_pool_remove_tcb, Reaper
  <2>4. \A i \in DOMAIN zombie_pool' : pc'[zombie_pool'[i]] = "gone"
    BY <1>3, <1>ty, <2>2, <2>3
  <2>. QED
    BY <1>3, <1>4, <2>1, <2>2, <2>3, <2>4 DEF ReapInv
<1>10. CASE pcb_destroy_s
  <2>1. zombie_pool' = zombie_pool /\ reaper' = [at |-> "wait", tcb |-> None]
    BY <1>10 DEF pcb_destroy_s, scheduler_add_reaper_proc
  <2>2. reaper.tcb \in Thread /\ pc'[reaper.tcb] = "gone"
    BY <1>10, <1>2, <1>3 DEF pcb_destroy_s, ReaperAt, ReapInv
  <2>3. \A p \in Proc : p # Mine(reaper.tcb) => pcb'[p] = pcb[p]
    BY <1>10, <1>ty DEF pcb_destroy_s
  <2>4. tcb' = tcb
    BY <1>10 DEF pcb_destroy_s, threadVars
  <2>5. ASSUME NEW p \in Proc, pcb'[p].state = "freed"
        PROVE  \E t \in Thread : tcb'[t].pcb = p /\ pc'[t] = "gone"
    <3>1. CASE p = Mine(reaper.tcb)
      BY <2>2, <2>4, <3>1 DEF Mine
    <3>2. CASE p # Mine(reaper.tcb)
      <4>1. pcb[p].state = "freed"
        BY <2>3, <2>5, <3>2
      <4>2. PICK t \in Thread : tcb[t].pcb = p /\ pc[t] = "gone"
        BY <4>1 DEF ReapInv, Live, Threads, Mine
      <4>. QED
        BY <1>1, <4>2
    <3>. QED
      BY <3>1, <3>2
  <2>6. \A p \in Proc : ~Live(p)' => \E t \in Threads(p)' : pc'[t] = "gone"
    BY <2>5 DEF Live, Threads, Mine
  <2>. QED
    BY <1>3, <2>1, <2>6 DEF ReapInv
<1>11. ASSUME \A t \in Thread : ~SignalReaper(t) /\ ~tcb_pool_make_zombie(t),
              ~ReaperWait, ~ReaperPeek, ~tcb_pool_reap, ~pcb_destroy_s
       PROVE  ReapInv'
  <2>1. zombie_pool' = zombie_pool /\ reaper' = reaper
    BY <1>11, QuietSteps
  <2>. QED
    BY <1>3, <1>4, <1>11, <2>1 DEF ReapInv
<1>. QED
  BY <1>5, <1>6, <1>7, <1>8, <1>9, <1>10, <1>11

(* The steps that leave the threads between zombie and the pool alone. *)
LEMMA LinkStays ==
  ASSUME TypeInv, Shape, [Next]_vars, NEW u \in Thread,
         \A t \in Thread : ~SignalReaper(t) /\ ~tcb_pool_make_zombie(t) /\ ~ZombieLost(t)
  PROVE  /\ pc[u] \in {"link", "gone", "lost"} => pc'[u] = pc[u]
         /\ pc'[u] = "link" => pc[u] = "link"
<1> DEFINE G == /\ pc[u] \in {"link", "gone", "lost"} => pc'[u] = pc[u]
                /\ pc'[u] = "link" => pc[u] = "link"
<1>pl. Placed
  BY DEF Shape
<1>ty. pc \in [Thread -> Points]
  BY DEF TypeInv
<1>1. ASSUME NEW t \in Thread, ForkFails(t) PROVE G
  BY <1>1, <1>ty DEF ForkFails, At, Goto
<1>2. ASSUME NEW t \in Thread, scheduler_add_process(t) PROVE G
  BY <1>2, <1>ty DEF scheduler_add_process, At, Goto
<1>3. ASSUME NEW t \in Thread, tcb_pool_add_runnable_tcb_safe(t) PROVE G
  BY <1>3, <1>pl, <1>ty DEF tcb_pool_add_runnable_tcb_safe, Placed, At
<1>4. ASSUME NEW t \in Thread, pcb_inc_children_s(t) PROVE G
  BY <1>4, <1>ty DEF pcb_inc_children_s, At, Holding, Goto
<1>5. ASSUME NEW t \in Thread, WaitSem(t) PROVE G
  BY <1>5, <1>ty DEF WaitSem, At, Goto
<1>6. ASSUME NEW t \in Thread, pcb_wait_on_status(t) PROVE G
  BY <1>6, <1>ty DEF pcb_wait_on_status, At, Holding, Goto
<1>7. ASSUME NEW t \in Thread, pcb_dec_children_s(t) PROVE G
  BY <1>7, <1>ty DEF pcb_dec_children_s, At, Holding, Goto
<1>8. ASSUME NEW t \in Thread, LockParent(t) PROVE G
  BY <1>8, <1>ty DEF LockParent, At, Holding, Goto
<1>9. ASSUME NEW t \in Thread, Adopt(t) PROVE G
  BY <1>9, <1>ty DEF Adopt, At, Holding, Goto
<1>10. ASSUME NEW t \in Thread, pcb_dec_threads_s(t) PROVE G
  BY <1>10, <1>ty DEF pcb_dec_threads_s, At, Holding, Goto
<1>11. ASSUME NEW t \in Thread, pcb_signal_status(t) PROVE G
  BY <1>11, <1>ty DEF pcb_signal_status, At, Goto
<1>12. ASSUME NEW t \in Thread, SignalStatus(t) PROVE G
  BY <1>12, <1>ty DEF SignalStatus, Wakes, Sleepers, At, Goto
<1>13. ASSUME NEW t \in Thread, UnlockParent(t) PROVE G
  BY <1>13, <1>ty DEF UnlockParent, At, Goto
<1>14. ASSUME NEW t \in Thread, SignalReaper(t) PROVE G
  BY <1>14
<1>15. ASSUME NEW t \in Thread, tcb_pool_make_zombie(t) PROVE G
  BY <1>15
<1>16. ASSUME NEW t \in Thread, ZombieLost(t) PROVE G
  BY <1>16
<1>17. ASSUME NEW t \in Thread, syscall_fork(t) PROVE G
  BY <1>17, <1>ty DEF syscall_fork, At, Holding, Goto
<1>18. ASSUME NEW t \in Thread, scheduler_add_new_thread(t) PROVE G
  BY <1>18, <1>ty DEF scheduler_add_new_thread, At, Holding, Goto
<1>19. ASSUME NEW t \in Thread, syscall_exec(t) PROVE G
  BY <1>19, <1>ty DEF syscall_exec, At, Holding
<1>20. ASSUME NEW t \in Thread, WaitCheck(t) PROVE G
  BY <1>20, <1>ty DEF WaitCheck, At, Goto
<1>21. ASSUME NEW t \in Thread, thr_vanish(t) PROVE G
  BY <1>21, <1>ty DEF thr_vanish, At, Goto
<1>22. ASSUME NEW t \in Thread, NEW s \in Statuses, thr_set_status(t, s) PROVE G
  BY <1>22 DEF thr_set_status
<1>23. CASE ReaperWait
  BY <1>23 DEF ReaperWait
<1>24. CASE ReaperPeek
  BY <1>24 DEF ReaperPeek
<1>25. CASE tcb_pool_reap
  BY <1>25 DEF tcb_pool_reap
<1>26. CASE pcb_destroy_s
  BY <1>26 DEF pcb_destroy_s
<1>27. CASE UseAfterFree
  BY <1>27 DEF UseAfterFree
<1>28. CASE UNCHANGED vars
  BY <1>28 DEF vars
<1>. QED
  BY <1>1, <1>2, <1>3, <1>4, <1>5, <1>6, <1>7, <1>8, <1>9, <1>10, <1>11, <1>12, <1>13,
     <1>14, <1>15, <1>16, <1>17, <1>18, <1>19, <1>20, <1>21, <1>22, <1>23, <1>24,
     <1>25, <1>26, <1>27, <1>28
  DEF Next, KernelStep, ReaperStep

(* Past is finite; the zombie that is linked, or lost, is counted in it.   *)
LEMMA PastCounts ==
  ASSUME TypeInv
  PROVE  /\ IsFiniteSet(Past) /\ Cardinality(Past) \in Nat
         /\ \A t : t \notin Past => Cardinality(Past \cup {t}) = Cardinality(Past) + 1
         /\ Cardinality(Past) <= Cardinality(early)
<1>1. IsFiniteSet(early)
  BY Numbers, FS_Subset DEF TypeInv
<1>2. IsFiniteSet(Past) /\ Cardinality(Past) <= Cardinality(early)
  BY <1>1, FS_Subset DEF Past
<1>. QED
  BY <1>2, FS_AddElement, FS_CardinalityType

(* Every step keeps the zombies signalled. *)
LEMMA SignalStep ==
  TypeInv /\ Shape /\ SignalInv /\ [Next]_vars => SignalInv'
<1> SUFFICES ASSUME TypeInv, Shape, SignalInv, [Next]_vars PROVE SignalInv'
  OBVIOUS
<1>ty. /\ reaper \in Reaper /\ pc \in [Thread -> Points] /\ early \subseteq Thread
       /\ irq \in Thread \cup {None}
  BY DEF TypeInv
<1>num. /\ zombies_sem \in Int /\ Cardinality(Past) \in Nat
        /\ zombie_pool \in Seq(Thread) /\ Len(zombie_pool) \in Nat
  BY PastCounts DEF TypeInv
<1>si. /\ Len(zombie_pool) + Coming <= Cardinality(Past) + Units + Taken
       /\ irq # None => pc[irq] = "link" /\ irq \notin early
       /\ \A t \in Thread : pc[t] = "link" => t = irq \/ t \in early
       /\ \A t \in early : pc[t] \in {"link", "gone", "lost"}
       /\ reaper.at = "asleep" => zombies_sem = -1
       /\ reaper.at # "asleep" => zombies_sem >= 0
  BY DEF SignalInv
<1>1. ASSUME NEW t \in Thread, SignalReaper(t) PROVE SignalInv'
  <2>1. /\ pc[t] = "zombie" /\ irq = None /\ pc' = [pc EXCEPT ![t] = "link"]
        /\ zombies_sem' = zombies_sem + 1 /\ zombie_pool' = zombie_pool
        /\ t \notin early /\ early' = IF irq' = None THEN early \cup {t} ELSE early
    BY <1>1, <1>si DEF SignalReaper, At, Goto
  <2>2. Past' = Past
    BY <1>ty, <2>1 DEF Past
  <2>3. /\ irq' # None => irq' = t
        /\ reaper.at = "asleep" => irq' = None /\ reaper'.at = "peek"
        /\ reaper.at # "asleep" => reaper' = reaper
    BY <1>1, <1>ty DEF SignalReaper, Reaper
  <2>4. /\ irq' # None => pc'[irq'] = "link" /\ irq' \notin early'
        /\ \A u \in Thread : pc'[u] = "link" => u = irq' \/ u \in early'
        /\ \A u \in early' : pc'[u] \in {"link", "gone", "lost"}
    BY <1>si, <1>ty, <2>1, <2>3, Numbers
  <2>5. /\ reaper'.at = "asleep" => zombies_sem' = -1
        /\ reaper'.at # "asleep" => zombies_sem' >= 0
    BY <1>si, <1>num, <2>1, <2>3
  <2>6. (Len(zombie_pool) + Coming <= Cardinality(Past) + Units + Taken)'
    <3>1. CASE reaper.at = "asleep"
      BY <1>si, <1>num, <2>1, <2>2, <2>3, <3>1 DEF Coming, Units, Taken
    <3>2. CASE reaper.at # "asleep"
      BY <1>si, <1>num, <2>1, <2>2, <2>3, <3>2 DEF Coming, Units, Taken
    <3>. QED
      BY <3>1, <3>2
  <2>. QED
    BY <2>4, <2>5, <2>6 DEF SignalInv
<1>2. ASSUME NEW t \in Thread, tcb_pool_make_zombie(t) PROVE SignalInv'
  <2>1. /\ pc[t] = "link" /\ irq \in {None, t} /\ irq' = None
        /\ pc' = [pc EXCEPT ![t] = "gone"] /\ zombie_pool' = Append(zombie_pool, t)
        /\ zombies_sem' = zombies_sem /\ reaper' = reaper /\ early' = early
    BY <1>2 DEF tcb_pool_make_zombie, At, Goto
  <2>2. Len(zombie_pool') = Len(zombie_pool) + 1
    BY <1>num, <2>1
  <2>3. CASE irq = None
    <3>1. t \in early /\ t \notin Past
      BY <1>si, <2>1, <2>3, Numbers DEF Past
    <3>2. Past' = Past \cup {t}
      BY <1>ty, <2>1, <3>1 DEF Past
    <3>3. Cardinality(Past') = Cardinality(Past) + 1
      BY <3>1, <3>2, PastCounts
    <3>4. (Len(zombie_pool) + Coming <= Cardinality(Past) + Units + Taken)'
      BY <1>si, <1>num, <2>1, <2>2, <2>3, <3>3 DEF Coming, Units, Taken
    <3>. QED
      BY <1>si, <1>ty, <2>1, <2>3, <3>1, <3>4, Numbers DEF SignalInv
  <2>4. CASE irq = t
    <3>1. t \notin early /\ irq # None
      BY <1>si, <2>4, Numbers
    <3>2. Past' = Past
      BY <1>ty, <2>1, <3>1 DEF Past
    <3>3. (Len(zombie_pool) + Coming <= Cardinality(Past) + Units + Taken)'
      BY <1>si, <1>num, <2>1, <2>2, <3>1, <3>2 DEF Coming, Units, Taken
    <3>. QED
      BY <1>si, <1>ty, <2>1, <2>4, <3>1, <3>3, Numbers DEF SignalInv
  <2>. QED
    BY <2>1, <2>3, <2>4
<1>3. ASSUME NEW t \in Thread, ZombieLost(t) PROVE SignalInv'
  <2>1. /\ pc[t] = "link" /\ irq = None /\ irq' = None
        /\ pc' = [pc EXCEPT ![t] = "lost"] /\ zombie_pool' = zombie_pool
        /\ zombies_sem' = zombies_sem /\ reaper' = reaper /\ early' = early
    BY <1>3 DEF ZombieLost, At, Goto, reapVars
  <2>2. t \in early /\ t \notin Past
    BY <1>si, <2>1, Numbers DEF Past
  <2>3. Past' = Past \cup {t}
    BY <1>ty, <2>1, <2>2 DEF Past
  <2>4. Cardinality(Past') = Cardinality(Past) + 1
    BY <2>2, <2>3, PastCounts
  <2>5. (Len(zombie_pool) + Coming <= Cardinality(Past) + Units + Taken)'
    BY <1>si, <1>num, <2>1, <2>4 DEF Coming, Units, Taken
  <2>. QED
    BY <1>si, <1>ty, <2>1, <2>5, Numbers DEF SignalInv
<1>4. CASE ReaperWait
  <2>1. /\ reaper.at = "wait" /\ irq = None /\ irq' = None /\ pc' = pc
        /\ zombie_pool' = zombie_pool /\ zombies_sem' = zombies_sem - 1 /\ early' = early
        /\ reaper'.at = IF zombies_sem - 1 < 0 THEN "asleep" ELSE "peek"
    BY <1>4, <1>ty DEF ReaperWait, ReaperAt, Reaper
  <2>2. Past' = Past
    BY <2>1 DEF Past
  <2>3. (Len(zombie_pool) + Coming <= Cardinality(Past) + Units + Taken)'
    <3>1. CASE zombies_sem = 0
      BY <1>si, <1>num, <2>1, <2>2, <3>1 DEF Coming, Units, Taken
    <3>2. CASE zombies_sem > 0
      BY <1>si, <1>num, <2>1, <2>2, <3>2 DEF Coming, Units, Taken
    <3>. QED
      BY <1>si, <1>num, <2>1, <3>1, <3>2
  <2>4. /\ reaper'.at = "asleep" => zombies_sem' = -1
        /\ reaper'.at # "asleep" => zombies_sem' >= 0
    BY <1>si, <1>num, <2>1
  <2>. QED
    BY <1>si, <2>1, <2>3, <2>4 DEF SignalInv
<1>5. CASE ReaperPeek
  <2>1. /\ reaper.at = "peek" /\ irq = None /\ irq' = None /\ pc' = pc
        /\ zombie_pool' = zombie_pool /\ zombies_sem' = zombies_sem /\ early' = early
        /\ reaper'.at = IF zombie_pool = <<>> THEN "wait" ELSE "remove"
    BY <1>5 DEF ReaperPeek, ReaperAt, scheduler_add_reaper_proc
  <2>2. Past' = Past
    BY <2>1 DEF Past
  <2>3. (Len(zombie_pool) + Coming <= Cardinality(Past) + Units + Taken)'
    BY <1>si, <1>num, <2>1, <2>2 DEF Coming, Units, Taken
  <2>. QED
    BY <1>si, <2>1, <2>3 DEF SignalInv
<1>6. CASE tcb_pool_reap
  <2>1. /\ reaper.at = "remove" /\ irq = None /\ irq' = None /\ pc' = pc
        /\ zombie_pool' = Tail(zombie_pool) /\ zombies_sem' = zombies_sem /\ early' = early
        /\ reaper'.at = "destroy" /\ zombie_pool # <<>>
    BY <1>6, <1>ty
    DEF tcb_pool_reap, tcb_pool_remove_tcb, ReaperAt, Reaper, Shape, Removing
  <2>2. Past' = Past
    BY <2>1 DEF Past
  <2>3. Len(zombie_pool') = Len(zombie_pool) - 1
    BY <1>num, <2>1
  <2>4. (Len(zombie_pool) + Coming <= Cardinality(Past) + Units + Taken)'
    BY <1>si, <1>num, <2>1, <2>2, <2>3 DEF Coming, Units, Taken
  <2>. QED
    BY <1>si, <2>1, <2>4 DEF SignalInv
<1>7. CASE pcb_destroy_s
  <2>1. /\ reaper.at = "destroy" /\ irq = None /\ irq' = None /\ pc' = pc
        /\ zombie_pool' = zombie_pool /\ zombies_sem' = zombies_sem /\ early' = early
        /\ reaper'.at = "wait"
    BY <1>7 DEF pcb_destroy_s, ReaperAt, scheduler_add_reaper_proc
  <2>2. Past' = Past
    BY <2>1 DEF Past
  <2>3. (Len(zombie_pool) + Coming <= Cardinality(Past) + Units + Taken)'
    BY <1>si, <1>num, <2>1, <2>2 DEF Coming, Units, Taken
  <2>. QED
    BY <1>si, <2>1, <2>3 DEF SignalInv
<1>8. ASSUME \A t \in Thread : ~SignalReaper(t) /\ ~tcb_pool_make_zombie(t) /\ ~ZombieLost(t),
             ~ReaperWait, ~ReaperPeek, ~tcb_pool_reap, ~pcb_destroy_s
      PROVE  SignalInv'
  <2>1. /\ zombie_pool' = zombie_pool /\ reaper' = reaper
        /\ zombies_sem' = zombies_sem /\ early' = early /\ irq' = irq
    BY <1>8, QuietSteps
  <2>2. \A u \in Thread : /\ pc[u] \in {"link", "gone", "lost"} => pc'[u] = pc[u]
                          /\ pc'[u] = "link" => pc[u] = "link"
    BY <1>8, LinkStays
  <2>3. Past' = Past
    BY <1>si, <1>ty, <2>1, <2>2 DEF Past
  <2>4. (Len(zombie_pool) + Coming <= Cardinality(Past) + Units + Taken)'
    BY <1>si, <2>1, <2>3 DEF Coming, Units, Taken
  <2>. QED
    BY <1>si, <1>ty, <2>1, <2>2, <2>4 DEF SignalInv
<1>. QED
  BY <1>1, <1>2, <1>3, <1>4, <1>5, <1>6, <1>7, <1>8

-----------------------------------------------------------------------------
(* wait. *)

Dequeuers(p) == {t \in Thread : pc[t] = "dequeue" /\ Mine(t) = p}
Signallers(p) == {t \in Thread : pc[t] = "signal" /\ loc[t] = p}

(* The statuses of p, and those who come for them. *)
Balanced(p) ==
  /\ Len(pcb[p].status_queue) =
       Cardinality(Dequeuers(p)) + Cardinality(Signallers(p))
         + IF pcb[p].wait_sem > 0 THEN pcb[p].wait_sem ELSE 0
  /\ Cardinality(Sleepers(p)) = IF pcb[p].wait_sem < 0 THEN -pcb[p].wait_sem ELSE 0

(* WaitFindsStatus, a process at a time. *)
LEMMA WaitIsBalanced == WaitFindsStatus <=> \A p \in Proc : Balanced(p)
BY DEF WaitFindsStatus, Balanced, Dequeuers, Signallers

(* Counting threads. *)
LEMMA CountThreads ==
  /\ \A S \in SUBSET Thread : IsFiniteSet(S) /\ Cardinality(S) \in Nat
  /\ \A S \in SUBSET Thread, t \in Thread :
       t \notin S => Cardinality(S \cup {t}) = Cardinality(S) + 1
  /\ \A S \in SUBSET Thread, t \in Thread :
       t \in S => Cardinality(S \ {t}) = Cardinality(S) - 1
  /\ \A S \in SUBSET Thread : Cardinality(S) = 0 <=> S = {}
<1>1. \A S \in SUBSET Thread : IsFiniteSet(S) /\ Cardinality(S) \in Nat
  BY Numbers, FS_Subset, FS_CardinalityType
<1>2. \A S \in SUBSET Thread, t \in Thread :
        t \notin S => Cardinality(S \cup {t}) = Cardinality(S) + 1
  BY <1>1, FS_AddElement
<1>3. \A S \in SUBSET Thread, t \in Thread :
        t \in S => Cardinality(S \ {t}) = Cardinality(S) - 1
  BY <1>1, FS_RemoveElement
<1>4. \A S \in SUBSET Thread : Cardinality(S) = 0 <=> S = {}
  BY <1>1, FS_EmptySet
<1>. QED
  BY <1>1, <1>2, <1>3, <1>4

(* A balance depends only on the queue, the semaphore and the three sets.  *)
LEMMA SameBalance ==
  ASSUME NEW p \in Proc, Balanced(p),
         pcb'[p].status_queue = pcb[p].status_queue, pcb'[p].wait_sem = pcb[p].wait_sem,
         Dequeuers(p)' = Dequeuers(p), Signallers(p)' = Signallers(p),
         Sleepers(p)' = Sleepers(p)
  PROVE  Balanced(p)'
BY DEF Balanced

(* The steps that have to do neither with a status nor with the semaphore. *)
WaitPoints == {"asleep", "dequeue", "signal"}

(* The steps other than those four keep who waits and who signals. *)
LEMMA OtherThreads ==
  ASSUME TypeInv, Shape, [Next]_vars, NEW u \in Thread,
         \A t \in Thread : /\ ~WaitSem(t) /\ ~pcb_wait_on_status(t)
                           /\ ~pcb_signal_status(t) /\ ~SignalStatus(t)
  PROVE  /\ pc[u] \in WaitPoints \/ pc'[u] \in WaitPoints => pc'[u] = pc[u]
         /\ pc[u] \in WaitPoints => tcb'[u].pcb = tcb[u].pcb /\ loc'[u] = loc[u]
<1> DEFINE G == /\ pc[u] \in WaitPoints \/ pc'[u] \in WaitPoints => pc'[u] = pc[u]
                /\ pc[u] \in WaitPoints => tcb'[u].pcb = tcb[u].pcb /\ loc'[u] = loc[u]
<1>pl. Placed
  BY DEF Shape
<1>ty. /\ tcb \in [Thread -> [pcb : Proc \cup {None}, exit_status : Statuses \cup {None}]]
       /\ pc \in [Thread -> Points] /\ loc \in [Thread -> Proc \cup Thread \cup {None}]
  BY DEF TypeInv
<1>num. next_tid \in Nat \ {0, 1}
  BY DEF TypeInv
<1>1. ASSUME NEW t \in Thread, ForkFails(t) PROVE G
  BY <1>1, <1>ty DEF ForkFails, WaitPoints, At, Goto, threadVars
<1>2. ASSUME NEW t \in Thread, scheduler_add_process(t) PROVE G
  <2>1. pc[u] \in WaitPoints => u # next_tid
    BY <1>pl, <1>num DEF Placed, WaitPoints
  <2>. QED
    BY <1>2, <1>ty, <2>1 DEF scheduler_add_process, WaitPoints, At, Goto
<1>3. ASSUME NEW t \in Thread, tcb_pool_add_runnable_tcb_safe(t) PROVE G
  BY <1>3, <1>pl, <1>ty
  DEF tcb_pool_add_runnable_tcb_safe, WaitPoints, Placed, At, threadVars
<1>4. ASSUME NEW t \in Thread, pcb_inc_children_s(t) PROVE G
  BY <1>4, <1>ty DEF pcb_inc_children_s, WaitPoints, At, Holding, Goto, threadVars
<1>5. ASSUME NEW t \in Thread, WaitSem(t) PROVE G
  BY <1>5
<1>6. ASSUME NEW t \in Thread, pcb_wait_on_status(t) PROVE G
  BY <1>6
<1>7. ASSUME NEW t \in Thread, pcb_dec_children_s(t) PROVE G
  BY <1>7, <1>ty DEF pcb_dec_children_s, WaitPoints, At, Holding, Goto, threadVars
<1>8. ASSUME NEW t \in Thread, LockParent(t) PROVE G
  BY <1>8, <1>ty DEF LockParent, WaitPoints, At, Holding, Goto, threadVars
<1>9. ASSUME NEW t \in Thread, Adopt(t) PROVE G
  BY <1>9, <1>ty DEF Adopt, WaitPoints, At, Holding, Goto, threadVars
<1>10. ASSUME NEW t \in Thread, pcb_dec_threads_s(t) PROVE G
  BY <1>10, <1>ty DEF pcb_dec_threads_s, WaitPoints, At, Holding, Goto, threadVars
<1>11. ASSUME NEW t \in Thread, pcb_signal_status(t) PROVE G
  BY <1>11
<1>12. ASSUME NEW t \in Thread, SignalStatus(t) PROVE G
  BY <1>12
<1>13. ASSUME NEW t \in Thread, UnlockParent(t) PROVE G
  BY <1>13, <1>ty DEF UnlockParent, WaitPoints, At, Goto, threadVars
<1>14. ASSUME NEW t \in Thread, SignalReaper(t) PROVE G
  BY <1>14, <1>ty DEF SignalReaper, WaitPoints, At, Goto, threadVars
<1>15. ASSUME NEW t \in Thread, tcb_pool_make_zombie(t) PROVE G
  BY <1>15, <1>ty DEF tcb_pool_make_zombie, WaitPoints, At, Goto, threadVars
<1>16. ASSUME NEW t \in Thread, ZombieLost(t) PROVE G
  BY <1>16, <1>ty DEF ZombieLost, WaitPoints, At, Goto, threadVars
<1>17. ASSUME NEW t \in Thread, syscall_fork(t) PROVE G
  BY <1>17, <1>ty DEF syscall_fork, WaitPoints, At, Holding, Goto, threadVars
<1>18. ASSUME NEW t \in Thread, scheduler_add_new_thread(t) PROVE G
  <2>1. pc[u] \in WaitPoints => u # next_tid
    BY <1>pl, <1>num DEF Placed, WaitPoints
  <2>. QED
    BY <1>18, <1>ty, <2>1 DEF scheduler_add_new_thread, WaitPoints, At, Holding, Goto
<1>19. ASSUME NEW t \in Thread, syscall_exec(t) PROVE G
  BY <1>19, <1>ty DEF syscall_exec, WaitPoints, At, Holding, threadVars
<1>20. ASSUME NEW t \in Thread, WaitCheck(t) PROVE G
  BY <1>20, <1>ty DEF WaitCheck, WaitPoints, At, Goto, threadVars
<1>21. ASSUME NEW t \in Thread, thr_vanish(t) PROVE G
  BY <1>21, <1>ty DEF thr_vanish, WaitPoints, At, Goto, threadVars
<1>22. ASSUME NEW t \in Thread, NEW s \in Statuses, thr_set_status(t, s) PROVE G
  BY <1>22, <1>ty DEF thr_set_status
<1>23. CASE ReaperWait
  BY <1>23 DEF ReaperWait, threadVars
<1>24. CASE ReaperPeek
  BY <1>24 DEF ReaperPeek, threadVars
<1>25. CASE tcb_pool_reap
  BY <1>25 DEF tcb_pool_reap, threadVars
<1>26. CASE pcb_destroy_s
  BY <1>26 DEF pcb_destroy_s, threadVars
<1>27. CASE UseAfterFree
  BY <1>27 DEF UseAfterFree, threadVars
<1>28. CASE UNCHANGED vars
  BY <1>28 DEF vars, threadVars
<1>. QED
  BY <1>1, <1>2, <1>3, <1>4, <1>5, <1>6, <1>7, <1>8, <1>9, <1>10, <1>11, <1>12, <1>13,
     <1>14, <1>15, <1>16, <1>17, <1>18, <1>19, <1>20, <1>21, <1>22, <1>23, <1>24,
     <1>25, <1>26, <1>27, <1>28
  DEF Next, KernelStep, ReaperStep

(* They keep the status queues and their semaphores. *)
LEMMA OtherQueues ==
  ASSUME TypeInv, Shape, [Next]_vars, NEW p \in Proc,
         \A t \in Thread : /\ ~WaitSem(t) /\ ~pcb_wait_on_status(t)
                           /\ ~pcb_signal_status(t) /\ ~SignalStatus(t)
  PROVE  pcb'[p].status_queue = pcb[p].status_queue /\ pcb'[p].wait_sem = pcb[p].wait_sem
<1> DEFINE G == pcb'[p].status_queue = pcb[p].status_queue /\ pcb'[p].wait_sem = pcb[p].wait_sem
<1>pcb. pcb \in [Proc -> Pcb]
  BY DEF TypeInv
<1>1. ASSUME NEW t \in Thread, ForkFails(t) PROVE G
  BY <1>1, <1>pcb DEF ForkFails, Pcb, procVars
<1>2. ASSUME NEW t \in Thread, scheduler_add_process(t) PROVE G
  <2>1. /\ pcb_copy(Mine(t), next_tid).status_queue = <<>>
        /\ pcb_copy(Mine(t), next_tid).wait_sem = 0
        /\ pcb_init.status_queue = <<>> /\ pcb_init.wait_sem = 0
    BY DEF pcb_copy, pcb_init
  <2>2. next_pid \in Proc => pcb[next_pid] = pcb_init
    BY DEF Shape, Unmade, TypeInv
  <2>. QED
    BY <1>2, <1>pcb, <2>1, <2>2 DEF scheduler_add_process
<1>3. ASSUME NEW t \in Thread, tcb_pool_add_runnable_tcb_safe(t) PROVE G
  BY <1>3, <1>pcb DEF tcb_pool_add_runnable_tcb_safe, Pcb, procVars
<1>4. ASSUME NEW t \in Thread, pcb_inc_children_s(t) PROVE G
  BY <1>4, <1>pcb DEF pcb_inc_children_s, Pcb
<1>5. ASSUME NEW t \in Thread, WaitSem(t) PROVE G
  BY <1>5
<1>6. ASSUME NEW t \in Thread, pcb_wait_on_status(t) PROVE G
  BY <1>6
<1>7. ASSUME NEW t \in Thread, pcb_dec_children_s(t) PROVE G
  BY <1>7, <1>pcb DEF pcb_dec_children_s, Pcb
<1>8. ASSUME NEW t \in Thread, LockParent(t) PROVE G
  BY <1>8, <1>pcb DEF LockParent, Pcb
<1>9. ASSUME NEW t \in Thread, Adopt(t) PROVE G
  BY <1>9, <1>pcb DEF Adopt, Pcb
<1>10. ASSUME NEW t \in Thread, pcb_dec_threads_s(t) PROVE G
  BY <1>10, <1>pcb DEF pcb_dec_threads_s, Pcb
<1>11. ASSUME NEW t \in Thread, pcb_signal_status(t) PROVE G
  BY <1>11
<1>12. ASSUME NEW t \in Thread, SignalStatus(t) PROVE G
  BY <1>12
<1>13. ASSUME NEW t \in Thread, UnlockParent(t) PROVE G
  BY <1>13, <1>pcb DEF UnlockParent, Pcb
<1>14. ASSUME NEW t \in Thread, SignalReaper(t) PROVE G
  BY <1>14, <1>pcb DEF SignalReaper, Pcb, procVars
<1>15. ASSUME NEW t \in Thread, tcb_pool_make_zombie(t) PROVE G
  BY <1>15, <1>pcb DEF tcb_pool_make_zombie, Pcb, procVars
<1>16. ASSUME NEW t \in Thread, ZombieLost(t) PROVE G
  BY <1>16, <1>pcb DEF ZombieLost, Pcb, procVars
<1>17. ASSUME NEW t \in Thread, syscall_fork(t) PROVE G
  BY <1>17, <1>pcb DEF syscall_fork, Pcb, procVars
<1>18. ASSUME NEW t \in Thread, scheduler_add_new_thread(t) PROVE G
  BY <1>18, <1>pcb DEF scheduler_add_new_thread, Pcb
<1>19. ASSUME NEW t \in Thread, syscall_exec(t) PROVE G
  BY <1>19, <1>pcb DEF syscall_exec, Pcb
<1>20. ASSUME NEW t \in Thread, WaitCheck(t) PROVE G
  BY <1>20, <1>pcb DEF WaitCheck, Pcb, procVars
<1>21. ASSUME NEW t \in Thread, thr_vanish(t) PROVE G
  BY <1>21, <1>pcb DEF thr_vanish, Pcb, procVars
<1>22. ASSUME NEW t \in Thread, NEW s \in Statuses, thr_set_status(t, s) PROVE G
  BY <1>22 DEF thr_set_status, procVars
<1>23. CASE ReaperWait
  BY <1>23 DEF ReaperWait, procVars
<1>24. CASE ReaperPeek
  BY <1>24 DEF ReaperPeek, procVars
<1>25. CASE tcb_pool_reap
  BY <1>25 DEF tcb_pool_reap
<1>26. CASE pcb_destroy_s
  <2>1. CASE pcb[Mine(reaper.tcb)].num_threads = 0
    BY <1>26, <1>pcb, <2>1 DEF pcb_destroy_s, Pcb
  <2>2. CASE pcb[Mine(reaper.tcb)].num_threads # 0
    BY <1>26, <2>2 DEF pcb_destroy_s
  <2>. QED
    BY <2>1, <2>2
<1>27. CASE UseAfterFree
  BY <1>27 DEF UseAfterFree, procVars
<1>28. CASE UNCHANGED vars
  BY <1>28 DEF vars, procVars
<1>. QED
  BY <1>1, <1>2, <1>3, <1>4, <1>5, <1>6, <1>7, <1>8, <1>9, <1>10, <1>11, <1>12, <1>13,
     <1>14, <1>15, <1>16, <1>17, <1>18, <1>19, <1>20, <1>21, <1>22, <1>23, <1>24,
     <1>25, <1>26, <1>27, <1>28
  DEF Next, KernelStep, ReaperStep

(* Every step keeps the balance. *)
LEMMA WaitStep ==
  TypeInv /\ Shape /\ WaitFindsStatus /\ [Next]_vars => WaitFindsStatus'
<1> SUFFICES ASSUME TypeInv, Shape, \A p \in Proc : Balanced(p), [Next]_vars,
                    NEW p \in Proc
             PROVE  Balanced(p)'
  BY WaitIsBalanced DEF WaitFindsStatus, Balanced, Dequeuers, Signallers
<1>ba. Balanced(p)
  OBVIOUS
<1>ty. pc \in [Thread -> Points] /\ pcb \in [Proc -> Pcb]
  BY DEF TypeInv
<1>rec. /\ pcb[p].wait_sem \in Int
        /\ pcb[p].status_queue \in Seq(Report) /\ Len(pcb[p].status_queue) \in Nat
  BY <1>ty DEF Pcb
<1>nat. /\ Cardinality(Dequeuers(p)) \in Nat /\ Cardinality(Signallers(p)) \in Nat
        /\ Cardinality(Sleepers(p)) \in Nat
  BY CountThreads DEF Dequeuers, Signallers, Sleepers
<1>1. ASSUME NEW t \in Thread, WaitSem(t) PROVE Balanced(p)'
  <2> DEFINE k == pcb[Mine(t)].wait_sem - 1
  <2>1. /\ pc[t] = "wait" /\ Mine(t) \in Proc /\ tcb' = tcb /\ loc' = loc
        /\ pc' = [pc EXCEPT ![t] = IF k < 0 THEN "asleep" ELSE "dequeue"]
    BY <1>1, ActorHasProcess DEF WaitSem, At, Goto, threadVars
  <2>2. /\ pcb'[p].status_queue = pcb[p].status_queue
        /\ pcb'[p].wait_sem = IF p = Mine(t) THEN k ELSE pcb[p].wait_sem
    BY <1>1, <1>ty DEF WaitSem, Pcb
  <2>3. Signallers(p)' = Signallers(p)
    BY <1>ty, <2>1 DEF Signallers
  <2>4. t \notin Dequeuers(p) /\ t \notin Sleepers(p)
    BY <2>1 DEF Dequeuers, Sleepers
  <2>5. CASE p # Mine(t)
    <3>1. Dequeuers(p)' = Dequeuers(p) /\ Sleepers(p)' = Sleepers(p)
      BY <1>ty, <2>1, <2>5 DEF Dequeuers, Sleepers, Mine
    <3>. QED
      BY <1>ba, <2>2, <2>3, <2>5, <3>1, SameBalance
  <2>6. CASE p = Mine(t) /\ k < 0
    <3>1. Dequeuers(p)' = Dequeuers(p) /\ Sleepers(p)' = Sleepers(p) \cup {t}
      BY <1>ty, <2>1, <2>6 DEF Dequeuers, Sleepers, Mine
    <3>2. Cardinality(Sleepers(p)') = Cardinality(Sleepers(p)) + 1
      BY <2>4, <3>1, CountThreads DEF Sleepers
    <3>. QED
      BY <1>ba, <1>rec, <1>nat, <2>2, <2>3, <2>6, <3>1, <3>2 DEF Balanced
  <2>7. CASE p = Mine(t) /\ ~(k < 0)
    <3>1. Dequeuers(p)' = Dequeuers(p) \cup {t} /\ Sleepers(p)' = Sleepers(p)
      BY <1>ty, <2>1, <2>7 DEF Dequeuers, Sleepers, Mine
    <3>2. Cardinality(Dequeuers(p)') = Cardinality(Dequeuers(p)) + 1
      BY <2>4, <3>1, CountThreads DEF Dequeuers
    <3>3. pcb[p].wait_sem >= 1 /\ pcb'[p].wait_sem = pcb[p].wait_sem - 1
      BY <1>rec, <2>2, <2>7
    <3>4. /\ Len(pcb[p].status_queue) =
               Cardinality(Dequeuers(p)) + Cardinality(Signallers(p)) + pcb[p].wait_sem
          /\ Cardinality(Sleepers(p)) = 0
      BY <1>ba, <1>rec, <3>3 DEF Balanced
    <3>5. /\ (IF pcb'[p].wait_sem > 0 THEN pcb'[p].wait_sem ELSE 0) = pcb[p].wait_sem - 1
          /\ ~(pcb'[p].wait_sem < 0)
      BY <1>rec, <3>3
    <3>6. Len(pcb'[p].status_queue) =
            Cardinality(Dequeuers(p)') + Cardinality(Signallers(p)') + (pcb[p].wait_sem - 1)
      BY <1>rec, <1>nat, <2>2, <2>3, <3>2, <3>4
    <3>. QED
      BY <3>1, <3>4, <3>5, <3>6 DEF Balanced
  <2>. QED
    BY <2>5, <2>6, <2>7
<1>2. ASSUME NEW t \in Thread, pcb_wait_on_status(t) PROVE Balanced(p)'
  <2>1. pc[t] = "dequeue" /\ Mine(t) \in Proc /\ tcb' = tcb /\ loc' = loc
    BY <1>2, ActorHasProcess DEF pcb_wait_on_status, Holding, At, threadVars
  <2>2. pcb[Mine(t)].status_queue # <<>>
    <3>1. Balanced(Mine(t)) /\ t \in Dequeuers(Mine(t))
      BY <2>1 DEF Dequeuers
    <3>2. /\ Cardinality(Dequeuers(Mine(t))) \in Nat \ {0}
          /\ Cardinality(Signallers(Mine(t))) \in Nat
      BY <3>1, CountThreads DEF Dequeuers, Signallers
    <3>3. pcb[Mine(t)].wait_sem \in Int /\ pcb[Mine(t)].status_queue \in Seq(Report)
      BY <1>ty, <2>1 DEF Pcb
    <3>4. Len(pcb[Mine(t)].status_queue) # 0
      BY <3>1, <3>2, <3>3 DEF Balanced
    <3>. QED
      BY <3>3, <3>4
  <2>3. /\ pcb' = [pcb EXCEPT ![Mine(t)].status_queue = Tail(pcb[Mine(t)].status_queue)]
        /\ pc' = [pc EXCEPT ![t] = "uncount"]
    BY <1>2, <2>2 DEF pcb_wait_on_status, Goto
  <2>4. /\ pcb'[p].wait_sem = pcb[p].wait_sem
        /\ pcb'[p].status_queue = IF p = Mine(t) THEN Tail(pcb[p].status_queue)
                                  ELSE pcb[p].status_queue
    BY <1>ty, <2>3 DEF Pcb
  <2>5. Signallers(p)' = Signallers(p) /\ Sleepers(p)' = Sleepers(p)
    BY <1>ty, <2>1, <2>3 DEF Signallers, Sleepers, Mine
  <2>6. CASE p # Mine(t)
    <3>1. Dequeuers(p)' = Dequeuers(p)
      BY <1>ty, <2>1, <2>3, <2>6 DEF Dequeuers, Mine
    <3>. QED
      BY <1>ba, <2>4, <2>5, <2>6, <3>1, SameBalance
  <2>7. CASE p = Mine(t)
    <3>1. Dequeuers(p)' = Dequeuers(p) \ {t} /\ t \in Dequeuers(p)
      BY <1>ty, <2>1, <2>3, <2>7 DEF Dequeuers, Mine
    <3>2. Cardinality(Dequeuers(p)') = Cardinality(Dequeuers(p)) - 1
      BY <3>1, CountThreads DEF Dequeuers
    <3>3. Len(pcb'[p].status_queue) = Len(pcb[p].status_queue) - 1
      BY <1>rec, <2>2, <2>4, <2>7
    <3>. QED
      BY <1>ba, <1>rec, <1>nat, <2>4, <2>5, <3>2, <3>3 DEF Balanced
  <2>. QED
    BY <2>6, <2>7
<1>3. ASSUME NEW t \in Thread, pcb_signal_status(t) PROVE Balanced(p)'
  <2>1. /\ pc[t] = "report" /\ loc[t] \in Proc /\ tcb' = tcb /\ loc' = loc
        /\ pc' = [pc EXCEPT ![t] = "signal"]
    BY <1>3 DEF pcb_signal_status, At, Goto, threadVars, Shape, Placed, VanishPoints
  <2>2. /\ pcb'[p].wait_sem = pcb[p].wait_sem
        /\ pcb'[p].status_queue = IF p = loc[t] THEN Append(pcb[p].status_queue, Metadata(t))
                                  ELSE pcb[p].status_queue
    BY <1>3, <1>ty DEF pcb_signal_status, Pcb
  <2>3. Dequeuers(p)' = Dequeuers(p) /\ Sleepers(p)' = Sleepers(p)
    BY <1>ty, <2>1 DEF Dequeuers, Sleepers, Mine
  <2>4. CASE p # loc[t]
    <3>1. Signallers(p)' = Signallers(p)
      BY <1>ty, <2>1, <2>4 DEF Signallers
    <3>. QED
      BY <1>ba, <2>2, <2>3, <2>4, <3>1, SameBalance
  <2>5. CASE p = loc[t]
    <3>1. Signallers(p)' = Signallers(p) \cup {t} /\ t \notin Signallers(p)
      BY <1>ty, <2>1, <2>5 DEF Signallers
    <3>2. Cardinality(Signallers(p)') = Cardinality(Signallers(p)) + 1
      BY <3>1, CountThreads DEF Signallers
    <3>3. Len(pcb'[p].status_queue) = Len(pcb[p].status_queue) + 1
      BY <1>rec, <2>2, <2>5
    <3>. QED
      BY <1>ba, <1>rec, <1>nat, <2>2, <2>3, <3>2, <3>3 DEF Balanced
  <2>. QED
    BY <2>4, <2>5
<1>4. ASSUME NEW t \in Thread, SignalStatus(t) PROVE Balanced(p)'
  <2>1. pc[t] = "signal" /\ loc[t] \in Proc /\ tcb' = tcb /\ loc' = loc
    BY <1>4 DEF SignalStatus, At, threadVars, Shape, Placed, VanishPoints
  <2>2. /\ pcb'[p].status_queue = pcb[p].status_queue
        /\ pcb'[p].wait_sem = IF p = loc[t] THEN pcb[p].wait_sem + 1 ELSE pcb[p].wait_sem
    BY <1>4, <1>ty DEF SignalStatus, Pcb
  <2>3. CASE Sleepers(loc[t]) = {}
    <3>1. pc' = [pc EXCEPT ![t] = "unlock parent"]
      BY <1>4, <2>3 DEF SignalStatus, Wakes, Goto
    <3>2. Dequeuers(p)' = Dequeuers(p) /\ Sleepers(p)' = Sleepers(p)
      BY <1>ty, <2>1, <3>1 DEF Dequeuers, Sleepers, Mine
    <3>3. CASE p # loc[t]
      <4>1. Signallers(p)' = Signallers(p)
        BY <1>ty, <2>1, <3>1, <3>3 DEF Signallers
      <4>. QED
        BY <1>ba, <2>2, <3>2, <3>3, <4>1, SameBalance
    <3>4. CASE p = loc[t]
      <4>1. Signallers(p)' = Signallers(p) \ {t} /\ t \in Signallers(p)
        BY <1>ty, <2>1, <3>1, <3>4 DEF Signallers
      <4>2. Cardinality(Signallers(p)') = Cardinality(Signallers(p)) - 1
        BY <4>1, CountThreads DEF Signallers
      <4>3. Cardinality(Sleepers(p)) = 0
        BY <2>3, <3>4, FS_EmptySet
      <4>4. pcb[p].wait_sem >= 0 /\ pcb'[p].wait_sem = pcb[p].wait_sem + 1
        BY <1>ba, <1>rec, <2>2, <3>4, <4>3 DEF Balanced
      <4>5. Len(pcb[p].status_queue) =
              Cardinality(Dequeuers(p)) + Cardinality(Signallers(p)) + pcb[p].wait_sem
        BY <1>ba, <1>rec, <1>nat, <4>4 DEF Balanced
      <4>6. /\ (IF pcb'[p].wait_sem > 0 THEN pcb'[p].wait_sem ELSE 0) = pcb[p].wait_sem + 1
            /\ ~(pcb'[p].wait_sem < 0)
        BY <1>rec, <4>4
      <4>7. Len(pcb'[p].status_queue) =
              Cardinality(Dequeuers(p)') + Cardinality(Signallers(p)') + (pcb[p].wait_sem + 1)
        BY <1>rec, <1>nat, <2>2, <3>2, <4>2, <4>5
      <4>. QED
        BY <3>2, <4>3, <4>6, <4>7 DEF Balanced
    <3>. QED
      BY <3>3, <3>4
  <2>4. CASE Sleepers(loc[t]) # {}
    <3>1. PICK u \in Sleepers(loc[t]) :
                 pc' = [pc EXCEPT ![t] = "unlock parent", ![u] = "dequeue"]
      BY <1>4, <2>4 DEF SignalStatus, Wakes
    <3>2. u \in Thread /\ pc[u] = "asleep" /\ Mine(u) = loc[t] /\ u # t
      BY <2>1, <3>1 DEF Sleepers
    <3>3. /\ pc'[t] = "unlock parent" /\ pc'[u] = "dequeue"
          /\ \A v \in Thread \ {t, u} : pc'[v] = pc[v]
      BY <1>ty, <3>1, <3>2
    <3>4. CASE p # loc[t]
      <4>1. Signallers(p)' = Signallers(p)
        BY <2>1, <3>2, <3>3, <3>4 DEF Signallers
      <4>2. Dequeuers(p)' = Dequeuers(p) /\ Sleepers(p)' = Sleepers(p)
        BY <2>1, <3>2, <3>3, <3>4 DEF Dequeuers, Sleepers, Mine
      <4>. QED
        BY <1>ba, <2>2, <3>4, <4>1, <4>2, SameBalance
    <3>5. CASE p = loc[t]
      <4>1. Signallers(p)' = Signallers(p) \ {t} /\ t \in Signallers(p)
        BY <2>1, <3>2, <3>3, <3>5 DEF Signallers
      <4>2. Dequeuers(p)' = Dequeuers(p) \cup {u} /\ u \notin Dequeuers(p)
        BY <2>1, <3>2, <3>3, <3>5 DEF Dequeuers, Mine
      <4>3. Sleepers(p)' = Sleepers(p) \ {u} /\ u \in Sleepers(p)
        BY <2>1, <3>2, <3>3, <3>5 DEF Sleepers, Mine
      <4>4. Cardinality(Signallers(p)') = Cardinality(Signallers(p)) - 1
        BY <4>1, CountThreads DEF Signallers
      <4>5. Cardinality(Dequeuers(p)') = Cardinality(Dequeuers(p)) + 1
        BY <3>2, <4>2, CountThreads DEF Dequeuers
      <4>6. Cardinality(Sleepers(p)') = Cardinality(Sleepers(p)) - 1
        BY <3>2, <4>3, CountThreads DEF Sleepers
      <4>7. Cardinality(Sleepers(p)) # 0
        BY <4>3, CountThreads DEF Sleepers
      <4>8. /\ pcb[p].wait_sem < 0 /\ pcb'[p].wait_sem = pcb[p].wait_sem + 1
            /\ Cardinality(Sleepers(p)) = -pcb[p].wait_sem
        BY <1>ba, <1>rec, <2>2, <3>5, <4>7 DEF Balanced
      <4>9. Len(pcb[p].status_queue) = Cardinality(Dequeuers(p)) + Cardinality(Signallers(p))
        BY <1>ba, <1>rec, <1>nat, <4>8 DEF Balanced
      <4>. QED
        BY <1>rec, <1>nat, <2>2, <4>4, <4>5, <4>6, <4>8, <4>9 DEF Balanced
    <3>. QED
      BY <3>4, <3>5
  <2>. QED
    BY <2>3, <2>4
<1>5. ASSUME \A t \in Thread : /\ ~WaitSem(t) /\ ~pcb_wait_on_status(t)
                               /\ ~pcb_signal_status(t) /\ ~SignalStatus(t)
      PROVE  Balanced(p)'
  <2>1. \A u \in Thread :
          /\ pc[u] \in WaitPoints \/ pc'[u] \in WaitPoints => pc'[u] = pc[u]
          /\ pc[u] \in WaitPoints => tcb'[u].pcb = tcb[u].pcb /\ loc'[u] = loc[u]
    BY <1>5, OtherThreads
  <2>2. pcb'[p].status_queue = pcb[p].status_queue /\ pcb'[p].wait_sem = pcb[p].wait_sem
    BY <1>5, OtherQueues
  <2>3. /\ Dequeuers(p)' = Dequeuers(p) /\ Signallers(p)' = Signallers(p)
        /\ Sleepers(p)' = Sleepers(p)
    BY <2>1 DEF Dequeuers, Signallers, Sleepers, Mine, WaitPoints
  <2>. QED
    BY <1>ba, <2>2, <2>3, SameBalance
<1>. QED
  BY <1>1, <1>2, <1>3, <1>4, <1>5

-----------------------------------------------------------------------------
(* The theorems. *)

(* The inductive invariant. *)
IInv == TypeInv /\ Shape /\ ReapInv /\ SignalInv /\ WaitFindsStatus

(* The invariant holds after boot. *)
LEMMA InitInv == Init => IInv
<1> SUFFICES ASSUME Init PROVE IInv
  OBVIOUS
<1>1. TypeInv /\ Shape
  BY InitShape
<1>2. ReapInv
  <2>1. zombie_pool = <<>> /\ reaper = [at |-> "wait", tcb |-> None]
    BY DEF Init, scheduler_add_reaper_proc
  <2>2. \A p \in Proc : pcb[p].state # "freed"
    BY DEF Init, scheduler_add_init_process, pcb_init
  <2>. QED
    BY <2>1, <2>2 DEF ReapInv, Live
<1>3. SignalInv
  <2>1. Past = {} /\ Cardinality({}) = 0
    BY FS_EmptySet DEF Init, Past
  <2>2. \A t \in Thread : pc[t] # "link"
    BY DEF Init
  <2>. QED
    BY <2>1, <2>2 DEF Init, SignalInv, Coming, Units, Taken, scheduler_add_reaper_proc
<1>4. WaitFindsStatus
  <2> SUFFICES ASSUME NEW p \in Proc PROVE Balanced(p)
    BY WaitIsBalanced
  <2>1. Dequeuers(p) = {} /\ Signallers(p) = {} /\ Sleepers(p) = {}
    BY DEF Init, Dequeuers, Signallers, Sleepers
  <2>2. pcb[p].status_queue = <<>> /\ pcb[p].wait_sem = 0
    BY DEF Init, scheduler_add_init_process, pcb_init
  <2>. QED
    BY <2>1, <2>2, FS_EmptySet DEF Balanced
<1>. QED
  BY <1>1, <1>2, <1>3, <1>4 DEF IInv

(* Every step keeps the invariant. *)
LEMMA InvStep == IInv /\ [Next]_vars => IInv'
BY TypeStep, ShapeStep, ReapStep, SignalStep, WaitStep DEF IInv

(* The invariant holds in every behaviour. *)
LEMMA Invariant == Spec => []IInv
<1>1. Spec => Init /\ [][Next]_vars
  BY PTL DEF Spec
<1>. QED
  BY <1>1, InitInv, InvStep, PTL

(* wait never finds the queue empty after the semaphore let it pass, for   *)
(* any number of waiting and of exiting threads (pcb_wait_on_status,       *)
(* pcb_signal_status).                                                     *)
THEOREM WaitFindsStatusCorrect == Spec => []WaitFindsStatus
<1>1. IInv => WaitFindsStatus
  BY DEF IInv
<1>. QED
  BY <1>1, Invariant, PTL

(* The reaper frees a process of one thread after this thread is off the   *)
(* CPU, and has no thread that still runs (tcb_pool_reap, pcb_destroy_s).  *)
THEOREM ReapsTheDeadCorrect == Spec => []ReapsTheDead
<1>1. ASSUME TypeInv, ReapInv PROVE ReapsTheDead
  <2>1. ASSUME NEW p \in Proc, ~Live(p), Cardinality(Threads(p)) = 1, NEW t \in Threads(p)
        PROVE  pc[t] = "gone"
    <3>1. PICK u \in Threads(p) : pc[u] = "gone"
      BY <2>1, <1>1 DEF ReapInv
    <3>2. IsFiniteSet(Threads(p))
      BY Numbers, FS_Subset DEF Threads
    <3>3. PICK x : Threads(p) = {x}
      BY <2>1, <3>2, FS_Singleton
    <3>. QED
      BY <2>1, <3>1, <3>3
  <2>. QED
    BY <2>1, <1>1 DEF ReapsTheDead, ReapInv, Off
<1>2. IInv => ReapsTheDead
  BY <1>1 DEF IInv
<1>. QED
  BY <1>2, Invariant, PTL

(* Each zombie in the pool has a unit of the reaper's semaphore, or the    *)
(* reaper holds it, but for the threads that signalled with interrupts     *)
(* enabled (scheduler_make_current_zombie_safe).                           *)
THEOREM ZombiesSignalledCorrect == Spec => []ZombiesSignalled
<1>1. ASSUME TypeInv, SignalInv PROVE ZombiesSignalled
  <2>1. Cardinality(Past) \in Nat /\ Cardinality(Past) <= Cardinality(early)
    BY <1>1, PastCounts
  <2>2. Cardinality(early) \in Nat
    BY <1>1, CountThreads DEF TypeInv
  <2>3. Len(zombie_pool) \in Nat /\ zombies_sem \in Int
    BY <1>1 DEF TypeInv
  <2>4. Len(zombie_pool) + Coming <= Cardinality(Past) + Units + Taken
    BY <1>1 DEF SignalInv
  <2>. QED
    BY <2>1, <2>2, <2>3, <2>4 DEF ZombiesSignalled, Coming, Units, Taken
<1>2. IInv => ZombiesSignalled
  BY <1>1 DEF IInv
<1>. QED
  BY <1>2, Invariant, PTL

-----------------------------------------------------------------------------
(* Children.  What the steps do to the family: who is whose child, who has *)
(* exited, which statuses are queued and collected.                        *)

SameKin ==
  \A p \in Proc : p < next_pid =>
    /\ pcb'[p].ppid = pcb[p].ppid /\ pcb'[p].original_tid = pcb[p].original_tid
    /\ pcb[p].state # "none" => pcb'[p].state # "none"

SameThreads == \A p \in Proc : pcb'[p].num_threads = pcb[p].num_threads

SameChildren == \A p \in Proc : pcb'[p].num_child_proc = pcb[p].num_child_proc

SameQueues ==
  collected' = collected /\ \A p \in Proc : pcb'[p].status_queue = pcb[p].status_queue

SameHomes == \A u \in Thread : tcb'[u].pcb = tcb[u].pcb

SameNumbers == next_pid' = next_pid /\ next_tid' = next_tid

SamePoints(S) == \A u \in Thread : pc[u] \in S \/ pc'[u] \in S => pc'[u] = pc[u]

(* The thread is no longer counted in its process. *)
DonePoints == {"report", "signal", "unlock parent", "zombie", "link", "gone", "lost"}

(* The points the invariants below speak of. *)
FamilyPoints ==
  {"unborn", "add", "count", "uncount", "lock parent", "adopt", "leave", "report"}

SameDone == \A u \in Thread : pc'[u] \in DonePoints <=> pc[u] \in DonePoints

Moves(t, a, b) == pc[t] = a /\ pc' = [pc EXCEPT ![t] = b]

(* A step the family does not notice. *)
Still ==
  /\ SameKin /\ SameThreads /\ SameChildren /\ SameQueues /\ SameHomes /\ SameNumbers
  /\ processes' = processes /\ loc' = loc
  /\ SamePoints(FamilyPoints) /\ SameDone

(* The reaper takes a process off the table. *)
Reaps ==
  /\ pcb' = pcb /\ collected' = collected /\ tcb' = tcb /\ SameNumbers
  /\ pc' = pc /\ loc' = loc
  /\ processes' \subseteq processes
  /\ \A p \in processes : p \notin processes' => pcb[p].num_threads = 0

Forks(t) ==
  /\ next_pid \in Proc /\ next_tid \in Thread /\ Mine(t) \in Proc
  /\ \A p \in Proc : p # next_pid => pcb'[p] = pcb[p]
  /\ pcb'[next_pid] = pcb_copy(Mine(t), next_tid)
  /\ \A u \in Thread : tcb'[u].pcb = IF u = next_tid THEN next_pid ELSE tcb[u].pcb
  /\ processes' = processes \cup {next_pid} /\ collected' = collected
  /\ next_pid' = next_pid + 1 /\ next_tid' = next_tid + 1
  /\ loc' = [loc EXCEPT ![t] = next_tid] /\ Moves(t, "fork", "add")

StartsThread(t) ==
  /\ next_tid \in Thread /\ Mine(t) \in Proc
  /\ SameKin /\ SameChildren /\ SameQueues
  /\ \A p \in Proc : pcb'[p].num_threads =
       IF p = Mine(t) THEN pcb[p].num_threads + 1 ELSE pcb[p].num_threads
  /\ \A u \in Thread : tcb'[u].pcb = IF u = next_tid THEN Mine(t) ELSE tcb[u].pcb
  /\ processes' = processes /\ next_pid' = next_pid /\ next_tid' = next_tid + 1
  /\ loc' = [loc EXCEPT ![t] = next_tid] /\ Moves(t, "user", "add")

Adds(t) ==
  /\ pcb' = pcb /\ collected' = collected /\ tcb' = tcb /\ SameNumbers
  /\ processes' = processes
  /\ pc[t] = "add"
  /\ pc' = [pc EXCEPT ![t] = IF Mine(loc[t]) = Mine(t) THEN "user" ELSE "count",
                      ![loc[t]] = "user"]
  /\ loc' = [loc EXCEPT ![t] = None]

Counts(t) ==
  /\ Mine(t) \in Proc
  /\ SameKin /\ SameThreads /\ SameQueues /\ SameHomes /\ SameNumbers
  /\ processes' = processes /\ loc' = loc
  /\ \A p \in Proc : pcb'[p].num_child_proc =
       IF p = Mine(t) THEN pcb[p].num_child_proc + 1 ELSE pcb[p].num_child_proc
  /\ Moves(t, "count", "user")

Uncounts(t) ==
  /\ Mine(t) \in Proc
  /\ SameKin /\ SameThreads /\ SameQueues /\ SameHomes /\ SameNumbers
  /\ processes' = processes /\ loc' = loc
  /\ \A p \in Proc : pcb'[p].num_child_proc =
       IF p = Mine(t) THEN pcb[p].num_child_proc - 1 ELSE pcb[p].num_child_proc
  /\ Moves(t, "uncount", "user")

Collects(t) ==
  /\ Mine(t) \in Proc /\ pcb[Mine(t)].status_queue # <<>>
  /\ SameKin /\ SameThreads /\ SameChildren /\ SameHomes /\ SameNumbers
  /\ processes' = processes /\ loc' = loc
  /\ \A p \in Proc : pcb'[p].status_queue =
       IF p = Mine(t) THEN Tail(pcb[p].status_queue) ELSE pcb[p].status_queue
  /\ collected' = collected \cup {syscall_wait(t)}
  /\ Moves(t, "dequeue", "uncount")

Vanishes(t) ==
  /\ Mine(t) \in Proc \ {InitProc}
  /\ pcb' = pcb /\ collected' = collected /\ tcb' = tcb /\ SameNumbers
  /\ processes' = processes
  /\ \/ /\ loc' = [loc EXCEPT ![t] = pcb[Mine(t)].ppid]
        /\ Moves(t, "user", "lock parent")
     \/ /\ pcb[Mine(t)].ppid \notin processes
        /\ loc' = [loc EXCEPT ![t] = InitProc]
        /\ Moves(t, "user", "adopt")

Locks(t) ==
  /\ SameKin /\ SameThreads /\ SameChildren /\ SameQueues /\ SameHomes /\ SameNumbers
  /\ processes' = processes /\ loc' = loc
  /\ Moves(t, "lock parent", "leave")

Adopts(t) ==
  /\ SameKin /\ SameThreads /\ SameQueues /\ SameHomes /\ SameNumbers
  /\ processes' = processes /\ loc' = loc
  /\ \A p \in Proc : pcb'[p].num_child_proc =
       IF p = InitProc THEN pcb[p].num_child_proc + 1 ELSE pcb[p].num_child_proc
  /\ Moves(t, "adopt", "leave")

Leaves(t) ==
  /\ Mine(t) \in Proc
  /\ SameKin /\ SameChildren /\ SameQueues /\ SameHomes /\ SameNumbers
  /\ processes' = processes /\ loc' = loc
  /\ \A p \in Proc : pcb'[p].num_threads =
       IF p = Mine(t) THEN pcb[p].num_threads - 1 ELSE pcb[p].num_threads
  /\ Moves(t, "leave", IF pcb[Mine(t)].num_threads = 1 THEN "report" ELSE "unlock parent")

Reports(t) ==
  /\ Mine(t) \in Proc /\ loc[t] \in Proc
  /\ SameKin /\ SameThreads /\ SameChildren /\ SameHomes /\ SameNumbers
  /\ processes' = processes /\ loc' = loc /\ collected' = collected
  /\ \A p \in Proc : pcb'[p].status_queue =
       IF p = loc[t] THEN Append(pcb[p].status_queue, Metadata(t)) ELSE pcb[p].status_queue
  /\ Moves(t, "report", "signal")

(* The steps, by what they do to the family. *)
FamilyStep(t) ==
  \/ Forks(t) \/ StartsThread(t) \/ Adds(t) \/ Counts(t) \/ Uncounts(t) \/ Collects(t)
  \/ Vanishes(t) \/ Locks(t) \/ Adopts(t) \/ Leaves(t) \/ Reports(t)

(* The steps that have nothing to do with the family. *)
LEMMA StillSteps ==
  ASSUME TypeInv, Shape, NEW t \in Thread,
         \/ ForkFails(t) \/ WaitSem(t) \/ SignalStatus(t) \/ UnlockParent(t)
         \/ SignalReaper(t) \/ tcb_pool_make_zombie(t) \/ ZombieLost(t) \/ syscall_fork(t)
         \/ syscall_exec(t) \/ WaitCheck(t) \/ \E s \in Statuses : thr_set_status(t, s)
  PROVE  Still
<1>ty. /\ tcb \in [Thread -> [pcb : Proc \cup {None}, exit_status : Statuses \cup {None}]]
       /\ pc \in [Thread -> Points] /\ pcb \in [Proc -> Pcb]
  BY DEF TypeInv
<1> DEFINE P == SameKin /\ SameThreads /\ SameChildren /\ SameQueues
           Q == SamePoints(FamilyPoints) /\ SameDone
           R == SameHomes /\ SameNumbers /\ processes' = processes /\ loc' = loc
<1>1. ASSUME ForkFails(t) PROVE P /\ Q /\ R
  <2>1. P
    BY <1>1 DEF ForkFails, procVars, SameKin, SameThreads, SameChildren, SameQueues
  <2>2. Q
    BY <1>1, <1>ty DEF ForkFails, At, Goto, SamePoints, FamilyPoints, SameDone, DonePoints
  <2>3. R
    BY <1>1 DEF ForkFails, procVars, threadVars, SameHomes, SameNumbers
  <2>. QED
    BY <2>1, <2>2, <2>3
<1>2. ASSUME WaitSem(t) PROVE P /\ Q /\ R
  <2>1. P
    BY <1>2, <1>ty DEF WaitSem, Pcb, SameKin, SameThreads, SameChildren, SameQueues, At
  <2>2. Q
    BY <1>2, <1>ty DEF WaitSem, At, Goto, SamePoints, FamilyPoints, SameDone, DonePoints
  <2>3. R
    BY <1>2 DEF WaitSem, procVars, threadVars, SameHomes, SameNumbers
  <2>. QED
    BY <2>1, <2>2, <2>3
<1>3. ASSUME SignalStatus(t) PROVE P /\ Q /\ R
  <2>1. P
    BY <1>3, <1>ty DEF SignalStatus, Pcb, SameKin, SameThreads, SameChildren, SameQueues, At
  <2>2. Q
    BY <1>3, <1>ty DEF SignalStatus, Wakes, Sleepers, At, Goto, SamePoints, FamilyPoints, SameDone, DonePoints
  <2>3. R
    BY <1>3 DEF SignalStatus, procVars, threadVars, SameHomes, SameNumbers
  <2>. QED
    BY <2>1, <2>2, <2>3
<1>4. ASSUME UnlockParent(t) PROVE P /\ Q /\ R
  <2>1. P
    BY <1>4, <1>ty DEF UnlockParent, Pcb, SameKin, SameThreads, SameChildren, SameQueues, At
  <2>2. Q
    BY <1>4, <1>ty DEF UnlockParent, At, Goto, SamePoints, FamilyPoints, SameDone, DonePoints
  <2>3. R
    BY <1>4 DEF UnlockParent, procVars, threadVars, SameHomes, SameNumbers
  <2>. QED
    BY <2>1, <2>2, <2>3
<1>5. ASSUME SignalReaper(t) PROVE P /\ Q /\ R
  <2>1. P
    BY <1>5 DEF SignalReaper, procVars, SameKin, SameThreads, SameChildren, SameQueues
  <2>2. Q
    BY <1>5, <1>ty DEF SignalReaper, At, Goto, SamePoints, FamilyPoints, SameDone, DonePoints
  <2>3. R
    BY <1>5 DEF SignalReaper, procVars, threadVars, SameHomes, SameNumbers
  <2>. QED
    BY <2>1, <2>2, <2>3
<1>6. ASSUME tcb_pool_make_zombie(t) PROVE P /\ Q /\ R
  <2>1. P
    BY <1>6 DEF tcb_pool_make_zombie, procVars, SameKin, SameThreads, SameChildren, SameQueues
  <2>2. Q
    BY <1>6, <1>ty DEF tcb_pool_make_zombie, At, Goto, SamePoints, FamilyPoints, SameDone, DonePoints
  <2>3. R
    BY <1>6 DEF tcb_pool_make_zombie, procVars, threadVars, SameHomes, SameNumbers
  <2>. QED
    BY <2>1, <2>2, <2>3
<1>7. ASSUME ZombieLost(t) PROVE P /\ Q /\ R
  <2>1. P
    BY <1>7 DEF ZombieLost, procVars, SameKin, SameThreads, SameChildren, SameQueues
  <2>2. Q
    BY <1>7, <1>ty DEF ZombieLost, At, Goto, SamePoints, FamilyPoints, SameDone, DonePoints
  <2>3. R
    BY <1>7 DEF ZombieLost, procVars, threadVars, SameHomes, SameNumbers
  <2>. QED
    BY <2>1, <2>2, <2>3
<1>8. ASSUME syscall_fork(t) PROVE P /\ Q /\ R
  <2>1. P
    BY <1>8 DEF syscall_fork, procVars, SameKin, SameThreads, SameChildren, SameQueues
  <2>2. Q
    BY <1>8, <1>ty DEF syscall_fork, At, Holding, Goto, SamePoints, FamilyPoints, SameDone, DonePoints
  <2>3. R
    BY <1>8 DEF syscall_fork, procVars, threadVars, SameHomes, SameNumbers
  <2>. QED
    BY <2>1, <2>2, <2>3
<1>9. ASSUME syscall_exec(t) PROVE P /\ Q /\ R
  <2>1. P
    BY <1>9, <1>ty DEF syscall_exec, Pcb, SameKin, SameThreads, SameChildren, SameQueues, At, Holding
  <2>2. Q
    BY <1>9, <1>ty DEF syscall_exec, At, Holding, Goto, SamePoints, FamilyPoints, SameDone, DonePoints
  <2>3. R
    BY <1>9 DEF syscall_exec, procVars, threadVars, SameHomes, SameNumbers
  <2>. QED
    BY <2>1, <2>2, <2>3
<1>10. ASSUME WaitCheck(t) PROVE P /\ Q /\ R
  <2>1. P
    BY <1>10 DEF WaitCheck, procVars, SameKin, SameThreads, SameChildren, SameQueues
  <2>2. Q
    BY <1>10, <1>ty DEF WaitCheck, At, Goto, SamePoints, FamilyPoints, SameDone, DonePoints
  <2>3. R
    BY <1>10 DEF WaitCheck, procVars, threadVars, SameHomes, SameNumbers
  <2>. QED
    BY <2>1, <2>2, <2>3
<1>11. ASSUME NEW s \in Statuses, thr_set_status(t, s) PROVE P /\ Q /\ R
  <2>1. P
    BY <1>11 DEF thr_set_status, procVars, SameKin, SameThreads, SameChildren, SameQueues
  <2>2. Q
    BY <1>11 DEF thr_set_status, SamePoints, SameDone
  <2>3. R
    BY <1>11, <1>ty DEF thr_set_status, procVars, SameHomes, SameNumbers
  <2>. QED
    BY <2>1, <2>2, <2>3
<1>. QED
  BY <1>1, <1>2, <1>3, <1>4, <1>5, <1>6, <1>7, <1>8, <1>9, <1>10, <1>11 DEF Still

(* What the other steps do to the family. *)
LEMMA Effects ==
  ASSUME TypeInv, Shape, WaitFindsStatus, [Next]_vars
  PROVE  Still \/ Reaps \/ \E t \in Thread : FamilyStep(t)
<1>ty. /\ tcb \in [Thread -> [pcb : Proc \cup {None}, exit_status : Statuses \cup {None}]]
       /\ pc \in [Thread -> Points] /\ pcb \in [Proc -> Pcb]
  BY DEF TypeInv
<1>rec. \A p \in Proc : pcb[p].num_child_proc \in Int /\ pcb[p].num_threads \in Int
  BY <1>ty DEF Pcb
<1>1. ASSUME NEW t \in Thread, scheduler_add_process(t) PROVE Forks(t)
  <2>1. next_pid \in Proc /\ next_tid \in Thread
    BY <1>1 DEF scheduler_add_process, TypeInv, Proc, Thread
  <2>2. Mine(t) \in Proc
    BY <1>1, ActorHasProcess DEF scheduler_add_process, At
  <2>3. \A u \in Thread : tcb'[u].pcb = IF u = next_tid THEN next_pid ELSE tcb[u].pcb
    BY <1>1, <1>ty, <2>1 DEF scheduler_add_process, tcb_init
  <2>4. /\ \A p \in Proc : p # next_pid => pcb'[p] = pcb[p]
        /\ pcb'[next_pid] = pcb_copy(Mine(t), next_tid)
    BY <1>1, <1>ty, <2>1 DEF scheduler_add_process
  <2>. QED
    BY <1>1, <2>1, <2>2, <2>3, <2>4
    DEF scheduler_add_process, Forks, Moves, At, Goto, tcb_pool_add_pcb_safe
<1>2. ASSUME NEW t \in Thread, scheduler_add_new_thread(t) PROVE StartsThread(t)
  <2>1. next_tid \in Thread
    BY <1>2 DEF scheduler_add_new_thread, TypeInv, Thread
  <2>2. Mine(t) \in Proc
    BY <1>2, ActorHasProcess DEF scheduler_add_new_thread, Holding, At
  <2>3. \A u \in Thread : tcb'[u].pcb = IF u = next_tid THEN Mine(t) ELSE tcb[u].pcb
    BY <1>2, <1>ty, <2>1 DEF scheduler_add_new_thread, tcb_init
  <2>4. SameKin /\ SameChildren /\ SameQueues
    BY <1>2, <1>ty, <2>2
    DEF scheduler_add_new_thread, Pcb, SameKin, SameChildren, SameQueues
  <2>5. \A p \in Proc : pcb'[p].num_threads =
          IF p = Mine(t) THEN pcb[p].num_threads + 1 ELSE pcb[p].num_threads
    BY <1>2, <1>ty, <2>2 DEF scheduler_add_new_thread, Pcb
  <2>. QED
    BY <1>2, <2>1, <2>2, <2>3, <2>4, <2>5
    DEF scheduler_add_new_thread, StartsThread, Moves, Holding, At, Goto
<1>3. ASSUME NEW t \in Thread, tcb_pool_add_runnable_tcb_safe(t) PROVE Adds(t)
  BY <1>3
  DEF tcb_pool_add_runnable_tcb_safe, Adds, At, procVars, threadVars, SameNumbers
<1>4. ASSUME NEW t \in Thread, pcb_inc_children_s(t) PROVE Counts(t)
  <2>1. Mine(t) \in Proc
    BY <1>4, ActorHasProcess DEF pcb_inc_children_s, Holding, At
  <2>2. SameKin /\ SameThreads /\ SameQueues
    BY <1>4, <1>ty, <2>1 DEF pcb_inc_children_s, Pcb, SameKin, SameThreads, SameQueues
  <2>3. \A p \in Proc : pcb'[p].num_child_proc =
          IF p = Mine(t) THEN pcb[p].num_child_proc + 1 ELSE pcb[p].num_child_proc
    BY <1>4, <1>ty, <2>1 DEF pcb_inc_children_s, Pcb
  <2>. QED
    BY <1>4, <2>1, <2>2, <2>3
    DEF pcb_inc_children_s, Counts, Moves, Holding, At, Goto, threadVars, SameHomes,
        SameNumbers
<1>5. ASSUME NEW t \in Thread, pcb_dec_children_s(t) PROVE Uncounts(t)
  <2>1. Mine(t) \in Proc
    BY <1>5, ActorHasProcess DEF pcb_dec_children_s, Holding, At
  <2>2. SameKin /\ SameThreads /\ SameQueues
    BY <1>5, <1>ty, <2>1 DEF pcb_dec_children_s, Pcb, SameKin, SameThreads, SameQueues
  <2>3. \A p \in Proc : pcb'[p].num_child_proc =
          IF p = Mine(t) THEN pcb[p].num_child_proc - 1 ELSE pcb[p].num_child_proc
    BY <1>5, <1>ty, <2>1 DEF pcb_dec_children_s, Pcb
  <2>. QED
    BY <1>5, <2>1, <2>2, <2>3
    DEF pcb_dec_children_s, Uncounts, Moves, Holding, At, Goto, threadVars, SameHomes,
        SameNumbers
<1>6. ASSUME NEW t \in Thread, pcb_wait_on_status(t) PROVE Collects(t)
  <2>1. Mine(t) \in Proc /\ pc[t] = "dequeue"
    BY <1>6, ActorHasProcess DEF pcb_wait_on_status, Holding, At
  <2>2. pcb[Mine(t)].status_queue # <<>>
    <3>1. Balanced(Mine(t)) /\ t \in Dequeuers(Mine(t))
      BY <2>1, WaitIsBalanced DEF Dequeuers
    <3>2. /\ Cardinality(Dequeuers(Mine(t))) \in Nat \ {0}
          /\ Cardinality(Signallers(Mine(t))) \in Nat
      BY <3>1, CountThreads DEF Dequeuers, Signallers
    <3>3. pcb[Mine(t)].wait_sem \in Int /\ pcb[Mine(t)].status_queue \in Seq(Report)
      BY <1>ty, <2>1 DEF Pcb
    <3>4. Len(pcb[Mine(t)].status_queue) # 0
      BY <3>1, <3>2, <3>3 DEF Balanced
    <3>. QED
      BY <3>3, <3>4
  <2>3. /\ pcb' = [pcb EXCEPT ![Mine(t)].status_queue = Tail(pcb[Mine(t)].status_queue)]
        /\ collected' = collected \cup {syscall_wait(t)}
        /\ pc' = [pc EXCEPT ![t] = "uncount"]
    BY <1>6, <2>2 DEF pcb_wait_on_status, Goto
  <2>4. SameKin /\ SameThreads /\ SameChildren
    BY <1>ty, <2>1, <2>3 DEF Pcb, SameKin, SameThreads, SameChildren
  <2>5. \A p \in Proc : pcb'[p].status_queue =
          IF p = Mine(t) THEN Tail(pcb[p].status_queue) ELSE pcb[p].status_queue
    BY <1>ty, <2>1, <2>3 DEF Pcb
  <2>. QED
    BY <1>6, <2>1, <2>2, <2>3, <2>4, <2>5
    DEF pcb_wait_on_status, Collects, Moves, threadVars, SameHomes, SameNumbers
<1>7. ASSUME NEW t \in Thread, thr_vanish(t) PROVE Vanishes(t)
  <2>1. Mine(t) \in Proc \ {InitProc}
    BY <1>7, ActorHasProcess DEF thr_vanish, At
  <2>. QED
    BY <1>7, <2>1
    DEF thr_vanish, tcb_pool_find_pcb, Vanishes, Moves, At, Goto, procVars, threadVars,
        SameNumbers
<1>8. ASSUME NEW t \in Thread, LockParent(t) PROVE Locks(t)
  <2>1. SameKin /\ SameThreads /\ SameChildren /\ SameQueues
    BY <1>8, <1>ty DEF LockParent, Pcb, SameKin, SameThreads, SameChildren, SameQueues
  <2>. QED
    BY <1>8, <2>1
    DEF LockParent, Locks, Moves, Holding, At, Goto, threadVars, SameHomes, SameNumbers
<1>9. ASSUME NEW t \in Thread, Adopt(t) PROVE Adopts(t)
  <2>1. SameKin /\ SameThreads /\ SameQueues
    BY <1>9, <1>ty, Numbers DEF Adopt, Pcb, SameKin, SameThreads, SameQueues
  <2>2. \A p \in Proc : pcb'[p].num_child_proc =
          IF p = InitProc THEN pcb[p].num_child_proc + 1 ELSE pcb[p].num_child_proc
    BY <1>9, <1>ty, Numbers DEF Adopt, Pcb
  <2>. QED
    BY <1>9, <2>1, <2>2
    DEF Adopt, Adopts, Moves, Holding, At, Goto, threadVars, SameHomes, SameNumbers
<1>10. ASSUME NEW t \in Thread, pcb_dec_threads_s(t) PROVE Leaves(t)
  <2>1. Mine(t) \in Proc
    BY <1>10, ActorHasProcess DEF pcb_dec_threads_s, Holding, At
  <2>2. SameKin /\ SameChildren /\ SameQueues
    BY <1>10, <1>ty, <2>1 DEF pcb_dec_threads_s, Pcb, SameKin, SameChildren, SameQueues
  <2>3. \A p \in Proc : pcb'[p].num_threads =
          IF p = Mine(t) THEN pcb[p].num_threads - 1 ELSE pcb[p].num_threads
    BY <1>10, <1>ty, <2>1 DEF pcb_dec_threads_s, Pcb
  <2>. QED
    BY <1>10, <2>1, <2>2, <2>3
    DEF pcb_dec_threads_s, Leaves, Moves, Holding, At, Goto, threadVars, SameHomes,
        SameNumbers
<1>11. ASSUME NEW t \in Thread, pcb_signal_status(t) PROVE Reports(t)
  <2>1. Mine(t) \in Proc /\ loc[t] \in Proc
    BY <1>11, ActorHasProcess DEF pcb_signal_status, At, Shape, Placed, VanishPoints
  <2>2. SameKin /\ SameThreads /\ SameChildren
    BY <1>11, <1>ty, <2>1 DEF pcb_signal_status, Pcb, SameKin, SameThreads, SameChildren
  <2>3. \A p \in Proc : pcb'[p].status_queue =
          IF p = loc[t] THEN Append(pcb[p].status_queue, Metadata(t))
          ELSE pcb[p].status_queue
    BY <1>11, <1>ty, <2>1 DEF pcb_signal_status, Pcb
  <2>. QED
    BY <1>11, <2>1, <2>2, <2>3
    DEF pcb_signal_status, Reports, Moves, At, Goto, threadVars, SameHomes, SameNumbers
<1>12. CASE tcb_pool_reap
  BY <1>12 DEF tcb_pool_reap, tcb_pool_remove_pcb, Reaps, threadVars, SameNumbers
<1>13. CASE pcb_destroy_s
  <2>1. SameKin /\ SameThreads /\ SameChildren /\ SameQueues
    <3>1. CASE pcb[Mine(reaper.tcb)].num_threads = 0 /\ Mine(reaper.tcb) \in Proc
      <4>1. PICK x \in Proc : pcb' = [pcb EXCEPT ![x].state = "freed"]
        BY <1>13, <3>1 DEF pcb_destroy_s
      <4>2. collected' = collected
        BY <1>13 DEF pcb_destroy_s
      <4>. QED
        BY <1>ty, <4>1, <4>2 DEF Pcb, SameKin, SameThreads, SameChildren, SameQueues
    <3>2. CASE pcb[Mine(reaper.tcb)].num_threads # 0 \/ Mine(reaper.tcb) \notin Proc
      BY <1>13, <1>ty, <3>2
      DEF pcb_destroy_s, Pcb, SameKin, SameThreads, SameChildren, SameQueues
    <3>. QED
      BY <3>1, <3>2
  <2>. QED
    BY <1>13, <2>1
    DEF pcb_destroy_s, Still, threadVars, SamePoints, SameDone, SameHomes, SameNumbers
<1>14. CASE ReaperWait \/ ReaperPeek \/ UseAfterFree \/ UNCHANGED vars
  BY <1>14
  DEF ReaperWait, ReaperPeek, UseAfterFree, vars, procVars, threadVars, Still, SamePoints,
      SameDone, SameHomes, SameNumbers, SameKin, SameThreads, SameChildren, SameQueues
<1>. QED
  BY <1>1, <1>2, <1>3, <1>4, <1>5, <1>6, <1>7, <1>8, <1>9, <1>10, <1>11, <1>12, <1>13,
     <1>14, StillSteps
  DEF Next, KernelStep, ReaperStep, FamilyStep

-----------------------------------------------------------------------------
(* Who counts as a thread of its process. *)

Counted(p) == {t \in Thread : Mine(t) = p /\ pc[t] \notin DonePoints}

(* num_threads is the number of threads that have not left. *)
Census == \A p \in Proc : pcb[p].num_threads = Cardinality(Counted(p))

(* The processes that were made: each has a name of its own, the pid of    *)
(* its parent, and a place in the process table until its threads left.    *)
Kin ==
  /\ \A p \in Proc : p < next_pid =>
       /\ pcb[p].state # "none"
       /\ pcb[p].original_tid \in Thread /\ pcb[p].original_tid < next_tid
       /\ p # InitProc => pcb[p].ppid \in Proc /\ pcb[p].ppid < next_pid
       /\ p \in processes \/ pcb[p].num_threads = 0
  /\ \A p, q \in Proc :
       p < next_pid /\ q < next_pid /\ pcb[q].original_tid = pcb[p].original_tid => p = q
  /\ pcb[InitProc].ppid = None

(* The thread that is about to be made has no process and has not run. *)
LEMMA NewThread ==
  ASSUME TypeInv, Shape, next_tid \in Thread
  PROVE  Mine(next_tid) \notin Proc /\ pc[next_tid] = "unborn"
BY DEF Shape, Placed, TypeInv

(* No thread is in a process that is not made. *)
LEMMA NobodyYet ==
  ASSUME TypeInv, Shape, NEW t \in Thread PROVE Mine(t) # next_pid
<1>1. Mine(t) \in Proc \cup {None} /\ next_pid \in Int
  BY DEF TypeInv, Mine
<1>2. Mine(t) \in Proc => Mine(t) \in Nat /\ Mine(t) < next_pid
  <2>1. Proc \subseteq Nat
    BY Numbers
  <2>. QED
    BY <2>1 DEF Shape, Placed
<1>3. None \notin Int
  BY LifecycleAssumption
<1>. QED
  BY <1>1, <1>2, <1>3

(* num_threads goes with the threads that have not left. *)
LEMMA CensusStep ==
  ASSUME TypeInv, Shape, Census, Still \/ Reaps \/ \E t \in Thread : FamilyStep(t)
  PROVE  Census'
<1> SUFFICES ASSUME NEW p \in Proc PROVE pcb'[p].num_threads = Cardinality(Counted(p)')
  BY DEF Census
<1>ty. pc \in [Thread -> Points] /\ loc \in [Thread -> Proc \cup Thread \cup {None}]
  BY DEF TypeInv
<1>c. /\ pcb[p].num_threads = Cardinality(Counted(p))
      /\ Counted(p) \in SUBSET Thread /\ Cardinality(Counted(p)) \in Nat
  BY CountThreads DEF Census, Counted
<1>1. ASSUME SameThreads, SameHomes, SameDone PROVE pcb'[p].num_threads = Cardinality(Counted(p)')
  <2>1. Counted(p)' = Counted(p)
    BY <1>1 DEF SameHomes, SameDone, Counted, Mine
  <2>. QED
    BY <1>1, <1>c, <2>1 DEF SameThreads
<1>2. ASSUME NEW t \in Thread, NEW a, NEW b, Moves(t, a, b), a \notin DonePoints, b \notin DonePoints
      PROVE  SameDone
  BY <1>2, <1>ty DEF Moves, SameDone
<1>3. ASSUME NEW t \in Thread, Forks(t) PROVE pcb'[p].num_threads = Cardinality(Counted(p)')
  <2>1. SameDone
    <3>1. Moves(t, "fork", "add") /\ "fork" \notin DonePoints /\ "add" \notin DonePoints
      BY <1>3 DEF Forks, DonePoints
    <3>. QED
      BY <1>2, <3>1
  <2>2. /\ next_tid \in Thread
        /\ \A u \in Thread : tcb'[u].pcb = IF u = next_tid THEN next_pid ELSE tcb[u].pcb
    BY <1>3 DEF Forks
  <2>3. Mine(next_tid) \notin Proc /\ pc[next_tid] \notin DonePoints
    BY <2>2, NewThread DEF DonePoints
  <2>4. CASE p = next_pid
    <3>1. Counted(p)' = {next_tid}
      BY <2>1, <2>2, <2>3, <2>4, NobodyYet DEF Counted, Mine, SameDone
    <3>2. pcb'[p].num_threads = 1
      BY <1>3, <2>4 DEF Forks, pcb_copy, pcb_init
    <3>. QED
      BY <3>1, <3>2, FS_Singleton
  <2>5. CASE p # next_pid
    <3>1. Counted(p)' = Counted(p)
      BY <2>1, <2>2, <2>3, <2>5 DEF Counted, Mine, SameDone
    <3>2. pcb'[p].num_threads = pcb[p].num_threads
      BY <1>3, <2>5 DEF Forks
    <3>. QED
      BY <1>c, <3>1, <3>2
  <2>. QED
    BY <2>4, <2>5
<1>4. ASSUME NEW t \in Thread, StartsThread(t) PROVE pcb'[p].num_threads = Cardinality(Counted(p)')
  <2>1. SameDone
    <3>1. Moves(t, "user", "add") /\ "user" \notin DonePoints /\ "add" \notin DonePoints
      BY <1>4 DEF StartsThread, DonePoints
    <3>. QED
      BY <1>2, <3>1
  <2>2. /\ next_tid \in Thread /\ Mine(t) \in Proc
        /\ \A u \in Thread : tcb'[u].pcb = IF u = next_tid THEN Mine(t) ELSE tcb[u].pcb
        /\ pcb'[p].num_threads = IF p = Mine(t) THEN pcb[p].num_threads + 1 ELSE pcb[p].num_threads
    BY <1>4 DEF StartsThread
  <2>3. Mine(next_tid) \notin Proc /\ pc[next_tid] \notin DonePoints
    BY <2>2, NewThread DEF DonePoints
  <2>4. CASE p = Mine(t)
    <3>1. Counted(p)' = Counted(p) \cup {next_tid} /\ next_tid \notin Counted(p)
      BY <2>1, <2>2, <2>3, <2>4 DEF Counted, Mine, SameDone
    <3>2. Cardinality(Counted(p)') = Cardinality(Counted(p)) + 1
      BY <1>c, <2>2, <3>1, CountThreads
    <3>. QED
      BY <1>c, <2>2, <2>4, <3>2
  <2>5. CASE p # Mine(t)
    <3>1. Counted(p)' = Counted(p)
      BY <2>1, <2>2, <2>3, <2>5 DEF Counted, Mine, SameDone
    <3>. QED
      BY <1>c, <2>2, <2>5, <3>1
  <2>. QED
    BY <2>4, <2>5
<1>5. ASSUME NEW t \in Thread, Leaves(t) PROVE pcb'[p].num_threads = Cardinality(Counted(p)')
  <2>1. /\ Mine(t) \in Proc /\ SameHomes /\ pc[t] = "leave"
        /\ pcb'[p].num_threads = IF p = Mine(t) THEN pcb[p].num_threads - 1 ELSE pcb[p].num_threads
    BY <1>5 DEF Leaves, Moves
  <2>2. /\ pc'[t] \in DonePoints /\ pc[t] \notin DonePoints
        /\ \A u \in Thread \ {t} : pc'[u] = pc[u]
    BY <1>5, <1>ty DEF Leaves, Moves, DonePoints
  <2>3. CASE p = Mine(t)
    <3>1. Counted(p)' = Counted(p) \ {t} /\ t \in Counted(p)
      BY <2>1, <2>2, <2>3 DEF Counted, Mine, SameHomes
    <3>2. Cardinality(Counted(p)') = Cardinality(Counted(p)) - 1
      BY <1>c, <3>1, CountThreads
    <3>. QED
      BY <1>c, <2>1, <2>3, <3>2
  <2>4. CASE p # Mine(t)
    <3>1. Counted(p)' = Counted(p)
      BY <2>1, <2>2, <2>4 DEF Counted, Mine, SameHomes
    <3>. QED
      BY <1>c, <2>1, <2>4, <3>1
  <2>. QED
    BY <2>3, <2>4
<1>6. ASSUME NEW t \in Thread, Adds(t) PROVE SameThreads /\ SameHomes /\ SameDone
  <2>1. loc[t] \in Thread /\ pc[loc[t]] = "unborn" /\ pc[t] = "add"
    BY <1>6 DEF Adds, Shape, Placed
  <2>2. SameDone
    BY <1>6, <1>ty, <2>1 DEF Adds, SameDone, DonePoints
  <2>. QED
    BY <1>6, <2>2 DEF Adds, SameThreads, SameHomes
<1>7. ASSUME NEW t \in Thread,
             Counts(t) \/ Uncounts(t) \/ Collects(t) \/ Vanishes(t) \/ Locks(t) \/ Adopts(t)
      PROVE  SameThreads /\ SameHomes /\ SameDone
  <2>1. SameThreads /\ SameHomes
    BY <1>7 DEF Counts, Uncounts, Collects, Vanishes, Locks, Adopts, SameThreads, SameHomes
  <2>2. SameDone
    BY <1>7, <1>ty
    DEF Counts, Uncounts, Collects, Vanishes, Locks, Adopts, Moves, SameDone, DonePoints
  <2>. QED
    BY <2>1, <2>2
<1>8. ASSUME NEW t \in Thread, Reports(t) PROVE SameThreads /\ SameHomes /\ SameDone
  BY <1>8, <1>ty DEF Reports, Moves, SameDone, DonePoints
<1>9. CASE Still
  BY <1>9, <1>1 DEF Still
<1>10. CASE Reaps
  BY <1>10, <1>1 DEF Reaps, SameThreads, SameHomes, SameDone
<1>. QED
  BY <1>1, <1>3, <1>4, <1>5, <1>6, <1>7, <1>8, <1>9, <1>10 DEF FamilyStep

(* A thread that has not left keeps its process alive. *)
LEMMA AliveByThread ==
  ASSUME TypeInv, Census, NEW t \in Thread, pc[t] \notin DonePoints, Mine(t) \in Proc
  PROVE  pcb[Mine(t)].num_threads > 0
<1>1. t \in Counted(Mine(t)) /\ Counted(Mine(t)) \in SUBSET Thread
  BY DEF Counted
<1>2. Cardinality(Counted(Mine(t))) \in Nat \ {0}
  BY <1>1, CountThreads
<1>3. pcb[Mine(t)].num_threads = Cardinality(Counted(Mine(t)))
  BY DEF Census
<1>. QED
  BY <1>2, <1>3

(* A process whose threads have left has none again. *)
LEMMA DeadStays ==
  ASSUME TypeInv, Shape, Census, Still \/ Reaps \/ \E t \in Thread : FamilyStep(t),
         NEW p \in Proc, p < next_pid, pcb[p].num_threads = 0
  PROVE  pcb'[p].num_threads = 0
<1>n. next_pid \in Nat /\ p \in Nat
  BY Numbers DEF TypeInv
<1>1. ASSUME NEW t \in Thread, Forks(t) PROVE pcb'[p].num_threads = 0
  BY <1>1, <1>n DEF Forks
<1>2. ASSUME NEW t \in Thread, StartsThread(t) \/ Leaves(t) PROVE pcb'[p].num_threads = 0
  <2>1. pc[t] \notin DonePoints /\ Mine(t) \in Proc
    BY <1>2 DEF StartsThread, Leaves, Moves, DonePoints
  <2>2. pcb[Mine(t)].num_threads > 0
    BY <2>1, AliveByThread
  <2>3. p # Mine(t)
    BY <2>2
  <2>. QED
    BY <1>2, <2>3 DEF StartsThread, Leaves
<1>3. ASSUME SameThreads PROVE pcb'[p].num_threads = 0
  BY <1>3 DEF SameThreads
<1>. QED
  BY <1>1, <1>2, <1>3
  DEF Still, Reaps, FamilyStep, Adds, Counts, Uncounts, Collects, Vanishes, Locks, Adopts,
      Reports, SameThreads

(* The processes keep name and parent. *)
LEMMA KinStep ==
  ASSUME TypeInv, TypeInv', Shape, Census, Census', Kin,
         Still \/ Reaps \/ \E t \in Thread : FamilyStep(t)
  PROVE  Kin'
<1>n. /\ next_pid \in Nat /\ next_tid \in Nat /\ Proc \subseteq Nat /\ Thread \subseteq Nat
      /\ InitProc \in Proc /\ InitProc < next_pid
  BY Numbers DEF TypeInv, InitProc
<1>old. \A p \in Proc : p < next_pid =>
          /\ pcb[p].state # "none"
          /\ pcb[p].original_tid \in Thread /\ pcb[p].original_tid < next_tid
          /\ p # InitProc => pcb[p].ppid \in Proc /\ pcb[p].ppid < next_pid
          /\ p \in processes \/ pcb[p].num_threads = 0
  BY DEF Kin
<1>inj. \A p, q \in Proc :
          p < next_pid /\ q < next_pid /\ pcb[q].original_tid = pcb[p].original_tid => p = q
  BY DEF Kin
<1>init. pcb[InitProc].ppid = None
  BY DEF Kin
<1>dead. \A p \in Proc : p < next_pid /\ pcb[p].num_threads = 0 => pcb'[p].num_threads = 0
  BY DeadStays
<1>1. ASSUME SameKin, next_pid' = next_pid, next_tid' \in {next_tid, next_tid + 1},
             \A p \in processes : p \notin processes' => pcb'[p].num_threads = 0
      PROVE  Kin'
  <2>1. \A p \in Proc : p < next_pid =>
          /\ pcb'[p].ppid = pcb[p].ppid /\ pcb'[p].original_tid = pcb[p].original_tid
          /\ pcb[p].state # "none" => pcb'[p].state # "none"
    BY <1>1 DEF SameKin
  <2>2. ASSUME NEW p \in Proc, p < next_pid'
        PROVE  /\ pcb'[p].state # "none"
               /\ pcb'[p].original_tid \in Thread /\ pcb'[p].original_tid < next_tid'
               /\ p # InitProc => pcb'[p].ppid \in Proc /\ pcb'[p].ppid < next_pid'
               /\ p \in processes' \/ pcb'[p].num_threads = 0
    <3>1. p < next_pid /\ pcb[p].original_tid \in Nat /\ next_tid' \in Nat
      <4>1. p < next_pid
        BY <1>1, <2>2
      <4>2. pcb[p].original_tid \in Nat
        BY <1>n, <1>old, <4>1
      <4>3. next_tid' \in Nat
        BY <1>1, <1>n
      <4>. QED
        BY <4>1, <4>2, <4>3
    <3>2. pcb'[p].state # "none"
      BY <1>old, <2>1, <3>1
    <3>3. pcb'[p].original_tid \in Thread /\ pcb'[p].original_tid < next_tid'
      BY <1>1, <1>n, <1>old, <2>1, <3>1
    <3>4. p # InitProc => pcb'[p].ppid \in Proc /\ pcb'[p].ppid < next_pid'
      BY <1>1, <1>old, <2>1, <3>1
    <3>5. p \in processes' \/ pcb'[p].num_threads = 0
      BY <1>1, <1>old, <1>dead, <3>1
    <3>. QED
      BY <3>2, <3>3, <3>4, <3>5
  <2>3. \A p, q \in Proc :
          p < next_pid' /\ q < next_pid' /\ pcb'[q].original_tid = pcb'[p].original_tid => p = q
    BY <1>1, <1>inj, <2>1
  <2>4. pcb'[InitProc].ppid = None
    BY <1>n, <1>init, <2>1
  <2>. QED
    BY <2>2, <2>3, <2>4 DEF Kin
<1>2. ASSUME NEW t \in Thread, Forks(t) PROVE Kin'
  <2>1. /\ next_pid \in Proc /\ next_tid \in Thread /\ Mine(t) \in Proc
        /\ next_pid' = next_pid + 1 /\ next_tid' = next_tid + 1
        /\ processes' = processes \cup {next_pid}
        /\ \A p \in Proc : p # next_pid => pcb'[p] = pcb[p]
    BY <1>2 DEF Forks
  <2>2. /\ pcb'[next_pid].state = "live" /\ pcb'[next_pid].original_tid = next_tid
        /\ pcb'[next_pid].ppid = Mine(t)
    BY <1>2 DEF Forks, pcb_copy, pcb_init
  <2>3. Mine(t) < next_pid
    BY <2>1 DEF Shape, Placed
  <2>4. \A p \in Proc : p < next_pid' => p < next_pid \/ p = next_pid
    BY <1>n, <2>1
  <2>5. ASSUME NEW p \in Proc, p < next_pid'
        PROVE  /\ pcb'[p].state # "none"
               /\ pcb'[p].original_tid \in Thread /\ pcb'[p].original_tid < next_tid'
               /\ p # InitProc => pcb'[p].ppid \in Proc /\ pcb'[p].ppid < next_pid'
               /\ p \in processes' \/ pcb'[p].num_threads = 0
    <3>1. CASE p = next_pid
      <4>1. pcb'[p].ppid \in Proc /\ pcb'[p].ppid < next_pid'
        <5>1. Mine(t) \in Nat /\ next_pid' = next_pid + 1
          BY <1>n, <2>1
        <5>2. Mine(t) < next_pid'
          BY <1>n, <2>3, <5>1
        <5>. QED
          BY <2>1, <2>2, <3>1, <5>2
      <4>. QED
        BY <1>n, <2>1, <2>2, <3>1, <4>1
    <3>2. CASE p # next_pid
      <4>1. p < next_pid /\ pcb'[p] = pcb[p]
        BY <2>1, <2>4, <2>5, <3>2
      <4>2. pcb[p].original_tid \in Nat /\ (p # InitProc => pcb[p].ppid \in Nat)
        BY <1>n, <1>old, <4>1
      <4>. QED
        BY <1>n, <1>old, <2>1, <4>1, <4>2
    <3>. QED
      BY <3>1, <3>2
  <2>6. \A p \in Proc : p < next_pid => pcb'[p].original_tid # next_tid
    BY <1>n, <1>old, <2>1
  <2>7. \A p, q \in Proc :
          p < next_pid' /\ q < next_pid' /\ pcb'[q].original_tid = pcb'[p].original_tid => p = q
    BY <1>n, <1>inj, <2>1, <2>2, <2>4, <2>6
  <2>8. pcb'[InitProc].ppid = None
    BY <1>n, <1>init, <2>1
  <2>. QED
    BY <2>5, <2>7, <2>8 DEF Kin
<1>3. CASE Reaps
  BY <1>3, <1>1 DEF Reaps, SameKin, SameNumbers
<1>4. CASE Still
  BY <1>4, <1>1 DEF Still, SameNumbers
<1>5. ASSUME NEW t \in Thread, FamilyStep(t), ~Forks(t)
      PROVE  /\ SameKin /\ next_pid' = next_pid /\ next_tid' \in {next_tid, next_tid + 1}
             /\ processes' = processes
  BY <1>5
  DEF FamilyStep, StartsThread, Adds, Counts, Uncounts, Collects, Vanishes, Locks, Adopts,
      Leaves, Reports, SameKin, SameNumbers
<1>. QED
  BY <1>1, <1>2, <1>3, <1>4, <1>5

(* Whom a thread in vanish reports to: the parent, or init if the parent's *)
(* threads have left.                                                      *)
HeirPoints == {"lock parent", "adopt", "leave", "report"}

ToHeir(p, c) ==
  pcb[c].ppid = p \/ (p = InitProc /\ pcb[pcb[c].ppid].num_threads = 0)

Heirs ==
  \A t \in Thread :
    /\ pc[t] \in HeirPoints => Mine(t) # InitProc /\ ToHeir(loc[t], Mine(t))
    /\ pc[t] = "lock parent" => loc[t] = pcb[Mine(t)].ppid
    /\ pc[t] = "adopt" => loc[t] = InitProc

(* An heir stays one. *)
LEMMA HeirStays ==
  ASSUME TypeInv, Shape, Census, Kin, Still \/ Reaps \/ \E t \in Thread : FamilyStep(t),
         NEW p, NEW c \in Proc \ {InitProc}, c < next_pid, ToHeir(p, c),
         pcb'[c].ppid = pcb[c].ppid
  PROVE  pcb'[c].ppid = p \/ (p = InitProc /\ pcb'[pcb'[c].ppid].num_threads = 0)
<1>1. pcb[c].ppid \in Proc /\ pcb[c].ppid < next_pid
  BY DEF Kin
<1>2. pcb[pcb[c].ppid].num_threads = 0 => pcb'[pcb[c].ppid].num_threads = 0
  BY <1>1, DeadStays
<1>. QED
  BY <1>2 DEF ToHeir

(* Steps keep names and parents of the processes that were made. *)
LEMMA KinStays ==
  ASSUME TypeInv, Still \/ Reaps \/ \E t \in Thread : FamilyStep(t),
         NEW p \in Proc, p < next_pid
  PROVE  pcb'[p].ppid = pcb[p].ppid /\ pcb'[p].original_tid = pcb[p].original_tid
<1>1. ASSUME NEW t \in Thread, Forks(t) PROVE pcb'[p] = pcb[p]
  <2>1. p # next_pid
    BY Numbers DEF TypeInv
  <2>. QED
    BY <1>1, <2>1 DEF Forks
<1>2. SameKin \/ \E t \in Thread : Forks(t)
  BY DEF Still, Reaps, FamilyStep, StartsThread, Adds, Counts, Uncounts, Collects, Vanishes,
         Locks, Adopts, Leaves, Reports, SameKin
<1>. QED
  BY <1>1, <1>2 DEF SameKin

(* A thread in vanish goes on with the heir it found. *)
LEMMA HeirsStep ==
  ASSUME TypeInv, Shape, Census, Kin, Heirs,
         Still \/ Reaps \/ \E t \in Thread : FamilyStep(t)
  PROVE  Heirs'
<1>ty. pc \in [Thread -> Points] /\ loc \in [Thread -> Proc \cup Thread \cup {None}]
  BY DEF TypeInv
<1> SUFFICES ASSUME NEW u \in Thread, pc'[u] \in HeirPoints
             PROVE  /\ tcb'[u].pcb # InitProc
                    /\ \/ pcb'[tcb'[u].pcb].ppid = loc'[u]
                       \/ /\ loc'[u] = InitProc
                          /\ pcb'[pcb'[tcb'[u].pcb].ppid].num_threads = 0
                    /\ pc'[u] = "lock parent" => loc'[u] = pcb'[tcb'[u].pcb].ppid
                    /\ pc'[u] = "adopt" => loc'[u] = InitProc
  BY DEF Heirs, ToHeir, Mine, HeirPoints
<1>1. /\ pc[u] \in HeirPoints => Mine(u) # InitProc /\ ToHeir(loc[u], Mine(u))
      /\ pc[u] = "lock parent" => loc[u] = pcb[Mine(u)].ppid
      /\ pc[u] = "adopt" => loc[u] = InitProc
  BY DEF Heirs
<1>2. pc[u] # "unborn" => Mine(u) \in Proc /\ Mine(u) < next_pid
  BY DEF Shape, Placed
<1>3. ASSUME pc[u] \in HeirPoints, loc'[u] = loc[u], tcb'[u].pcb = tcb[u].pcb,
             pc'[u] = "lock parent" => pc[u] = "lock parent",
             pc'[u] = "adopt" => pc[u] = "adopt"
      PROVE  /\ tcb'[u].pcb # InitProc
             /\ \/ pcb'[tcb'[u].pcb].ppid = loc'[u]
                \/ /\ loc'[u] = InitProc
                   /\ pcb'[pcb'[tcb'[u].pcb].ppid].num_threads = 0
             /\ pc'[u] = "lock parent" => loc'[u] = pcb'[tcb'[u].pcb].ppid
             /\ pc'[u] = "adopt" => loc'[u] = InitProc
  <2>1. Mine(u) \in Proc \ {InitProc} /\ Mine(u) < next_pid /\ Mine(u) = tcb'[u].pcb
    BY <1>1, <1>2, <1>3 DEF HeirPoints, Mine
  <2>2. pcb'[Mine(u)].ppid = pcb[Mine(u)].ppid
    BY <2>1, KinStays
  <2>3. pcb'[Mine(u)].ppid = loc[u] \/ (loc[u] = InitProc /\ pcb'[pcb'[Mine(u)].ppid].num_threads = 0)
    BY <1>1, <1>3, <2>1, <2>2, HeirStays
  <2>. QED
    BY <1>1, <1>3, <2>1, <2>2, <2>3
<1>4. ASSUME NEW t \in Thread, Vanishes(t), u = t
      PROVE  /\ tcb'[u].pcb # InitProc
             /\ \/ pcb'[tcb'[u].pcb].ppid = loc'[u]
                \/ /\ loc'[u] = InitProc
                   /\ pcb'[pcb'[tcb'[u].pcb].ppid].num_threads = 0
             /\ pc'[u] = "lock parent" => loc'[u] = pcb'[tcb'[u].pcb].ppid
             /\ pc'[u] = "adopt" => loc'[u] = InitProc
  <2>1. /\ Mine(u) \in Proc \ {InitProc} /\ pcb' = pcb /\ tcb' = tcb
        /\ \/ loc'[u] = pcb[Mine(u)].ppid /\ pc'[u] = "lock parent"
           \/ /\ loc'[u] = InitProc /\ pc'[u] = "adopt"
              /\ pcb[Mine(u)].ppid \notin processes
    BY <1>4, <1>ty DEF Vanishes, Moves
  <2>2. Mine(u) < next_pid
    BY <1>2, <1>4 DEF Vanishes, Moves
  <2>3. pcb[Mine(u)].ppid \notin processes => pcb[pcb[Mine(u)].ppid].num_threads = 0
    BY <2>1, <2>2 DEF Kin
  <2>. QED
    BY <2>1, <2>3 DEF Mine
<1>5. ASSUME NEW t \in Thread, Vanishes(t), u # t
      PROVE  pc'[u] = pc[u] /\ loc'[u] = loc[u] /\ tcb'[u].pcb = tcb[u].pcb
  BY <1>5, <1>ty DEF Vanishes, Moves
<1>6. ASSUME NEW t \in Thread, Locks(t) \/ Adopts(t) \/ Leaves(t)
      PROVE  /\ pc[u] \in HeirPoints /\ loc'[u] = loc[u] /\ tcb'[u].pcb = tcb[u].pcb
             /\ pc'[u] = "lock parent" => pc[u] = "lock parent"
             /\ pc'[u] = "adopt" => pc[u] = "adopt"
  BY <1>6, <1>ty DEF Locks, Adopts, Leaves, Moves, SameHomes, HeirPoints
<1>7. ASSUME NEW t \in Thread, Counts(t) \/ Uncounts(t) \/ Collects(t) \/ Reports(t)
      PROVE  pc'[u] = pc[u] /\ loc'[u] = loc[u] /\ tcb'[u].pcb = tcb[u].pcb
  BY <1>7, <1>ty DEF Counts, Uncounts, Collects, Reports, Moves, SameHomes, HeirPoints
<1>8. ASSUME NEW t \in Thread, Forks(t) \/ StartsThread(t)
      PROVE  pc'[u] = pc[u] /\ loc'[u] = loc[u] /\ tcb'[u].pcb = tcb[u].pcb
  <2>1. pc'[u] = pc[u] /\ u # t
    BY <1>8, <1>ty DEF Forks, StartsThread, Moves, HeirPoints
  <2>2. next_tid \in Thread => pc[next_tid] = "unborn"
    BY NewThread
  <2>3. u # next_tid
    BY <2>1, <2>2 DEF HeirPoints
  <2>. QED
    BY <1>8, <1>ty, <2>1, <2>3 DEF Forks, StartsThread
<1>9. ASSUME NEW t \in Thread, Adds(t)
      PROVE  pc'[u] = pc[u] /\ loc'[u] = loc[u] /\ tcb'[u].pcb = tcb[u].pcb
  BY <1>9, <1>ty DEF Adds, HeirPoints
<1>10. ASSUME Still \/ Reaps
       PROVE  pc'[u] = pc[u] /\ loc'[u] = loc[u] /\ tcb'[u].pcb = tcb[u].pcb
  BY <1>10 DEF Still, Reaps, SamePoints, SameHomes, FamilyPoints, HeirPoints
<1>. QED
  BY <1>3, <1>4, <1>5, <1>6, <1>7, <1>8, <1>9, <1>10 DEF FamilyStep

-----------------------------------------------------------------------------
(* Statuses. *)

(* The threads of c have left, and its status was reported. *)
Over(c) ==
  /\ c < next_pid /\ c # InitProc /\ pcb[c].num_threads = 0
  /\ \A t \in Thread : pc[t] = "report" => Mine(t) # c

Entry(p, i) == pcb[p].status_queue[i].original_tid

(* What is queued for p at i is the status of c, which nobody has yet. *)
Status(p, i, c) ==
  pcb[c].original_tid = Entry(p, i) /\ Over(c) /\ ~Collected(c) /\ ToHeir(p, c)

(* One thread of a process reports. *)
OneReport ==
  /\ \A t \in Thread : pc[t] = "report" => pcb[Mine(t)].num_threads = 0
  /\ \A s, t \in Thread : pc[s] = "report" /\ pc[t] = "report" /\ Mine(s) = Mine(t) => s = t

(* A status is queued once, for the heir, or collected once. *)
StatusInv ==
  /\ \A p \in Proc : \A i \in DOMAIN pcb[p].status_queue : \E c \in Proc : Status(p, i, c)
  /\ \A p, q \in Proc :
       \A i \in DOMAIN pcb[p].status_queue, j \in DOMAIN pcb[q].status_queue :
         Entry(p, i) = Entry(q, j) => p = q /\ i = j
  /\ \A x \in collected : \E c \in Proc : pcb[c].original_tid = x[2] /\ Over(c)
  /\ \A x, y \in collected : x[2] = y[2] => x = y

(* Only a thread that leaves as the last comes to report. *)
LEMMA ReportersStay ==
  ASSUME TypeInv, Shape, Still \/ Reaps \/ \E t \in Thread : FamilyStep(t),
         NEW u \in Thread, pc'[u] = "report"
  PROVE  \/ pc[u] = "report" /\ tcb'[u].pcb = tcb[u].pcb
         \/ Leaves(u) /\ Mine(u) \in Proc /\ pcb[Mine(u)].num_threads = 1
<1>ty. pc \in [Thread -> Points]
  BY DEF TypeInv
<1>1. ASSUME NEW t \in Thread, Leaves(t)
      PROVE  \/ pc[u] = "report" /\ tcb'[u].pcb = tcb[u].pcb
             \/ Leaves(u) /\ Mine(u) \in Proc /\ pcb[Mine(u)].num_threads = 1
  BY <1>1, <1>ty DEF Leaves, Moves, SameHomes
<1>2. ASSUME NEW t \in Thread, Forks(t) \/ StartsThread(t)
      PROVE  pc[u] = "report" /\ tcb'[u].pcb = tcb[u].pcb
  <2>1. pc[u] = "report"
    BY <1>2, <1>ty DEF Forks, StartsThread, Moves
  <2>2. u # next_tid
    BY <2>1, NewThread
  <2>. QED
    BY <1>2, <2>1, <2>2 DEF Forks, StartsThread
<1>3. ASSUME NEW t \in Thread, Adds(t)
      PROVE  pc[u] = "report" /\ tcb'[u].pcb = tcb[u].pcb
  BY <1>3, <1>ty DEF Adds
<1>4. ASSUME NEW t \in Thread, Counts(t) \/ Uncounts(t) \/ Collects(t) \/ Reports(t)
      PROVE  pc[u] = "report" /\ tcb'[u].pcb = tcb[u].pcb
  BY <1>4, <1>ty DEF Counts, Uncounts, Collects, Reports, Moves, SameHomes
<1>5. ASSUME NEW t \in Thread, Vanishes(t) \/ Locks(t) \/ Adopts(t)
      PROVE  pc[u] = "report" /\ tcb'[u].pcb = tcb[u].pcb
  BY <1>5, <1>ty DEF Vanishes, Locks, Adopts, Moves, SameHomes
<1>6. CASE Still \/ Reaps
  BY <1>6 DEF Still, Reaps, SamePoints, SameHomes, FamilyPoints
<1>. QED
  BY <1>1, <1>2, <1>3, <1>4, <1>5, <1>6 DEF FamilyStep

(* There is never a second report of a process. *)
LEMMA OneReportStep ==
  ASSUME TypeInv, Shape, Census, OneReport,
         Still \/ Reaps \/ \E t \in Thread : FamilyStep(t)
  PROVE  OneReport'
<1>1. ASSUME NEW u \in Thread, pc'[u] = "report" PROVE pcb'[tcb'[u].pcb].num_threads = 0
  <2>1. CASE pc[u] = "report" /\ tcb'[u].pcb = tcb[u].pcb
    <3>1. Mine(u) \in Proc /\ Mine(u) < next_pid
      BY <2>1 DEF Shape, Placed
    <3>2. pcb[Mine(u)].num_threads = 0
      BY <2>1 DEF OneReport
    <3>3. pcb'[Mine(u)].num_threads = 0
      BY <3>1, <3>2, DeadStays
    <3>. QED
      BY <2>1, <3>3 DEF Mine
  <2>2. CASE Leaves(u) /\ Mine(u) \in Proc /\ pcb[Mine(u)].num_threads = 1
    BY <2>2 DEF Leaves, SameHomes, Mine
  <2>. QED
    BY <1>1, <2>1, <2>2, ReportersStay
<1>2. ASSUME NEW s \in Thread, NEW t \in Thread, pc'[s] = "report", pc'[t] = "report",
             tcb'[s].pcb = tcb'[t].pcb
      PROVE  s = t
  <2>1. CASE pc[s] = "report" /\ pc[t] = "report" /\ tcb[s].pcb = tcb[t].pcb
    BY <2>1 DEF OneReport, Mine
  <2>2. ASSUME NEW v \in Thread, NEW w \in Thread, v # w, tcb'[v].pcb = tcb'[w].pcb,
               Leaves(v), Mine(v) \in Proc, pcb[Mine(v)].num_threads = 1, pc'[w] = "report"
        PROVE  FALSE
    <3>1. pc[w] = "report" /\ tcb[w].pcb = tcb[v].pcb
      BY <2>2 DEF Leaves, Moves, SameHomes, TypeInv
    <3>2. pcb[Mine(w)].num_threads = 0
      BY <3>1 DEF OneReport
    <3>. QED
      BY <2>2, <3>1, <3>2 DEF Mine
  <2>. QED
    BY <1>2, <2>1, <2>2, ReportersStay
<1>. QED
  BY <1>1, <1>2 DEF OneReport, Mine

(* What is over stays over. *)
LEMMA OverStays ==
  ASSUME TypeInv, TypeInv', Shape, Census, Still \/ Reaps \/ \E t \in Thread : FamilyStep(t),
         NEW c \in Proc, Over(c)
  PROVE  Over(c)'
<1>1. pcb'[c].num_threads = 0
  BY DeadStays DEF Over
<1>2. c < next_pid'
  <2>1. next_pid' = next_pid \/ next_pid' = next_pid + 1
    BY DEF Still, Reaps, FamilyStep, Forks, StartsThread, Adds, Counts, Uncounts, Collects,
           Vanishes, Locks, Adopts, Leaves, Reports, SameNumbers
  <2>. QED
    BY <2>1, Numbers DEF Over, TypeInv
<1>3. ASSUME NEW u \in Thread, pc'[u] = "report" PROVE tcb'[u].pcb # c
  <2>1. CASE pc[u] = "report" /\ tcb'[u].pcb = tcb[u].pcb
    BY <2>1 DEF Over, Mine
  <2>2. CASE Leaves(u) /\ Mine(u) \in Proc /\ pcb[Mine(u)].num_threads = 1
    BY <2>2 DEF Leaves, SameHomes, Mine, Over
  <2>. QED
    BY <1>3, <2>1, <2>2, ReportersStay
<1>. QED
  BY <1>1, <1>2, <1>3 DEF Over, Mine

(* A status that stays where it is, uncollected. *)
LEMMA StatusStays ==
  ASSUME TypeInv, TypeInv', Shape, Census, Kin,
         Still \/ Reaps \/ \E t \in Thread : FamilyStep(t),
         NEW p \in Proc, NEW q \in Proc, NEW i, NEW j, NEW c \in Proc, Status(p, i, c),
         q = p, Entry(q, j)' = Entry(p, i),
         \A x \in collected' : x \in collected \/ x[2] # Entry(p, i)
  PROVE  Status(q, j, c)'
<1>1. c < next_pid /\ c # InitProc /\ Over(c) /\ ToHeir(p, c) /\ pcb[c].original_tid = Entry(p, i)
  BY DEF Status, Over
<1>2. pcb'[c].ppid = pcb[c].ppid /\ pcb'[c].original_tid = pcb[c].original_tid
  BY <1>1, KinStays
<1>3. pcb'[c].ppid = p \/ (p = InitProc /\ pcb'[pcb'[c].ppid].num_threads = 0)
  BY <1>1, <1>2, HeirStays
<1>4. Over(c)'
  BY <1>1, OverStays
<1>5. ~Collected(c)'
  BY <1>1, <1>2 DEF Status, Collected
<1>. QED
  BY <1>1, <1>2, <1>3, <1>4, <1>5 DEF Status, ToHeir

(* What is over was reported by a thread of no process that still is to report. *)
LEMMA ReporterHasNoStatus ==
  ASSUME TypeInv, Shape, Kin, StatusInv, NEW t \in Thread, pc[t] = "report", Mine(t) \in Proc
  PROVE  /\ ~Collected(Mine(t))
         /\ \A p \in Proc : \A i \in DOMAIN pcb[p].status_queue :
              Entry(p, i) # pcb[Mine(t)].original_tid
<1>1. Mine(t) < next_pid
  BY DEF Shape, Placed
<1>2. \A c \in Proc : Over(c) => c # Mine(t) /\ c < next_pid
  BY DEF Over
<1>3. \A c \in Proc : Over(c) => pcb[c].original_tid # pcb[Mine(t)].original_tid
  BY <1>1, <1>2 DEF Kin
<1>4. ASSUME NEW x \in collected, x[2] = pcb[Mine(t)].original_tid PROVE FALSE
  <2>1. PICK c \in Proc : pcb[c].original_tid = x[2] /\ Over(c)
    BY DEF StatusInv
  <2>. QED
    BY <1>3, <1>4, <2>1
<1>5. ASSUME NEW p \in Proc, NEW i \in DOMAIN pcb[p].status_queue,
             Entry(p, i) = pcb[Mine(t)].original_tid
      PROVE  FALSE
  <2>1. PICK c \in Proc : Status(p, i, c)
    BY DEF StatusInv
  <2>. QED
    BY <1>3, <1>5, <2>1 DEF Status
<1>. QED
  BY <1>4, <1>5 DEF Collected

(* Every step keeps a status in one place. *)
LEMMA StatusStep ==
  ASSUME TypeInv, TypeInv', Shape, Census, Kin, Heirs, OneReport, OneReport', StatusInv,
         Still \/ Reaps \/ \E t \in Thread : FamilyStep(t)
  PROVE  StatusInv'
<1>ty. \A p \in Proc : pcb[p].status_queue \in Seq(Report)
  BY DEF TypeInv, Pcb
<1>ent. \A p \in Proc : \A i \in DOMAIN pcb[p].status_queue : \E c \in Proc : Status(p, i, c)
  BY DEF StatusInv
<1>one. \A p, q \in Proc :
          \A i \in DOMAIN pcb[p].status_queue, j \in DOMAIN pcb[q].status_queue :
            Entry(p, i) = Entry(q, j) => p = q /\ i = j
  BY DEF StatusInv
<1>col. \A x \in collected : \E c \in Proc : pcb[c].original_tid = x[2] /\ Over(c)
  BY DEF StatusInv
<1>uni. \A x, y \in collected : x[2] = y[2] => x = y
  BY DEF StatusInv
<1>over. ASSUME NEW x \in collected PROVE \E c \in Proc : pcb'[c].original_tid = x[2] /\ Over(c)'
  <2>1. PICK c \in Proc : pcb[c].original_tid = x[2] /\ Over(c)
    BY <1>col
  <2>2. Over(c)' /\ c < next_pid
    BY <2>1, OverStays DEF Over
  <2>3. pcb'[c].original_tid = pcb[c].original_tid
    BY <2>2, KinStays
  <2>. QED
    BY <2>1, <2>2, <2>3
<1>1. ASSUME SameQueues PROVE StatusInv'
  <2>1. collected' = collected /\ \A p \in Proc : pcb'[p].status_queue = pcb[p].status_queue
    BY <1>1 DEF SameQueues
  <2>2. \A p \in Proc : \A i : Entry(p, i)' = Entry(p, i)
    BY <2>1 DEF Entry
  <2>3. ASSUME NEW p \in Proc, NEW i \in DOMAIN pcb'[p].status_queue
        PROVE  \E c \in Proc : Status(p, i, c)'
    <3>1. PICK c \in Proc : Status(p, i, c)
      BY <1>ent, <2>1
    <3>2. Status(p, i, c)'
      BY <2>1, <2>2, <3>1, StatusStays
    <3>. QED
      BY <3>2
  <2>4. \A p, q \in Proc :
          \A i \in DOMAIN pcb'[p].status_queue, j \in DOMAIN pcb'[q].status_queue :
            Entry(p, i)' = Entry(q, j)' => p = q /\ i = j
    BY <1>one, <2>1, <2>2
  <2>5. \A x \in collected' : \E c \in Proc : pcb'[c].original_tid = x[2] /\ Over(c)'
    BY <1>over, <2>1
  <2>6. \A x, y \in collected' : x[2] = y[2] => x = y
    BY <1>uni, <2>1
  <2>. QED
    BY <2>3, <2>4, <2>5, <2>6 DEF StatusInv
<1>2. ASSUME NEW t \in Thread, Reports(t) PROVE StatusInv'
  <2>r. PICK r \in Proc : r = loc[t]
    BY <1>2 DEF Reports
  <2>c. PICK c0 \in Proc : c0 = Mine(t)
    BY <1>2 DEF Reports
  <2>n. PICK n \in Nat : n = Len(pcb[r].status_queue)
    BY <1>ty, <2>r
  <2>1. /\ collected' = collected /\ pc[t] = "report"
        /\ \A p \in Proc : pcb'[p].status_queue =
             IF p = r THEN Append(pcb[p].status_queue, Metadata(t)) ELSE pcb[p].status_queue
    BY <1>2, <2>r DEF Reports, Moves
  <2>2. DOMAIN pcb[r].status_queue = 1 .. n
    BY <1>ty, <2>n
  <2>3. /\ DOMAIN pcb'[r].status_queue = 1 .. n + 1
        /\ \A i \in 1 .. n : pcb'[r].status_queue[i] = pcb[r].status_queue[i]
        /\ pcb'[r].status_queue[n + 1] = Metadata(t)
    <3>1. pcb[r].status_queue \in Seq(Report) /\ Metadata(t) \in Report
      BY <1>ty, <2>c DEF Metadata, Report, TypeInv, Pcb
    <3>2. pcb'[r].status_queue = Append(pcb[r].status_queue, Metadata(t))
      BY <2>1
    <3>. QED
      BY <2>n, <3>1, <3>2, AppendProperties
  <2>4. Entry(r, n + 1)' = pcb[c0].original_tid
    BY <2>3, <2>c DEF Entry, Metadata
  <2>5. /\ \A p \in Proc : \A i \in DOMAIN pcb[p].status_queue : Entry(p, i)' = Entry(p, i)
        /\ \A p \in Proc : \A i \in DOMAIN pcb'[p].status_queue :
             i \in DOMAIN pcb[p].status_queue \/ (p = r /\ i = n + 1)
    <3>1. /\ \A i \in 1 .. n : Entry(r, i)' = Entry(r, i)
          /\ \A i \in 1 .. n + 1 : i \in 1 .. n \/ i = n + 1
      BY <2>3 DEF Entry
    <3>2. \A p \in Proc \ {r} : /\ pcb'[p].status_queue = pcb[p].status_queue
                                 /\ \A i : Entry(p, i)' = Entry(p, i)
      BY <2>1 DEF Entry
    <3>. QED
      BY <2>2, <2>3, <3>1, <3>2
  <2>6. /\ ~Collected(c0)
        /\ \A p \in Proc : \A i \in DOMAIN pcb[p].status_queue :
             Entry(p, i) # pcb[c0].original_tid
    BY <2>1, <2>c, ReporterHasNoStatus
  <2>7. c0 < next_pid /\ c0 # InitProc /\ ToHeir(r, c0)
    BY <2>1, <2>c, <2>r DEF Shape, Placed, Heirs, HeirPoints
  <2>8. pcb'[c0].ppid = pcb[c0].ppid /\ pcb'[c0].original_tid = pcb[c0].original_tid
    BY <2>1, <2>7, KinStays
  <2>9. Over(c0)'
    <3>1. pcb'[c0].num_threads = 0 /\ next_pid' = next_pid
      BY <1>2, <2>1, <2>c DEF OneReport, Reports, SameThreads, SameNumbers
    <3>2. ASSUME NEW u \in Thread, pc'[u] = "report" PROVE tcb'[u].pcb # c0
      <4>1. pc[u] = "report" /\ u # t /\ tcb'[u].pcb = Mine(u)
        BY <1>2, <3>2 DEF Reports, Moves, SameHomes, TypeInv, Mine
      <4>. QED
        BY <2>1, <2>c, <4>1 DEF OneReport
    <3>. QED
      BY <2>7, <3>1, <3>2 DEF Over, Mine
  <2>10. Status(r, n + 1, c0)'
    <3>1. ~Collected(c0)'
      BY <2>1, <2>6, <2>8 DEF Collected
    <3>2. pcb'[c0].ppid = r \/ (r = InitProc /\ pcb'[pcb'[c0].ppid].num_threads = 0)
      BY <2>1, <2>7, <2>8, HeirStays
    <3>. QED
      BY <2>4, <2>8, <2>9, <3>1, <3>2 DEF Status, ToHeir
  <2>11. ASSUME NEW p \in Proc, NEW i \in DOMAIN pcb'[p].status_queue
         PROVE  \E c \in Proc : Status(p, i, c)'
    <3>1. CASE i \in DOMAIN pcb[p].status_queue
      <4>1. PICK c \in Proc : Status(p, i, c)
        BY <1>ent, <3>1
      <4>2. Status(p, i, c)'
        BY <2>1, <2>5, <3>1, <4>1, StatusStays
      <4>. QED
        BY <4>2
    <3>2. CASE p = r /\ i = n + 1
      BY <2>1, <2>10, <3>2
    <3>. QED
      BY <2>5, <3>1, <3>2
  <2>12. \A p, q \in Proc :
           \A i \in DOMAIN pcb'[p].status_queue, j \in DOMAIN pcb'[q].status_queue :
             Entry(p, i)' = Entry(q, j)' => p = q /\ i = j
    BY <1>one, <2>4, <2>5, <2>6
  <2>13. \A x \in collected' : \E c \in Proc : pcb'[c].original_tid = x[2] /\ Over(c)'
    BY <1>over, <2>1
  <2>14. \A x, y \in collected' : x[2] = y[2] => x = y
    BY <1>uni, <2>1
  <2>. QED
    BY <2>11, <2>12, <2>13, <2>14 DEF StatusInv
<1>3. ASSUME NEW t \in Thread, Collects(t) PROVE StatusInv'
  <2>m. PICK m \in Proc : m = Mine(t)
    BY <1>3 DEF Collects
  <2>n. PICK n \in Nat : n = Len(pcb[m].status_queue)
    BY <1>ty, <2>m
  <2>x. PICK x0 : x0 = syscall_wait(t)
    OBVIOUS
  <2>1. /\ pcb[m].status_queue # <<>> /\ collected' = collected \cup {x0}
        /\ \A p \in Proc : pcb'[p].status_queue =
             IF p = m THEN Tail(pcb[p].status_queue) ELSE pcb[p].status_queue
    BY <1>3, <2>m, <2>x DEF Collects
  <2>2. n # 0 /\ DOMAIN pcb[m].status_queue = 1 .. n
    BY <1>ty, <2>1, <2>n
  <2>3. /\ DOMAIN pcb'[m].status_queue = 1 .. n - 1
        /\ \A i \in 1 .. n - 1 : pcb'[m].status_queue[i] = pcb[m].status_queue[i + 1]
    <3>1. pcb[m].status_queue \in Seq(Report) /\ pcb[m].status_queue # <<>>
      BY <1>ty, <2>1
    <3>2. pcb'[m].status_queue = Tail(pcb[m].status_queue)
      BY <2>1
    <3>3. /\ Tail(pcb[m].status_queue) \in Seq(Report)
          /\ Len(Tail(pcb[m].status_queue)) = n - 1
          /\ \A i \in 1 .. n - 1 : Tail(pcb[m].status_queue)[i] = pcb[m].status_queue[i + 1]
      BY <2>n, <3>1, HeadTailProperties
    <3>4. DOMAIN Tail(pcb[m].status_queue) = 1 .. n - 1
      BY <3>3
    <3>. QED
      BY <3>2, <3>3, <3>4
  <2>4. x0[2] = Entry(m, 1) /\ x0[1] = m /\ 1 \in DOMAIN pcb[m].status_queue
    BY <1>ty, <2>1, <2>2, <2>m, <2>x DEF syscall_wait, Entry
  <2> DEFINE old(p, i) == IF p = m THEN i + 1 ELSE i
  <2>5. \A p \in Proc : \A i \in DOMAIN pcb'[p].status_queue :
          /\ old(p, i) \in DOMAIN pcb[p].status_queue
          /\ Entry(p, i)' = Entry(p, old(p, i))
          /\ ~(p = m /\ old(p, i) = 1) /\ i \in Int
    <3> SUFFICES ASSUME NEW p \in Proc, NEW i \in DOMAIN pcb'[p].status_queue
                 PROVE  /\ old(p, i) \in DOMAIN pcb[p].status_queue
                        /\ Entry(p, i)' = Entry(p, old(p, i))
                        /\ ~(p = m /\ old(p, i) = 1) /\ i \in Int
      OBVIOUS
    <3>1. CASE p = m
      BY <2>2, <2>3, <3>1 DEF Entry
    <3>2. CASE p # m
      BY <1>ty, <2>1, <3>2 DEF Entry
    <3>. QED
      BY <3>1, <3>2
  <2>6. \A p \in Proc : \A i \in DOMAIN pcb'[p].status_queue : Entry(p, old(p, i)) # x0[2]
    BY <1>one, <2>1, <2>4, <2>5
  <2>7. PICK c0 \in Proc : Status(m, 1, c0)
    BY <1>ent, <2>1, <2>4
  <2>8. Over(c0) /\ c0 < next_pid /\ ~Collected(c0) /\ pcb[c0].original_tid = x0[2]
    BY <2>4, <2>7 DEF Status, Over
  <2>9. Over(c0)' /\ pcb'[c0].original_tid = x0[2]
    BY <2>8, OverStays, KinStays
  <2>11. ASSUME NEW p \in Proc, NEW i \in DOMAIN pcb'[p].status_queue
         PROVE  \E c \in Proc : Status(p, i, c)'
    <3> DEFINE k == old(p, i)
    <3>0. k \in DOMAIN pcb[p].status_queue /\ Entry(p, i)' = Entry(p, k) /\ Entry(p, k) # x0[2]
      BY <2>5, <2>6
    <3> HIDE DEF k
    <3>1. PICK c \in Proc : Status(p, k, c)
      BY <1>ent, <3>0
    <3>2. \A x \in collected' : x \in collected \/ x[2] # Entry(p, k)
      BY <2>1, <3>0
    <3>3. Status(p, i, c)'
      BY <3>0, <3>1, <3>2, StatusStays
    <3>. QED
      BY <3>3
  <2>12. ASSUME NEW p \in Proc, NEW q \in Proc, NEW i \in DOMAIN pcb'[p].status_queue,
                NEW j \in DOMAIN pcb'[q].status_queue, Entry(p, i)' = Entry(q, j)'
         PROVE  p = q /\ i = j
    <3>1. p = q /\ old(p, i) = old(q, j)
      BY <1>one, <2>5, <2>12
    <3>. QED
      BY <2>5, <3>1
  <2>13. \A x \in collected' : \E c \in Proc : pcb'[c].original_tid = x[2] /\ Over(c)'
    BY <1>over, <2>1, <2>9
  <2>14. \A x, y \in collected' : x[2] = y[2] => x = y
    BY <1>uni, <2>1, <2>8 DEF Collected
  <2>. QED
    BY <2>11, <2>12, <2>13, <2>14 DEF StatusInv
<1>4. ASSUME NEW t \in Thread, Forks(t) PROVE SameQueues
  <2>1. pcb[next_pid] = pcb_init
    BY <1>4 DEF Forks, Shape, Unmade, TypeInv
  <2>2. pcb'[next_pid].status_queue = pcb[next_pid].status_queue
    BY <1>4, <2>1 DEF Forks, pcb_copy, pcb_init
  <2>. QED
    BY <1>4, <2>2 DEF Forks, SameQueues
<1>5. ASSUME NEW t \in Thread, FamilyStep(t), ~Forks(t), ~Reports(t), ~Collects(t)
      PROVE  SameQueues
  BY <1>5
  DEF FamilyStep, StartsThread, Adds, Counts, Uncounts, Vanishes, Locks, Adopts, Leaves,
      SameQueues
<1>6. ASSUME Still \/ Reaps PROVE SameQueues
  BY <1>6 DEF Still, Reaps, SameQueues
<1>. QED
  BY <1>1, <1>2, <1>3, <1>4, <1>5, <1>6

-----------------------------------------------------------------------------
(* Children. *)

(* Those that have a child not counted yet, or one collected and counted still. *)
Counting(p) ==
  {t \in Thread : /\ Mine(t) = p
                  /\ pc[t] = "count" \/ (pc[t] = "add" /\ Mine(loc[t]) # p)}
Uncounting(p) == {t \in Thread : Mine(t) = p /\ pc[t] = "uncount"}

(* The orphans that init was told of. *)
Known(c) ==
  \/ \E t \in Thread : Mine(t) = c /\ loc[t] = InitProc /\ pc[t] \in {"leave", "report"}
  \/ \E i \in DOMAIN pcb[InitProc].status_queue : Entry(InitProc, i) = pcb[c].original_tid

Adopted ==
  {c \in Proc : c < next_pid /\ pcb[c].ppid # InitProc /\ ~Collected(c) /\ Known(c)}

Wards == Children(InitProc) \cup Adopted

Even(p) ==
  pcb[p].num_threads > 0 =>
    pcb[p].num_child_proc + Cardinality(Counting(p)) =
      Cardinality(Children(p)) + Cardinality(Uncounting(p))

Enough ==
  pcb[InitProc].num_child_proc + Cardinality(Counting(InitProc)) >=
    Cardinality(Wards) + Cardinality(Uncounting(InitProc))

ChildInv == Enough /\ \A p \in Proc \ {InitProc} : Even(p)

(* Counting processes. *)
LEMMA CountProcs ==
  /\ \A S \in SUBSET Proc : IsFiniteSet(S) /\ Cardinality(S) \in Nat
  /\ \A S \in SUBSET Proc, p \in Proc :
       p \notin S => Cardinality(S \cup {p}) = Cardinality(S) + 1
  /\ \A S \in SUBSET Proc, p \in Proc :
       p \in S => Cardinality(S \ {p}) = Cardinality(S) - 1
  /\ \A S, R \in SUBSET Proc : R \subseteq S => Cardinality(R) <= Cardinality(S)
<1>1. \A S \in SUBSET Proc : IsFiniteSet(S) /\ Cardinality(S) \in Nat
  BY Numbers, FS_Subset, FS_CardinalityType
<1>2. \A S \in SUBSET Proc, p \in Proc :
        p \notin S => Cardinality(S \cup {p}) = Cardinality(S) + 1
  BY <1>1, FS_AddElement
<1>3. \A S \in SUBSET Proc, p \in Proc :
        p \in S => Cardinality(S \ {p}) = Cardinality(S) - 1
  BY <1>1, FS_RemoveElement
<1>4. \A S, R \in SUBSET Proc : R \subseteq S => Cardinality(R) <= Cardinality(S)
  BY <1>1, FS_Subset
<1>. QED
  BY <1>1, <1>2, <1>3, <1>4

(* The five numbers of a balance. *)
LEMMA BalanceTypes ==
  ASSUME TypeInv, NEW p \in Proc
  PROVE  /\ pcb[p].num_child_proc \in Int /\ pcb[p].num_threads \in Int
         /\ Counting(p) \in SUBSET Thread /\ Cardinality(Counting(p)) \in Nat
         /\ Uncounting(p) \in SUBSET Thread /\ Cardinality(Uncounting(p)) \in Nat
         /\ Children(p) \in SUBSET Proc /\ Cardinality(Children(p)) \in Nat
         /\ Wards \in SUBSET Proc /\ Cardinality(Wards) \in Nat
<1>1. pcb[p].num_child_proc \in Int /\ pcb[p].num_threads \in Int
  BY DEF TypeInv, Pcb
<1>2. Counting(p) \in SUBSET Thread /\ Uncounting(p) \in SUBSET Thread
  BY DEF Counting, Uncounting
<1>3. Children(p) \in SUBSET Proc /\ Wards \in SUBSET Proc
  BY DEF Children, Wards, Adopted
<1>. QED
  BY <1>1, <1>2, <1>3, CountThreads, CountProcs

(* A process's children are the same as long as nothing is collected. *)
LEMMA ChildrenStay ==
  ASSUME TypeInv, Shape, Shape', SameKin, next_pid' = next_pid, collected' = collected,
         NEW p \in Proc
  PROVE  Children(p)' = Children(p)
<1>1. ASSUME NEW c \in Proc, c < next_pid
      PROVE  pcb'[c].ppid = pcb[c].ppid /\ (Collected(c)' <=> Collected(c))
  BY <1>1 DEF SameKin, Collected
<1>2. ASSUME NEW c \in Proc, ~(c < next_pid) PROVE pcb'[c].ppid = None /\ pcb[c].ppid = None
  <2>1. c >= next_pid
    BY <1>2, Numbers DEF TypeInv
  <2>. QED
    BY <2>1 DEF Shape, Unmade, pcb_init
<1>. QED
  BY <1>1, <1>2, Numbers DEF Children

(* Nor are there more orphans, unless init is told of one. *)
LEMMA NoNewWards ==
  ASSUME TypeInv, SameKin, next_pid' = next_pid, collected \subseteq collected',
         NEW c \in Proc, c \in Adopted',
         \A u \in Thread : /\ tcb'[u].pcb = c /\ loc'[u] = InitProc
                           /\ pc'[u] \in {"leave", "report"}
                           => Known(c),
         \A i \in DOMAIN pcb'[InitProc].status_queue :
           Entry(InitProc, i)' = pcb[c].original_tid => Known(c)
  PROVE  c \in Adopted
<1>1. c < next_pid /\ pcb'[c].ppid # InitProc /\ ~Collected(c)' /\ Known(c)'
  BY DEF Adopted
<1>2. pcb'[c].ppid = pcb[c].ppid /\ pcb'[c].original_tid = pcb[c].original_tid
  BY <1>1 DEF SameKin
<1>3. ~Collected(c)
  BY <1>1, <1>2 DEF Collected
<1>4. Known(c)
  BY <1>1, <1>2 DEF Known, Mine
<1>. QED
  BY <1>1, <1>2, <1>3, <1>4 DEF Adopted

(* A step that leaves the numbers alone and makes no more wards. *)
LEMMA SameEven ==
  ASSUME TypeInv, TypeInv', NEW p \in Proc, Even(p),
         pcb'[p].num_child_proc = pcb[p].num_child_proc,
         pcb'[p].num_threads > 0 => pcb[p].num_threads > 0,
         Counting(p)' = Counting(p), Uncounting(p)' = Uncounting(p),
         Children(p)' = Children(p)
  PROVE  Even(p)'
BY DEF Even

(* The same for init. *)
LEMMA SameEnough ==
  ASSUME TypeInv, TypeInv', Enough,
         pcb'[InitProc].num_child_proc = pcb[InitProc].num_child_proc,
         Counting(InitProc)' = Counting(InitProc),
         Uncounting(InitProc)' = Uncounting(InitProc), Wards' \subseteq Wards
  PROVE  Enough'
<1>1. Cardinality(Wards') <= Cardinality(Wards) /\ Cardinality(Wards') \in Nat
  <2>1. Wards \in SUBSET Proc /\ Wards' \in SUBSET Proc
    BY DEF Wards, Children, Adopted
  <2>. QED
    BY <2>1, CountProcs
<1>2. /\ pcb[InitProc].num_child_proc \in Int /\ Cardinality(Counting(InitProc)) \in Nat
      /\ Cardinality(Wards) \in Nat /\ Cardinality(Uncounting(InitProc)) \in Nat
  BY BalanceTypes, Numbers
<1>. QED
  BY <1>1, <1>2 DEF Enough

(* A process that lives now lived before, if it was made. *)
LEMMA AliveBefore ==
  ASSUME TypeInv, Shape, Shape', Census, Still \/ Reaps \/ \E t \in Thread : FamilyStep(t),
         NEW p \in Proc, p # next_pid, pcb'[p].num_threads > 0
  PROVE  pcb[p].num_threads > 0
<1>n. p \in Nat /\ next_pid \in Nat /\ next_pid' \in {next_pid, next_pid + 1}
  <2>1. next_pid' = next_pid \/ next_pid' = next_pid + 1
    BY DEF Still, Reaps, FamilyStep, Forks, StartsThread, Adds, Counts, Uncounts, Collects,
           Vanishes, Locks, Adopts, Leaves, Reports, SameNumbers
  <2>. QED
    BY <2>1, Numbers DEF TypeInv
<1>1. CASE p < next_pid
  <2>1. pcb[p].num_threads # 0
    <3>1. pcb[p].num_threads = 0 => pcb'[p].num_threads = 0
      BY <1>1, DeadStays
    <3>. QED
      BY <3>1
  <2>2. Counted(p) \in SUBSET Thread /\ pcb[p].num_threads = Cardinality(Counted(p))
    BY DEF Census, Counted
  <2>3. pcb[p].num_threads \in Nat
    BY <2>2, CountThreads
  <2>. QED
    BY <2>1, <2>3
<1>2. CASE ~(p < next_pid)
  <2>1. p >= next_pid'
    BY <1>n, <1>2
  <2>2. pcb'[p] = pcb_init
    BY <2>1 DEF Shape, Unmade
  <2>. QED
    BY <2>2 DEF pcb_init
<1>. QED
  BY <1>1, <1>2

CountPoints == {"add", "count", "uncount"}

(* Nobody comes to count, or is done with it. *)
LEMMA SameCounting ==
  ASSUME TypeInv, Shape, SameHomes,
         \A u \in Thread : pc[u] \in CountPoints \/ pc'[u] \in CountPoints =>
                             pc'[u] = pc[u] /\ loc'[u] = loc[u],
         NEW p \in Proc
  PROVE  Counting(p)' = Counting(p) /\ Uncounting(p)' = Uncounting(p)
<1>1. \A u \in Thread : pc[u] = "add" => loc[u] \in Thread
  BY DEF Shape, Placed
<1>2. Uncounting(p)' = Uncounting(p)
  BY DEF SameHomes, CountPoints, Uncounting, Mine
<1>3. ASSUME NEW u \in Thread PROVE u \in Counting(p)' <=> u \in Counting(p)
  <2>1. tcb'[u].pcb = tcb[u].pcb
    BY DEF SameHomes
  <2>2. pc'[u] = "count" <=> pc[u] = "count"
    BY DEF CountPoints
  <2>3. pc'[u] = "add" <=> pc[u] = "add"
    BY DEF CountPoints
  <2>4. pc[u] = "add" => loc'[u] = loc[u] /\ tcb'[loc[u]].pcb = tcb[loc[u]].pcb
    BY <1>1 DEF CountPoints, SameHomes
  <2>. QED
    BY <2>1, <2>2, <2>3, <2>4 DEF Counting, Mine
<1>4. Counting(p)' \subseteq Thread /\ Counting(p) \subseteq Thread
  BY DEF Counting
<1>. QED
  BY <1>2, <1>3, <1>4

(* Init is told of no orphan. *)
LEMMA QuietWards ==
  ASSUME TypeInv, SameKin, next_pid' = next_pid, SameQueues,
         \A u \in Thread :
           /\ pc'[u] \in {"leave", "report"} /\ loc'[u] = InitProc
           /\ pcb[tcb'[u].pcb].ppid # InitProc
           => pc[u] \in {"leave", "report"} /\ loc[u] = InitProc /\ tcb'[u].pcb = tcb[u].pcb
  PROVE  Adopted' \subseteq Adopted
<1> SUFFICES ASSUME NEW c \in Adopted' PROVE c \in Adopted
  OBVIOUS
<1>1. /\ c \in Proc /\ c < next_pid /\ pcb'[c].ppid # InitProc
      /\ pcb'[c].ppid = pcb[c].ppid /\ pcb'[c].original_tid = pcb[c].original_tid
  BY DEF Adopted, SameKin
<1>2. \A u \in Thread : /\ tcb'[u].pcb = c /\ loc'[u] = InitProc
                        /\ pc'[u] \in {"leave", "report"}
                        => Known(c)
  BY <1>1 DEF Known, Mine
<1>3. \A i \in DOMAIN pcb'[InitProc].status_queue :
        Entry(InitProc, i)' = pcb[c].original_tid => Known(c)
  BY Numbers DEF SameQueues, Known, Entry
<1>. QED
  BY <1>1, <1>2, <1>3, NoNewWards DEF SameQueues

(* A step that changes none of the numbers. *)
LEMMA QuietChild ==
  ASSUME TypeInv, TypeInv', Shape, Shape', Census, ChildInv,
         Still \/ Reaps \/ \E t \in Thread : FamilyStep(t),
         SameKin, SameChildren, next_pid' = next_pid, collected' = collected,
         Adopted' \subseteq Adopted,
         \A p \in Proc : Counting(p)' = Counting(p) /\ Uncounting(p)' = Uncounting(p)
  PROVE  ChildInv'
<1>n. InitProc \in Proc
  BY Numbers
<1>1. \A p \in Proc : Children(p)' = Children(p)
  BY ChildrenStay
<1>2. Enough'
  <2>1. Wards' \subseteq Wards
    BY <1>n, <1>1 DEF Wards
  <2>. QED
    BY <1>n, <2>1, SameEnough DEF ChildInv, SameChildren
<1>3. ASSUME NEW p \in Proc \ {InitProc} PROVE Even(p)'
  <2>1. pcb'[p].num_threads > 0 => pcb[p].num_threads > 0
    <3>1. CASE p # next_pid
      BY <3>1, AliveBefore
    <3>2. CASE p = next_pid
      <4>1. pcb'[p] = pcb_init
        BY <3>2, Numbers DEF Shape, Unmade, TypeInv
      <4>. QED
        BY <4>1 DEF pcb_init
    <3>. QED
      BY <3>1, <3>2
  <2>. QED
    BY <1>1, <2>1, SameEven DEF ChildInv, SameChildren
<1>. QED
  BY <1>2, <1>3 DEF ChildInv

(* The steps of vanish, and those that have nothing to do with children. *)
LEMMA ChildQuietSteps ==
  ASSUME TypeInv, TypeInv', Shape, Shape', Census, Kin, Heirs, ChildInv,
         Still \/ Reaps \/ \E t \in Thread : Vanishes(t) \/ Locks(t) \/ Leaves(t)
  PROVE  ChildInv'
<1>ty. pc \in [Thread -> Points] /\ loc \in [Thread -> Proc \cup Thread \cup {None}]
  BY DEF TypeInv
<1>s. Still \/ Reaps \/ \E t \in Thread : FamilyStep(t)
  BY DEF FamilyStep
<1>1. SameKin /\ SameChildren /\ next_pid' = next_pid /\ SameQueues /\ SameHomes
  BY DEF Still, Reaps, Vanishes, Locks, Leaves, SameKin, SameChildren, SameNumbers,
         SameQueues, SameHomes
<1>2. ASSUME NEW u \in Thread, pc[u] \in CountPoints \/ pc'[u] \in CountPoints
      PROVE  pc'[u] = pc[u] /\ loc'[u] = loc[u]
  <2>1. CASE Still \/ Reaps
    BY <1>2, <2>1 DEF Still, Reaps, SamePoints, FamilyPoints, CountPoints
  <2>2. ASSUME NEW t \in Thread, Vanishes(t) \/ Locks(t) \/ Leaves(t)
        PROVE  pc'[u] = pc[u] /\ loc'[u] = loc[u]
    BY <1>2, <1>ty, <2>2 DEF Vanishes, Locks, Leaves, Moves, CountPoints
  <2>. QED
    BY <2>1, <2>2
<1>3. ASSUME NEW u \in Thread, pc'[u] \in {"leave", "report"}, loc'[u] = InitProc,
             pcb[tcb'[u].pcb].ppid # InitProc
      PROVE  pc[u] \in {"leave", "report"} /\ loc[u] = InitProc /\ tcb'[u].pcb = tcb[u].pcb
  <2>0. tcb'[u].pcb = tcb[u].pcb
    BY <1>1 DEF SameHomes
  <2>1. CASE Still \/ Reaps
    BY <1>3, <2>0, <2>1 DEF Still, Reaps, SamePoints, FamilyPoints
  <2>2. ASSUME NEW t \in Thread, Vanishes(t) \/ Leaves(t)
        PROVE  pc[u] \in {"leave", "report"} /\ loc[u] = InitProc
    BY <1>3, <1>ty, <2>2 DEF Vanishes, Leaves, Moves
  <2>3. ASSUME NEW t \in Thread, Locks(t)
        PROVE  pc[u] \in {"leave", "report"} /\ loc[u] = InitProc
    <3>1. loc' = loc /\ (u = t => pc[u] = "lock parent") /\ (u # t => pc'[u] = pc[u])
      BY <2>3, <1>ty DEF Locks, Moves
    <3>2. u # t
      BY <1>3, <2>0, <3>1 DEF Heirs, Mine
    <3>. QED
      BY <1>3, <3>1, <3>2
  <2>. QED
    BY <2>0, <2>1, <2>2, <2>3
<1>4. \A p \in Proc : Counting(p)' = Counting(p) /\ Uncounting(p)' = Uncounting(p)
  BY <1>1, <1>2, SameCounting
<1>5. Adopted' \subseteq Adopted
  BY <1>1, <1>3, QuietWards
<1>. QED
  BY <1>s, <1>1, <1>4, <1>5, QuietChild DEF SameQueues

(* The status of an orphan was known to init before it is queued. *)
LEMMA ChildReports ==
  ASSUME TypeInv, TypeInv', Shape, Shape', Census, Kin, Heirs, ChildInv,
         NEW t \in Thread, Reports(t)
  PROVE  ChildInv'
<1>ty. pc \in [Thread -> Points]
  BY DEF TypeInv
<1>s. Still \/ Reaps \/ \E u \in Thread : FamilyStep(u)
  BY DEF FamilyStep
<1>1. /\ SameKin /\ SameChildren /\ next_pid' = next_pid /\ SameHomes
      /\ collected' = collected /\ loc' = loc /\ Mine(t) \in Proc /\ loc[t] \in Proc
      /\ pc[t] = "report" /\ pc' = [pc EXCEPT ![t] = "signal"]
  BY DEF Reports, SameNumbers, Moves
<1>2. \A u \in Thread : pc[u] \in CountPoints \/ pc'[u] \in CountPoints =>
        pc'[u] = pc[u] /\ loc'[u] = loc[u]
  BY <1>ty, <1>1 DEF CountPoints
<1>3. \A p \in Proc : Counting(p)' = Counting(p) /\ Uncounting(p)' = Uncounting(p)
  BY <1>1, <1>2, SameCounting
<1>4. ASSUME NEW c \in Adopted' PROVE c \in Adopted
  <2>1. c \in Proc /\ c < next_pid
    BY <1>1, <1>4 DEF Adopted
  <2>2. \A u \in Thread : /\ tcb'[u].pcb = c /\ loc'[u] = InitProc
                          /\ pc'[u] \in {"leave", "report"}
                          => Known(c)
    BY <1>ty, <1>1 DEF Known, Mine, SameHomes
  <2>3. ASSUME NEW i \in DOMAIN pcb'[InitProc].status_queue,
               Entry(InitProc, i)' = pcb[c].original_tid
        PROVE  Known(c)
    <3>q. /\ pcb[InitProc].status_queue \in Seq(Report)
          /\ pcb'[InitProc].status_queue =
               IF InitProc = loc[t] THEN Append(pcb[InitProc].status_queue, Metadata(t))
               ELSE pcb[InitProc].status_queue
          /\ Metadata(t) \in Report
      BY <1>1, Numbers DEF Reports, TypeInv, Pcb, Metadata, Report
    <3>1. CASE InitProc # loc[t]
      BY <2>3, <3>q, <3>1 DEF Entry, Known
    <3>2. CASE InitProc = loc[t]
      <4>1. /\ DOMAIN pcb'[InitProc].status_queue = 1 .. Len(pcb[InitProc].status_queue) + 1
            /\ DOMAIN pcb[InitProc].status_queue = 1 .. Len(pcb[InitProc].status_queue)
            /\ Len(pcb[InitProc].status_queue) \in Nat
            /\ \A k \in 1 .. Len(pcb[InitProc].status_queue) :
                 pcb'[InitProc].status_queue[k] = pcb[InitProc].status_queue[k]
            /\ pcb'[InitProc].status_queue[Len(pcb[InitProc].status_queue) + 1] = Metadata(t)
        BY <3>q, <3>2, AppendProperties
      <4>2. CASE i \in DOMAIN pcb[InitProc].status_queue
        <5>1. Entry(InitProc, i) = pcb[c].original_tid
          BY <2>3, <4>1, <4>2 DEF Entry
        <5>. QED
          BY <4>2, <5>1 DEF Known
      <4>3. CASE i = Len(pcb[InitProc].status_queue) + 1
        <5>1. pcb[Mine(t)].original_tid = pcb[c].original_tid
          BY <2>3, <4>1, <4>3 DEF Entry, Metadata
        <5>2. Mine(t) < next_pid
          BY <1>1 DEF Shape, Placed
        <5>3. c = Mine(t)
          BY <1>1, <2>1, <5>1, <5>2 DEF Kin
        <5>. QED
          BY <1>1, <3>2, <5>3 DEF Known
      <4>. QED
        BY <2>3, <4>1, <4>2, <4>3
    <3>. QED
      BY <3>1, <3>2
  <2>. QED
    BY <1>1, <1>4, <2>1, <2>2, <2>3, NoNewWards
<1>5. Adopted' \subseteq Adopted
  BY <1>4
<1>. QED
  BY <1>s, <1>1, <1>3, <1>5, QuietChild

(* A new thread is no child, and a child that is added is still to be      *)
(* counted.                                                                *)
LEMMA ChildAdds ==
  ASSUME TypeInv, TypeInv', Shape, Shape', Census, Kin, ChildInv,
         NEW t \in Thread, StartsThread(t) \/ Adds(t)
  PROVE  ChildInv'
<1>ty. pc \in [Thread -> Points] /\ loc \in [Thread -> Proc \cup Thread \cup {None}]
  BY DEF TypeInv
<1>s. Still \/ Reaps \/ \E u \in Thread : FamilyStep(u)
  BY DEF FamilyStep
<1>1. SameKin /\ SameChildren /\ next_pid' = next_pid /\ SameQueues
  BY DEF StartsThread, Adds, SameKin, SameChildren, SameNumbers, SameQueues
<1>a. \A u \in Thread :
        pc[u] = "add" => /\ loc[u] \in Thread /\ pc[loc[u]] = "unborn" /\ Mine(loc[u]) \in Proc
  BY DEF Shape, Placed
<1>2. ASSUME StartsThread(t)
      PROVE  \A p \in Proc : Counting(p)' = Counting(p) /\ Uncounting(p)' = Uncounting(p)
  <2>1. /\ next_tid \in Thread /\ Mine(t) \in Proc /\ pc[t] = "user"
        /\ \A u \in Thread : tcb'[u].pcb = IF u = next_tid THEN Mine(t) ELSE tcb[u].pcb
        /\ loc' = [loc EXCEPT ![t] = next_tid] /\ pc' = [pc EXCEPT ![t] = "add"]
    BY <1>2 DEF StartsThread, Moves
  <2>2. Mine(next_tid) \notin Proc /\ pc[next_tid] = "unborn" /\ next_tid # t
    BY <2>1, NewThread
  <2>3. ASSUME NEW p \in Proc, NEW u \in Thread
        PROVE  (u \in Counting(p)' <=> u \in Counting(p))
                 /\ (u \in Uncounting(p)' <=> u \in Uncounting(p))
    <3>1. CASE u = t
      <4>1. pc'[u] = "add" /\ loc'[u] = next_tid /\ tcb'[u].pcb = Mine(t) /\ tcb'[next_tid].pcb = Mine(t)
        BY <1>ty, <2>1, <2>2, <3>1 DEF Mine
      <4>. QED
        BY <2>1, <3>1, <4>1 DEF Counting, Uncounting, Mine
    <3>2. CASE u = next_tid
      <4>1. pc'[u] = "unborn" /\ pc[u] = "unborn"
        BY <1>ty, <2>1, <2>2, <3>2
      <4>. QED
        BY <4>1 DEF Counting, Uncounting
    <3>3. CASE u # t /\ u # next_tid
      <4>1. pc'[u] = pc[u] /\ loc'[u] = loc[u] /\ tcb'[u].pcb = tcb[u].pcb
        BY <1>ty, <2>1, <3>3
      <4>2. pc[u] = "add" => tcb'[loc[u]].pcb = tcb[loc[u]].pcb
        BY <1>a, <2>1, <2>2
      <4>. QED
        BY <4>1, <4>2 DEF Counting, Uncounting, Mine
    <3>. QED
      BY <3>1, <3>2, <3>3
  <2>4. \A p \in Proc : /\ Counting(p)' \subseteq Thread /\ Counting(p) \subseteq Thread
                        /\ Uncounting(p)' \subseteq Thread /\ Uncounting(p) \subseteq Thread
    BY DEF Counting, Uncounting
  <2>. QED
    BY <2>3, <2>4
<1>3. ASSUME Adds(t)
      PROVE  \A p \in Proc : Counting(p)' = Counting(p) /\ Uncounting(p)' = Uncounting(p)
  <2>1. /\ tcb' = tcb /\ loc' = [loc EXCEPT ![t] = None] /\ pc[t] = "add"
        /\ loc[t] \in Thread /\ pc[loc[t]] = "unborn" /\ loc[t] # t
        /\ pc' = [pc EXCEPT ![t] = IF Mine(loc[t]) = Mine(t) THEN "user" ELSE "count",
                            ![loc[t]] = "user"]
    BY <1>a, <1>3 DEF Adds
  <2>2. ASSUME NEW p \in Proc, NEW u \in Thread
        PROVE  (u \in Counting(p)' <=> u \in Counting(p))
                 /\ (u \in Uncounting(p)' <=> u \in Uncounting(p))
    <3>1. CASE u = t
      <4>1. pc'[u] = IF Mine(loc[t]) = Mine(t) THEN "user" ELSE "count"
        BY <1>ty, <2>1, <3>1
      <4>. QED
        BY <2>1, <3>1, <4>1 DEF Counting, Uncounting, Mine
    <3>2. CASE u = loc[t]
      <4>1. pc'[u] = "user" /\ pc[u] = "unborn"
        BY <1>ty, <2>1, <3>2
      <4>. QED
        BY <4>1 DEF Counting, Uncounting
    <3>3. CASE u # t /\ u # loc[t]
      <4>1. pc'[u] = pc[u] /\ loc'[u] = loc[u]
        BY <1>ty, <2>1, <3>3
      <4>. QED
        BY <2>1, <4>1 DEF Counting, Uncounting, Mine
    <3>. QED
      BY <3>1, <3>2, <3>3
  <2>3. \A p \in Proc : /\ Counting(p)' \subseteq Thread /\ Counting(p) \subseteq Thread
                        /\ Uncounting(p)' \subseteq Thread /\ Uncounting(p) \subseteq Thread
    BY DEF Counting, Uncounting
  <2>. QED
    BY <2>2, <2>3
<1>4. Adopted' \subseteq Adopted
  <2>1. ASSUME NEW u \in Thread, pc'[u] \in {"leave", "report"}
        PROVE  pc[u] \in {"leave", "report"} /\ loc'[u] = loc[u] /\ tcb'[u].pcb = tcb[u].pcb
    <3>1. CASE Adds(t)
      BY <1>ty, <2>1, <3>1 DEF Adds
    <3>2. CASE StartsThread(t)
      <4>1. pc[u] \in {"leave", "report"} /\ u # t
        BY <1>ty, <2>1, <3>2 DEF StartsThread, Moves
      <4>2. u # next_tid
        BY <4>1, NewThread
      <4>. QED
        BY <1>ty, <3>2, <4>1, <4>2 DEF StartsThread
    <3>. QED
      BY <3>1, <3>2
  <2>. QED
    BY <1>1, <2>1, QuietWards
<1>. QED
  BY <1>s, <1>1, <1>2, <1>3, <1>4, QuietChild DEF SameQueues

(* A child is counted, or one that was collected is not counted any more.  *)
LEMMA ChildCounts ==
  ASSUME TypeInv, TypeInv', Shape, Shape', Census, Kin, ChildInv,
         NEW t \in Thread, Counts(t) \/ Uncounts(t)
  PROVE  ChildInv'
<1>ty. pc \in [Thread -> Points]
  BY DEF TypeInv
<1>n. InitProc \in Proc
  BY Numbers
<1>1. /\ SameKin /\ SameThreads /\ SameQueues /\ SameHomes /\ next_pid' = next_pid
      /\ loc' = loc /\ Mine(t) \in Proc
  BY DEF Counts, Uncounts, SameNumbers
<1>2. Adopted' \subseteq Adopted
  <2>1. \A u \in Thread : pc'[u] \in {"leave", "report"} => pc'[u] = pc[u]
    BY <1>ty DEF Counts, Uncounts, Moves
  <2>2. \A u \in Thread : tcb'[u].pcb = tcb[u].pcb
    BY <1>1 DEF SameHomes
  <2>. QED
    BY <1>1, <2>1, <2>2, QuietWards
<1>3. \A p \in Proc : Children(p)' = Children(p)
  BY <1>1, ChildrenStay DEF SameQueues
<1>4. Wards' \subseteq Wards
  BY <1>n, <1>2, <1>3 DEF Wards
<1>5. Cardinality(Wards') <= Cardinality(Wards) /\ Cardinality(Wards') \in Nat
  BY <1>n, <1>4, BalanceTypes, CountProcs DEF Wards, Children, Adopted
<1>a. \A u \in Thread : pc[u] = "add" => loc[u] \in Thread
  BY DEF Shape, Placed
<1>h. \A u \in Thread : tcb'[u].pcb = tcb[u].pcb
  BY <1>1 DEF SameHomes
<1>6. ASSUME NEW p \in Proc
      PROVE  pcb'[p].num_child_proc + Cardinality(Counting(p)') - Cardinality(Uncounting(p)')
               = pcb[p].num_child_proc + Cardinality(Counting(p)) - Cardinality(Uncounting(p))
  <2>t. /\ pcb[p].num_child_proc \in Int
        /\ Counting(p) \in SUBSET Thread /\ Cardinality(Counting(p)) \in Nat
        /\ Uncounting(p) \in SUBSET Thread /\ Cardinality(Uncounting(p)) \in Nat
    BY BalanceTypes
  <2>1. CASE Counts(t)
    <3>1. /\ pc[t] = "count" /\ pc' = [pc EXCEPT ![t] = "user"]
          /\ pcb'[p].num_child_proc =
               IF p = Mine(t) THEN pcb[p].num_child_proc + 1 ELSE pcb[p].num_child_proc
      BY <2>1 DEF Counts, Moves
    <3>2. Uncounting(p)' = Uncounting(p)
      BY <1>ty, <1>h, <3>1 DEF Uncounting, Mine
    <3>3. Counting(p)' = Counting(p) \ {t}
      BY <1>ty, <1>h, <1>1, <1>a, <3>1 DEF Counting, Mine
    <3>4. CASE p = Mine(t)
      <4>1. t \in Counting(p)
        BY <3>1, <3>4 DEF Counting
      <4>2. Cardinality(Counting(p)') = Cardinality(Counting(p)) - 1
        BY <2>t, <3>3, <4>1, CountThreads
      <4>. QED
        BY <2>t, <3>1, <3>2, <3>4, <4>2
    <3>5. CASE p # Mine(t)
      <4>1. Counting(p)' = Counting(p)
        BY <3>3, <3>5 DEF Counting
      <4>. QED
        BY <3>1, <3>2, <3>5, <4>1
    <3>. QED
      BY <3>4, <3>5
  <2>2. CASE Uncounts(t)
    <3>1. /\ pc[t] = "uncount" /\ pc' = [pc EXCEPT ![t] = "user"]
          /\ pcb'[p].num_child_proc =
               IF p = Mine(t) THEN pcb[p].num_child_proc - 1 ELSE pcb[p].num_child_proc
      BY <2>2 DEF Uncounts, Moves
    <3>2. Counting(p)' = Counting(p)
      BY <1>ty, <1>h, <1>1, <1>a, <3>1 DEF Counting, Mine
    <3>3. Uncounting(p)' = Uncounting(p) \ {t}
      BY <1>ty, <1>h, <3>1 DEF Uncounting, Mine
    <3>4. CASE p = Mine(t)
      <4>1. t \in Uncounting(p)
        BY <3>1, <3>4 DEF Uncounting
      <4>2. Cardinality(Uncounting(p)') = Cardinality(Uncounting(p)) - 1
        BY <2>t, <3>3, <4>1, CountThreads
      <4>. QED
        BY <2>t, <3>1, <3>2, <3>4, <4>2
    <3>5. CASE p # Mine(t)
      <4>1. Uncounting(p)' = Uncounting(p)
        BY <3>3, <3>5 DEF Uncounting
      <4>. QED
        BY <3>1, <3>2, <3>5, <4>1
    <3>. QED
      BY <3>4, <3>5
  <2>. QED
    BY <2>1, <2>2
<1>7. ASSUME NEW p \in Proc
      PROVE  /\ pcb'[p].num_child_proc \in Int /\ pcb[p].num_child_proc \in Int
             /\ Cardinality(Counting(p)') \in Nat /\ Cardinality(Uncounting(p)') \in Nat
             /\ Cardinality(Counting(p)) \in Nat /\ Cardinality(Uncounting(p)) \in Nat
             /\ Cardinality(Children(p)) \in Nat /\ Cardinality(Wards) \in Nat
  <2>1. Counting(p)' \in SUBSET Thread /\ Uncounting(p)' \in SUBSET Thread
    BY DEF Counting, Uncounting
  <2>2. pcb'[p].num_child_proc \in Int
    BY DEF TypeInv, Pcb
  <2>. QED
    BY <2>1, <2>2, CountThreads, BalanceTypes
<1>8. Enough'
  BY <1>n, <1>5, <1>6, <1>7 DEF ChildInv, Enough
<1>9. ASSUME NEW p \in Proc \ {InitProc} PROVE Even(p)'
  <2>1. Even(p) /\ pcb'[p].num_threads = pcb[p].num_threads /\ Children(p)' = Children(p)
    BY <1>1, <1>3 DEF ChildInv, SameThreads
  <2>. QED
    BY <1>6, <1>7, <2>1 DEF Even
<1>. QED
  BY <1>8, <1>9 DEF ChildInv

(* Init counts a thread of an orphan. *)
LEMMA ChildAdopts ==
  ASSUME TypeInv, TypeInv', Shape, Shape', Census, Kin, ChildInv,
         NEW t \in Thread, Adopts(t)
  PROVE  ChildInv'
<1>ty. pc \in [Thread -> Points]
  BY DEF TypeInv
<1>n. InitProc \in Proc
  BY Numbers
<1>1. /\ SameKin /\ SameThreads /\ SameQueues /\ SameHomes /\ next_pid' = next_pid
      /\ loc' = loc /\ pc[t] = "adopt" /\ pc' = [pc EXCEPT ![t] = "leave"]
  BY DEF Adopts, SameNumbers, Moves
<1>m. PICK c0 \in Proc : c0 = Mine(t)
  BY <1>1, ActorHasProcess
<1>2. \A p \in Proc : Counting(p)' = Counting(p) /\ Uncounting(p)' = Uncounting(p)
  <2>1. \A u \in Thread : pc[u] \in CountPoints \/ pc'[u] \in CountPoints =>
          pc'[u] = pc[u] /\ loc'[u] = loc[u]
    BY <1>ty, <1>1 DEF CountPoints
  <2>. QED
    BY <1>1, <2>1, SameCounting
<1>3. \A p \in Proc : Children(p)' = Children(p)
  BY <1>1, ChildrenStay DEF SameQueues
<1>4. ASSUME NEW c \in Adopted', c # c0 PROVE c \in Adopted
  <2>1. c \in Proc
    BY <1>4 DEF Adopted
  <2>2. \A u \in Thread : /\ tcb'[u].pcb = c /\ loc'[u] = InitProc
                          /\ pc'[u] \in {"leave", "report"}
                          => Known(c)
    BY <1>ty, <1>1, <1>m, <1>4 DEF Known, Mine, SameHomes
  <2>3. \A i \in DOMAIN pcb'[InitProc].status_queue :
          Entry(InitProc, i)' = pcb[c].original_tid => Known(c)
    BY <1>1, <1>n DEF SameQueues, Known, Entry
  <2>. QED
    BY <1>1, <1>4, <2>1, <2>2, <2>3, NoNewWards DEF SameQueues
<1>5. Wards' \subseteq Wards \cup {c0}
  BY <1>n, <1>3, <1>4 DEF Wards
<1>6. Cardinality(Wards') <= Cardinality(Wards) + 1 /\ Cardinality(Wards') \in Nat
  <2>1. Wards \in SUBSET Proc /\ Wards' \in SUBSET Proc /\ Cardinality(Wards) \in Nat
    BY <1>n, BalanceTypes DEF Wards, Children, Adopted
  <2>2. Cardinality(Wards \cup {c0}) <= Cardinality(Wards) + 1
    <3>1. CASE c0 \in Wards
      <4>1. Wards \cup {c0} = Wards
        BY <3>1
      <4>2. Cardinality(Wards \cup {c0}) = Cardinality(Wards)
        BY <4>1
      <4>. QED
        BY <2>1, <4>2
    <3>2. CASE c0 \notin Wards
      BY <2>1, <3>2, CountProcs
    <3>. QED
      BY <3>1, <3>2
  <2>3. Cardinality(Wards') <= Cardinality(Wards \cup {c0})
    BY <1>5, <2>1, CountProcs
  <2>4. Wards \cup {c0} \in SUBSET Proc
    BY <2>1
  <2>5. Cardinality(Wards \cup {c0}) \in Nat /\ Cardinality(Wards') \in Nat
    BY <2>1, <2>4, CountProcs
  <2>. QED
    BY <2>1, <2>2, <2>3, <2>5
<1>7. Enough'
  <2>1. pcb'[InitProc].num_child_proc = pcb[InitProc].num_child_proc + 1
    BY <1>n DEF Adopts
  <2>2. /\ pcb[InitProc].num_child_proc \in Int /\ Cardinality(Counting(InitProc)) \in Nat
        /\ Cardinality(Wards) \in Nat /\ Cardinality(Uncounting(InitProc)) \in Nat
    BY <1>n, BalanceTypes
  <2>. QED
    BY <1>n, <1>2, <1>6, <2>1, <2>2 DEF ChildInv, Enough
<1>8. ASSUME NEW p \in Proc \ {InitProc} PROVE Even(p)'
  <2>1. /\ pcb'[p].num_child_proc = pcb[p].num_child_proc
        /\ pcb'[p].num_threads = pcb[p].num_threads
    BY <1>1, <1>8 DEF Adopts, SameThreads
  <2>. QED
    BY <1>2, <1>3, <2>1, SameEven DEF ChildInv
<1>. QED
  BY <1>7, <1>8 DEF ChildInv

(* fork: one more child, and its parent has yet to count it. *)
LEMMA ChildForks ==
  ASSUME TypeInv, TypeInv', Shape, Shape', Census, Kin, StatusInv, ChildInv,
         NEW t \in Thread, Forks(t)
  PROVE  ChildInv'
<1>ty. pc \in [Thread -> Points] /\ loc \in [Thread -> Proc \cup Thread \cup {None}]
  BY DEF TypeInv
<1>num. next_pid \in Nat /\ next_tid \in Nat /\ Proc \subseteq Nat /\ Thread \subseteq Nat
  BY Numbers DEF TypeInv
<1>k. PICK k \in Proc : k = next_pid
  BY DEF Forks
<1>r. PICK r \in Thread : r = next_tid
  BY DEF Forks
<1>m. PICK m \in Proc : m = Mine(t)
  BY DEF Forks
<1>1. /\ pc[t] = "fork" /\ pc' = [pc EXCEPT ![t] = "add"]
      /\ loc' = [loc EXCEPT ![t] = r]
      /\ \A p \in Proc : p # k => pcb'[p] = pcb[p]
      /\ \A u \in Thread : tcb'[u].pcb = IF u = r THEN k ELSE tcb[u].pcb
      /\ collected' = collected /\ next_pid' = k + 1
  BY <1>k, <1>r, <1>m DEF Forks, Moves
<1>2. /\ pcb'[k].ppid = m /\ pcb'[k].original_tid = r /\ pcb'[k].num_child_proc = 0
      /\ pcb'[k].status_queue = <<>>
  BY <1>k, <1>r, <1>m DEF Forks, pcb_copy, pcb_init
<1>3. Mine(r) \notin Proc /\ pc[r] = "unborn" /\ r # t
  BY <1>r, <1>1, NewThread
<1>4. pcb[k] = pcb_init
  BY <1>k, <1>num DEF Shape, Unmade
<1>5. m < k /\ m # k
  BY <1>m, <1>k, <1>num DEF Shape, Placed
<1>init. InitProc \in Proc /\ InitProc # k /\ InitProc < next_pid
  <2>1. next_pid # 1 /\ next_pid # 0
    BY DEF TypeInv
  <2>. QED
    BY <1>k, <1>num, <2>1, Numbers DEF InitProc
<1>a. \A u \in Thread : pc[u] = "add" => loc[u] \in Thread /\ Mine(loc[u]) \in Proc
  BY DEF Shape, Placed
<1>new. /\ \A x \in collected : x[2] # r
        /\ \A p \in Proc : \A i \in DOMAIN pcb[p].status_queue : Entry(p, i) # r
  <2>1. \A c \in Proc : c < next_pid => pcb[c].original_tid # r
    BY <1>r, <1>num DEF Kin
  <2>2. \A c \in Proc : Over(c) => pcb[c].original_tid # r
    BY <2>1 DEF Over
  <2>3. \A x \in collected : x[2] # r
    BY <2>2 DEF StatusInv
  <2>4. ASSUME NEW p \in Proc, NEW i \in DOMAIN pcb[p].status_queue PROVE Entry(p, i) # r
    <3>1. PICK c \in Proc : Status(p, i, c)
      BY DEF StatusInv
    <3>. QED
      BY <2>2, <3>1 DEF Status
  <2>. QED
    BY <2>3, <2>4
<1>6. \A c \in Proc : c # k => (Collected(c)' <=> Collected(c))
  BY <1>1 DEF Collected
<1>7. ~Collected(k)'
  BY <1>1, <1>2, <1>new DEF Collected
<1>8. ASSUME NEW p \in Proc, p # k
      PROVE  Children(p)' = IF p = m THEN Children(p) \cup {k} ELSE Children(p)
  <2>1. k \notin Children(p)
    BY <1>4, Numbers DEF Children, pcb_init
  <2>2. \A c \in Proc \ {k} : c \in Children(p)' <=> c \in Children(p)
    BY <1>1, <1>6 DEF Children
  <2>3. k \in Children(p)' <=> p = m
    BY <1>2, <1>7 DEF Children
  <2>4. Children(p)' \subseteq Proc /\ Children(p) \subseteq Proc
    BY DEF Children
  <2>. QED
    BY <2>1, <2>2, <2>3, <2>4
<1>9. ASSUME NEW p \in Proc PROVE Uncounting(p)' = IF p = k THEN {} ELSE Uncounting(p)
  <2>1. \A u \in Thread : tcb[u].pcb # k
    BY <1>k, NobodyYet DEF Mine
  <2>2. \A u \in Thread : pc'[u] = "uncount" <=> pc[u] = "uncount"
    BY <1>ty, <1>1
  <2>3. pc[r] # "uncount"
    BY <1>3
  <2>. QED
    BY <1>1, <2>1, <2>2, <2>3 DEF Uncounting, Mine
<1>10. ASSUME NEW p \in Proc
       PROVE  Counting(p)' = IF p = k THEN {} ELSE IF p = m THEN Counting(p) \cup {t}
                             ELSE Counting(p)
  <2>1. \A u \in Thread : tcb[u].pcb # k
    BY <1>k, NobodyYet DEF Mine
  <2>2. ASSUME NEW u \in Thread, u # t, u # r PROVE u \in Counting(p)' <=> u \in Counting(p)
    <3>1. pc'[u] = pc[u] /\ loc'[u] = loc[u] /\ tcb'[u].pcb = tcb[u].pcb
      BY <1>ty, <1>1, <2>2
    <3>2. pc[u] = "add" => tcb'[loc[u]].pcb = tcb[loc[u]].pcb
      BY <1>1, <1>3, <1>a
    <3>. QED
      BY <3>1, <3>2 DEF Counting, Mine
  <2>3. r \notin Counting(p)' /\ r \notin Counting(p) /\ t \notin Counting(p)
    BY <1>ty, <1>1, <1>3 DEF Counting
  <2>4. t \in Counting(p)' <=> p = m
    <3>1. pc'[t] = "add" /\ loc'[t] = r /\ tcb'[t].pcb = m /\ tcb'[r].pcb = k
      BY <1>ty, <1>1, <1>3, <1>m DEF Mine
    <3>. QED
      BY <1>5, <3>1 DEF Counting, Mine
  <2>5. p = k => Counting(p) = {}
    BY <2>1 DEF Counting, Mine
  <2>6. Counting(p)' \subseteq Thread /\ Counting(p) \subseteq Thread
    BY DEF Counting
  <2>. QED
    BY <1>5, <2>2, <2>3, <2>4, <2>5, <2>6
<1>11. Adopted' \subseteq Adopted
  <2> SUFFICES ASSUME NEW c \in Adopted' PROVE c \in Adopted
    OBVIOUS
  <2>1. c \in Proc /\ c < k + 1 /\ pcb'[c].ppid # InitProc /\ ~Collected(c)' /\ Known(c)'
    BY <1>1 DEF Adopted
  <2>2. /\ \A u \in Thread : pc'[u] \in {"leave", "report"} =>
             pc'[u] = pc[u] /\ loc'[u] = loc[u] /\ tcb'[u].pcb = tcb[u].pcb
    BY <1>ty, <1>1, <1>3
  <2>3. pcb'[InitProc].status_queue = pcb[InitProc].status_queue
    BY <1>1, <1>init
  <2>4. c # k
    <3>1. SUFFICES ASSUME c = k PROVE FALSE
      OBVIOUS
    <3>2. \A u \in Thread : pc'[u] \in {"leave", "report"} => tcb'[u].pcb # k
      BY <1>k, <2>2, NobodyYet DEF Mine
    <3>3. \A i \in DOMAIN pcb'[InitProc].status_queue : Entry(InitProc, i)' # r
      BY <1>init, <1>new, <2>3 DEF Entry
    <3>. QED
      BY <1>2, <2>1, <3>1, <3>2, <3>3 DEF Known, Mine
  <2>5. c < next_pid /\ pcb'[c] = pcb[c]
    BY <1>1, <1>k, <1>num, <2>1, <2>4
  <2>6. Known(c)
    BY <2>1, <2>2, <2>3, <2>5 DEF Known, Mine, Entry
  <2>7. ~Collected(c)
    BY <1>6, <2>1, <2>4
  <2>. QED
    BY <2>1, <2>5, <2>6, <2>7 DEF Adopted
<1>12. ASSUME NEW p \in Proc
       PROVE  /\ pcb[p].num_child_proc \in Int
              /\ Counting(p) \in SUBSET Thread /\ Cardinality(Counting(p)) \in Nat
              /\ Cardinality(Uncounting(p)) \in Nat
              /\ Children(p) \in SUBSET Proc /\ Cardinality(Children(p)) \in Nat
              /\ Wards \in SUBSET Proc /\ Cardinality(Wards) \in Nat
  BY BalanceTypes
<1>13. ASSUME NEW p \in Proc
       PROVE  t \notin Counting(p) /\ k \notin Children(p)
  BY <1>1, <1>4, Numbers DEF Counting, Children, pcb_init
<1>14. Enough'
  <2>1. pcb'[InitProc].num_child_proc = pcb[InitProc].num_child_proc
    BY <1>1, <1>init
  <2>2. Uncounting(InitProc)' = Uncounting(InitProc)
    BY <1>9, <1>init
  <2>3. CASE InitProc # m
    <3>1. Counting(InitProc)' = Counting(InitProc)
      BY <1>10, <1>init, <2>3
    <3>2. Wards' \subseteq Wards
      BY <1>8, <1>11, <1>init, <2>3 DEF Wards
    <3>. QED
      BY <2>1, <2>2, <3>1, <3>2, SameEnough DEF ChildInv
  <2>4. CASE InitProc = m
    <3>1. Cardinality(Counting(InitProc)') = Cardinality(Counting(InitProc)) + 1
      BY <1>10, <1>12, <1>13, <1>init, <2>4, CountThreads
    <3>2. Wards' \subseteq Wards \cup {k}
      BY <1>8, <1>11, <1>init, <2>4 DEF Wards
    <3>3. Cardinality(Wards') <= Cardinality(Wards) + 1 /\ Cardinality(Wards') \in Nat
      <4>1. k \notin Wards
        <5>1. k \notin Adopted
          BY <1>k, <1>num DEF Adopted
        <5>. QED
          BY <1>13, <1>init, <5>1 DEF Wards
      <4>2. Wards \in SUBSET Proc /\ Wards \cup {k} \in SUBSET Proc /\ Wards' \in SUBSET Proc
        BY <1>12, <3>2
      <4>3. Cardinality(Wards \cup {k}) = Cardinality(Wards) + 1
        BY <4>1, <4>2, CountProcs
      <4>4. Cardinality(Wards') <= Cardinality(Wards \cup {k}) /\ Cardinality(Wards') \in Nat
        BY <3>2, <4>2, CountProcs
      <4>. QED
        BY <4>3, <4>4
    <3>4. Enough
      BY DEF ChildInv
    <3>. QED
      BY <1>12, <1>init, <2>1, <2>2, <3>1, <3>3, <3>4 DEF Enough
  <2>. QED
    BY <2>3, <2>4
<1>15. ASSUME NEW p \in Proc \ {InitProc} PROVE Even(p)'
  <2>1. CASE p = k
    <3>1. Children(p)' = {}
      <4>1. \A c \in Proc : c < next_pid => pcb[c].ppid # k
        BY <1>k, <1>num, Numbers DEF Kin
      <4>2. \A c \in Proc : ~(c < next_pid) => pcb[c].ppid = None
        <5> SUFFICES ASSUME NEW c \in Proc, ~(c < next_pid) PROVE pcb[c].ppid = None
          OBVIOUS
        <5>1. c >= next_pid
          BY <1>num
        <5>. QED
          BY <5>1 DEF Shape, Unmade, pcb_init
      <4>3. \A c \in Proc : pcb'[c].ppid # k
        BY <1>1, <1>2, <1>5, <4>1, <4>2, Numbers
      <4>. QED
        BY <2>1, <4>3 DEF Children
    <3>. QED
      BY <1>2, <1>9, <1>10, <2>1, <3>1, FS_EmptySet DEF Even
  <2>2. CASE p # k /\ p # m
    <3>1. pcb'[p] = pcb[p]
      BY <1>1, <2>2
    <3>2. /\ Counting(p)' = Counting(p) /\ Uncounting(p)' = Uncounting(p)
          /\ Children(p)' = Children(p)
      BY <1>8, <1>9, <1>10, <2>2
    <3>. QED
      BY <3>1, <3>2, SameEven DEF ChildInv
  <2>3. CASE p = m
    <3>1. pcb'[p] = pcb[p] /\ Uncounting(p)' = Uncounting(p)
      BY <1>1, <1>5, <1>9, <2>3
    <3>2. Cardinality(Counting(p)') = Cardinality(Counting(p)) + 1
      BY <1>5, <1>10, <1>12, <1>13, <2>3, CountThreads
    <3>3. Cardinality(Children(p)') = Cardinality(Children(p)) + 1
      BY <1>5, <1>8, <1>12, <1>13, <2>3, CountProcs
    <3>4. Even(p)
      BY DEF ChildInv
    <3>. QED
      BY <1>12, <3>1, <3>2, <3>3, <3>4 DEF Even
  <2>. QED
    BY <2>1, <2>2, <2>3
<1>. QED
  BY <1>14, <1>15 DEF ChildInv

(* wait: one child fewer, of those who wait, and it is counted still. *)
LEMMA ChildCollects ==
  ASSUME TypeInv, TypeInv', Shape, Shape', Census, Kin, StatusInv, ChildInv,
         NEW t \in Thread, Collects(t)
  PROVE  ChildInv'
<1>ty. pc \in [Thread -> Points] /\ \A p \in Proc : pcb[p].status_queue \in Seq(Report)
  BY DEF TypeInv, Pcb
<1>init. InitProc \in Proc
  BY Numbers
<1>m. PICK m \in Proc : m = Mine(t)
  BY DEF Collects
<1>x. PICK x0 : x0 = syscall_wait(t)
  OBVIOUS
<1>1. /\ SameKin /\ SameThreads /\ SameChildren /\ SameHomes /\ next_pid' = next_pid
      /\ loc' = loc /\ pc[t] = "dequeue" /\ pc' = [pc EXCEPT ![t] = "uncount"]
      /\ collected' = collected \cup {x0} /\ pcb[m].status_queue # <<>>
      /\ \A p \in Proc : pcb'[p].status_queue =
           IF p = m THEN Tail(pcb[p].status_queue) ELSE pcb[p].status_queue
  BY <1>m, <1>x DEF Collects, SameNumbers, Moves
<1>2. x0[2] = Entry(m, 1) /\ 1 \in DOMAIN pcb[m].status_queue
  BY <1>ty, <1>1, <1>m, <1>x DEF syscall_wait, Entry
<1>3. PICK c0 \in Proc : Status(m, 1, c0)
  BY <1>2 DEF StatusInv
<1>4. /\ c0 < next_pid /\ ~Collected(c0) /\ pcb[c0].original_tid = x0[2] /\ ToHeir(m, c0)
      /\ c0 # InitProc
  BY <1>2, <1>3 DEF Status, Over
<1>5. \A c \in Proc : c < next_pid =>
        /\ pcb'[c].ppid = pcb[c].ppid /\ pcb'[c].original_tid = pcb[c].original_tid
        /\ Collected(c)' <=> Collected(c) \/ c = c0
  <2>1. \A c \in Proc : c < next_pid =>
          pcb'[c].ppid = pcb[c].ppid /\ pcb'[c].original_tid = pcb[c].original_tid
    BY <1>1 DEF SameKin
  <2>2. \A c \in Proc : c < next_pid => (pcb[c].original_tid = x0[2] <=> c = c0)
    BY <1>4 DEF Kin
  <2>. QED
    BY <1>1, <2>1, <2>2 DEF Collected
<1>6. \A c \in Proc : ~(c < next_pid) => pcb'[c].ppid = None /\ pcb[c].ppid = None
  <2> SUFFICES ASSUME NEW c \in Proc, ~(c < next_pid)
               PROVE  pcb'[c].ppid = None /\ pcb[c].ppid = None
    OBVIOUS
  <2>1. c >= next_pid
    BY Numbers DEF TypeInv
  <2>. QED
    BY <1>1, <2>1 DEF Shape, Unmade, pcb_init
<1>7. \A p \in Proc : Children(p)' = Children(p) \ {c0}
  BY <1>5, <1>6, Numbers DEF Children
<1>8. ASSUME NEW c \in Adopted' PROVE c \in Adopted /\ c # c0
  <2>1. c \in Proc /\ c < next_pid /\ ~Collected(c)'
    BY <1>1, <1>8 DEF Adopted
  <2>2. \A u \in Thread : /\ tcb'[u].pcb = c /\ loc'[u] = InitProc
                          /\ pc'[u] \in {"leave", "report"}
                          => Known(c)
    BY <1>ty, <1>1 DEF Known, Mine, SameHomes
  <2>3. ASSUME NEW i \in DOMAIN pcb'[InitProc].status_queue,
               Entry(InitProc, i)' = pcb[c].original_tid
        PROVE  Known(c)
    <3>1. \E j \in DOMAIN pcb[InitProc].status_queue :
            pcb'[InitProc].status_queue[i] = pcb[InitProc].status_queue[j]
      <4>1. CASE InitProc = m
        <5>1. /\ pcb[m].status_queue \in Seq(Report) /\ pcb[m].status_queue # <<>>
              /\ pcb'[m].status_queue = Tail(pcb[m].status_queue)
          BY <1>ty, <1>1
        <5>2. /\ Tail(pcb[m].status_queue) \in Seq(Report)
              /\ Len(Tail(pcb[m].status_queue)) = Len(pcb[m].status_queue) - 1
              /\ \A k \in 1 .. Len(pcb[m].status_queue) - 1 :
                   Tail(pcb[m].status_queue)[k] = pcb[m].status_queue[k + 1]
          BY <5>1, HeadTailProperties
        <5>3. Len(pcb[m].status_queue) \in Nat /\ i \in 1 .. Len(pcb[m].status_queue) - 1
          BY <2>3, <4>1, <5>1, <5>2
        <5>4. i + 1 \in DOMAIN pcb[m].status_queue
          BY <5>1, <5>3
        <5>5. pcb'[m].status_queue[i] = pcb[m].status_queue[i + 1]
          BY <5>1, <5>2, <5>3
        <5>. QED
          BY <4>1, <5>4, <5>5
      <4>2. CASE InitProc # m
        BY <1>1, <1>init, <2>3, <4>2
      <4>. QED
        BY <4>1, <4>2
    <3>2. PICK j \in DOMAIN pcb[InitProc].status_queue :
            pcb'[InitProc].status_queue[i] = pcb[InitProc].status_queue[j]
      BY <3>1
    <3>3. Entry(InitProc, j) = pcb[c].original_tid
      BY <2>3, <3>2 DEF Entry
    <3>. QED
      BY <3>3 DEF Known
  <2>4. c \in Adopted
    BY <1>1, <1>8, <2>1, <2>2, <2>3, NoNewWards
  <2>. QED
    BY <1>5, <2>1, <2>4
<1>9. \A p \in Proc : Counting(p)' = Counting(p)
  <2>1. \A u \in Thread : pc[u] = "add" => loc[u] \in Thread
    BY DEF Shape, Placed
  <2>2. \A u \in Thread : tcb'[u].pcb = tcb[u].pcb
    BY <1>1 DEF SameHomes
  <2>3. \A u \in Thread : /\ pc'[u] = "count" <=> pc[u] = "count"
                          /\ pc'[u] = "add" <=> pc[u] = "add"
    BY <1>ty, <1>1
  <2>. QED
    BY <1>1, <2>1, <2>2, <2>3 DEF Counting, Mine
<1>10. ASSUME NEW p \in Proc
       PROVE  Uncounting(p)' = IF p = m THEN Uncounting(p) \cup {t} ELSE Uncounting(p)
  <2>1. \A u \in Thread : tcb'[u].pcb = tcb[u].pcb
    BY <1>1 DEF SameHomes
  <2>2. \A u \in Thread : pc'[u] = "uncount" <=> pc[u] = "uncount" \/ u = t
    BY <1>ty, <1>1
  <2>. QED
    BY <1>m, <2>1, <2>2 DEF Uncounting, Mine
<1>11. ASSUME NEW p \in Proc
       PROVE  /\ pcb[p].num_child_proc \in Int
              /\ Cardinality(Counting(p)) \in Nat
              /\ Uncounting(p) \in SUBSET Thread /\ Cardinality(Uncounting(p)) \in Nat
              /\ Children(p) \in SUBSET Proc /\ Cardinality(Children(p)) \in Nat
              /\ Wards \in SUBSET Proc /\ Cardinality(Wards) \in Nat
              /\ t \notin Uncounting(p)
  BY <1>1, BalanceTypes DEF Uncounting
<1>12. Cardinality(Uncounting(m)') = Cardinality(Uncounting(m)) + 1
  BY <1>10, <1>11, CountThreads
<1>13. Wards' \subseteq Wards \ {c0}
  BY <1>init, <1>7, <1>8 DEF Wards
<1>14. Enough'
  <2>1. pcb'[InitProc].num_child_proc = pcb[InitProc].num_child_proc
    BY <1>1, <1>init DEF SameChildren
  <2>2. Counting(InitProc)' = Counting(InitProc)
    BY <1>9, <1>init
  <2>3. CASE m # InitProc
    <3>1. Uncounting(InitProc)' = Uncounting(InitProc) /\ Wards' \subseteq Wards
      BY <1>10, <1>13, <1>init, <2>3
    <3>. QED
      BY <2>1, <2>2, <3>1, SameEnough DEF ChildInv
  <2>4. CASE m = InitProc
    <3>1. c0 \in Wards
      <4>1. CASE pcb[c0].ppid = InitProc
        BY <1>4, <4>1 DEF Wards, Children
      <4>2. CASE pcb[c0].ppid # InitProc
        <5>1. Known(c0)
          BY <1>2, <1>4, <2>4 DEF Known
        <5>. QED
          BY <1>4, <4>2, <5>1 DEF Wards, Adopted
      <4>. QED
        BY <4>1, <4>2
    <3>2. Cardinality(Wards') <= Cardinality(Wards) - 1 /\ Cardinality(Wards') \in Nat
      <4>1. Wards \in SUBSET Proc /\ Wards \ {c0} \in SUBSET Proc /\ Wards' \in SUBSET Proc
        BY <1>11, <1>init, <1>13
      <4>2. Cardinality(Wards \ {c0}) = Cardinality(Wards) - 1
        BY <3>1, <4>1, CountProcs
      <4>3. Cardinality(Wards') <= Cardinality(Wards \ {c0}) /\ Cardinality(Wards') \in Nat
        BY <1>13, <4>1, CountProcs
      <4>. QED
        BY <4>2, <4>3
    <3>3. Enough
      BY DEF ChildInv
    <3>4. Cardinality(Uncounting(InitProc)') = Cardinality(Uncounting(InitProc)) + 1
      BY <1>12, <2>4
    <3>. QED
      BY <1>11, <1>init, <2>1, <2>2, <3>2, <3>3, <3>4 DEF Enough
  <2>. QED
    BY <2>3, <2>4
<1>15. ASSUME NEW p \in Proc \ {InitProc} PROVE Even(p)'
  <2>1. /\ pcb'[p].num_child_proc = pcb[p].num_child_proc
        /\ pcb'[p].num_threads = pcb[p].num_threads
        /\ Counting(p)' = Counting(p)
    BY <1>1, <1>9 DEF SameChildren, SameThreads
  <2>2. CASE p = m
    <3>1. pcb[c0].ppid = p
      BY <1>4, <1>15, <2>2 DEF ToHeir
    <3>2. c0 \in Children(p)
      BY <1>4, <3>1 DEF Children
    <3>3. Cardinality(Children(p)') = Cardinality(Children(p)) - 1
      BY <1>7, <1>11, <3>2, CountProcs
    <3>4. Even(p) /\ Cardinality(Uncounting(p)') = Cardinality(Uncounting(p)) + 1
      BY <1>12, <2>2 DEF ChildInv
    <3>. QED
      BY <1>11, <2>1, <3>3, <3>4 DEF Even
  <2>3. CASE p # m /\ pcb[p].num_threads > 0
    <3>1. pcb[c0].ppid # p
      BY <1>4, <1>15, <2>3 DEF ToHeir
    <3>2. Children(p)' = Children(p)
      BY <1>7, <3>1 DEF Children
    <3>3. Uncounting(p)' = Uncounting(p)
      BY <1>10, <2>3
    <3>. QED
      BY <2>1, <3>2, <3>3, SameEven DEF ChildInv
  <2>4. CASE ~(pcb[p].num_threads > 0)
    BY <2>1, <2>4 DEF Even
  <2>. QED
    BY <2>2, <2>3, <2>4
<1>. QED
  BY <1>14, <1>15 DEF ChildInv

(* Every step keeps the children counted. *)
LEMMA ChildStep ==
  ASSUME TypeInv, TypeInv', Shape, Shape', Census, Kin, Heirs, StatusInv, ChildInv,
         Still \/ Reaps \/ \E t \in Thread : FamilyStep(t)
  PROVE  ChildInv'
BY ChildQuietSteps, ChildReports, ChildAdds, ChildCounts, ChildAdopts, ChildForks,
   ChildCollects
DEF FamilyStep

(* What the family needs, and what every state has. *)
FamilyInv == Census /\ Kin /\ Heirs /\ OneReport /\ StatusInv /\ ChildInv

(* The family of the initial state is init. *)
LEMMA InitFamily == Init => FamilyInv
<1> SUFFICES ASSUME Init PROVE FamilyInv
  OBVIOUS
<1>1. /\ \A t \in Thread : pc[t] = IF t = 1 THEN "user" ELSE "unborn"
      /\ \A t \in Thread : Mine(t) = IF t = 1 THEN InitProc ELSE None
      /\ collected = {} /\ next_pid = 2 /\ next_tid = 2 /\ processes = {InitProc}
      /\ pcb[InitProc] = scheduler_add_init_process
      /\ \A p \in Proc : p # InitProc => pcb[p] = pcb_init
  BY Numbers DEF Init, Mine, tcb_init
<1>2. /\ pcb[InitProc].state = "live" /\ pcb[InitProc].original_tid = 1
      /\ pcb[InitProc].num_threads = 1 /\ pcb[InitProc].ppid = None
      /\ \A p \in Proc : /\ pcb[p].ppid = None /\ pcb[p].num_child_proc = 0
                         /\ pcb[p].status_queue = <<>>
                         /\ p # InitProc => pcb[p].num_threads = 0
  <2>1. /\ scheduler_add_init_process.state = "live"
        /\ scheduler_add_init_process.original_tid = 1
        /\ scheduler_add_init_process.num_threads = 1
        /\ scheduler_add_init_process.ppid = None
        /\ scheduler_add_init_process.num_child_proc = 0
        /\ scheduler_add_init_process.status_queue = <<>>
    BY DEF scheduler_add_init_process, pcb_init
  <2>2. /\ pcb_init.ppid = None /\ pcb_init.num_child_proc = 0
        /\ pcb_init.status_queue = <<>> /\ pcb_init.num_threads = 0
    BY DEF pcb_init
  <2>3. ASSUME NEW p \in Proc
        PROVE  /\ pcb[p].ppid = None /\ pcb[p].num_child_proc = 0
               /\ pcb[p].status_queue = <<>>
               /\ p # InitProc => pcb[p].num_threads = 0
    <3>1. CASE p = InitProc
      BY <1>1, <2>1, <3>1
    <3>2. CASE p # InitProc
      BY <1>1, <2>2, <3>2
    <3>. QED
      BY <3>1, <3>2
  <2>. QED
    BY <1>1, <2>1, <2>3
<1>3. \A p \in Proc : p < next_pid => p = InitProc
  BY <1>1 DEF Proc, InitProc
<1>4. Census
  <2>1. Counted(InitProc) = {1}
    BY <1>1, Numbers DEF Counted, DonePoints
  <2>2. \A p \in Proc : p # InitProc => Counted(p) = {}
    BY <1>1, Numbers DEF Counted
  <2>3. Cardinality({1}) = 1 /\ Cardinality({}) = 0
    BY FS_EmptySet, FS_Singleton
  <2>4. \A p \in Proc : Cardinality(Counted(p)) = pcb[p].num_threads
    BY <1>2, <2>1, <2>2, <2>3
  <2>. QED
    BY <2>4 DEF Census
<1>5. Kin
  <2>1. ASSUME NEW p \in Proc, p < next_pid
        PROVE  /\ pcb[p].state # "none"
               /\ pcb[p].original_tid \in Thread /\ pcb[p].original_tid < next_tid
               /\ p # InitProc => pcb[p].ppid \in Proc /\ pcb[p].ppid < next_pid
               /\ p \in processes \/ pcb[p].num_threads = 0
    <3>1. p = InitProc
      BY <1>3, <2>1
    <3>2. 1 \in Thread /\ 1 < next_tid /\ InitProc \in processes
      BY <1>1, Numbers
    <3>. QED
      BY <1>2, <3>1, <3>2
  <2>2. \A p, q \in Proc : p < next_pid /\ q < next_pid => p = q
    BY <1>3
  <2>. QED
    BY <1>2, <2>1, <2>2 DEF Kin
<1>6. Heirs /\ OneReport
  BY <1>1 DEF Heirs, OneReport, HeirPoints
<1>7. StatusInv
  BY <1>1, <1>2 DEF StatusInv
<1>8. ChildInv
  <2>1. \A p \in Proc : Counting(p) = {} /\ Uncounting(p) = {} /\ Children(p) = {}
    BY <1>1, <1>2, Numbers DEF Counting, Uncounting, Children
  <2>2. Adopted = {}
    BY <1>1, <1>2, Numbers DEF Adopted, Known
  <2>3. Wards = {}
    BY <2>1, <2>2, Numbers DEF Wards
  <2>4. Cardinality({}) = 0
    BY FS_EmptySet
  <2>5. /\ Cardinality(Wards) = 0
        /\ \A p \in Proc : /\ Cardinality(Counting(p)) = 0
                           /\ Cardinality(Uncounting(p)) = 0
                           /\ Cardinality(Children(p)) = 0
    BY <2>1, <2>3, <2>4
  <2>6. Enough
    <3>1. InitProc \in Proc
      BY Numbers
    <3>2. /\ pcb[InitProc].num_child_proc = 0 /\ Cardinality(Wards) = 0
          /\ Cardinality(Counting(InitProc)) = 0 /\ Cardinality(Uncounting(InitProc)) = 0
      BY <1>2, <2>5, <3>1
    <3>. QED
      BY <3>2 DEF Enough
  <2>7. \A p \in Proc : Even(p)
    BY <1>2, <2>5 DEF Even
  <2>. QED
    BY <2>6, <2>7 DEF ChildInv
<1>. QED
  BY <1>4, <1>5, <1>6, <1>7, <1>8 DEF FamilyInv

(* Every step keeps it. *)
LEMMA FamilyStays == IInv /\ FamilyInv /\ [Next]_vars => FamilyInv'
<1> SUFFICES ASSUME IInv, FamilyInv, [Next]_vars PROVE FamilyInv'
  OBVIOUS
<1>1. TypeInv /\ Shape /\ WaitFindsStatus /\ TypeInv' /\ Shape'
  BY InvStep DEF IInv
<1>2. Still \/ Reaps \/ \E t \in Thread : FamilyStep(t)
  BY <1>1, Effects
<1>3. Census /\ Kin /\ Heirs /\ OneReport /\ StatusInv /\ ChildInv
  BY DEF FamilyInv
<1>4. Census'
  BY <1>1, <1>2, <1>3, CensusStep
<1>5. Kin'
  BY <1>1, <1>2, <1>3, <1>4, KinStep
<1>6. Heirs'
  BY <1>1, <1>2, <1>3, HeirsStep
<1>7. OneReport'
  BY <1>1, <1>2, <1>3, OneReportStep
<1>8. StatusInv'
  BY <1>1, <1>2, <1>3, <1>7, StatusStep
<1>9. ChildInv'
  BY <1>1, <1>2, <1>3, ChildStep
<1>. QED
  BY <1>4, <1>5, <1>6, <1>7, <1>8, <1>9 DEF FamilyInv

(* The family is as it should be in every behaviour. *)
LEMMA FamilyInvariant == Spec => [](IInv /\ FamilyInv)
<1>1. Spec => Init /\ [][Next]_vars
  BY PTL DEF Spec
<1>. QED
  BY <1>1, InitInv, InvStep, InitFamily, FamilyStays, PTL

(* A queue of statuses is no longer than a set that has their processes. *)
LEMMA QueueFits ==
  ASSUME TypeInv, Kin, StatusInv, NEW p \in Proc, NEW S \in SUBSET Proc,
         \A i \in DOMAIN pcb[p].status_queue : \A c \in Proc : Status(p, i, c) => c \in S
  PROVE  Len(pcb[p].status_queue) <= Cardinality(S)
<1> DEFINE D == DOMAIN pcb[p].status_queue
           f == [i \in D |-> CHOOSE c \in Proc : Status(p, i, c)]
<1>1. D = 1 .. Len(pcb[p].status_queue) /\ Len(pcb[p].status_queue) \in Nat
  BY DEF TypeInv, Pcb
<1>2. \A i \in D : f[i] \in Proc /\ Status(p, i, f[i])
  BY DEF StatusInv
<1>3. \A i \in D : f[i] \in S /\ pcb[f[i]].original_tid = Entry(p, i)
  BY <1>2 DEF Status
<1>4. \A i, j \in D : f[i] = f[j] => i = j
  <2> SUFFICES ASSUME NEW i \in D, NEW j \in D, f[i] = f[j] PROVE i = j
    OBVIOUS
  <2> HIDE DEF f
  <2>1. Entry(p, i) = Entry(p, j)
    BY <1>3
  <2>. QED
    BY <2>1 DEF StatusInv
<1>5. f \in Injection(D, S)
  <2>1. f \in [D -> S]
    BY <1>3
  <2> HIDE DEF f
  <2>. QED
    BY <1>4, <2>1 DEF Injection, IsInjective
<1>6. IsFiniteSet(S)
  BY CountProcs
<1>7. Cardinality(D) <= Cardinality(S)
  BY <1>5, <1>6, FS_Injection
<1>8. Cardinality(1 .. Len(pcb[p].status_queue)) = Len(pcb[p].status_queue)
  <2>1. 1 - 1 < Len(pcb[p].status_queue) \/ Len(pcb[p].status_queue) = 0
    BY <1>1
  <2>. QED
    BY <1>1, <2>1, FS_Interval
<1>. QED
  BY <1>1, <1>7, <1>8

(* A process of one thread counts the children it has not collected, and   *)
(* init at least those, whenever the thread is not in a call; and nobody   *)
(* counts fewer than are queued (pcb_inc_children_s, pcb_dec_children_s):  *)
(* wait does not return "no child" while there is one.                     *)
THEOREM ChildrenCountedCorrect == Spec => []ChildrenCounted
<1>1. ASSUME IInv, FamilyInv PROVE ChildrenCounted
  <2> SUFFICES ASSUME NEW t \in Thread, pc[t] = "user", Threads(Mine(t)) = {t}
               PROVE  LET me == pcb[Mine(t)]
                      IN  /\ Mine(t) # InitProc =>
                               me.num_child_proc = Cardinality(Children(Mine(t)))
                          /\ me.num_child_proc >= Cardinality(Children(Mine(t)))
                          /\ me.num_child_proc >= Len(me.status_queue)
    BY DEF ChildrenCounted
  <2> DEFINE p == Mine(t)
  <2>0. TypeInv /\ Shape /\ Census /\ Kin /\ StatusInv /\ ChildInv
    BY <1>1 DEF IInv, FamilyInv
  <2>1. p \in Proc
    BY <2>0, ActorHasProcess
  <2>2. Counting(p) = {} /\ Uncounting(p) = {}
    BY DEF Threads, Counting, Uncounting
  <2>3. pcb[p].num_threads > 0
    BY <2>0, <2>1, AliveByThread DEF DonePoints
  <2>4. /\ pcb[p].num_child_proc \in Int /\ Len(pcb[p].status_queue) \in Nat
        /\ Children(p) \in SUBSET Proc /\ Cardinality(Children(p)) \in Nat
        /\ Wards \in SUBSET Proc /\ Cardinality(Wards) \in Nat
    <3>1. pcb[p].status_queue \in Seq(Report)
      BY <2>0, <2>1 DEF TypeInv, Pcb
    <3>2. Len(pcb[p].status_queue) \in Nat
      BY <3>1
    <3> HIDE DEF p
    <3>. QED
      BY <2>0, <2>1, <3>2, BalanceTypes
  <2>5. Cardinality({}) = 0
    BY FS_EmptySet
  <2> HIDE DEF p
  <2>6. CASE p # InitProc
    <3>1. pcb[p].num_child_proc = Cardinality(Children(p))
      <4>1. Even(p)
        BY <2>0, <2>1, <2>6 DEF ChildInv
      <4>. QED
        BY <2>2, <2>3, <2>4, <2>5, <4>1 DEF Even
    <3>2. \A i \in DOMAIN pcb[p].status_queue : \A c \in Proc :
            Status(p, i, c) => c \in Children(p)
      BY <2>6 DEF Status, ToHeir, Children
    <3>3. Len(pcb[p].status_queue) <= Cardinality(Children(p))
      BY <2>0, <2>1, <2>4, <3>2, QueueFits
    <3>. QED
      BY <2>4, <3>1, <3>3 DEF p
  <2>7. CASE p = InitProc
    <3>1. pcb[p].num_child_proc >= Cardinality(Wards)
      <4>1. Enough
        BY <2>0 DEF ChildInv
      <4>2. /\ Cardinality(Counting(InitProc)) = 0 /\ Cardinality(Uncounting(InitProc)) = 0
            /\ pcb[InitProc].num_child_proc \in Int
        BY <2>2, <2>4, <2>5, <2>7
      <4>3. pcb[InitProc].num_child_proc >= Cardinality(Wards)
        BY <2>4, <4>1, <4>2 DEF Enough
      <4>. QED
        BY <2>7, <4>3
    <3>2. Cardinality(Children(p)) <= Cardinality(Wards)
      <4>1. Children(p) \subseteq Wards
        BY <2>7 DEF Wards
      <4>. QED
        BY <2>4, <4>1, CountProcs
    <3>3. ASSUME NEW i \in DOMAIN pcb[p].status_queue, NEW c \in Proc, Status(p, i, c)
          PROVE  c \in Wards
      <4>1. c < next_pid /\ ~Collected(c) /\ Entry(InitProc, i) = pcb[c].original_tid
        BY <2>7, <3>3 DEF Status, Over
      <4>2. Known(c)
        BY <2>7, <3>3, <4>1 DEF Known
      <4>. QED
        BY <4>1, <4>2 DEF Wards, Children, Adopted
    <3>4. Len(pcb[p].status_queue) <= Cardinality(Wards)
      BY <2>0, <2>1, <2>4, <3>3, QueueFits
    <3>. QED
      BY <2>4, <2>7, <3>1, <3>2, <3>4 DEF p
  <2>. QED
    BY <2>6, <2>7
<1>2. IInv /\ FamilyInv => ChildrenCounted
  BY <1>1
<1>. QED
  BY <1>2, FamilyInvariant, PTL

-----------------------------------------------------------------------------
(* The process tree.  What the invariant says of the state and the heir    *)
(* that the refinement mapping gives to a process.                         *)

Owed(p, c) ==
  \E i \in DOMAIN pcb[p].status_queue : Entry(p, i) = pcb[c].original_tid

Reported(c) == \E p \in Proc : Owed(p, c)

Stage(c) ==
  /\ ~(c < next_pid) => StateOf(c) = "unborn"
  /\ c < next_pid /\ pcb[c].num_threads > 0 => StateOf(c) = "alive"
  /\ Reported(c) => StateOf(c) = "reported" /\ Over(c) /\ ~Collected(c)
  /\ Collected(c) => StateOf(c) = "collected" /\ Over(c)
  /\ c < next_pid /\ ~(pcb[c].num_threads > 0) /\ ~Reported(c) /\ ~Collected(c)
       => StateOf(c) = "exited"
  /\ \A p \in Proc : Owed(p, c) => HeirOf(c) = p
  /\ \A x \in collected : x[2] = pcb[c].original_tid => HeirOf(c) = x[1]
  /\ ~Reported(c) /\ ~Collected(c) => HeirOf(c) = None

Stages == \A c \in Proc : Stage(c)

(* A place in a queue is one of the pids: no queue is longer. *)
LEMMA PlacesArePids ==
  ASSUME TypeInv, Kin, StatusInv, NEW p \in Proc, NEW i \in DOMAIN pcb[p].status_queue
  PROVE  i \in Proc
<1>1. MaxProcs \in Nat \ {0}
  BY LifecycleAssumption
<1>2. Cardinality(Proc) = MaxProcs
  <2>1. Cardinality(1 .. MaxProcs) = MaxProcs
    BY <1>1, FS_Interval
  <2>. QED
    BY <2>1 DEF Proc
<1>3. Len(pcb[p].status_queue) <= Cardinality(Proc)
  <2>1. Proc \in SUBSET Proc
    OBVIOUS
  <2>. QED
    BY <2>1, QueueFits
<1>4. pcb[p].status_queue \in Seq(Report)
  BY DEF TypeInv, Pcb
<1>5. i \in 1 .. Len(pcb[p].status_queue) /\ Len(pcb[p].status_queue) \in Nat
  BY <1>4
<1>. QED
  BY <1>1, <1>2, <1>3, <1>5 DEF Proc

(* A status that is queued is of a process that is over and not collected. *)
LEMMA OwedIsOver ==
  ASSUME TypeInv, Shape, Kin, StatusInv, NEW c \in Proc, NEW p \in Proc,
         NEW i \in DOMAIN pcb[p].status_queue, Entry(p, i) = pcb[c].original_tid
  PROVE  Status(p, i, c)
<1>1. PICK d \in Proc : Status(p, i, d)
  BY DEF StatusInv
<1>2. d < next_pid /\ pcb[d].original_tid = pcb[c].original_tid
  BY <1>1 DEF Status, Over
<1>3. pcb[c].original_tid \in Thread
  BY <1>2 DEF Kin
<1>4. c < next_pid
  <2>1. pcb[c].original_tid # None
    BY <1>3, Numbers
  <2>2. pcb[c] # pcb_init
    BY <2>1 DEF pcb_init
  <2>3. ~(c >= next_pid)
    BY <2>2 DEF Shape, Unmade
  <2>. QED
    BY <2>3, Numbers DEF TypeInv
<1>5. d = c
  BY <1>2, <1>4 DEF Kin
<1>. QED
  BY <1>1, <1>5

(* What is collected is the status of a process that is over. *)
LEMMA CollectedIsOver ==
  ASSUME TypeInv, Shape, Kin, StatusInv, NEW c \in Proc, Collected(c)
  PROVE  Over(c)
<1>1. PICK x \in collected : x[2] = pcb[c].original_tid
  BY DEF Collected
<1>2. PICK d \in Proc : pcb[d].original_tid = x[2] /\ Over(d)
  BY DEF StatusInv
<1>3. d < next_pid
  BY <1>2 DEF Over
<1>4. pcb[c].original_tid \in Thread
  BY <1>1, <1>2, <1>3 DEF Kin
<1>5. c < next_pid
  <2>1. pcb[c].original_tid # None
    BY <1>4, Numbers
  <2>2. pcb[c] # pcb_init
    BY <2>1 DEF pcb_init
  <2>3. ~(c >= next_pid)
    BY <2>2 DEF Shape, Unmade
  <2>. QED
    BY <2>3, Numbers DEF TypeInv
<1>6. d = c
  BY <1>1, <1>2, <1>3, <1>5 DEF Kin
<1>. QED
  BY <1>2, <1>6

(* Queued has the one place where the status is owed. *)
LEMMA QueuedIsOwed ==
  ASSUME TypeInv, Kin, StatusInv, NEW c \in Proc
  PROVE  /\ Reported(c) <=> Queued(c) # {}
         /\ \A x \in Queued(c) : x[1] \in Proc /\ Owed(x[1], c)
         /\ \A x, y \in Queued(c) : x = y
         /\ \A p, q \in Proc : Owed(p, c) /\ Owed(q, c) => p = q
<1>1. ASSUME NEW x \in Queued(c)
      PROVE  /\ x = <<x[1], x[2]>> /\ x[1] \in Proc
             /\ x[2] \in DOMAIN pcb[x[1]].status_queue
             /\ Entry(x[1], x[2]) = pcb[c].original_tid
  BY <1>1 DEF Queued, Entry
<1>2. ASSUME NEW p \in Proc, NEW i \in DOMAIN pcb[p].status_queue,
             Entry(p, i) = pcb[c].original_tid
      PROVE  <<p, i>> \in Queued(c)
  <2>1. i \in Proc
    BY PlacesArePids
  <2>. QED
    BY <1>2, <2>1 DEF Queued, Entry
<1>3. Reported(c) <=> Queued(c) # {}
  BY <1>1, <1>2 DEF Reported, Owed
<1>4. \A x \in Queued(c) : x[1] \in Proc /\ Owed(x[1], c)
  BY <1>1 DEF Owed
<1>5. ASSUME NEW x \in Queued(c), NEW y \in Queued(c) PROVE x = y
  <2>1. x[1] = y[1] /\ x[2] = y[2]
    BY <1>1 DEF StatusInv
  <2>. QED
    BY <1>1, <2>1
<1>6. \A p, q \in Proc : Owed(p, c) /\ Owed(q, c) => p = q
  BY DEF Owed, StatusInv
<1>. QED
  BY <1>3, <1>4, <1>5, <1>6

(* A set whose members are all the same has at most one. *)
LEMMA AtMostOne ==
  ASSUME NEW S, \A x, y \in S : x = y PROVE ~(Cardinality(S) > 1)
<1>1. CASE S = {}
  BY <1>1, FS_EmptySet
<1>2. CASE S # {}
  <2>1. PICK x : x \in S
    BY <1>2
  <2>2. S = {x}
    BY <2>1
  <2>. QED
    BY <2>2, FS_Singleton
<1>. QED
  BY <1>1, <1>2

(* The mapping gives each process the state and the heir it has. *)
LEMMA StagesHold == ASSUME IInv, FamilyInv PROVE Stages
<1>0. TypeInv /\ Shape /\ Census /\ Kin /\ StatusInv
  BY DEF IInv, FamilyInv
<1> SUFFICES ASSUME NEW c \in Proc PROVE Stage(c)
  BY DEF Stages
<1>1. /\ Reported(c) <=> Queued(c) # {}
      /\ \A x \in Queued(c) : x[1] \in Proc /\ Owed(x[1], c)
      /\ \A p, q \in Proc : Owed(p, c) /\ Owed(q, c) => p = q
      /\ ~(Cardinality(Queued(c)) > 1)
  <2>1. \A x, y \in Queued(c) : x = y
    BY <1>0, QueuedIsOwed
  <2>2. ~(Cardinality(Queued(c)) > 1)
    BY <2>1, AtMostOne
  <2>. QED
    BY <1>0, <2>2, QueuedIsOwed
<1>2. Reported(c) => Over(c) /\ ~Collected(c)
  BY <1>0, OwedIsOver DEF Reported, Owed, Status
<1>3. Collected(c) => Over(c)
  BY <1>0, CollectedIsOver
<1>4. Over(c) => c < next_pid /\ ~(pcb[c].num_threads > 0)
  BY DEF Over
<1>5. c < next_pid <=> pcb[c].state # "none"
  <2>1. ~(c < next_pid) => pcb[c].state = "none"
    <3>1. ~(c < next_pid) => c >= next_pid
      BY <1>0, Numbers DEF TypeInv
    <3>. QED
      BY <1>0, <3>1 DEF Shape, Unmade, pcb_init
  <2>. QED
    BY <1>0, <2>1 DEF Kin
<1>6. ~(c < next_pid) => ~(pcb[c].num_threads > 0)
  <2>1. ~(c < next_pid) => c >= next_pid
    BY <1>0, Numbers DEF TypeInv
  <2>. QED
    BY <1>0, <2>1 DEF Shape, Unmade, pcb_init
<1>7. ~(c < next_pid) => StateOf(c) = "unborn"
  BY <1>1, <1>2, <1>3, <1>4, <1>5, <1>6 DEF StateOf
<1>8. c < next_pid /\ pcb[c].num_threads > 0 => StateOf(c) = "alive"
  BY <1>1, <1>2, <1>3, <1>4, <1>5 DEF StateOf
<1>9. Reported(c) => StateOf(c) = "reported"
  BY <1>1, <1>2, <1>3, <1>4, <1>5 DEF StateOf
<1>10. Collected(c) => StateOf(c) = "collected"
  BY <1>1, <1>2, <1>3, <1>4, <1>5 DEF StateOf
<1>11. c < next_pid /\ ~(pcb[c].num_threads > 0) /\ ~Reported(c) /\ ~Collected(c)
         => StateOf(c) = "exited"
  BY <1>1, <1>5 DEF StateOf
<1>12. ASSUME NEW p \in Proc, Owed(p, c) PROVE HeirOf(c) = p
  <2>1. StateOf(c) = "reported" /\ Queued(c) # {}
    BY <1>1, <1>9, <1>12 DEF Reported
  <2>2. (CHOOSE x \in Queued(c) : TRUE) \in Queued(c)
    BY <2>1
  <2>3. (CHOOSE x \in Queued(c) : TRUE)[1] = p
    BY <1>1, <1>12, <2>2
  <2>. QED
    BY <2>1, <2>3 DEF HeirOf
<1>13. ASSUME NEW x \in collected, x[2] = pcb[c].original_tid PROVE HeirOf(c) = x[1]
  <2>1. StateOf(c) = "collected"
    BY <1>10, <1>13 DEF Collected
  <2>2. /\ (CHOOSE y \in collected : y[2] = pcb[c].original_tid) \in collected
        /\ (CHOOSE y \in collected : y[2] = pcb[c].original_tid)[2] = pcb[c].original_tid
    BY <1>13
  <2>3. (CHOOSE y \in collected : y[2] = pcb[c].original_tid) = x
    BY <1>0, <1>13, <2>2 DEF StatusInv
  <2>. QED
    BY <2>1, <2>3 DEF HeirOf
<1>14. ~Reported(c) /\ ~Collected(c) => HeirOf(c) = None
  <2>1. ~Reported(c) /\ ~Collected(c) => StateOf(c) \in {"unborn", "alive", "exited"}
    BY <1>7, <1>8, <1>11
  <2>. QED
    BY <2>1 DEF HeirOf
<1>. QED
  BY <1>2, <1>3, <1>7, <1>8, <1>9, <1>10, <1>11, <1>12, <1>13, <1>14 DEF Stage

(* What a step leaves alone when it does not concern the child c. *)
Aside(c) ==
  /\ pcb'[c].ppid = pcb[c].ppid
  /\ c < next_pid' <=> c < next_pid
  /\ pcb'[c].num_threads > 0 <=> pcb[c].num_threads > 0
  /\ \A p \in Proc : Owed(p, c)' <=> Owed(p, c)
  /\ \A x : x \in collected' /\ x[2] = pcb'[c].original_tid
              <=> x \in collected /\ x[2] = pcb[c].original_tid

(* A step that does not concern c leaves its place in the tree as it is. *)
LEMMA AsideSame ==
  ASSUME NEW c \in Proc, Stage(c), Stage(c)', Aside(c)
  PROVE  StateOf(c)' = StateOf(c) /\ HeirOf(c)' = HeirOf(c)
<1>1. Reported(c)' <=> Reported(c)
  BY DEF Aside, Reported
<1>2. Collected(c)' <=> Collected(c)
  BY DEF Aside, Collected
<1>3. /\ c < next_pid' <=> c < next_pid
      /\ pcb'[c].num_threads > 0 <=> pcb[c].num_threads > 0
  BY DEF Aside
<1>4. StateOf(c)' = StateOf(c)
  <2>1. CASE ~(c < next_pid)
    BY <1>3, <2>1 DEF Stage
  <2>2. CASE c < next_pid /\ pcb[c].num_threads > 0
    BY <1>3, <2>2 DEF Stage
  <2>3. CASE Reported(c)
    BY <1>1, <2>3 DEF Stage
  <2>4. CASE Collected(c)
    BY <1>2, <2>4 DEF Stage
  <2>5. CASE c < next_pid /\ ~(pcb[c].num_threads > 0) /\ ~Reported(c) /\ ~Collected(c)
    BY <1>1, <1>2, <1>3, <2>5 DEF Stage
  <2>. QED
    BY <2>1, <2>2, <2>3, <2>4, <2>5
<1>5. HeirOf(c)' = HeirOf(c)
  <2>1. CASE Reported(c)
    <3>1. PICK p \in Proc : Owed(p, c)
      BY <2>1 DEF Reported
    <3>2. Owed(p, c)'
      BY <3>1 DEF Aside
    <3>3. HeirOf(c) = p
      BY <3>1 DEF Stage
    <3>4. HeirOf(c)' = p
      BY <3>2 DEF Stage
    <3>. QED
      BY <3>3, <3>4
  <2>2. CASE Collected(c)
    <3>1. PICK x \in collected : x[2] = pcb[c].original_tid
      BY <2>2 DEF Collected
    <3>2. x \in collected' /\ x[2] = pcb'[c].original_tid
      BY <3>1 DEF Aside
    <3>3. HeirOf(c) = x[1]
      BY <3>1 DEF Stage
    <3>4. HeirOf(c)' = x[1]
      BY <3>2 DEF Stage
    <3>. QED
      BY <3>3, <3>4
  <2>3. CASE ~Reported(c) /\ ~Collected(c)
    BY <1>1, <1>2, <2>3 DEF Stage
  <2>. QED
    BY <2>1, <2>2, <2>3
<1>. QED
  BY <1>4, <1>5

(* The tree is as it was, but for c. *)
Elsewhere(c) ==
  \A d \in Proc : d # c =>
    /\ StateOf(d)' = StateOf(d) /\ HeirOf(d)' = HeirOf(d) /\ pcb'[d].ppid = pcb[d].ppid

Unmoved ==
  \A d \in Proc :
    /\ StateOf(d)' = StateOf(d) /\ HeirOf(d)' = HeirOf(d) /\ pcb'[d].ppid = pcb[d].ppid

(* The fields of a process that a step leaves alone. *)
LEMMA KinOfAll ==
  ASSUME TypeInv, Shape, Shape', SameKin, next_pid' = next_pid, NEW c \in Proc
  PROVE  pcb'[c].ppid = pcb[c].ppid /\ pcb'[c].original_tid = pcb[c].original_tid
<1>1. CASE c < next_pid
  BY <1>1 DEF SameKin
<1>2. CASE ~(c < next_pid)
  <2>1. c >= next_pid
    BY <1>2, Numbers DEF TypeInv
  <2>. QED
    BY <2>1 DEF Shape, Unmade
<1>. QED
  BY <1>1, <1>2

(* The steps that leave statuses alone do not concern a process unless it  *)
(* gets its first thread or loses its last.                                *)
LEMMA AsideQuiet ==
  ASSUME TypeInv, Shape, Shape', SameKin, SameQueues, next_pid' = next_pid,
         NEW c \in Proc, pcb'[c].num_threads > 0 <=> pcb[c].num_threads > 0
  PROVE  Aside(c)
<1>1. pcb'[c].ppid = pcb[c].ppid /\ pcb'[c].original_tid = pcb[c].original_tid
  BY KinOfAll
<1>2. \A p \in Proc : Owed(p, c)' <=> Owed(p, c)
  BY <1>1 DEF SameQueues, Owed, Entry
<1>. QED
  BY <1>1, <1>2 DEF Aside, SameQueues

(* Whoever has a thread that has not left is alive in the tree. *)
LEMMA ActorAlive ==
  ASSUME TypeInv, Shape, Census, Stages, NEW t \in Thread,
         pc[t] \notin DonePoints, pc[t] # "unborn"
  PROVE  /\ Mine(t) \in Proc /\ Mine(t) < next_pid
         /\ pcb[Mine(t)].num_threads > 0 /\ StateOf(Mine(t)) = "alive"
<1>1. Mine(t) \in Proc
  BY ActorHasProcess
<1>2. Mine(t) < next_pid
  BY <1>1 DEF Shape, Placed
<1>3. pcb[Mine(t)].num_threads > 0
  BY <1>1, AliveByThread
<1>4. StateOf(Mine(t)) = "alive"
  BY <1>1, <1>2, <1>3 DEF Stages, Stage
<1>. QED
  BY <1>1, <1>2, <1>3, <1>4

(* Most steps leave the tree as it is. *)
LEMMA TreeQuietSteps ==
  ASSUME TypeInv, Shape, Shape', Census, Stages, Stages',
         \/ Still \/ Reaps
         \/ \E t \in Thread : StartsThread(t) \/ Adds(t) \/ Counts(t) \/ Uncounts(t)
                               \/ Vanishes(t) \/ Locks(t) \/ Adopts(t)
  PROVE  Unmoved
<1>1. ASSUME SameKin, SameQueues, next_pid' = next_pid,
             \A c \in Proc : pcb'[c].num_threads > 0 <=> pcb[c].num_threads > 0
      PROVE  Unmoved
  <2> SUFFICES ASSUME NEW c \in Proc
               PROVE  /\ StateOf(c)' = StateOf(c) /\ HeirOf(c)' = HeirOf(c)
                      /\ pcb'[c].ppid = pcb[c].ppid
    BY DEF Unmoved
  <2>1. Aside(c)
    BY <1>1, AsideQuiet
  <2>2. Stage(c) /\ Stage(c)'
    BY DEF Stages
  <2>. QED
    BY <2>1, <2>2, AsideSame DEF Aside
<1>2. ASSUME SameKin, SameQueues, SameThreads, next_pid' = next_pid PROVE Unmoved
  BY <1>1, <1>2 DEF SameThreads
<1>3. ASSUME pcb' = pcb, collected' = collected, next_pid' = next_pid PROVE Unmoved
  BY <1>2, <1>3 DEF SameKin, SameQueues, SameThreads
<1>4. ASSUME NEW t \in Thread, StartsThread(t) PROVE Unmoved
  <2>1. SameKin /\ SameQueues /\ next_pid' = next_pid /\ pc[t] = "user"
    BY <1>4 DEF StartsThread, Moves
  <2>2. pcb[Mine(t)].num_threads > 0 /\ Mine(t) \in Proc
    BY <2>1, ActorAlive DEF DonePoints
  <2>3. pcb[Mine(t)].num_threads \in Int
    BY <2>2 DEF TypeInv, Pcb
  <2>4. \A c \in Proc : pcb'[c].num_threads =
          IF c = Mine(t) THEN pcb[c].num_threads + 1 ELSE pcb[c].num_threads
    BY <1>4 DEF StartsThread
  <2>5. \A c \in Proc : pcb'[c].num_threads > 0 <=> pcb[c].num_threads > 0
    BY <2>2, <2>3, <2>4
  <2>. QED
    BY <1>1, <2>1, <2>5
<1>. QED
  BY <1>2, <1>3, <1>4
  DEF Still, Reaps, Adds, Counts, Uncounts, Vanishes, Locks, Adopts, SameNumbers

(* fork: a child is alive, and its parent was. *)
LEMMA TreeForks ==
  ASSUME TypeInv, Shape, Shape', Census, Stages, Stages', NEW t \in Thread, Forks(t)
  PROVE  \E p, c \in Proc :
           /\ StateOf(p) = "alive" /\ StateOf(c) = "unborn" /\ Elsewhere(c)
           /\ StateOf(c)' = "alive" /\ HeirOf(c)' = HeirOf(c) /\ pcb'[c].ppid = p
<1>n. PICK c \in Proc : c = next_pid
  BY DEF Forks
<1>m. PICK p \in Proc : p = Mine(t)
  BY DEF Forks
<1>1. /\ \A d \in Proc : d # c => pcb'[d] = pcb[d]
      /\ pcb'[c] = pcb_copy(p, next_tid) /\ collected' = collected
      /\ next_pid' = next_pid + 1 /\ pc[t] = "fork"
  BY <1>n, <1>m DEF Forks, Moves
<1>2. StateOf(p) = "alive"
  BY <1>1, <1>m, ActorAlive DEF DonePoints
<1>num. next_pid \in Nat /\ c \in Nat /\ \A d \in Proc : d \in Nat
  BY Numbers DEF TypeInv
<1>3. ~(c < next_pid) /\ c < next_pid' /\ pcb[c] = pcb_init
  <2>1. ~(c < next_pid) /\ c < next_pid' /\ c >= next_pid
    BY <1>1, <1>n, <1>num
  <2>. QED
    BY <2>1 DEF Shape, Unmade
<1>4. /\ pcb'[c].num_threads = 1 /\ pcb'[c].ppid = p /\ pcb'[c].status_queue = <<>>
      /\ pcb[c].status_queue = <<>>
  BY <1>1, <1>3 DEF pcb_copy, pcb_init
<1>5. Stage(c) /\ Stage(c)'
  BY DEF Stages
<1>6. StateOf(c) = "unborn" /\ StateOf(c)' = "alive"
  BY <1>3, <1>4, <1>5 DEF Stage
<1>7. HeirOf(c) = None
  BY <1>5, <1>6 DEF Stage
<1>8. HeirOf(c)' = None
  BY <1>5, <1>6 DEF Stage
<1>9. ASSUME NEW d \in Proc, d # c
      PROVE  /\ StateOf(d)' = StateOf(d) /\ HeirOf(d)' = HeirOf(d)
             /\ pcb'[d].ppid = pcb[d].ppid
  <2>1. \A q \in Proc : pcb'[q].status_queue = pcb[q].status_queue
    BY <1>1, <1>4
  <2>2. pcb'[d] = pcb[d]
    BY <1>1, <1>9
  <2>3. \A q \in Proc : Owed(q, d)' <=> Owed(q, d)
    BY <2>1, <2>2 DEF Owed, Entry
  <2>4. d < next_pid' <=> d < next_pid
    BY <1>1, <1>9, <1>n, <1>num
  <2>5. Aside(d)
    BY <1>1, <2>2, <2>3, <2>4 DEF Aside
  <2>6. Stage(d) /\ Stage(d)'
    BY DEF Stages
  <2>. QED
    BY <2>2, <2>5, <2>6, AsideSame
<1>10. Elsewhere(c)
  BY <1>9 DEF Elsewhere
<1>. QED
  BY <1>2, <1>4, <1>6, <1>7, <1>8, <1>10

(* The last thread leaves: an exit. *)
LEMMA TreeLeaves ==
  ASSUME TypeInv, Shape, Shape', Census, Stages, Stages', NEW t \in Thread, Leaves(t)
  PROVE  \/ Unmoved
         \/ \E c \in Proc :
              /\ StateOf(c) = "alive" /\ StateOf(c)' = "exited" /\ Elsewhere(c)
              /\ HeirOf(c)' = HeirOf(c) /\ pcb'[c].ppid = pcb[c].ppid
<1>m. PICK c \in Proc : c = Mine(t)
  BY DEF Leaves
<1>1. /\ SameKin /\ SameQueues /\ next_pid' = next_pid /\ pc[t] = "leave"
      /\ \A d \in Proc : pcb'[d].num_threads =
           IF d = c THEN pcb[d].num_threads - 1 ELSE pcb[d].num_threads
  BY <1>m DEF Leaves, Moves, SameNumbers
<1>2. /\ c < next_pid /\ pcb[c].num_threads > 0 /\ StateOf(c) = "alive"
      /\ pcb[c].num_threads \in Int
  <2>1. c < next_pid /\ pcb[c].num_threads > 0 /\ StateOf(c) = "alive"
    BY <1>1, <1>m, ActorAlive DEF DonePoints
  <2>. QED
    BY <2>1 DEF TypeInv, Pcb
<1>3. \A d \in Proc : Stage(d) /\ Stage(d)'
  BY DEF Stages
<1>4. ASSUME NEW d \in Proc, pcb'[d].num_threads > 0 <=> pcb[d].num_threads > 0
      PROVE  /\ StateOf(d)' = StateOf(d) /\ HeirOf(d)' = HeirOf(d)
             /\ pcb'[d].ppid = pcb[d].ppid
  <2>1. Aside(d)
    BY <1>1, <1>4, AsideQuiet
  <2>. QED
    BY <1>3, <2>1, AsideSame DEF Aside
<1>5. CASE pcb[c].num_threads = 1
  <2>1. Elsewhere(c)
    BY <1>1, <1>4 DEF Elsewhere
  <2>2. ~Reported(c) /\ ~Collected(c)
    BY <1>2, <1>3, <1>5 DEF Stage, Over
  <2>3. pcb'[c].ppid = pcb[c].ppid /\ pcb'[c].original_tid = pcb[c].original_tid
    BY <1>1, KinOfAll
  <2>4. ~Reported(c)' /\ ~Collected(c)'
    BY <1>1, <2>2, <2>3 DEF Reported, Owed, Entry, Collected, SameQueues
  <2>5. c < next_pid' /\ ~(pcb'[c].num_threads > 0)
    BY <1>1, <1>2, <1>5
  <2>6. Stage(c)
    BY <1>3
  <2>7. Stage(c)'
    BY <1>3
  <2>8. StateOf(c)' = "exited" /\ HeirOf(c)' = None
    BY <2>4, <2>5, <2>7 DEF Stage
  <2>9. HeirOf(c) = None
    BY <2>2, <2>6 DEF Stage
  <2>. QED
    BY <1>2, <2>1, <2>3, <2>8, <2>9
<1>6. CASE pcb[c].num_threads # 1
  <2>1. \A d \in Proc : pcb'[d].num_threads > 0 <=> pcb[d].num_threads > 0
    BY <1>1, <1>2, <1>6
  <2>. QED
    BY <1>4, <2>1 DEF Unmoved
<1>. QED
  BY <1>5, <1>6

(* The status of the thread's process is queued: a report, to the parent   *)
(* or, if that has exited, to init.                                        *)
LEMMA TreeReports ==
  ASSUME TypeInv, Shape, Shape', Kin, Heirs, OneReport, Stages, Stages',
         NEW t \in Thread, Reports(t)
  PROVE  \E r, c \in Proc :
           /\ StateOf(c) = "exited" /\ StateOf(c)' = "reported" /\ Elsewhere(c)
           /\ r = pcb[c].ppid \/ (/\ r = InitProc /\ pcb[c].ppid \in Proc
                                  /\ StateOf(pcb[c].ppid) # "alive")
           /\ HeirOf(c)' = r /\ pcb'[c].ppid = pcb[c].ppid
<1>m. PICK c \in Proc : c = Mine(t)
  BY DEF Reports
<1>r. PICK r \in Proc : r = loc[t]
  BY DEF Reports
<1>s. PICK s : s = Metadata(t)
  OBVIOUS
<1>1. /\ SameKin /\ SameThreads /\ next_pid' = next_pid /\ pc[t] = "report"
      /\ collected' = collected
      /\ \A p \in Proc : pcb'[p].status_queue =
           IF p = r THEN Append(pcb[p].status_queue, s) ELSE pcb[p].status_queue
  BY <1>m, <1>r, <1>s DEF Reports, Moves, SameNumbers
<1>2. s.original_tid = pcb[c].original_tid
  BY <1>m, <1>s DEF Metadata
<1>3. c # InitProc /\ c < next_pid /\ pcb[c].num_threads = 0 /\ ToHeir(r, c)
  BY <1>1, <1>m, <1>r DEF Heirs, HeirPoints, OneReport, Shape, Placed
<1>4. ~Over(c)
  BY <1>1, <1>m DEF Over
<1>5. \A d \in Proc : Stage(d) /\ Stage(d)'
  BY DEF Stages
<1>6. Stage(c)
  BY <1>5
<1>7. Stage(c)'
  BY <1>5
<1>8. StateOf(c) = "exited"
  <2>1. ~(pcb[c].num_threads > 0)
    BY <1>3
  <2>. QED
    BY <1>3, <1>4, <1>6, <2>1 DEF Stage
<1>kin. \A d \in Proc : pcb'[d].ppid = pcb[d].ppid /\ pcb'[d].original_tid = pcb[d].original_tid
  BY <1>1, KinOfAll
<1>seq. \A p \in Proc : pcb[p].status_queue \in Seq(Report)
  BY DEF TypeInv, Pcb
<1>9. ASSUME NEW p \in Proc, NEW d \in Proc
      PROVE  Owed(p, d)' <=> Owed(p, d) \/ (p = r /\ pcb[d].original_tid = pcb[c].original_tid)
  <2>1. CASE p # r
    BY <1>1, <1>kin, <2>1 DEF Owed, Entry
  <2>2. CASE p = r
    <3> DEFINE q == pcb[p].status_queue
    <3>1. q \in Seq(Report) /\ Len(q) \in Nat /\ DOMAIN q = 1 .. Len(q)
      BY <1>seq
    <3>2. pcb'[p].status_queue = Append(q, s)
      BY <1>1, <2>2
    <3>3. /\ DOMAIN Append(q, s) = 1 .. Len(q) + 1
          /\ \A i \in 1 .. Len(q) : Append(q, s)[i] = q[i]
          /\ Append(q, s)[Len(q) + 1] = s
      BY <3>1
    <3>4. Owed(p, d)' <=> \E i \in 1 .. Len(q) + 1 : Append(q, s)[i].original_tid = pcb[d].original_tid
      BY <1>kin, <3>2, <3>3 DEF Owed, Entry
    <3>5. Owed(p, d) <=> \E i \in 1 .. Len(q) : q[i].original_tid = pcb[d].original_tid
      BY <3>1 DEF Owed, Entry
    <3> HIDE DEF q
    <3>6. \A i : i \in 1 .. Len(q) + 1 <=> i \in 1 .. Len(q) \/ i = Len(q) + 1
      BY <3>1
    <3>. QED
      BY <1>2, <2>2, <3>3, <3>4, <3>5, <3>6
  <2>. QED
    BY <2>1, <2>2
<1>10. StateOf(c)' = "reported" /\ HeirOf(c)' = r
  <2>1. Owed(r, c)'
    BY <1>9
  <2>2. Reported(c)'
    BY <2>1 DEF Reported
  <2>. QED
    BY <1>7, <2>1, <2>2 DEF Stage
<1>11. ASSUME NEW d \in Proc, d # c
       PROVE  /\ StateOf(d)' = StateOf(d) /\ HeirOf(d)' = HeirOf(d)
              /\ pcb'[d].ppid = pcb[d].ppid
  <2>1. pcb[d].original_tid # pcb[c].original_tid
    <3>1. CASE d < next_pid
      BY <1>3, <1>11, <3>1 DEF Kin
    <3>2. CASE ~(d < next_pid)
      <4>1. d >= next_pid
        BY <3>2, Numbers DEF TypeInv
      <4>2. pcb[d].original_tid = None
        BY <4>1 DEF Shape, Unmade, pcb_init
      <4>3. pcb[c].original_tid \in Thread
        BY <1>3 DEF Kin
      <4>. QED
        BY <4>2, <4>3, Numbers
    <3>. QED
      BY <3>1, <3>2
  <2>2. \A p \in Proc : Owed(p, d)' <=> Owed(p, d)
    BY <1>9, <2>1
  <2>3. Aside(d)
    BY <1>1, <1>kin, <2>2 DEF Aside, SameThreads
  <2>4. Stage(d)
    BY <1>5
  <2>5. Stage(d)'
    BY <1>5
  <2>. QED
    BY <1>kin, <2>3, <2>4, <2>5, AsideSame
<1>12. Elsewhere(c)
  BY <1>11 DEF Elsewhere
<1>13. r = pcb[c].ppid \/ (/\ r = InitProc /\ pcb[c].ppid \in Proc
                           /\ StateOf(pcb[c].ppid) # "alive")
  <2>1. CASE r = pcb[c].ppid
    BY <2>1
  <2>2. CASE r # pcb[c].ppid
    <3>1. r = InitProc /\ pcb[pcb[c].ppid].num_threads = 0
      BY <1>3, <2>2 DEF ToHeir
    <3>2. PICK p \in Proc : p = pcb[c].ppid /\ p < next_pid
      BY <1>3 DEF Kin
    <3>3. Stage(p)
      BY <1>5
    <3>4. ~(pcb[p].num_threads > 0)
      BY <3>1, <3>2
    <3>5. StateOf(p) # "alive"
      BY <3>2, <3>3, <3>4 DEF Stage
    <3>. QED
      BY <3>1, <3>2, <3>5
  <2>. QED
    BY <2>1, <2>2
<1>. QED
  BY <1>8, <1>10, <1>12, <1>13, <1>kin

(* wait takes a status: it collects what was reported to it. *)
LEMMA TreeCollects ==
  ASSUME TypeInv, Shape, Shape', Census, Kin, StatusInv, Stages, Stages',
         NEW t \in Thread, Collects(t)
  PROVE  \E p, c \in Proc :
           /\ StateOf(p) = "alive" /\ StateOf(c) = "reported" /\ HeirOf(c) = p
           /\ StateOf(c)' = "collected" /\ Elsewhere(c)
           /\ HeirOf(c)' = HeirOf(c) /\ pcb'[c].ppid = pcb[c].ppid
<1>m. PICK m \in Proc : m = Mine(t)
  BY DEF Collects
<1>x. PICK x0 : x0 = syscall_wait(t)
  OBVIOUS
<1>1. /\ SameKin /\ SameThreads /\ next_pid' = next_pid /\ pc[t] = "dequeue"
      /\ collected' = collected \cup {x0} /\ pcb[m].status_queue # <<>>
      /\ \A p \in Proc : pcb'[p].status_queue =
           IF p = m THEN Tail(pcb[p].status_queue) ELSE pcb[p].status_queue
  BY <1>m, <1>x DEF Collects, SameNumbers, Moves
<1>seq. \A p \in Proc : pcb[p].status_queue \in Seq(Report)
  BY DEF TypeInv, Pcb
<1>2. x0[1] = m /\ x0[2] = Entry(m, 1) /\ 1 \in DOMAIN pcb[m].status_queue
  BY <1>seq, <1>1, <1>m, <1>x DEF syscall_wait, Entry
<1>3. PICK c \in Proc : Status(m, 1, c)
  BY <1>2 DEF StatusInv
<1>4. c < next_pid /\ pcb[c].original_tid = x0[2] /\ Owed(m, c)
  BY <1>2, <1>3 DEF Status, Over, Owed
<1>5. \A d \in Proc : Stage(d) /\ Stage(d)'
  BY DEF Stages
<1>kin. \A d \in Proc : pcb'[d].ppid = pcb[d].ppid /\ pcb'[d].original_tid = pcb[d].original_tid
  BY <1>1, KinOfAll
<1>6. StateOf(m) = "alive"
  BY <1>1, <1>m, ActorAlive DEF DonePoints
<1>7. StateOf(c) = "reported" /\ HeirOf(c) = m
  <2>1. Reported(c) /\ Stage(c)
    BY <1>4, <1>5 DEF Reported
  <2>. QED
    BY <1>4, <2>1 DEF Stage
<1>8. StateOf(c)' = "collected" /\ HeirOf(c)' = m
  <2>1. x0 \in collected' /\ x0[2] = pcb'[c].original_tid
    BY <1>1, <1>4, <1>kin
  <2>2. Collected(c)'
    BY <2>1 DEF Collected
  <2>3. Stage(c)'
    BY <1>5
  <2>. QED
    BY <1>2, <2>1, <2>2, <2>3 DEF Stage
<1>9. ASSUME NEW d \in Proc, d # c
      PROVE  /\ StateOf(d)' = StateOf(d) /\ HeirOf(d)' = HeirOf(d)
             /\ pcb'[d].ppid = pcb[d].ppid
  <2>1. pcb[d].original_tid # x0[2]
    <3>1. CASE d < next_pid
      BY <1>4, <1>9, <3>1 DEF Kin
    <3>2. CASE ~(d < next_pid)
      <4>1. d >= next_pid
        BY <3>2, Numbers DEF TypeInv
      <4>2. pcb[d].original_tid = None
        BY <4>1 DEF Shape, Unmade, pcb_init
      <4>3. pcb[c].original_tid \in Thread
        BY <1>4 DEF Kin
      <4>. QED
        BY <1>4, <4>2, <4>3, Numbers
    <3>. QED
      BY <3>1, <3>2
  <2>2. ASSUME NEW p \in Proc PROVE Owed(p, d)' <=> Owed(p, d)
    <3>1. CASE p # m
      BY <1>1, <1>kin, <3>1 DEF Owed, Entry
    <3>2. CASE p = m
      <4> DEFINE q == pcb[p].status_queue
      <4>1. q \in Seq(Report) /\ q # <<>> /\ pcb'[p].status_queue = Tail(q)
        BY <1>seq, <1>1, <3>2
      <4>2. Len(q) \in Nat \ {0} /\ DOMAIN q = 1 .. Len(q)
        BY <4>1
      <4>3. /\ Tail(q) \in Seq(Report) /\ Len(Tail(q)) = Len(q) - 1
            /\ \A i \in 1 .. Len(q) - 1 : Tail(q)[i] = q[i + 1]
        BY <4>1, HeadTailProperties
      <4>4. DOMAIN Tail(q) = 1 .. Len(q) - 1
        BY <4>3
      <4>5. Owed(p, d)' <=> \E i \in 1 .. Len(q) - 1 : Tail(q)[i].original_tid = pcb[d].original_tid
        BY <1>kin, <4>1, <4>4 DEF Owed, Entry
      <4>6. Owed(p, d) <=> \E i \in 1 .. Len(q) : q[i].original_tid = pcb[d].original_tid
        BY <4>2 DEF Owed, Entry
      <4>7. q[1].original_tid # pcb[d].original_tid
        BY <1>2, <2>1, <3>2 DEF Entry
      <4> HIDE DEF q
      <4>8. ASSUME NEW i \in 1 .. Len(q), q[i].original_tid = pcb[d].original_tid
            PROVE  \E j \in 1 .. Len(q) - 1 : Tail(q)[j].original_tid = pcb[d].original_tid
        <5>1. i - 1 \in 1 .. Len(q) - 1 /\ (i - 1) + 1 = i
          BY <4>2, <4>7, <4>8
        <5>2. Tail(q)[i - 1] = q[i]
          BY <4>3, <5>1
        <5>. QED
          BY <4>8, <5>1, <5>2
      <4>9. ASSUME NEW j \in 1 .. Len(q) - 1, Tail(q)[j].original_tid = pcb[d].original_tid
            PROVE  \E i \in 1 .. Len(q) : q[i].original_tid = pcb[d].original_tid
        <5>1. j + 1 \in 1 .. Len(q) /\ Tail(q)[j] = q[j + 1]
          BY <4>2, <4>3
        <5>. QED
          BY <4>9, <5>1
      <4>. QED
        BY <4>5, <4>6, <4>8, <4>9
    <3>. QED
      BY <3>1, <3>2
  <2>3. \A x : x \in collected' /\ x[2] = pcb'[d].original_tid
                 <=> x \in collected /\ x[2] = pcb[d].original_tid
    BY <1>1, <1>kin, <2>1
  <2>4. Aside(d)
    BY <1>1, <1>kin, <2>2, <2>3 DEF Aside, SameThreads
  <2>5. Stage(d)
    BY <1>5
  <2>6. Stage(d)'
    BY <1>5
  <2>. QED
    BY <1>kin, <2>4, <2>5, <2>6, AsideSame
<1>10. Elsewhere(c)
  BY <1>9 DEF Elsewhere
<1>. QED
  BY <1>6, <1>7, <1>8, <1>10, <1>kin

(* Every step is a step of the tree, or none. *)
LEMMA TreeStep ==
  ASSUME IInv, FamilyInv, Stages, Stages', [Next]_vars
  PROVE  Tree!Next \/ Unmoved
<1>1. TypeInv /\ Shape /\ WaitFindsStatus /\ Shape'
  BY InvStep DEF IInv
<1>2. Still \/ Reaps \/ \E t \in Thread : FamilyStep(t)
  BY <1>1, Effects
<1>3. Census /\ Kin /\ Heirs /\ OneReport /\ StatusInv
  BY DEF FamilyInv
<1>4. ASSUME NEW t \in Thread, Forks(t) PROVE Tree!Next
  <2>1. PICK p \in Proc, c \in Proc :
           /\ StateOf(p) = "alive" /\ StateOf(c) = "unborn" /\ Elsewhere(c)
           /\ StateOf(c)' = "alive" /\ HeirOf(c)' = HeirOf(c) /\ pcb'[c].ppid = p
    BY <1>1, <1>3, <1>4, TreeForks
  <2>2. Tree!Fork(p, c)
    BY <2>1 DEF Tree!Fork, Elsewhere
  <2>. QED
    BY <2>2 DEF Tree!Next
<1>5. ASSUME NEW t \in Thread, Leaves(t) PROVE Tree!Next \/ Unmoved
  <2>1. SUFFICES ASSUME ~Unmoved PROVE Tree!Next
    OBVIOUS
  <2>2. PICK c \in Proc :
              /\ StateOf(c) = "alive" /\ StateOf(c)' = "exited" /\ Elsewhere(c)
              /\ HeirOf(c)' = HeirOf(c) /\ pcb'[c].ppid = pcb[c].ppid
    BY <1>1, <1>3, <1>5, <2>1, TreeLeaves
  <2>3. Tree!Exit(c)
    BY <2>2 DEF Tree!Exit, Elsewhere
  <2>. QED
    BY <2>3 DEF Tree!Next
<1>6. ASSUME NEW t \in Thread, Reports(t) PROVE Tree!Next
  <2>1. PICK r \in Proc, c \in Proc :
           /\ StateOf(c) = "exited" /\ StateOf(c)' = "reported" /\ Elsewhere(c)
           /\ r = pcb[c].ppid \/ (/\ r = InitProc /\ pcb[c].ppid \in Proc
                                  /\ StateOf(pcb[c].ppid) # "alive")
           /\ HeirOf(c)' = r /\ pcb'[c].ppid = pcb[c].ppid
    BY <1>1, <1>3, <1>6, TreeReports
  <2>2. Tree!Report(c, r)
    BY <2>1 DEF Tree!Report, Elsewhere
  <2>. QED
    BY <2>2 DEF Tree!Next
<1>7. ASSUME NEW t \in Thread, Collects(t) PROVE Tree!Next
  <2>1. PICK p \in Proc, c \in Proc :
           /\ StateOf(p) = "alive" /\ StateOf(c) = "reported" /\ HeirOf(c) = p
           /\ StateOf(c)' = "collected" /\ Elsewhere(c)
           /\ HeirOf(c)' = HeirOf(c) /\ pcb'[c].ppid = pcb[c].ppid
    BY <1>1, <1>3, <1>7, TreeCollects
  <2>2. Tree!Collect(p, c)
    BY <2>1 DEF Tree!Collect, Elsewhere
  <2>. QED
    BY <2>2 DEF Tree!Next
<1>8. ASSUME \/ Still \/ Reaps
             \/ \E t \in Thread : StartsThread(t) \/ Adds(t) \/ Counts(t) \/ Uncounts(t)
                                   \/ Vanishes(t) \/ Locks(t) \/ Adopts(t)
      PROVE  Unmoved
  BY <1>1, <1>3, <1>8, TreeQuietSteps
<1>. QED
  BY <1>2, <1>4, <1>5, <1>6, <1>7, <1>8 DEF FamilyStep

(* fork, vanish and wait implement the process tree: whatever the threads  *)
(* of a process, of its parent and of init do, a process exits once, its   *)
(* status goes once, to its parent or, if that has exited, to init, and is *)
(* collected at most once, by whom it went to.                             *)
THEOREM TreeImplemented == Spec => ImplementsTree
<1>1. Init => Tree!Init
  <2> SUFFICES ASSUME Init PROVE Tree!Init
    OBVIOUS
  <2>1. IInv /\ FamilyInv
    BY InitInv, InitFamily
  <2>2. Stages
    BY <2>1, StagesHold
  <2>3. /\ collected = {} /\ next_pid = 2
        /\ pcb[InitProc] = scheduler_add_init_process
        /\ \A p \in Proc : p # InitProc => pcb[p] = pcb_init
    BY Numbers DEF Init
  <2>4. /\ scheduler_add_init_process.num_threads = 1
        /\ scheduler_add_init_process.ppid = None
        /\ scheduler_add_init_process.status_queue = <<>>
        /\ pcb_init.ppid = None /\ pcb_init.status_queue = <<>>
    BY DEF scheduler_add_init_process, pcb_init
  <2>5. \A p \in Proc : pcb[p].ppid = None /\ pcb[p].status_queue = <<>>
    BY <2>3, <2>4
  <2>6. \A p \in Proc : ~Reported(p) /\ ~Collected(p)
    BY <2>3, <2>5 DEF Reported, Owed, Collected
  <2>7. \A p \in Proc : HeirOf(p) = None
    BY <2>2, <2>6 DEF Stages, Stage
  <2>8. StateOf(InitProc) = "alive"
    <3>1. InitProc \in Proc /\ InitProc < next_pid /\ pcb[InitProc].num_threads > 0
      BY <2>3, <2>4, Numbers DEF InitProc
    <3>. QED
      BY <2>2, <3>1 DEF Stages, Stage
  <2>9. \A p \in Proc : p # InitProc => StateOf(p) = "unborn"
    <3>1. \A p \in Proc : p # InitProc => ~(p < next_pid)
      BY <2>3 DEF Proc, InitProc
    <3>. QED
      BY <2>2, <3>1 DEF Stages, Stage
  <2>. QED
    BY <2>5, <2>7, <2>8, <2>9 DEF Tree!Init
<1>2. IInv /\ FamilyInv => Stages
  BY StagesHold
<1>3. IInv /\ FamilyInv /\ Stages /\ Stages' /\ [Next]_vars
        => [Tree!Next]_<<[c \in Proc |-> StateOf(c)], [c \in Proc |-> pcb[c].ppid],
                         [c \in Proc |-> HeirOf(c)]>>
  <2> SUFFICES ASSUME IInv, FamilyInv, Stages, Stages', [Next]_vars, ~Tree!Next
               PROVE  UNCHANGED <<[c \in Proc |-> StateOf(c)], [c \in Proc |-> pcb[c].ppid],
                                  [c \in Proc |-> HeirOf(c)]>>
    OBVIOUS
  <2>1. Unmoved
    BY TreeStep
  <2>. QED
    BY <2>1 DEF Unmoved
<1>4. Spec => Init /\ [][Next]_vars
  BY PTL DEF Spec
<1>. QED
  BY <1>1, <1>2, <1>3, <1>4, FamilyInvariant, PTL DEF ImplementsTree, Tree!Spec, Tree!vars

=============================================================================
