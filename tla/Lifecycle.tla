------------------------------ MODULE Lifecycle ------------------------------
(***************************************************************************)
(* The life of processes and threads: fork, thread_fork, exec, set_status, *)
(* vanish and wait (kern/handlers/life_cycle_handlers.c, thr_helpers.c,    *)
(* pcb.c, scheduler.c), and the reaper (tcb_pool.c).                       *)
(*                                                                         *)
(* Interrupts are enabled in system calls: a call is a step for each lock  *)
(* it takes, and any thread may run between two steps.  A pcb's mutex is   *)
(* its owner's name; a semaphore is its count, and the sleepers are those  *)
(* whose pc says so (module KernSem has their insides).  Processes and     *)
(* threads are numbered as they are made; 1 is init, and its only thread   *)
(* at the start.  The reaper has a pcb of its own, which nobody waits on.  *)
(***************************************************************************)
EXTENDS Integers, Sequences, FiniteSets

CONSTANTS
  MaxProcs,    \* bound: the processes there ever are
  MaxThreads,  \* bound: the threads there ever are
  Statuses,    \* the arguments of set_status
  None

ASSUME LifecycleAssumption ==
  MaxProcs \in Nat \ {0} /\ MaxThreads \in Nat \ {0} /\ None \notin Int

Proc == 1 .. MaxProcs
Thread == 1 .. MaxThreads
InitProc == 1

VARIABLES
  pcb,         \* the process control blocks
  processes,   \* the pids in the process table
  tcb,         \* pcb and exit status of each thread
  next_pid, next_tid,
  pc,          \* where each thread is
  loc,         \* the pcb it works on: the parent in vanish, the child in fork
  zombie_pool, zombies_sem,
  reaper,      \* where the reaper is, and the tcb it has
  irq,         \* the thread that runs with interrupts disabled
  fate,        \* "ok", or "undefined" once freed memory is used
  collected,   \* history: the <<collector, original tid, status>> of wait
  early        \* history: the threads that signalled with interrupts enabled

procVars == <<pcb, processes, next_pid, collected>>
threadVars == <<tcb, next_tid>>
reapVars == <<zombie_pool, zombies_sem, reaper, early>>
vars == <<procVars, threadVars, pc, loc, reapVars, irq, fate>>

pcb_init ==
  [state |-> "none", ppid |-> None, original_tid |-> None, num_threads |-> 0,
   num_child_proc |-> 0, m |-> None, wait_sem |-> 0, status_queue |-> <<>>]

(* exit_status is not initialised: None is whatever the heap had there. *)
tcb_init(p) == [pcb |-> p, exit_status |-> None]

(* The pcb of init, whose first thread is 1. *)
scheduler_add_init_process ==
  [pcb_init EXCEPT !.state = "live", !.original_tid = 1, !.num_threads = 1]

(* The reaper before it has anything to reap. *)
scheduler_add_reaper_proc == [at |-> "wait", tcb |-> None]

(* scheduler_init: the reaper and init are there, and nothing else. *)
Init ==
  /\ pcb = [p \in Proc |-> IF p = InitProc THEN scheduler_add_init_process ELSE pcb_init]
  /\ processes = {InitProc}
  /\ tcb = [t \in Thread |-> tcb_init(IF t = 1 THEN InitProc ELSE None)]
  /\ next_pid = 2 /\ next_tid = 2
  /\ pc = [t \in Thread |-> IF t = 1 THEN "user" ELSE "unborn"]
  /\ loc = [t \in Thread |-> None]
  /\ zombie_pool = <<>> /\ zombies_sem = 0 /\ reaper = scheduler_add_reaper_proc
  /\ irq = None /\ fate = "ok" /\ collected = {} /\ early = {}

Mine(t) == tcb[t].pcb
Live(p) == pcb[p].state # "freed"
Free(p) == pcb[p].m = None

(* t can take its step at p: no other thread has interrupts disabled, and  *)
(* its process is still there.                                             *)
At(t, p) == pc[t] = p /\ fate = "ok" /\ irq \in {None, t} /\ Live(Mine(t))

Goto(t, p) == pc' = [pc EXCEPT ![t] = p]

(* t is at p, and has the mutex of process q within the step. *)
Holding(t, p, q) == At(t, p) /\ Free(q)

-----------------------------------------------------------------------------
(* fork *)

(* Under the lock: no fork of a process with several threads. *)
syscall_fork(t) ==
  /\ Holding(t, "user", Mine(t)) /\ next_pid <= MaxProcs /\ next_tid <= MaxThreads
  /\ pcb[Mine(t)].num_threads = 1
  /\ Goto(t, "fork")
  /\ UNCHANGED <<procVars, threadVars, loc, reapVars, irq, fate>>

(* The address space cannot be copied: the duplicate is destroyed again. *)
ForkFails(t) ==
  /\ At(t, "fork") /\ Goto(t, "user")
  /\ UNCHANGED <<procVars, threadVars, loc, reapVars, irq, fate>>

(* The child's pcb, with what scheduler_add_process sets; its address      *)
(* space is module VirtualMem's.                                           *)
pcb_copy(p, tid) ==
  [pcb_init EXCEPT !.state = "live", !.ppid = p, !.original_tid = tid, !.num_threads = 1]

(* The process table. *)
tcb_pool_add_pcb_safe(p) == processes' = processes \cup {p}

tcb_pool_remove_pcb(p) == processes' = processes \ {p}

tcb_pool_find_pcb(p) == p \in processes

(* scheduler_add_process up to the process table: the new pcb is not       *)
(* shared before.                                                          *)
scheduler_add_process(t) ==
  /\ At(t, "fork") /\ next_pid <= MaxProcs /\ next_tid <= MaxThreads
  /\ pcb' = [pcb EXCEPT ![next_pid] = pcb_copy(Mine(t), next_tid)]
  /\ tcb' = [tcb EXCEPT ![next_tid] = tcb_init(next_pid)]
  /\ tcb_pool_add_pcb_safe(next_pid)
  /\ next_pid' = next_pid + 1 /\ next_tid' = next_tid + 1
  /\ loc' = [loc EXCEPT ![t] = next_tid]
  /\ Goto(t, "add")
  /\ UNCHANGED <<collected, reapVars, irq, fate>>

(* The child may run before its parent counts it. *)
tcb_pool_add_runnable_tcb_safe(t) ==
  /\ At(t, "add") /\ irq = None
  /\ pc' = [pc EXCEPT ![t] = IF Mine(loc[t]) = Mine(t) THEN "user" ELSE "count",
                      ![loc[t]] = "user"]
  /\ loc' = [loc EXCEPT ![t] = None]
  /\ UNCHANGED <<procVars, threadVars, reapVars, irq, fate>>

(* Mutant: the child is not counted. *)
CountNothing(t) ==
  /\ Holding(t, "count", Mine(t))
  /\ Goto(t, "user")
  /\ UNCHANGED <<procVars, threadVars, loc, reapVars, irq, fate>>

pcb_inc_children_s(t) ==
  /\ Holding(t, "count", Mine(t))
  /\ pcb' = [pcb EXCEPT ![Mine(t)].num_child_proc = @ + 1]
  /\ Goto(t, "user")
  /\ UNCHANGED <<processes, next_pid, collected, threadVars, loc, reapVars, irq, fate>>

(* thread_fork: the new thread is counted, then added. *)
scheduler_add_new_thread(t) ==
  /\ Holding(t, "user", Mine(t)) /\ next_tid <= MaxThreads
  /\ pcb' = [pcb EXCEPT ![Mine(t)].num_threads = @ + 1]
  /\ tcb' = [tcb EXCEPT ![next_tid] = tcb_init(Mine(t))]
  /\ next_tid' = next_tid + 1
  /\ loc' = [loc EXCEPT ![t] = next_tid]
  /\ Goto(t, "add")
  /\ UNCHANGED <<processes, next_pid, collected, reapVars, irq, fate>>

-----------------------------------------------------------------------------
(* exec and set_status *)

(* With several threads exec returns -3, and the mutex stays locked.  The  *)
(* rest of exec replaces the address space (module VirtualMem).            *)
syscall_exec(t) ==
  /\ Holding(t, "user", Mine(t)) /\ pcb[Mine(t)].num_threads > 1
  /\ pcb' = [pcb EXCEPT ![Mine(t)].m = t]
  /\ UNCHANGED <<processes, next_pid, collected, threadVars, pc, loc, reapVars, irq, fate>>

(* Nobody collects the status of init, which does not vanish. *)
thr_set_status(t, status) ==
  /\ At(t, "user") /\ Mine(t) # InitProc
  /\ tcb' = [tcb EXCEPT ![t].exit_status = status]
  /\ UNCHANGED <<procVars, next_tid, pc, loc, reapVars, irq, fate>>

-----------------------------------------------------------------------------
(* wait *)

(* Without the lock: is there any child?  If not, -2. *)
WaitCheck(t) ==
  /\ At(t, "user") /\ pcb[Mine(t)].num_child_proc # 0
  /\ Goto(t, "wait")
  /\ UNCHANGED <<procVars, threadVars, loc, reapVars, irq, fate>>

WaitSem(t) ==
  /\ At(t, "wait")
  /\ pcb' = [pcb EXCEPT ![Mine(t)].wait_sem = @ - 1]
  /\ Goto(t, IF pcb[Mine(t)].wait_sem - 1 < 0 THEN "asleep" ELSE "dequeue")
  /\ UNCHANGED <<processes, next_pid, collected, threadVars, loc, reapVars, irq, fate>>

(* What wait returns of the first status in the queue. *)
syscall_wait(t) ==
  LET s == Head(pcb[Mine(t)].status_queue) IN <<Mine(t), s.original_tid, s.status>>

(* An empty queue is -2, with the mutex locked. *)
pcb_wait_on_status(t) ==
  /\ Holding(t, "dequeue", Mine(t))
  /\ LET q == pcb[Mine(t)].status_queue
     IN  IF q = <<>>
           THEN /\ pcb' = [pcb EXCEPT ![Mine(t)].m = t]
                /\ Goto(t, "user")
                /\ UNCHANGED collected
           ELSE /\ pcb' = [pcb EXCEPT ![Mine(t)].status_queue = Tail(@)]
                /\ collected' = collected \cup {syscall_wait(t)}
                /\ Goto(t, "uncount")
  /\ UNCHANGED <<processes, next_pid, threadVars, loc, reapVars, irq, fate>>

pcb_dec_children_s(t) ==
  /\ Holding(t, "uncount", Mine(t))
  /\ pcb' = [pcb EXCEPT ![Mine(t)].num_child_proc = @ - 1]
  /\ Goto(t, "user")
  /\ UNCHANGED <<processes, next_pid, collected, threadVars, loc, reapVars, irq, fate>>

-----------------------------------------------------------------------------
(* vanish *)

(* The parent is looked up without a lock.  Init does not vanish. *)
thr_vanish(t) ==
  /\ At(t, "user") /\ Mine(t) # InitProc
  /\ IF tcb_pool_find_pcb(pcb[Mine(t)].ppid)
       THEN loc' = [loc EXCEPT ![t] = pcb[Mine(t)].ppid] /\ Goto(t, "lock parent")
       ELSE loc' = [loc EXCEPT ![t] = InitProc] /\ Goto(t, "adopt")
  /\ UNCHANGED <<procVars, threadVars, reapVars, irq, fate>>

LockParent(t) ==
  /\ Holding(t, "lock parent", loc[t]) /\ Live(loc[t])
  /\ pcb' = [pcb EXCEPT ![loc[t]].m = t]
  /\ Goto(t, "leave")
  /\ UNCHANGED <<processes, next_pid, collected, threadVars, loc, reapVars, irq, fate>>

(* An orphan's thread, be it the last or not, is one more child of init. *)
Adopt(t) ==
  /\ Holding(t, "adopt", InitProc)
  /\ pcb' = [pcb EXCEPT ![InitProc].num_child_proc = @ + 1]
  /\ Goto(t, "leave")
  /\ UNCHANGED <<processes, next_pid, collected, threadVars, loc, reapVars, irq, fate>>

(* Mutant: every thread's exit is reported, not only the last one's. *)
LeaveAndReport(t) ==
  /\ Holding(t, "leave", Mine(t))
  /\ pcb' = [pcb EXCEPT ![Mine(t)].num_threads = @ - 1]
  /\ Goto(t, "report")
  /\ UNCHANGED <<processes, next_pid, collected, threadVars, loc, reapVars, irq, fate>>

pcb_dec_threads_s(t) ==
  /\ Holding(t, "leave", Mine(t))
  /\ pcb' = [pcb EXCEPT ![Mine(t)].num_threads = @ - 1]
  /\ Goto(t, IF pcb[Mine(t)].num_threads = 1 THEN "report" ELSE "unlock parent")
  /\ UNCHANGED <<processes, next_pid, collected, threadVars, loc, reapVars, irq, fate>>

(* sem_signal on a pcb's wait_sem: the count, and the sleeper it wakes. *)
Sleepers(p) == {u \in Thread : pc[u] = "asleep" /\ Mine(u) = p}

Wakes(t, p, next) ==
  IF Sleepers(p) = {} THEN Goto(t, next)
  ELSE \E u \in Sleepers(p) : pc' = [pc EXCEPT ![t] = next, ![u] = "dequeue"]

Metadata(t) ==
  [original_tid |-> pcb[Mine(t)].original_tid, status |-> tcb[t].exit_status]

(* Mutant: the signal comes without the status, if somebody waits. *)
SignalOnly(t) ==
  /\ At(t, "report")
  /\ pcb' = IF Sleepers(loc[t]) # {} THEN pcb
            ELSE [pcb EXCEPT ![loc[t]].status_queue = Append(@, Metadata(t))]
  /\ Goto(t, "signal")
  /\ UNCHANGED <<processes, next_pid, collected, threadVars, loc, reapVars, irq, fate>>

(* pcb_signal_status: the status is queued ... *)
pcb_signal_status(t) ==
  /\ At(t, "report")
  /\ pcb' = [pcb EXCEPT ![loc[t]].status_queue = Append(@, Metadata(t))]
  /\ Goto(t, "signal")
  /\ UNCHANGED <<processes, next_pid, collected, threadVars, loc, reapVars, irq, fate>>

(* Mutant: the count goes up, and nobody is woken. *)
SignalNobody(t) ==
  /\ At(t, "signal")
  /\ pcb' = [pcb EXCEPT ![loc[t]].wait_sem = @ + 1]
  /\ Goto(t, "unlock parent")
  /\ UNCHANGED <<processes, next_pid, collected, threadVars, loc, reapVars, irq, fate>>

(* ... and signalled. *)
SignalStatus(t) ==
  /\ At(t, "signal")
  /\ pcb' = [pcb EXCEPT ![loc[t]].wait_sem = @ + 1]
  /\ Wakes(t, loc[t], "unlock parent")
  /\ UNCHANGED <<processes, next_pid, collected, threadVars, loc, reapVars, irq, fate>>

(* Mutant: the parent is unlocked only by the last thread. *)
UnlockIfLast(t) ==
  /\ At(t, "unlock parent")
  /\ pcb' = [pcb EXCEPT ![loc[t]].m = IF @ = t /\ pcb[Mine(t)].num_threads = 0 THEN None ELSE @]
  /\ Goto(t, "zombie")
  /\ UNCHANGED <<processes, next_pid, collected, threadVars, loc, reapVars, irq, fate>>

UnlockParent(t) ==
  /\ At(t, "unlock parent")
  /\ pcb' = [pcb EXCEPT ![loc[t]].m = IF @ = t THEN None ELSE @]
  /\ Goto(t, "zombie")
  /\ UNCHANGED <<processes, next_pid, collected, threadVars, loc, reapVars, irq, fate>>

(* scheduler_make_current_zombie_safe, as far as the sem_signal.  A reaper *)
(* that sleeps is made runnable, and that enables interrupts; so does      *)
(* waiting for the semaphore's mutex.                                      *)
Contended(t) ==
  reaper.at = "wait" \/ \E u \in Thread \ {t} : pc[u] = "link"

(* Mutant: the node is in the zombie pool before the signal. *)
SignalLinked(t) ==
  /\ At(t, "zombie") /\ irq = None
  /\ zombies_sem' = zombies_sem + 1
  /\ zombie_pool' = Append(zombie_pool, t)
  /\ IF reaper.at = "asleep"
       THEN reaper' = [reaper EXCEPT !.at = "peek"] /\ irq' = None
       ELSE UNCHANGED reaper /\ irq' = t
  /\ Goto(t, "link")
  /\ UNCHANGED <<procVars, threadVars, loc, early, fate>>

SignalReaper(t) ==
  /\ At(t, "zombie") /\ irq = None
  /\ zombies_sem' = zombies_sem + 1
  /\ IF reaper.at = "asleep"
       THEN reaper' = [reaper EXCEPT !.at = "peek"] /\ irq' = None
       ELSE UNCHANGED reaper /\ irq' \in IF Contended(t) THEN {None, t} ELSE {t}
  /\ early' = IF irq' = None THEN early \cup {t} ELSE early
  /\ Goto(t, "link")
  /\ UNCHANGED <<procVars, threadVars, loc, zombie_pool, fate>>

(* The node goes to the zombie pool, and cur_tcb is NULL: it is off the CPU *)
(* once interrupts are enabled.                                            *)
tcb_pool_make_zombie(t) ==
  /\ At(t, "link")
  /\ zombie_pool' = Append(zombie_pool, t)
  /\ irq' = None /\ Goto(t, "gone")
  /\ UNCHANGED <<procVars, threadVars, loc, zombies_sem, reaper, early, fate>>

(* A timer interrupt between the unlink and the link: the thread is in no  *)
(* list, and does not run again.                                           *)
ZombieLost(t) ==
  /\ At(t, "link") /\ irq = None
  /\ Goto(t, "lost")
  /\ UNCHANGED <<procVars, threadVars, loc, reapVars, irq, fate>>

-----------------------------------------------------------------------------
(* The reaper *)

ReaperAt(p) == reaper.at = p /\ fate = "ok" /\ irq = None

(* Mutant: the reaper takes a unit too many. *)
ReapTwice ==
  /\ ReaperAt("wait")
  /\ zombies_sem' = zombies_sem - 1
  /\ reaper' = [reaper EXCEPT !.at = IF zombies_sem - 1 < 0 THEN "asleep" ELSE "wait"]
  /\ UNCHANGED <<procVars, threadVars, pc, loc, zombie_pool, early, irq, fate>>

ReaperWait ==
  /\ ReaperAt("wait")
  /\ zombies_sem' = zombies_sem - 1
  /\ reaper' = [reaper EXCEPT !.at = IF zombies_sem - 1 < 0 THEN "asleep" ELSE "peek"]
  /\ UNCHANGED <<procVars, threadVars, pc, loc, zombie_pool, early, irq, fate>>

ReaperPeek ==
  /\ ReaperAt("peek")
  /\ reaper' = IF zombie_pool = <<>> THEN scheduler_add_reaper_proc
               ELSE [at |-> "remove", tcb |-> Head(zombie_pool)]
  /\ UNCHANGED <<procVars, threadVars, pc, loc, zombie_pool, zombies_sem, early, irq, fate>>

(* The zombie that was peeked at is the first of the pool. *)
tcb_pool_remove_tcb == zombie_pool' = Tail(zombie_pool)

(* Under the scheduler lock, as far as the unlock. *)
tcb_pool_reap ==
  /\ ReaperAt("remove") /\ Live(Mine(reaper.tcb))
  /\ tcb_pool_remove_tcb
  /\ IF pcb[Mine(reaper.tcb)].num_threads = 0
       THEN tcb_pool_remove_pcb(Mine(reaper.tcb)) ELSE UNCHANGED processes
  /\ reaper' = [reaper EXCEPT !.at = "destroy"]
  /\ UNCHANGED <<pcb, next_pid, collected, threadVars, pc, loc, zombies_sem, early, irq, fate>>

(* num_threads is read again, without the lock. *)
pcb_destroy_s ==
  /\ ReaperAt("destroy")
  /\ LET p == Mine(reaper.tcb)
     IN  IF pcb[p].num_threads = 0
           THEN Free(p) /\ pcb' = [pcb EXCEPT ![p].state = "freed"]
           ELSE UNCHANGED pcb
  /\ reaper' = scheduler_add_reaper_proc
  /\ UNCHANGED <<processes, next_pid, collected, threadVars, pc, loc, zombie_pool,
                 zombies_sem, early, irq, fate>>

(* A freed pcb is used: by a thread of the process, by a child that looked *)
(* it up, or by the reaper.                                                *)
UseAfterFree ==
  /\ fate = "ok" /\ irq = None
  /\ \/ \E t \in Thread : /\ pc[t] \notin {"unborn", "gone", "lost"}
                          /\ \/ ~Live(Mine(t))
                             \/ pc[t] = "lock parent" /\ ~Live(loc[t])
     \/ reaper.at = "remove" /\ ~Live(Mine(reaper.tcb))
  /\ fate' = "undefined"
  /\ UNCHANGED <<procVars, threadVars, pc, loc, reapVars, irq>>

-----------------------------------------------------------------------------
(* The steps a thread goes on to take in a call. *)
KernelStep(t) ==
  \/ ForkFails(t) \/ scheduler_add_process(t) \/ tcb_pool_add_runnable_tcb_safe(t)
  \/ pcb_inc_children_s(t) \/ WaitSem(t) \/ pcb_wait_on_status(t) \/ pcb_dec_children_s(t)
  \/ LockParent(t) \/ Adopt(t) \/ pcb_dec_threads_s(t) \/ pcb_signal_status(t)
  \/ SignalStatus(t) \/ UnlockParent(t) \/ SignalReaper(t)
  \/ tcb_pool_make_zombie(t) \/ ZombieLost(t)

ReaperStep == ReaperWait \/ ReaperPeek \/ tcb_pool_reap \/ pcb_destroy_s

Next ==
  \/ \E t \in Thread :
       \/ KernelStep(t) \/ syscall_fork(t) \/ scheduler_add_new_thread(t)
       \/ syscall_exec(t) \/ WaitCheck(t) \/ thr_vanish(t)
       \/ \E s \in Statuses : thr_set_status(t, s)
  \/ ReaperStep \/ UseAfterFree

(* The scheduler takes turns. *)
Spec ==
  /\ Init /\ [][Next]_vars
  /\ \A t \in Thread : WF_vars(KernelStep(t))
  /\ WF_vars(ReaperStep) /\ WF_vars(UseAfterFree)

-----------------------------------------------------------------------------
(* wait finds a status: whoever is past the semaphore has one of its own   *)
(* in the queue, so that queue_deq does not fail, with the mutex locked.   *)
WaitFindsStatus ==
  \A p \in Proc :
    LET n == Cardinality({t \in Thread : pc[t] = "dequeue" /\ Mine(t) = p})
        s == Cardinality({t \in Thread : pc[t] = "signal" /\ loc[t] = p})
    IN  /\ Len(pcb[p].status_queue) =
             n + s + IF pcb[p].wait_sem > 0 THEN pcb[p].wait_sem ELSE 0
        /\ Cardinality(Sleepers(p)) = IF pcb[p].wait_sem < 0 THEN -pcb[p].wait_sem ELSE 0

Threads(p) == {t \in Thread : Mine(t) = p}
Off(t) == pc[t] \in {"gone", "lost"}
Collected(c) == \E x \in collected : x[2] = pcb[c].original_tid
Children(p) == {c \in Proc : pcb[c].ppid = p /\ ~Collected(c)}

(* wait's early return is right: a process that had one thread only counts *)
(* the children it has not collected (init: at least those), whenever the  *)
(* thread is not in a call; and nobody counts fewer than are queued.       *)
ChildrenCounted ==
  \A t \in Thread :
    pc[t] = "user" /\ Threads(Mine(t)) = {t} =>
      LET me == pcb[Mine(t)]
      IN  /\ Mine(t) # InitProc => me.num_child_proc = Cardinality(Children(Mine(t)))
          /\ me.num_child_proc >= Cardinality(Children(Mine(t)))
          /\ me.num_child_proc >= Len(me.status_queue)

(* The reaper frees a process that had one thread only when this thread is *)
(* off the CPU for good; and it never has a thread that still runs.        *)
ReapsTheDead ==
  /\ \A p \in Proc : ~Live(p) /\ Cardinality(Threads(p)) = 1 => \A t \in Threads(p) : Off(t)
  /\ reaper.tcb # None => pc[reaper.tcb] = "gone"
  /\ \A i \in DOMAIN zombie_pool : pc[zombie_pool[i]] = "gone"

(* Each zombie has a unit of the semaphore, or the reaper has one for it,  *)
(* but for those that signalled with interrupts enabled.                   *)
ZombiesSignalled ==
  Len(zombie_pool) <=
    Cardinality(early) + (IF zombies_sem > 0 THEN zombies_sem ELSE 0)
      + IF reaper.at \in {"peek", "remove"} THEN 1 ELSE 0

(* Where the status of c is queued. *)
Queued(c) ==
  {x \in Proc \X Proc :
     /\ x[2] \in DOMAIN pcb[x[1]].status_queue
     /\ pcb[x[1]].status_queue[x[2]].original_tid = pcb[c].original_tid}

StateOf(c) ==
  CASE pcb[c].state = "none" -> "unborn"
    [] pcb[c].num_threads > 0 -> "alive"
    [] Cardinality(Queued(c)) > 1 \/ (Queued(c) # {} /\ Collected(c)) -> "twice"
    [] Queued(c) # {} -> "reported"
    [] Collected(c) -> "collected"
    [] OTHER -> "exited"

HeirOf(c) ==
  CASE StateOf(c) = "reported" -> (CHOOSE x \in Queued(c) : TRUE)[1]
    [] StateOf(c) = "collected" -> (CHOOSE x \in collected : x[2] = pcb[c].original_tid)[1]
    [] OTHER -> None

(* Module ProcessTree: each exit is reported once, to the parent or, for   *)
(* an orphan, to init, and collected at most once, by whom it was reported *)
(* to.                                                                     *)
Tree == INSTANCE ProcessTree
          WITH Root <- InitProc, Nobody <- None,
               state <- [c \in Proc |-> StateOf(c)],
               parent <- [c \in Proc |-> pcb[c].ppid],
               heir <- [c \in Proc |-> HeirOf(c)]

ImplementsTree == Tree!Spec

(* Nothing freed in use, and no process locked by a thread of its own for  *)
(* good, as exec may leave it.                                             *)
Sound == fate = "ok" /\ \A p \in Proc : pcb[p].m # None => Mine(pcb[p].m) # p

(* A thread that vanishes is off the CPU in the end: the mutexes of parent *)
(* and child are taken in an order that cannot deadlock.                   *)
VanishEnds ==
  \A t \in Thread : pc[t] \in {"lock parent", "adopt"} ~> Off(t) \/ ~Sound

(* A status does not stay in the queue while a thread of the process waits. *)
WaitReturns ==
  \A p \in Proc :
    Sleepers(p) # {} /\ pcb[p].status_queue # <<>> ~>
      Sleepers(p) = {} \/ pcb[p].status_queue = <<>> \/ ~Sound

=============================================================================
