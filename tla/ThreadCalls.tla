----------------------------- MODULE ThreadCalls -----------------------------
(***************************************************************************)
(* Threads that make the thread-management system calls -- yield,          *)
(* deschedule, make_runnable, sleep, thread_fork -- in any order and on    *)
(* any tid, with the timer interrupt at any moment interrupts are enabled  *)
(* (kern/handlers/thr_mgmt_handlers.c, kern/scheduler/thr_helpers.c,       *)
(* kern/handlers/peripheral_handlers.c).  System calls enter through trap  *)
(* gates: interrupts stay enabled, and a call is as many steps as it has   *)
(* sections under the scheduler lock.                                      *)
(***************************************************************************)
EXTENDS Scheduler

CONSTANTS
  Boot,      \* the threads the kernel starts with, as the runnable list
  SleepTicks \* the arguments sleep is called with: positive, 0 returns at once

ASSUME ThreadAssumption ==
  /\ Idle \notin Thread
  /\ None \notin Thread \cup {Idle}
  /\ Boot \in Seq(Thread)
  /\ IsInjective(Boot)
  /\ SleepTicks \subseteq Nat \ {0}

VARIABLES
  pc,     \* where in a system call each thread is
  target  \* the tid a yield has found runnable

callVars == <<pc, target>>

vars == <<poolVars, schedVars, callVars>>

(* "yield": thr_yield has found its target runnable, and is about to switch. *)
(* "desch": thr_deschedule has read a zero reject, and has not yet acted.    *)
(* "switch": off the runnable list, about to switch away.                    *)
Points == {"user", "yield", "desch", "switch"}

(* The thread t executes on its own stack, at point p. *)
At(t, p) == fate = "ok" /\ tail = None /\ cur = t /\ pc[t] = p

Goto(t, p) == pc' = [pc EXCEPT ![t] = p]

-----------------------------------------------------------------------------
Init ==
  /\ SchedInit(Boot)
  /\ pc = [t \in Thread |-> "user"]
  /\ target = [t \in Thread |-> None]

(* thr_yield(-1). *)
YieldAny(t) ==
  /\ At(t, "user")
  /\ context_switch_safe(None)
  /\ UNCHANGED callVars

(* thr_yield(tid): the check, made with interrupts enabled.  A tid that is *)
(* unknown or not RUNNABLE is an error and changes nothing.                *)
YieldCheck(t, tid) ==
  /\ At(t, "user")
  /\ tid \in threads /\ status[tid] = "RUNNABLE"
  /\ target' = [target EXCEPT ![t] = tid]
  /\ Goto(t, "yield")
  /\ UNCHANGED <<poolVars, schedVars>>

(* ... and the switch. *)
YieldTo(t) ==
  /\ At(t, "yield")
  /\ context_switch_safe(target[t])
  /\ target' = [target EXCEPT ![t] = None]
  /\ Goto(t, "user")

(* thr_deschedule: the exchange that found reject zero.  A non-zero reject *)
(* or a bad pointer returns at once.                                       *)
DescheduleCheck(t) ==
  /\ At(t, "user")
  /\ Goto(t, "desch")
  /\ UNCHANGED <<poolVars, schedVars, target>>

(* ... the move to the waiting list, or the error return. *)
Deschedule(t) ==
  /\ At(t, "desch")
  /\ IF MakeWaitingFails(t)
       THEN Goto(t, "user") /\ UNCHANGED <<poolVars, schedVars>>
       ELSE Goto(t, "switch") /\ scheduler_deschedule_current_safe
  /\ UNCHANGED target

(* thr_sleep, up to its switch.  The error return is that of a list error. *)
Sleep(t, ticks) ==
  /\ At(t, "user")
  /\ scheduler_make_current_sleeping_safe(ticks)
  /\ Goto(t, IF MakeSleepingFails THEN "user" ELSE "switch")
  /\ UNCHANGED target

(* The thr_yield(-1) that ends thr_deschedule and thr_sleep. *)
SwitchAway(t) ==
  /\ At(t, "switch")
  /\ context_switch_safe(None)
  /\ Goto(t, "user")
  /\ UNCHANGED target

(* The make_runnable system call. *)
MakeRunnable(t, tid) ==
  /\ At(t, "user")
  /\ scheduler_make_runnable_safe(tid)
  /\ UNCHANGED callVars

(* The end of thread_fork: a new tcb is added to the table and the list. *)
ThreadFork(t, new) ==
  /\ At(t, "user")
  /\ new \notin threads
  /\ tcb_pool_add_runnable_tcb_safe(new)
  /\ UNCHANGED <<schedVars, callVars>>

(* restore_context with interrupts enabled, after a voluntary switch. *)
Restore ==
  /\ fate = "ok"
  /\ restore_context
  /\ UNCHANGED callVars

Timer ==
  /\ fate = "ok"
  /\ c_timer_handler
  /\ UNCHANGED callVars

(* What a kernel does that is no longer ok is not modelled. *)
Undefined ==
  /\ fate # "ok"
  /\ UNCHANGED vars

ThreadStep(t) ==
  \/ YieldAny(t)
  \/ \E tid \in Thread : YieldCheck(t, tid)
  \/ YieldTo(t)
  \/ DescheduleCheck(t)
  \/ Deschedule(t)
  \/ \E ticks \in SleepTicks : Sleep(t, ticks)
  \/ SwitchAway(t)
  \/ \E tid \in Thread : MakeRunnable(t, tid)
  \/ \E new \in Thread : ThreadFork(t, new)

Next == (\E t \in Thread : ThreadStep(t)) \/ Restore \/ Timer \/ Undefined

Spec == Init /\ [][Next]_vars

(* The interval timer keeps ticking, whatever the threads do. *)
FairSpec == Spec /\ WF_vars(Timer)

-----------------------------------------------------------------------------
TypeOK ==
  /\ threads \subseteq Thread
  /\ status \in [Tcb -> Statuses]
  /\ pool \in [Lists -> Seq(Thread)]
  /\ left \in [Thread -> Int]
  /\ fate \in Fates
  /\ cur \in Tcb \cup {None}
  /\ tail \in Thread \cup {None}
  /\ tail # None => cur # None
  /\ via \in [Tcb -> Seq(Thread)]
  /\ pc \in [Thread -> Points]
  /\ target \in [Thread -> Thread \cup {None}]

(* As long as the kernel is ok, the three lists hold every thread of the   *)
(* hash table exactly once: no interleaving of system calls and timer      *)
(* interrupts drops a node, links it twice or leaves it in two lists.      *)
PoolsPartition == Partitioned(pool, threads)

(* Only the current thread is RUNNING, whatever thread was switched to. *)
OnlyCurrentRuns == \A t \in Tcb : status[t] = "RUNNING" => cur = t

(* What a status still says about the list: a WAITING thread waits, a      *)
(* SLEEPING one sleeps or has just been woken, and a thread in the         *)
(* runnable list is not WAITING.  The converse fails: a thread that was    *)
(* yielded to after it had gone to sleep is RUNNING in the sleeping list.  *)
StatusMatchesPool ==
  fate = "ok" => \A t \in threads :
    /\ status[t] # "UNINIT"
    /\ status[t] = "WAITING" => In("waiting", t)
    /\ status[t] = "SLEEPING" => In("sleeping", t) \/ In("runnable", t)

(* The sleeping list is in the order of the wake-up times, and all of them *)
(* lie in the future: tcb_pool_wakeup, which only looks at the head and    *)
(* only for equality with the present, passes over nobody.                 *)
SleepersInOrder ==
  fate = "ok" =>
    LET s == pool["sleeping"] IN
      /\ Ordered(s, left)
      /\ \A t \in Range(s) : left[t] > 0

(* A thread that runs while its node is not in the runnable list -- one    *)
(* that another yielded to after it had gone to wait or to sleep -- is     *)
(* never alone: the list is empty only when the current thread has just    *)
(* taken itself off it and is about to switch away, so that no system call *)
(* meets the error return of ll_unlink_node.                               *)
CallerNotAlone ==
  \A t \in Thread : cur = t /\ pc[t] # "switch" => pool["runnable"] # <<>>

(* The timer takes a thread off the sleeping list at its time, not before; *)
(* only a call of make_runnable by the current thread does so earlier.     *)
NoEarlyWakeup ==
  [][\A t \in Thread : In("sleeping", t) /\ ~In("sleeping", t)'
                         => left[t] = 1 \/ status'[t] = "RUNNABLE"]_vars

(* Every sleeper is woken, if the kernel stays ok. *)
SleepersWake ==
  \A t \in Thread : In("sleeping", t) ~> (~In("sleeping", t) \/ fate # "ok")

-----------------------------------------------------------------------------
(* "Loops through the sleeping pool and wakes up a thread if the its       *)
(* wakeup time is equal to the current time" (tcb_pool_wakeup): the loop   *)
(* ends, and the timer handler returns.                                    *)
TimerReturns == fate # "hang"

(* "stack of the current thread used to context switch back into when      *)
(* resuming execution" (thr_yield): what a switch saved on a thread's      *)
(* kernel stack is still there when the thread is switched back to.        *)
ContextsIntact == fate # "overwritten"

=============================================================================
