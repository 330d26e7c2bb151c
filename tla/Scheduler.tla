------------------------------ MODULE Scheduler ------------------------------
(***************************************************************************)
(* The scheduler and the dispatcher (kern/scheduler/scheduler.c,           *)
(* kern/dispatcher/dispatcher.c): which thread is current, how the next    *)
(* one is picked, and how the CPU gets onto its kernel stack.              *)
(*                                                                         *)
(* There is one CPU.  The scheduler lock disables interrupts, so a section *)
(* under it is one step of the model.  The dispatcher, however, enables    *)
(* interrupts again when it has set cur_tcb and only then loads the new    *)
(* stack pointer: until it does, the CPU still runs on the kernel stack of *)
(* the thread it is leaving, and a timer interrupt saves that stack        *)
(* pointer as the context of the new current thread.  `tail` and `via`     *)
(* follow whose stack holds what.                                          *)
(***************************************************************************)
EXTENDS TcbPool

CONSTANT
  None     \* no thread: a NULL cur_tcb

VARIABLES
  cur,       \* sched.cur_tcb
  tail,      \* the thread on whose kernel stack the CPU ends a switch, or None
  via        \* via[t]: the stacks of other threads t's saved context runs through

schedVars == <<cur, tail, via>>

Tcb == Thread \cup {Idle}

-----------------------------------------------------------------------------
(* Mutant: the status of the current thread is not reset. *)
DeferWithoutReset == status

(* The current thread goes back to RUNNABLE unless it has left RUNNING. *)
scheduler_defer_current_tcb ==
  IF cur # None /\ status[cur] = "RUNNING"
    THEN [status EXCEPT ![cur] = "RUNNABLE"]
    ELSE status

scheduler_set_running_tcb(n) ==
  /\ cur' = n
  /\ status' = [scheduler_defer_current_tcb EXCEPT ![n] = "RUNNING"]

(* Mutant: there is no idle thread to fall back on. *)
NextWithoutIdle(s) == IF s = <<>> THEN None ELSE Head(ll_rotate(s))

(* Mutant: with nobody runnable the current thread just goes on. *)
NextOrCurrent(s) ==
  IF s # <<>> THEN Head(ll_rotate(s)) ELSE IF cur = None THEN Idle ELSE cur

(* The head of the rotated runnable list, the idle thread if it is empty. *)
scheduler_get_next_tcb(s) == IF s = <<>> THEN Idle ELSE Head(ll_rotate(s))

(* context_switch, for the lists p and the target tid, None for any. *)
SwitchTarget(p, tid) ==
  CASE tid = None     -> scheduler_get_next_tcb(p["runnable"])
    [] tid \in threads -> tid
    [] OTHER          -> Idle

PoolAfterSwitch(p, tid) ==
  IF tid = None THEN [p EXCEPT !["runnable"] = ll_rotate(@)] ELSE p

context_switch(p, tid) ==
  /\ pool' = PoolAfterSwitch(p, tid)
  /\ scheduler_set_running_tcb(SwitchTarget(p, tid))

(* Loads thread n's saved context, v being the stacks it runs through: the *)
(* CPU arrives on n's own stack, where it overwrites whatever was saved    *)
(* below, or back in the unfinished switch that n was interrupted in.      *)
LoadContext(n, v) ==
  IF v[n] = <<>>
    THEN /\ tail' = None
         /\ via' = v
         /\ IF \E t \in Tcb : n \in Range(v[t]) THEN fate' = "overwritten"
                                               ELSE UNCHANGED fate
    ELSE /\ tail' = Last(v[n])
         /\ via' = [v EXCEPT ![n] = Front(@)]
         /\ UNCHANGED fate

(* The current thread gives up the CPU; interrupts are on when this ends. *)
context_switch_safe(tid) ==
  /\ context_switch(pool, tid)
  /\ tail' = IF SwitchTarget(pool, tid) = cur THEN None ELSE cur
  /\ UNCHANGED <<threads, left, fate, via>>

(* restore_context, at the end of thr_yield. *)
restore_context ==
  /\ tail # None
  /\ LoadContext(cur, via)
  /\ UNCHANGED <<threads, status, pool, left, cur>>

-----------------------------------------------------------------------------
(* The timer interrupt: wake up the sleepers that are due, then switch.  It *)
(* is an interrupt gate, so that the handler ends before the next one.      *)
c_timer_handler ==
  IF WakeupLoops
    THEN /\ fate' = "hang"
         /\ UNCHANGED <<threads, status, pool, left, schedVars>>
    ELSE /\ left' = AfterTick
         /\ context_switch(PoolAfterWakeup, None)
         /\ LoadContext(cur', IF tail = None
                                THEN via
                                ELSE [via EXCEPT ![cur] = Append(@, tail)])
         /\ UNCHANGED threads

-----------------------------------------------------------------------------
(* What the system calls do to the current thread, under the scheduler lock. *)

scheduler_deschedule_current_safe ==
  /\ tcb_pool_make_waiting(cur)
  /\ status' = [status EXCEPT ![cur] = "WAITING"]
  /\ UNCHANGED <<threads, left, schedVars>>

(* Mutant: the node is moved and the status is not set. *)
MakeRunnableKeepsStatus(t) ==
  /\ ~MakeRunnableFails(t)
  /\ tcb_pool_make_runnable(t)
  /\ UNCHANGED <<status, threads, schedVars>>

(* MakeRunnableFails: an error is returned and nothing changes. *)
scheduler_make_runnable_safe(t) ==
  /\ ~MakeRunnableFails(t)
  /\ tcb_pool_make_runnable(t)
  /\ status' = [status EXCEPT ![t] = "RUNNABLE"]
  /\ UNCHANGED <<threads, schedVars>>

(* status and t_wakeup are set before the lists are touched. *)
scheduler_make_current_sleeping_safe(ticks) ==
  /\ status[cur] # "SLEEPING"
  /\ status' = [status EXCEPT ![cur] = "SLEEPING"]
  /\ left' = [left EXCEPT ![cur] = ticks]
  /\ IF MakeSleepingFails THEN UNCHANGED <<pool, fate>>
                          ELSE tcb_pool_make_sleeping(cur, left')
  /\ UNCHANGED <<threads, schedVars>>

-----------------------------------------------------------------------------
(* scheduler_init and scheduler_start: the boot threads are in the runnable *)
(* list and kernel_main, which is no thread, waits for the first tick.      *)
SchedInit(boot) ==
  /\ threads = Range(boot)
  /\ status = [t \in Tcb |-> IF t \in Range(boot) \cup {Idle} THEN "RUNNABLE"
                                                             ELSE "UNINIT"]
  /\ pool = [l \in Lists |-> IF l = "runnable" THEN boot ELSE <<>>]
  /\ left = [t \in Thread |-> 0]
  /\ fate = "ok"
  /\ cur = None
  /\ tail = None
  /\ via = [t \in Tcb |-> <<>>]

=============================================================================
