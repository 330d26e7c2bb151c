------------------------------- MODULE KernSem -------------------------------
(***************************************************************************)
(* The kernel's mutex and semaphore (kern/locks/mutex.c, kern/locks/sem.c) *)
(* on top of the scheduler: threads call sem_wait and sem_signal on one    *)
(* semaphore, whose fields its mutex guards, and the timer may take the    *)
(* CPU away between any two steps.  A thread may also call make_runnable   *)
(* on another, as any user program may.                                    *)
(*                                                                         *)
(* A waiter's thr_metadata_t is a local variable of its sem_wait: the      *)
(* queue holds the tids, and reject[t] is the flag in t's metadata.        *)
(*                                                                         *)
(* Here a switch and the load of the new stack pointer are one step: what  *)
(* an interrupt between the two does is the subject of ThreadCalls.        *)
(***************************************************************************)
EXTENDS Scheduler

CONSTANTS
  Boot,      \* the threads, as the runnable list the kernel starts with
  Count0,    \* the count the semaphore is initialised with
  MaxCount   \* bound: the count no signal takes the semaphore beyond

ASSUME SemAssumption ==
  /\ Idle \notin Thread
  /\ None \notin Thread \cup {Idle}
  /\ Boot \in Seq(Thread)
  /\ IsInjective(Boot)
  /\ Count0 \in Nat /\ MaxCount \in Nat

VARIABLES
  lock, owner,  \* the mutex: 1 when free; who holds it, as far as it was noted
  count, queue, \* the semaphore
  reject,       \* the flags in the waiters' metadata
  pc,           \* where each thread is
  call,         \* the call it is in: "none", "wait" or "signal"
  arg           \* thr_yield's target; in sem_signal, the waiter dequeued

semVars == <<lock, owner, count, queue, reject>>

vars == <<poolVars, schedVars, semVars, pc, call, arg>>

LockPoints == {"lock", "spin", "check", "yieldto", "yieldany"}
WaitPoints == {"dec", "enq"}
SignalPoints == {"inc", "deq", "set", "wake"}
UnlockPoints == {"disown", "unlock"}
BlockPoints == {"loop", "desch", "block", "switch"}

(* Between the exchange that takes the lock and the one that frees it. *)
Critical == {"own"} \cup WaitPoints \cup SignalPoints \cup UnlockPoints

Points == {"out"} \cup LockPoints \cup Critical \cup BlockPoints

At(t, p) == fate = "ok" /\ cur = t /\ pc[t] = p

Goto(t, p) == pc' = [pc EXCEPT ![t] = p]

(* thr_kern_yield and the timer, without the window inside the dispatcher. *)
Switch(tid) ==
  /\ context_switch(pool, tid)
  /\ UNCHANGED <<threads, left, fate, tail, via>>

-----------------------------------------------------------------------------
Init ==
  /\ SchedInit(Boot)
  /\ lock = 1 /\ owner = None
  /\ count = Count0 /\ queue = <<>>
  /\ reject = [t \in Thread |-> 0]
  /\ pc = [t \in Thread |-> "out"]
  /\ call = [t \in Thread |-> "none"]
  /\ arg = [t \in Thread |-> None]

CallWait(t) ==
  /\ At(t, "out")
  /\ call' = [call EXCEPT ![t] = "wait"]
  /\ Goto(t, "lock")
  /\ UNCHANGED <<poolVars, schedVars, semVars, arg>>

CallSignal(t) ==
  /\ At(t, "out")
  /\ count + Cardinality({s \in Thread : call[s] = "signal"}) < MaxCount
  /\ call' = [call EXCEPT ![t] = "signal"]
  /\ Goto(t, "lock")
  /\ UNCHANGED <<poolVars, schedVars, semVars, arg>>

(* The make_runnable system call, by a thread outside the semaphore. *)
Poke(t, tid) ==
  /\ At(t, "out")
  /\ scheduler_make_runnable_safe(tid)
  /\ UNCHANGED <<semVars, pc, call, arg>>

-----------------------------------------------------------------------------
(* mutex_lock: exchange a 0 in until a 1 comes out; while it does not,     *)
(* yield to the owner, or to anyone if there is none or it cannot run.     *)

(* Mutant: the lock is decremented instead of exchanged. *)
DecrementLock(t) ==
  /\ At(t, "lock")
  /\ lock' = lock - 1
  /\ Goto(t, IF lock = 1 THEN "own" ELSE "spin")
  /\ UNCHANGED <<poolVars, schedVars, owner, count, queue, reject, call, arg>>

(* Mutant: the value that comes out is not looked at. *)
XchngUntested(t) ==
  /\ At(t, "lock")
  /\ lock' = 0
  /\ Goto(t, "own")
  /\ UNCHANGED <<poolVars, schedVars, owner, count, queue, reject, call, arg>>

Xchng(t) ==
  /\ At(t, "lock")
  /\ lock' = 0
  /\ Goto(t, IF lock = 1 THEN "own" ELSE "spin")
  /\ UNCHANGED <<poolVars, schedVars, owner, count, queue, reject, call, arg>>

SetOwner(t) ==
  /\ At(t, "own")
  /\ owner' = t
  /\ Goto(t, IF call[t] = "wait" THEN "dec" ELSE "inc")
  /\ UNCHANGED <<poolVars, schedVars, lock, count, queue, reject, call, arg>>

ReadOwner(t) ==
  /\ At(t, "spin")
  /\ arg' = [arg EXCEPT ![t] = owner]
  /\ Goto(t, IF owner = None THEN "yieldany" ELSE "check")
  /\ UNCHANGED <<poolVars, schedVars, semVars, call>>

CheckOwner(t) ==
  /\ At(t, "check")
  /\ Goto(t, IF status[arg[t]] = "RUNNABLE" THEN "yieldto" ELSE "yieldany")
  /\ UNCHANGED <<poolVars, schedVars, semVars, call, arg>>

YieldToOwner(t) ==
  /\ At(t, "yieldto")
  /\ Switch(arg[t])
  /\ arg' = [arg EXCEPT ![t] = None]
  /\ Goto(t, "lock")
  /\ UNCHANGED <<semVars, call>>

YieldToAny(t) ==
  /\ At(t, "yieldany")
  /\ Switch(None)
  /\ arg' = [arg EXCEPT ![t] = None]
  /\ Goto(t, "lock")
  /\ UNCHANGED <<semVars, call>>

(* mutex_unlock: forget the owner, then free the lock. *)
ClearOwner(t) ==
  /\ At(t, "disown")
  /\ owner' = None
  /\ Goto(t, "unlock")
  /\ UNCHANGED <<poolVars, schedVars, lock, count, queue, reject, call, arg>>

(* A waiter that has put itself in the queue goes on to block. *)
Unlock(t) ==
  /\ At(t, "unlock")
  /\ lock' = 1
  /\ LET blocks == call[t] = "wait" /\ arg[t] = t
     IN  /\ Goto(t, IF blocks THEN "loop" ELSE "out")
         /\ call' = [call EXCEPT ![t] = IF blocks THEN "wait" ELSE "none"]
  /\ arg' = [arg EXCEPT ![t] = None]
  /\ UNCHANGED <<poolVars, schedVars, owner, count, queue, reject>>

-----------------------------------------------------------------------------
(* sem_wait, after mutex_lock. *)

(* Mutant: the last unit of the semaphore makes its taker wait, too. *)
DecrementOffByOne(t) ==
  /\ At(t, "dec")
  /\ count' = count - 1
  /\ Goto(t, IF count' <= 0 THEN "enq" ELSE "disown")
  /\ UNCHANGED <<poolVars, schedVars, lock, owner, queue, reject, call, arg>>

Decrement(t) ==
  /\ At(t, "dec")
  /\ count' = count - 1
  /\ Goto(t, IF count' < 0 THEN "enq" ELSE "disown")
  /\ UNCHANGED <<poolVars, schedVars, lock, owner, queue, reject, call, arg>>

Enqueue(t) ==
  /\ At(t, "enq")
  /\ queue' = Append(queue, t)
  /\ reject' = [reject EXCEPT ![t] = 0]
  /\ arg' = [arg EXCEPT ![t] = t]
  /\ Goto(t, "disown")
  /\ UNCHANGED <<poolVars, schedVars, lock, owner, count, call>>

(* while (!reject) thr_kern_deschedule(&reject); *)
TestReject(t) ==
  /\ At(t, "loop")
  /\ Goto(t, IF reject[t] = 0 THEN "desch" ELSE "out")
  /\ call' = [call EXCEPT ![t] = IF reject[t] = 0 THEN "wait" ELSE "none"]
  /\ UNCHANGED <<poolVars, schedVars, semVars, arg>>

(* thr_deschedule: xchng(reject, 0), return if it was set. *)
XchngReject(t) ==
  /\ At(t, "desch")
  /\ reject' = [reject EXCEPT ![t] = 0]
  /\ Goto(t, IF reject[t] = 0 THEN "block" ELSE "loop")
  /\ UNCHANGED <<poolVars, schedVars, lock, owner, count, queue, call, arg>>

Block(t) ==
  /\ At(t, "block")
  /\ IF MakeWaitingFails(t)
       THEN Goto(t, "loop") /\ UNCHANGED <<poolVars, schedVars>>
       ELSE Goto(t, "switch") /\ scheduler_deschedule_current_safe
  /\ UNCHANGED <<semVars, call, arg>>

(* Mutant: an `if' for the `while': whoever is made runnable returns. *)
SwitchAwayOnce(t) ==
  /\ At(t, "switch")
  /\ Switch(None)
  /\ Goto(t, "out")
  /\ call' = [call EXCEPT ![t] = "none"]
  /\ UNCHANGED <<semVars, arg>>

SwitchAway(t) ==
  /\ At(t, "switch")
  /\ Switch(None)
  /\ Goto(t, "loop")
  /\ UNCHANGED <<semVars, call, arg>>

-----------------------------------------------------------------------------
(* sem_signal, after mutex_lock. *)

Increment(t) ==
  /\ At(t, "inc")
  /\ count' = count + 1
  /\ Goto(t, IF count' <= 0 THEN "deq" ELSE "disown")
  /\ UNCHANGED <<poolVars, schedVars, lock, owner, queue, reject, call, arg>>

Dequeue(t) ==
  /\ At(t, "deq")
  /\ IF queue = <<>>
       THEN Goto(t, "disown") /\ UNCHANGED <<queue, arg>>
       ELSE /\ queue' = Tail(queue)
            /\ arg' = [arg EXCEPT ![t] = Head(queue)]
            /\ Goto(t, "set")
  /\ UNCHANGED <<poolVars, schedVars, lock, owner, count, reject, call>>

SetReject(t) ==
  /\ At(t, "set")
  /\ reject' = [reject EXCEPT ![arg[t]] = 1]
  /\ Goto(t, "wake")
  /\ UNCHANGED <<poolVars, schedVars, lock, owner, count, queue, call, arg>>

(* temp->tid is read from the waiter's stack frame, which is gone if the   *)
(* waiter has seen its flag and returned: then it may be any tid.          *)
InSemWait(w) == call[w] = "wait" /\ pc[w] \in BlockPoints

(* Mutant: an error of make_runnable returns without the unlock. *)
WakeReturnsLocked(t) ==
  /\ At(t, "wake")
  /\ IF MakeRunnableFails(arg[t])
       THEN /\ Goto(t, "out")
            /\ call' = [call EXCEPT ![t] = "none"]
            /\ UNCHANGED <<poolVars, schedVars>>
       ELSE /\ Goto(t, "disown")
            /\ scheduler_make_runnable_safe(arg[t])
            /\ UNCHANGED call
  /\ UNCHANGED <<semVars, arg>>

Wake(t) ==
  /\ At(t, "wake")
  /\ \E tid \in IF InSemWait(arg[t]) THEN {arg[t]} ELSE Thread :
       IF MakeRunnableFails(tid) THEN UNCHANGED <<poolVars, schedVars>>
                                 ELSE scheduler_make_runnable_safe(tid)
  /\ Goto(t, "disown")
  /\ UNCHANGED <<semVars, call, arg>>

-----------------------------------------------------------------------------
Timer ==
  /\ fate = "ok"
  /\ c_timer_handler
  /\ UNCHANGED <<semVars, pc, call, arg>>

(* What a kernel does that is no longer ok is not modelled. *)
Undefined ==
  /\ fate # "ok"
  /\ UNCHANGED vars

(* The steps of a thread inside sem_wait or sem_signal. *)
KernelStep(t) ==
  \/ Xchng(t) \/ SetOwner(t) \/ ReadOwner(t) \/ CheckOwner(t)
  \/ YieldToOwner(t) \/ YieldToAny(t) \/ ClearOwner(t) \/ Unlock(t)
  \/ Decrement(t) \/ Enqueue(t) \/ TestReject(t) \/ XchngReject(t)
  \/ Block(t) \/ SwitchAway(t)
  \/ Increment(t) \/ Dequeue(t) \/ SetReject(t) \/ Wake(t)

UserStep(t) == CallWait(t) \/ CallSignal(t) \/ \E tid \in Thread : Poke(t, tid)

Next ==
  \/ \E t \in Thread : KernelStep(t) \/ UserStep(t)
  \/ Timer
  \/ Undefined

Spec == Init /\ [][Next]_vars

(* The timer ticks, and a thread that is given the CPU again and again     *)
(* gets on with its call: a time slice is longer than a step.              *)
FairSpec ==
  Spec /\ WF_vars(Timer) /\ \A t \in Thread : SF_vars(KernelStep(t))

-----------------------------------------------------------------------------
TypeOK ==
  /\ threads \subseteq Thread
  /\ status \in [Tcb -> Statuses]
  /\ pool \in [Lists -> Seq(Thread)]
  /\ left \in [Thread -> Int]
  /\ fate \in Fates
  /\ cur \in Tcb \cup {None}
  /\ tail = None /\ via = [t \in Tcb |-> <<>>]
  /\ lock \in {0, 1}
  /\ owner \in Thread \cup {None}
  /\ count \in Int
  /\ queue \in Seq(Thread)
  /\ reject \in [Thread -> {0, 1}]
  /\ pc \in [Thread -> Points]
  /\ call \in [Thread -> {"none", "wait", "signal"}]
  /\ arg \in [Thread -> Thread \cup {None}]

(* At most one thread is between taking and freeing the mutex, the lock is *)
(* free exactly when none is, and the owner others yield to is its holder. *)
MutualExclusion ==
  /\ \A s, t \in Thread : pc[s] \in Critical /\ pc[t] \in Critical => s = t
  /\ lock = 1 <=> \A t \in Thread : pc[t] \notin Critical
  /\ owner # None => pc[owner] \in Critical

(* When nobody holds the mutex, a negative count is the number of waiters  *)
(* in the queue, and otherwise the queue is empty.                         *)
CountMatchesQueue ==
  lock = 1 => Len(queue) = IF count < 0 THEN -count ELSE 0

(* The queue points only at live metadata: each entry is that of a thread  *)
(* still inside its sem_wait, entered once, and not yet released.          *)
QueueIsLive ==
  /\ IsInjective(queue)
  /\ \A t \in Range(queue) :
       /\ reject[t] = 0
       /\ call[t] = "wait"
       /\ pc[t] \in BlockPoints \cup UnlockPoints

(* The mutex is never held for ever, if the kernel stays ok. *)
MutexFreed == lock = 0 ~> (lock = 1 \/ fate # "ok")

-----------------------------------------------------------------------------
(* "Semaphores use the same reject pointer to achieve 'atomic unlock and   *)
(* deschedule'": a waiter that a signal has dequeued and is done with is   *)
(* not left in the waiting list.                                           *)
NoLostWakeup ==
  \A t \in Thread :
    In("waiting", t) /\ pc[t] \in BlockPoints /\ fate = "ok"
      => \/ t \in Range(queue)
         \/ \E s \in Thread : pc[s] \in {"set", "wake"} /\ arg[s] = t

=============================================================================
