----------------------------- MODULE KernSemProofs -----------------------------
(***************************************************************************)
(* Proofs that the properties of KernSem hold for any number of threads,   *)
(* any boot threads and any initial count of the semaphore.                *)
(***************************************************************************)
EXTENDS KernSem, TcbPoolProofs

-----------------------------------------------------------------------------
(* Types. *)

(* A switch changes the lists, the statuses and the current thread. *)
LEMMA SwitchKeepsType ==
  ASSUME TypeOK, NEW p \in [Lists -> Seq(Thread)], NEW tid, context_switch(p, tid)
  PROVE  /\ pool' \in [Lists -> Seq(Thread)]
         /\ status' \in [Tcb -> Statuses]
         /\ cur' \in Tcb
<1>1. SwitchTarget(p, tid) \in Tcb
      /\ PoolAfterSwitch(p, tid) \in [Lists -> Seq(Thread)]
  BY SwitchType DEF TypeOK
<1>2. scheduler_defer_current_tcb \in [Tcb -> Statuses]
  BY DEF TypeOK, scheduler_defer_current_tcb, Statuses
<1>. QED
  BY <1>1, <1>2 DEF context_switch, scheduler_set_running_tcb, Statuses

(* The variables of the scheduler: TypeOK for them. *)
SchedTypeOK ==
  /\ threads \subseteq Thread
  /\ status \in [Tcb -> Statuses]
  /\ pool \in [Lists -> Seq(Thread)]
  /\ left \in [Thread -> Int]
  /\ fate \in Fates
  /\ cur \in Tcb \cup {None}
  /\ tail = None /\ via = [t \in Tcb |-> <<>>]

(* Giving up the CPU keeps them well typed. *)
LEMMA SwitchSched ==
  ASSUME TypeOK, NEW tid, Switch(tid)
  PROVE  SchedTypeOK'
<1>1. /\ context_switch(pool, tid) /\ UNCHANGED <<threads, left, fate, tail, via>>
      /\ pool \in [Lists -> Seq(Thread)]
  BY DEF Switch, TypeOK
<1>2. /\ pool' \in [Lists -> Seq(Thread)] /\ status' \in [Tcb -> Statuses] /\ cur' \in Tcb
  BY <1>1, SwitchKeepsType
<1>. QED
  BY <1>1, <1>2 DEF TypeOK, SchedTypeOK

(* Making a thread runnable does, whatever the tid. *)
LEMMA MakeRunnableSched ==
  ASSUME TypeOK, NEW tid, scheduler_make_runnable_safe(tid)
  PROVE  SchedTypeOK'
<1>1. /\ tid \in Thread
      /\ MoveNode(tid, SuspendedIn(tid), "runnable")
      /\ left' = [left EXCEPT ![tid] = 0]
      /\ status' = [status EXCEPT ![tid] = "RUNNABLE"]
      /\ UNCHANGED <<threads, cur, tail, via>>
  BY DEF scheduler_make_runnable_safe, MakeRunnableFails, tcb_pool_make_runnable,
         schedVars, TypeOK
<1>2. SuspendedIn(tid) \in Lists /\ "runnable" \in Lists
  BY DEF SuspendedIn, Lists
<1>3. pool' \in [Lists -> Seq(Thread)] /\ fate' \in Fates
  BY <1>1, <1>2, MoveNodeType DEF TypeOK
<1>4. left' \in [Thread -> Int]
  BY <1>1 DEF TypeOK
<1>5. status' \in [Tcb -> Statuses]
  BY <1>1 DEF TypeOK, Statuses
<1>. QED
  BY <1>1, <1>3, <1>4, <1>5 DEF TypeOK, SchedTypeOK

(* So does the deschedule of the current thread. *)
LEMMA DescheduleSched ==
  ASSUME TypeOK, cur \in Thread, scheduler_deschedule_current_safe
  PROVE  SchedTypeOK'
<1>1. /\ MoveNode(cur, "runnable", "waiting")
      /\ status' = [status EXCEPT ![cur] = "WAITING"]
      /\ UNCHANGED <<threads, left, cur, tail, via>>
  BY DEF scheduler_deschedule_current_safe, tcb_pool_make_waiting, schedVars
<1>2. pool' \in [Lists -> Seq(Thread)] /\ fate' \in Fates
  BY <1>1, MoveNodeType DEF TypeOK, Lists
<1>3. status' \in [Tcb -> Statuses]
  BY <1>1 DEF TypeOK, Statuses
<1>. QED
  BY <1>1, <1>2, <1>3 DEF TypeOK, SchedTypeOK

(* The timer interrupt, which finds no unfinished switch here. *)
LEMMA TimerSched ==
  ASSUME TypeOK, c_timer_handler
  PROVE  SchedTypeOK'
<1>1. CASE WakeupLoops
  BY <1>1 DEF c_timer_handler, TypeOK, SchedTypeOK, Fates, schedVars
<1>2. CASE ~WakeupLoops
  <2>1. /\ left' = AfterTick /\ threads' = threads
        /\ context_switch(PoolAfterWakeup, None)
        /\ LoadContext(cur', via)
    BY <1>2 DEF c_timer_handler, TypeOK
  <2>2. PoolAfterWakeup \in [Lists -> Seq(Thread)]
    BY WakeupType DEF TypeOK
  <2>3. /\ pool' \in [Lists -> Seq(Thread)] /\ status' \in [Tcb -> Statuses] /\ cur' \in Tcb
    BY <2>1, <2>2, SwitchKeepsType
  <2>4. via[cur'] = <<>> /\ \A t \in Tcb : Range(via[t]) = {}
    BY <2>3 DEF TypeOK, Range
  <2>5. tail' = None /\ via' = via /\ fate' = fate
    BY <2>1, <2>4 DEF LoadContext
  <2>6. left' \in [Thread -> Int]
    BY <2>1 DEF AfterTick, TypeOK
  <2>. QED
    BY <2>1, <2>3, <2>5, <2>6 DEF TypeOK, SchedTypeOK
<1>. QED
  BY <1>1, <1>2

(* No other step touches the variables of the scheduler. *)
LEMMA NextSched == TypeOK /\ [Next]_vars => SchedTypeOK'
<1> SUFFICES ASSUME TypeOK, [Next]_vars PROVE SchedTypeOK'
  OBVIOUS
<1>1. CASE UNCHANGED <<poolVars, schedVars>>
  BY <1>1 DEF TypeOK, SchedTypeOK, poolVars, schedVars
<1>2. ASSUME NEW t \in Thread, KernelStep(t) PROVE SchedTypeOK'
  <2>1. \/ UNCHANGED <<poolVars, schedVars>>
        \/ \E tid : Switch(tid)
        \/ cur = t /\ scheduler_deschedule_current_safe
        \/ \E tid : scheduler_make_runnable_safe(tid)
    BY <1>2 DEF KernelStep, Xchng, SetOwner, ReadOwner, CheckOwner, YieldToOwner,
         YieldToAny, ClearOwner, Unlock, Decrement, Enqueue, TestReject, XchngReject,
         Block, SwitchAway, Increment, Dequeue, SetReject, Wake, At
  <2>. QED
    BY <1>1, <2>1, SwitchSched, DescheduleSched, MakeRunnableSched
<1>3. ASSUME NEW t \in Thread, UserStep(t) PROVE SchedTypeOK'
  <2>1. \/ UNCHANGED <<poolVars, schedVars>>
        \/ \E tid : scheduler_make_runnable_safe(tid)
    BY <1>3 DEF UserStep, CallWait, CallSignal, Poke
  <2>. QED
    BY <1>1, <2>1, MakeRunnableSched
<1>4. CASE Timer
  BY <1>4, TimerSched DEF Timer
<1>5. CASE UNCHANGED vars
  BY <1>1, <1>5 DEF vars
<1>. QED
  BY <1>2, <1>3, <1>4, <1>5 DEF Next, Undefined

(* A step that leaves the semaphore and the places of the threads alone. *)
Aside == UNCHANGED <<semVars, pc, call, arg>>

(* What a step does to the semaphore, whatever it does to the scheduler. *)
LEMMA SemSteps ==
  ASSUME [Next]_vars
  PROVE  \/ Aside
         \/ \E t \in Thread : KernelStep(t) \/ CallWait(t) \/ CallSignal(t)
BY DEF Next, UserStep, Poke, Timer, Undefined, vars, Aside

(* Every step preserves the types. *)
LEMMA NextType == TypeOK /\ [Next]_vars => TypeOK'
<1> SUFFICES ASSUME TypeOK, [Next]_vars PROVE TypeOK'
  OBVIOUS
<1> DEFINE SemType ==
      /\ lock \in {0, 1} /\ owner \in Thread \cup {None}
      /\ count \in Int /\ queue \in Seq(Thread)
      /\ reject \in [Thread -> {0, 1}]
      /\ pc \in [Thread -> Points]
      /\ call \in [Thread -> {"none", "wait", "signal"}]
      /\ arg \in [Thread -> Thread \cup {None}]
<1>1. SchedTypeOK'
  BY NextSched
<1>2. SemType
  BY DEF TypeOK
<1> USE <1>2
<1>3. ASSUME Aside PROVE SemType'
  BY <1>3 DEF Aside, semVars
<1>4. ASSUME NEW t \in Thread, KernelStep(t) PROVE SemType'
  <2> USE DEF Points, LockPoints, WaitPoints, SignalPoints, UnlockPoints, BlockPoints,
              Critical, Goto, semVars
  <2>1. CASE Xchng(t)
    BY <2>1 DEF Xchng
  <2>2. CASE SetOwner(t)
    BY <2>2 DEF SetOwner
  <2>3. CASE ReadOwner(t)
    BY <2>3 DEF ReadOwner
  <2>4. CASE CheckOwner(t)
    BY <2>4 DEF CheckOwner
  <2>5. CASE YieldToOwner(t)
    BY <2>5 DEF YieldToOwner
  <2>6. CASE YieldToAny(t)
    BY <2>6 DEF YieldToAny
  <2>7. CASE ClearOwner(t)
    BY <2>7 DEF ClearOwner
  <2>8. CASE Unlock(t)
    BY <2>8 DEF Unlock
  <2>9. CASE Decrement(t)
    BY <2>9 DEF Decrement
  <2>10. CASE Enqueue(t)
    <3>1. Append(queue, t) \in Seq(Thread)
      BY AppendProperties
    <3>. QED
      BY <2>10, <3>1 DEF Enqueue
  <2>11. CASE TestReject(t)
    BY <2>11 DEF TestReject
  <2>12. CASE XchngReject(t)
    BY <2>12 DEF XchngReject
  <2>13. CASE Block(t)
    BY <2>13 DEF Block
  <2>14. CASE SwitchAway(t)
    BY <2>14 DEF SwitchAway
  <2>15. CASE Increment(t)
    BY <2>15 DEF Increment
  <2>16. CASE Dequeue(t)
    <3>1. CASE queue = <<>>
      BY <2>16, <3>1 DEF Dequeue
    <3>2. CASE queue # <<>>
      <4>1. Head(queue) \in Thread /\ Tail(queue) \in Seq(Thread)
        BY <3>2, HeadTailProperties
      <4>. QED
        BY <2>16, <3>2, <4>1 DEF Dequeue
    <3>. QED
      BY <3>1, <3>2
  <2>17. CASE SetReject(t)
    BY <2>17 DEF SetReject
  <2>18. CASE Wake(t)
    BY <2>18 DEF Wake
  <2>. QED
    BY <1>4, <2>1, <2>2, <2>3, <2>4, <2>5, <2>6, <2>7, <2>8, <2>9, <2>10, <2>11,
       <2>12, <2>13, <2>14, <2>15, <2>16, <2>17, <2>18 DEF KernelStep
<1>5. ASSUME NEW t \in Thread, CallWait(t) \/ CallSignal(t) PROVE SemType'
  <2>1. CASE CallWait(t)
    BY <2>1 DEF CallWait, Goto, Points, LockPoints, semVars
  <2>2. CASE CallSignal(t)
    BY <2>2 DEF CallSignal, Goto, Points, LockPoints, semVars
  <2>. QED
    BY <1>5, <2>1, <2>2
<1>6. SemType'
  BY <1>3, <1>4, <1>5, SemSteps
<1>. QED
  BY <1>1, <1>6 DEF TypeOK, SchedTypeOK

(* The initial state is well typed. *)
LEMMA InitType == Init => TypeOK
<1> SUFFICES ASSUME Init PROVE TypeOK
  OBVIOUS
<1>1. Range(Boot) \subseteq Thread
  BY SemAssumption, RangeOfSeq
<1>2. Boot \in Seq(Thread) /\ <<>> \in Seq(Thread)
  BY SemAssumption
<1>3. count \in Int /\ owner \in Thread \cup {None} /\ lock \in {0, 1}
  BY SemAssumption DEF Init
<1>. QED
  BY <1>1, <1>2, <1>3 DEF Init, SchedInit, TypeOK, Statuses, Lists, Fates, Points, Tcb

(* In every reachable state the variables have their types: in particular  *)
(* no switch is ever unfinished when a thread goes on (tail and via).      *)
THEOREM TypeCorrect == Spec => []TypeOK
<1>. QED
  BY InitType, NextType, PTL DEF Spec

-----------------------------------------------------------------------------
(* The mutex. *)

(* MutualExclusion, and that the owner is forgotten before the unlock. *)
LockInv ==
  /\ MutualExclusion
  /\ owner # None => pc[owner] # "unlock"

(* mutex_lock and mutex_unlock preserve it, and nothing else touches it. *)
LEMMA NextLock == TypeOK /\ LockInv /\ [Next]_vars => LockInv'
<1> SUFFICES ASSUME TypeOK, LockInv, [Next]_vars PROVE LockInv'
  OBVIOUS
<1>1. /\ pc \in [Thread -> Points] /\ lock \in {0, 1} /\ owner \in Thread \cup {None}
      /\ None \notin Thread
  BY SemAssumption DEF TypeOK
<1> USE <1>1 DEF LockInv, MutualExclusion
<1>2. CASE UNCHANGED <<lock, owner, pc>>
  BY <1>2
<1>3. ASSUME NEW t \in Thread, NEW p, pc' = [pc EXCEPT ![t] = p],
             p \in Critical <=> pc[t] \in Critical, p # "unlock",
             UNCHANGED <<lock, owner>>
      PROVE  LockInv'
  BY <1>3
<1>4. ASSUME NEW t \in Thread, KernelStep(t) PROVE LockInv'
  <2> USE DEF LockPoints, WaitPoints, SignalPoints, UnlockPoints, BlockPoints,
              Critical, Goto, At, semVars
  <2>1. CASE Xchng(t)
    BY <2>1 DEF Xchng
  <2>2. CASE SetOwner(t)
    BY <2>2 DEF SetOwner
  <2>3. CASE ReadOwner(t) \/ CheckOwner(t) \/ YieldToOwner(t) \/ YieldToAny(t)
    BY <1>3, <2>3 DEF ReadOwner, CheckOwner, YieldToOwner, YieldToAny
  <2>4. CASE ClearOwner(t)
    BY <2>4 DEF ClearOwner
  <2>5. CASE Unlock(t)
    BY <2>5 DEF Unlock
  <2>6. CASE Decrement(t) \/ Enqueue(t)
    BY <1>3, <2>6 DEF Decrement, Enqueue
  <2>7. CASE TestReject(t) \/ XchngReject(t) \/ Block(t) \/ SwitchAway(t)
    BY <1>3, <2>7 DEF TestReject, XchngReject, Block, SwitchAway
  <2>8. CASE Increment(t) \/ Dequeue(t) \/ SetReject(t) \/ Wake(t)
    BY <1>3, <2>8 DEF Increment, Dequeue, SetReject, Wake
  <2>. QED
    BY <1>4, <2>1, <2>2, <2>3, <2>4, <2>5, <2>6, <2>7, <2>8 DEF KernelStep
<1>5. ASSUME NEW t \in Thread, CallWait(t) \/ CallSignal(t) PROVE LockInv'
  BY <1>3, <1>5 DEF CallWait, CallSignal, At, Goto, semVars, Critical, WaitPoints,
                    SignalPoints, UnlockPoints
<1>. QED
  BY <1>2, <1>4, <1>5, SemSteps DEF Aside, semVars

(* At the start the lock is free. *)
LEMMA InitLock == Init => LockInv
BY SemAssumption DEF Init, LockInv, MutualExclusion, Critical, WaitPoints,
   SignalPoints, UnlockPoints

(* The mutex excludes: at most one thread is between the exchange that     *)
(* takes it and the one that frees it, however the timer and the other     *)
(* threads interleave, and owner is nobody but the holder.                 *)
THEOREM MutualExclusionCorrect == Spec => []MutualExclusion
<1>1. LockInv => MutualExclusion
  BY DEF LockInv
<1>. QED
  BY <1>1, InitType, NextType, InitLock, NextLock, PTL DEF Spec

-----------------------------------------------------------------------------
(* The semaphore. *)

(* Taking the first entry off a queue without repetitions. *)
LEMMA FirstOff ==
  ASSUME NEW S, NEW q \in Seq(S), q # <<>>, IsInjective(q)
  PROVE  /\ Tail(q) \in Seq(S) /\ Head(q) \in S
         /\ Len(Tail(q)) = Len(q) - 1
         /\ IsInjective(Tail(q))
         /\ Range(Tail(q)) \subseteq Range(q)
         /\ Head(q) \in Range(q) /\ Head(q) \notin Range(Tail(q))
<1> DEFINE r == Tail(q)
<1>1. /\ r \in Seq(S) /\ Head(q) \in S /\ Len(r) = Len(q) - 1
      /\ \A i \in 1 .. Len(r) : r[i] = q[i + 1]
  BY HeadTailProperties
<1>2. Len(q) \in Nat \ {0} /\ DOMAIN q = 1 .. Len(q) /\ DOMAIN r = 1 .. Len(r)
  BY <1>1, LenProperties, EmptySeq
<1>3. Head(q) = q[1] /\ 1 \in DOMAIN q
  BY <1>2
<1>4. \A i \in DOMAIN r : r[i] = q[i + 1] /\ i + 1 \in DOMAIN q /\ i + 1 # 1
  BY <1>1, <1>2
<1>5. \A i, j \in DOMAIN q : q[i] = q[j] => i = j
  BY DEF IsInjective
<1>6. \A i, j \in DOMAIN r : i \in Int /\ j \in Int /\ (i + 1 = j + 1 => i = j)
  BY <1>1, <1>2
<1> HIDE DEF r
<1>7. \A i, j \in DOMAIN r : r[i] = r[j] => i = j
  BY <1>4, <1>5, <1>6
<1>8. Range(r) \subseteq Range(q) /\ Head(q) \in Range(q) /\ Head(q) \notin Range(r)
  BY <1>3, <1>4, <1>5 DEF Range
<1>. QED
  BY <1>1, <1>7, <1>8 DEF IsInjective, r

(* QueueIsLive, with what keeps it so.  A thread in the queue that has not *)
(* freed the mutex yet knows that it is to block (arg), and the waiter     *)
(* that a signal is about to release is not in the queue any more.         *)
QueueInv ==
  /\ QueueIsLive
  /\ \A t \in Thread : pc[t] \in WaitPoints => call[t] = "wait"
  /\ \A t \in Range(queue) : pc[t] \in UnlockPoints => arg[t] = t
  /\ \A t \in Thread : pc[t] = "set" => arg[t] \notin Range(queue)

(* A step of t that leaves the queue and the flags of the queue alone, and *)
(* keeps t within the points where the queue may point at it.              *)
LEMMA QueueUntouched ==
  ASSUME TypeOK, QueueInv, NEW t \in Thread, NEW p,
         pc' = [pc EXCEPT ![t] = p], queue' = queue,
         \A s \in Range(queue) : reject'[s] = 0 /\ call'[s] = "wait",
         \A s \in Thread \ {t} : call'[s] = call[s] /\ arg'[s] = arg[s],
         p \in WaitPoints => call'[t] = "wait",
         p = "set" => arg'[t] \notin Range(queue),
         t \in Range(queue) =>
           /\ p \in BlockPoints \cup UnlockPoints
           /\ p \in UnlockPoints => arg'[t] = t
  PROVE  QueueInv'
<1>1. pc \in [Thread -> Points] /\ queue \in Seq(Thread)
  BY DEF TypeOK
<1>2. Range(queue) \subseteq Thread
  BY <1>1, RangeOfSeq
<1>3. \A s \in Thread : pc'[s] = IF s = t THEN p ELSE pc[s]
  BY <1>1
<1>. QED
  BY <1>2, <1>3 DEF QueueInv, QueueIsLive

(* Every step preserves QueueInv. *)
LEMMA NextQueue == TypeOK /\ LockInv /\ QueueInv /\ [Next]_vars => QueueInv'
<1> SUFFICES ASSUME TypeOK, LockInv, QueueInv, [Next]_vars PROVE QueueInv'
  OBVIOUS
<1>1. /\ pc \in [Thread -> Points] /\ queue \in Seq(Thread)
      /\ reject \in [Thread -> {0, 1}]
      /\ call \in [Thread -> {"none", "wait", "signal"}]
      /\ arg \in [Thread -> Thread \cup {None}]
  BY DEF TypeOK
<1>2. Range(queue) \subseteq Thread
  BY <1>1, RangeOfSeq
<1>3. \A s \in Range(queue) :
        /\ reject[s] = 0 /\ call[s] = "wait" /\ pc[s] \in BlockPoints \cup UnlockPoints
        /\ pc[s] \in UnlockPoints => arg[s] = s
  BY DEF QueueInv, QueueIsLive
<1>4. ASSUME Aside PROVE QueueInv'
  BY <1>4 DEF Aside, semVars, QueueInv, QueueIsLive
<1>5. ASSUME NEW t \in Thread, KernelStep(t) PROVE QueueInv'
  <2> USE DEF WaitPoints, UnlockPoints, BlockPoints, Goto, At, semVars
  <2>1. CASE Xchng(t)
    BY <1>1, <1>2, <1>3, <2>1, QueueUntouched DEF Xchng
  <2>2. CASE SetOwner(t)
    BY <1>1, <1>2, <1>3, <2>2, QueueUntouched DEF SetOwner
  <2>3. CASE ReadOwner(t)
    BY <1>1, <1>2, <1>3, <2>3, QueueUntouched DEF ReadOwner
  <2>4. CASE CheckOwner(t)
    BY <1>1, <1>2, <1>3, <2>4, QueueUntouched DEF CheckOwner
  <2>5. CASE YieldToOwner(t)
    BY <1>1, <1>2, <1>3, <2>5, QueueUntouched DEF YieldToOwner
  <2>6. CASE YieldToAny(t)
    BY <1>1, <1>2, <1>3, <2>6, QueueUntouched DEF YieldToAny
  <2>7. CASE ClearOwner(t)
    BY <1>1, <1>2, <1>3, <2>7, QueueUntouched DEF ClearOwner
  <2>8. CASE Unlock(t)
    <3>1. CASE call[t] = "wait" /\ arg[t] = t
      <4>1. /\ pc' = [pc EXCEPT ![t] = "loop"] /\ call' = [call EXCEPT ![t] = "wait"]
            /\ arg' = [arg EXCEPT ![t] = None] /\ UNCHANGED <<queue, reject>>
        BY <2>8, <3>1 DEF Unlock
      <4>. QED
        BY <1>1, <1>2, <1>3, <4>1, QueueUntouched
    <3>2. CASE ~(call[t] = "wait" /\ arg[t] = t)
      <4>1. /\ pc' = [pc EXCEPT ![t] = "out"] /\ call' = [call EXCEPT ![t] = "none"]
            /\ arg' = [arg EXCEPT ![t] = None] /\ UNCHANGED <<queue, reject>>
        BY <2>8, <3>2 DEF Unlock
      <4>2. t \notin Range(queue)
        BY <1>3, <2>8, <3>2 DEF Unlock
      <4>. QED
        BY <1>1, <1>2, <1>3, <4>1, <4>2, QueueUntouched
    <3>. QED
      BY <3>1, <3>2
  <2>9. CASE Decrement(t)
    <3>1. call[t] = "wait"
      BY <2>9 DEF Decrement, QueueInv
    <3>. QED
      BY <1>1, <1>2, <1>3, <2>9, <3>1, QueueUntouched DEF Decrement
  <2>10. CASE Enqueue(t)
    <3>1. /\ pc[t] = "enq" /\ queue' = ll_link_node_last(queue, t)
          /\ reject' = [reject EXCEPT ![t] = 0] /\ arg' = [arg EXCEPT ![t] = t]
          /\ pc' = [pc EXCEPT ![t] = "disown"] /\ call' = call
      BY <2>10 DEF Enqueue, ll_link_node_last
    <3>2. t \notin Range(queue) /\ call[t] = "wait"
      BY <1>3, <3>1 DEF QueueInv
    <3>3. Range(queue') = Range(queue) \cup {t} /\ IsInjective(queue')
      <4>1. IsInjective(queue)
        BY DEF QueueInv, QueueIsLive
      <4>2. /\ Range(ll_link_node_last(queue, t)) = Range(queue) \cup {t}
            /\ IsInjective(ll_link_node_last(queue, t))
        BY <1>1, <3>2, <4>1, LinkNodeLast
      <4>. QED
        BY <3>1, <4>2
    <3>4. \A s \in Thread : pc[s] # "set"
      BY <3>1 DEF LockInv, MutualExclusion, Critical, SignalPoints
    <3>. QED
      BY <1>1, <1>2, <1>3, <3>1, <3>2, <3>3, <3>4 DEF QueueInv, QueueIsLive
  <2>11. CASE TestReject(t)
    BY <1>1, <1>2, <1>3, <2>11, QueueUntouched DEF TestReject
  <2>12. CASE XchngReject(t)
    BY <1>1, <1>2, <1>3, <2>12, QueueUntouched DEF XchngReject
  <2>13. CASE Block(t)
    BY <1>1, <1>2, <1>3, <2>13, QueueUntouched DEF Block
  <2>14. CASE SwitchAway(t)
    BY <1>1, <1>2, <1>3, <2>14, QueueUntouched DEF SwitchAway
  <2>15. CASE Increment(t)
    BY <1>1, <1>2, <1>3, <2>15, QueueUntouched DEF Increment
  <2>16. CASE Dequeue(t) /\ queue = <<>>
    BY <1>1, <1>2, <1>3, <2>16, QueueUntouched DEF Dequeue
  <2>17. CASE Dequeue(t) /\ queue # <<>>
    <3>1. /\ pc[t] = "deq" /\ queue' = Tail(queue)
          /\ arg' = [arg EXCEPT ![t] = Head(queue)]
          /\ pc' = [pc EXCEPT ![t] = "set"] /\ call' = call /\ reject' = reject
      BY <2>17 DEF Dequeue
    <3>2. /\ Tail(queue) \in Seq(Thread) /\ IsInjective(Tail(queue))
          /\ Range(Tail(queue)) \subseteq Range(queue) /\ Head(queue) \notin Range(Tail(queue))
      BY <1>1, <2>17, FirstOff DEF QueueInv, QueueIsLive
    <3>3. t \notin Range(queue)
      BY <1>3, <3>1
    <3>. QED
      BY <1>1, <1>2, <1>3, <3>1, <3>2, <3>3 DEF QueueInv, QueueIsLive
  <2>18. CASE SetReject(t)
    <3>1. /\ pc[t] = "set" /\ reject' = [reject EXCEPT ![arg[t]] = 1]
          /\ pc' = [pc EXCEPT ![t] = "wake"] /\ UNCHANGED <<queue, call, arg>>
      BY <2>18 DEF SetReject
    <3>2. arg[t] \notin Range(queue)
      BY <3>1 DEF QueueInv
    <3>. QED
      BY <1>1, <1>2, <1>3, <3>1, <3>2, QueueUntouched
  <2>19. CASE Wake(t)
    BY <1>1, <1>2, <1>3, <2>19, QueueUntouched DEF Wake
  <2>. QED
    BY <1>5, <2>1, <2>2, <2>3, <2>4, <2>5, <2>6, <2>7, <2>8, <2>9, <2>10, <2>11,
       <2>12, <2>13, <2>14, <2>15, <2>16, <2>17, <2>18, <2>19 DEF KernelStep
<1>6. ASSUME NEW t \in Thread, CallWait(t) \/ CallSignal(t) PROVE QueueInv'
  <2> USE DEF WaitPoints, UnlockPoints, BlockPoints, Goto, At, semVars
  <2>1. CASE CallWait(t)
    BY <1>1, <1>2, <1>3, <2>1, QueueUntouched DEF CallWait
  <2>2. CASE CallSignal(t)
    BY <1>1, <1>2, <1>3, <2>2, QueueUntouched DEF CallSignal
  <2>. QED
    BY <1>6, <2>1, <2>2
<1>. QED
  BY <1>4, <1>5, <1>6, SemSteps

(* At the start the queue is empty. *)
LEMMA InitQueue == Init => QueueInv
<1> SUFFICES ASSUME Init PROVE QueueInv
  OBVIOUS
<1>1. queue = <<>> /\ Range(queue) = {} /\ DOMAIN queue = {}
  BY DEF Init, Range
<1>. QED
  BY <1>1 DEF Init, QueueInv, QueueIsLive, IsInjective, WaitPoints

(* The queue of a semaphore never points at a waiter that has left its     *)
(* sem_wait, whatever make_runnable calls and time slices come between:    *)
(* sem_signal dequeues only metadata that is still on a stack in use.      *)
THEOREM QueueIsLiveCorrect == Spec => []QueueIsLive
<1>1. QueueInv => QueueIsLive
  BY DEF QueueInv
<1>. QED
  BY <1>1, InitType, NextType, InitLock, NextLock, InitQueue, NextQueue, PTL DEF Spec

-----------------------------------------------------------------------------
(* The count. *)

(* The waiters that a count stands for. *)
Waiters(c) == IF c < 0 THEN -c ELSE 0

(* CountMatchesQueue, also while the mutex is held: a waiter that is still *)
(* to enqueue itself, and one that is still to be dequeued, are counted    *)
(* already.                                                                *)
CountInv ==
  /\ \A t \in Thread : pc[t] = "enq" => count < 0 /\ Len(queue) = -count - 1
  /\ \A t \in Thread : pc[t] = "deq" => count <= 0 /\ Len(queue) = 1 - count
  /\ (\A t \in Thread : pc[t] \notin {"enq", "deq"}) => Len(queue) = Waiters(count)

(* A step of the holder of the mutex, at a point of its own. *)
LEMMA HolderAlone ==
  ASSUME LockInv, NEW t \in Thread, pc[t] \in Critical
  PROVE  \A s \in Thread \ {t} : pc[s] \notin {"enq", "deq"}
BY DEF LockInv, MutualExclusion, Critical, WaitPoints, SignalPoints

(* Every step preserves CountInv. *)
LEMMA NextCount == TypeOK /\ LockInv /\ CountInv /\ [Next]_vars => CountInv'
<1> SUFFICES ASSUME TypeOK, LockInv, CountInv, [Next]_vars PROVE CountInv'
  OBVIOUS
<1>1. /\ pc \in [Thread -> Points] /\ queue \in Seq(Thread) /\ count \in Int
  BY DEF TypeOK
<1>2. Len(queue) \in Nat
  BY <1>1, LenProperties
<1>3. ASSUME UNCHANGED <<pc, count, queue>> PROVE CountInv'
  BY <1>3 DEF CountInv
<1>4. ASSUME NEW t \in Thread, NEW p, pc' = [pc EXCEPT ![t] = p],
             pc[t] \notin {"enq", "deq"}, p \notin {"enq", "deq"},
             UNCHANGED <<count, queue>>
      PROVE  CountInv'
  <2>1. \A s \in Thread : pc'[s] = IF s = t THEN p ELSE pc[s]
    BY <1>1, <1>4
  <2>. QED
    BY <1>4, <2>1 DEF CountInv
<1>5. ASSUME NEW t \in Thread, KernelStep(t) PROVE CountInv'
  <2> USE DEF Goto, At, semVars
  <2>1. CASE Xchng(t) \/ SetOwner(t) \/ ReadOwner(t) \/ CheckOwner(t)
    BY <1>4, <2>1 DEF Xchng, SetOwner, ReadOwner, CheckOwner
  <2>2. CASE YieldToOwner(t) \/ YieldToAny(t) \/ ClearOwner(t) \/ Unlock(t)
    BY <1>4, <2>2 DEF YieldToOwner, YieldToAny, ClearOwner, Unlock
  <2>3. CASE TestReject(t) \/ XchngReject(t) \/ Block(t) \/ SwitchAway(t)
    BY <1>4, <2>3 DEF TestReject, XchngReject, Block, SwitchAway
  <2>4. CASE SetReject(t) \/ Wake(t)
    BY <1>4, <2>4 DEF SetReject, Wake
  <2>5. ASSUME pc[t] \in Critical, NEW p, pc' = [pc EXCEPT ![t] = p]
        PROVE  \A s \in Thread : /\ pc'[s] = IF s = t THEN p ELSE pc[s]
                                 /\ s # t => pc[s] \notin {"enq", "deq"}
    BY <1>1, <2>5, HolderAlone
  <2>6. CASE Decrement(t)
    <3>1. /\ pc[t] = "dec" /\ count' = count - 1 /\ queue' = queue
          /\ pc' = [pc EXCEPT ![t] = IF count - 1 < 0 THEN "enq" ELSE "disown"]
      BY <2>6 DEF Decrement
    <3>2. pc[t] \in Critical
      BY <3>1 DEF Critical, WaitPoints
    <3>3. Len(queue) = Waiters(count)
      BY <3>1, <3>2, HolderAlone DEF CountInv
    <3>. QED
      BY <1>1, <1>2, <2>5, <3>1, <3>2, <3>3 DEF CountInv, Waiters
  <2>7. CASE Enqueue(t)
    <3>1. /\ pc[t] = "enq" /\ count' = count /\ queue' = Append(queue, t)
          /\ pc' = [pc EXCEPT ![t] = "disown"]
      BY <2>7 DEF Enqueue
    <3>2. pc[t] \in Critical
      BY <3>1 DEF Critical, WaitPoints
    <3>3. count < 0 /\ Len(queue) = -count - 1 /\ Len(queue') = Len(queue) + 1
      BY <1>1, <3>1, AppendProperties DEF CountInv
    <3>4. \A s \in Thread : pc'[s] \notin {"enq", "deq"}
      BY <1>1, <3>1, <3>2, HolderAlone
    <3>5. Len(queue') = Waiters(count')
      BY <1>1, <3>1, <3>3 DEF Waiters
    <3>. QED
      BY <3>4, <3>5 DEF CountInv
  <2>8. CASE Increment(t)
    <3>1. /\ pc[t] = "inc" /\ count' = count + 1 /\ queue' = queue
          /\ pc' = [pc EXCEPT ![t] = IF count + 1 <= 0 THEN "deq" ELSE "disown"]
      BY <2>8 DEF Increment
    <3>2. pc[t] \in Critical
      BY <3>1 DEF Critical, SignalPoints
    <3>3. Len(queue) = Waiters(count)
      BY <3>1, <3>2, HolderAlone DEF CountInv
    <3>. QED
      BY <1>1, <1>2, <2>5, <3>1, <3>2, <3>3 DEF CountInv, Waiters
  <2>9. CASE Dequeue(t)
    <3>1. pc[t] = "deq" /\ count' = count /\ pc[t] \in Critical
      BY <2>9 DEF Dequeue, Critical, SignalPoints
    <3>2. count <= 0 /\ Len(queue) = 1 - count
      BY <3>1 DEF CountInv
    <3>3. queue # <<>>
      BY <1>1, <3>2
    <3>4. queue' = Tail(queue) /\ pc' = [pc EXCEPT ![t] = "set"]
      BY <2>9, <3>3 DEF Dequeue
    <3>5. Len(queue') = Len(queue) - 1
      BY <1>1, <3>3, <3>4, HeadTailProperties
    <3>6. \A s \in Thread : pc'[s] \notin {"enq", "deq"}
      BY <1>1, <3>1, <3>4, HolderAlone
    <3>7. Len(queue') = Waiters(count')
      BY <1>1, <3>1, <3>2, <3>5 DEF Waiters
    <3>. QED
      BY <3>6, <3>7 DEF CountInv
  <2>. QED
    BY <1>5, <2>1, <2>2, <2>3, <2>4, <2>6, <2>7, <2>8, <2>9 DEF KernelStep
<1>6. ASSUME NEW t \in Thread, CallWait(t) \/ CallSignal(t) PROVE CountInv'
  BY <1>4, <1>6 DEF CallWait, CallSignal, At, Goto, semVars
<1>. QED
  BY <1>3, <1>5, <1>6, SemSteps DEF Aside, semVars

(* The semaphore starts with its initial count and nobody in the queue. *)
LEMMA InitCount == Init => CountInv
BY SemAssumption DEF Init, CountInv, Waiters

(* Whenever the mutex is free, the count of a semaphore is negative        *)
(* exactly when threads wait, and is minus their number: no unit is lost   *)
(* and none is given twice, whatever calls overlap.                        *)
THEOREM CountMatchesQueueCorrect == Spec => []CountMatchesQueue
<1>1. LockInv /\ CountInv => CountMatchesQueue
  BY DEF LockInv, MutualExclusion, CountInv, CountMatchesQueue, Waiters, Critical,
         WaitPoints, SignalPoints
<1>. QED
  BY <1>1, InitType, NextType, InitLock, NextLock, InitCount, NextCount, PTL DEF Spec

=============================================================================
