-------------------------- MODULE ThreadCallsProofs --------------------------
(***************************************************************************)
(* Proofs that the properties of ThreadCalls hold for any number of        *)
(* threads, any boot threads and any sleeping times.                       *)
(***************************************************************************)
EXTENDS ThreadCalls, TcbPoolProofs

(* The initial state is well typed. *)
LEMMA InitType == Init => TypeOK
<1> SUFFICES ASSUME Init PROVE TypeOK
  OBVIOUS
<1>1. Range(Boot) \subseteq Thread
  BY ThreadAssumption, RangeOfSeq
<1>2. Boot \in Seq(Thread) /\ <<>> \in Seq(Thread)
  BY ThreadAssumption
<1>. QED
  BY <1>1, <1>2 DEF Init, SchedInit, TypeOK, Statuses, Lists, Fates, Points, Tcb

(* What a voluntary switch does to the types. *)
LEMMA SwitchSafeType ==
  ASSUME TypeOK, NEW t \in Thread, cur = t, NEW tid, context_switch_safe(tid)
  PROVE  /\ pool' \in [Lists -> Seq(Thread)]
         /\ status' \in [Tcb -> Statuses]
         /\ cur' \in Tcb /\ cur' # None
         /\ tail' \in Thread \cup {None}
<1>1. SwitchTarget(pool, tid) \in Tcb
      /\ PoolAfterSwitch(pool, tid) \in [Lists -> Seq(Thread)]
  BY SwitchType DEF TypeOK
<1>2. scheduler_defer_current_tcb \in [Tcb -> Statuses]
  BY DEF TypeOK, scheduler_defer_current_tcb, Statuses
<1>. QED
  BY <1>1, <1>2, ThreadAssumption
     DEF context_switch_safe, context_switch, scheduler_set_running_tcb,
         Statuses, Tcb

(* The timer handler preserves the types. *)
LEMMA TimerType == TypeOK /\ Timer => TypeOK'
<1> SUFFICES ASSUME TypeOK, Timer PROVE TypeOK'
  OBVIOUS
<1>1. /\ c_timer_handler /\ pc' = pc /\ target' = target
  BY DEF Timer, callVars
<1>2. CASE WakeupLoops
  BY <1>1, <1>2 DEF c_timer_handler, TypeOK, Fates, schedVars
<1>3. CASE ~WakeupLoops
  <2> DEFINE v == IF tail = None THEN via ELSE [via EXCEPT ![cur] = Append(@, tail)]
  <2>1. /\ left' = AfterTick /\ threads' = threads
        /\ context_switch(PoolAfterWakeup, None)
        /\ LoadContext(cur', v)
    BY <1>1, <1>3 DEF c_timer_handler
  <2>2. PoolAfterWakeup \in [Lists -> Seq(Thread)]
    BY WakeupType DEF TypeOK
  <2>3. SwitchTarget(PoolAfterWakeup, None) \in Tcb
        /\ PoolAfterSwitch(PoolAfterWakeup, None) \in [Lists -> Seq(Thread)]
    BY <2>2, SwitchType DEF TypeOK
  <2>4. scheduler_defer_current_tcb \in [Tcb -> Statuses]
    BY DEF TypeOK, scheduler_defer_current_tcb, Statuses
  <2>5. /\ pool' \in [Lists -> Seq(Thread)] /\ cur' \in Tcb
        /\ status' \in [Tcb -> Statuses]
    BY <2>1, <2>3, <2>4 DEF context_switch, scheduler_set_running_tcb, Statuses
  <2>6. v \in [Tcb -> Seq(Thread)]
    <3>1. CASE tail = None
      BY <3>1 DEF TypeOK
    <3>2. CASE tail # None
      <4>1. tail \in Thread /\ via \in [Tcb -> Seq(Thread)]
        BY <3>2 DEF TypeOK
      <4>2. \A q \in Seq(Thread) : Append(q, tail) \in Seq(Thread)
        BY <4>1, AppendProperties
      <4>. QED
        BY <3>2, <4>1, <4>2
    <3>. QED
      BY <3>1, <3>2
  <2> HIDE DEF v
  <2>7. tail' \in Thread \cup {None} /\ via' \in [Tcb -> Seq(Thread)] /\ fate' \in Fates
    BY <2>1, <2>5, <2>6, LoadType DEF TypeOK
  <2>8. left' \in [Thread -> Int]
    BY <2>1 DEF AfterTick, TypeOK
  <2>. QED
    BY <1>1, <2>1, <2>5, <2>7, <2>8, ThreadAssumption DEF TypeOK, Tcb
<1>. QED
  BY <1>2, <1>3

(* Every step preserves the types. *)
LEMMA NextType == TypeOK /\ [Next]_vars => TypeOK'
<1> SUFFICES ASSUME TypeOK, [Next]_vars PROVE TypeOK'
  OBVIOUS
<1>1. ASSUME NEW t \in Thread, YieldAny(t) PROVE TypeOK'
  <2>1. cur = t /\ context_switch_safe(None) /\ pc' = pc /\ target' = target
    BY <1>1 DEF YieldAny, At, callVars
  <2>2. UNCHANGED <<threads, left, fate, via>>
    BY <2>1 DEF context_switch_safe
  <2>. QED
    BY <2>1, <2>2, SwitchSafeType DEF TypeOK
<1>2. ASSUME NEW t \in Thread, NEW tid \in Thread, YieldCheck(t, tid) PROVE TypeOK'
  BY <1>2 DEF YieldCheck, Goto, TypeOK, Points, poolVars, schedVars
<1>3. ASSUME NEW t \in Thread, YieldTo(t) PROVE TypeOK'
  <2>1. /\ cur = t /\ context_switch_safe(target[t])
        /\ target' = [target EXCEPT ![t] = None] /\ pc' = [pc EXCEPT ![t] = "user"]
    BY <1>3 DEF YieldTo, At, Goto
  <2>2. UNCHANGED <<threads, left, fate, via>>
    BY <2>1 DEF context_switch_safe
  <2>3. pc' \in [Thread -> Points] /\ target' \in [Thread -> Thread \cup {None}]
    BY <2>1 DEF TypeOK, Points
  <2>. QED
    BY <2>1, <2>2, <2>3, SwitchSafeType DEF TypeOK
<1>4. ASSUME NEW t \in Thread, DescheduleCheck(t) PROVE TypeOK'
  BY <1>4 DEF DescheduleCheck, Goto, TypeOK, Points, poolVars, schedVars
<1>5. ASSUME NEW t \in Thread, Deschedule(t) PROVE TypeOK'
  <2>1. CASE MakeWaitingFails(t)
    BY <1>5, <2>1 DEF Deschedule, Goto, TypeOK, Points, poolVars, schedVars
  <2>2. CASE ~MakeWaitingFails(t)
    <3>1. /\ cur = t /\ scheduler_deschedule_current_safe
          /\ pc' = [pc EXCEPT ![t] = "switch"] /\ target' = target
      BY <1>5, <2>2 DEF Deschedule, At, Goto
    <3>2. /\ MoveNode(t, "runnable", "waiting")
          /\ status' = [status EXCEPT ![t] = "WAITING"]
          /\ UNCHANGED <<threads, left, cur, tail, via>>
      BY <3>1 DEF scheduler_deschedule_current_safe, tcb_pool_make_waiting, schedVars
    <3>3. pool' \in [Lists -> Seq(Thread)] /\ fate' \in Fates
      BY <3>2, MoveNodeType DEF TypeOK, Lists
    <3>4. status' \in [Tcb -> Statuses] /\ pc' \in [Thread -> Points]
      BY <3>1, <3>2 DEF TypeOK, Statuses, Points
    <3>. QED
      BY <3>1, <3>2, <3>3, <3>4 DEF TypeOK
  <2>. QED
    BY <2>1, <2>2
<1>6. ASSUME NEW t \in Thread, NEW ticks \in SleepTicks, Sleep(t, ticks)
      PROVE  TypeOK'
  <2>1. /\ cur = t /\ scheduler_make_current_sleeping_safe(ticks) /\ target' = target
        /\ pc' \in [Thread -> Points]
    BY <1>6 DEF Sleep, At, Goto, TypeOK, Points
  <2>2. /\ status' = [status EXCEPT ![t] = "SLEEPING"]
        /\ left' = [left EXCEPT ![t] = ticks]
        /\ UNCHANGED <<threads, cur, tail, via>>
        /\ \/ UNCHANGED <<pool, fate>>
           \/ tcb_pool_make_sleeping(t, left')
    BY <2>1 DEF scheduler_make_current_sleeping_safe, schedVars
  <2>3. status' \in [Tcb -> Statuses] /\ left' \in [Thread -> Int]
    <3>1. ticks \in Int
      BY ThreadAssumption
    <3>2. status' \in [Tcb -> Statuses]
      BY <2>2 DEF TypeOK, Statuses
    <3>3. left' \in [Thread -> Int]
      BY <2>2, <3>1 DEF TypeOK
    <3>. QED
      BY <3>2, <3>3
  <2>4. pool' \in [Lists -> Seq(Thread)] /\ fate' \in Fates
    <3>1. CASE UNCHANGED <<pool, fate>>
      BY <3>1 DEF TypeOK
    <3>2. CASE In("runnable", t) /\ tcb_pool_make_sleeping(t, left')
      <4>1. pool["runnable"] \in Seq(Thread) /\ pool["sleeping"] \in Seq(Thread)
        BY DEF TypeOK, Lists
      <4>2. ll_unlink_node(pool["runnable"], t) \in Seq(Thread)
        BY <3>2, <4>1, UnlinkNode DEF In
      <4>3. ll_link_node_sorted(pool["sleeping"], t, left') \in Seq(Thread)
        BY <4>1, LinkNodeSorted
      <4>. QED
        BY <3>2, <4>2, <4>3 DEF TypeOK, tcb_pool_make_sleeping
    <3>3. CASE ~In("runnable", t) /\ tcb_pool_make_sleeping(t, left')
      BY <3>3 DEF TypeOK, tcb_pool_make_sleeping, Fates
    <3>. QED
      BY <2>2, <3>1, <3>2, <3>3
  <2>. QED
    BY <2>1, <2>2, <2>3, <2>4 DEF TypeOK
<1>7. ASSUME NEW t \in Thread, SwitchAway(t) PROVE TypeOK'
  <2>1. /\ cur = t /\ context_switch_safe(None) /\ target' = target
        /\ pc' \in [Thread -> Points]
    BY <1>7 DEF SwitchAway, At, Goto, TypeOK, Points
  <2>2. UNCHANGED <<threads, left, fate, via>>
    BY <2>1 DEF context_switch_safe
  <2>. QED
    BY <2>1, <2>2, SwitchSafeType DEF TypeOK
<1>8. ASSUME NEW t \in Thread, NEW tid \in Thread, MakeRunnable(t, tid)
      PROVE  TypeOK'
  <2>1. /\ MoveNode(tid, SuspendedIn(tid), "runnable")
        /\ left' = [left EXCEPT ![tid] = 0]
        /\ status' = [status EXCEPT ![tid] = "RUNNABLE"]
        /\ UNCHANGED <<threads, cur, tail, via, pc, target>>
    BY <1>8 DEF MakeRunnable, scheduler_make_runnable_safe, tcb_pool_make_runnable,
                schedVars, callVars
  <2>2. SuspendedIn(tid) \in Lists /\ "runnable" \in Lists
    BY DEF SuspendedIn, Lists
  <2>3. pool' \in [Lists -> Seq(Thread)] /\ fate' \in Fates
    BY <2>1, <2>2, MoveNodeType DEF TypeOK
  <2>4. left' \in [Thread -> Int] /\ status' \in [Tcb -> Statuses]
    <3>1. status' \in [Tcb -> Statuses]
      BY <2>1 DEF TypeOK, Statuses
    <3>2. left' \in [Thread -> Int]
      BY <2>1 DEF TypeOK
    <3>. QED
      BY <3>1, <3>2
  <2>. QED
    BY <2>1, <2>3, <2>4 DEF TypeOK
<1>9. ASSUME NEW t \in Thread, NEW new \in Thread, ThreadFork(t, new) PROVE TypeOK'
  <2>1. /\ threads' = threads \cup {new}
        /\ status' = [status EXCEPT ![new] = "RUNNABLE"]
        /\ pool' = [pool EXCEPT !["runnable"] = ll_link_node_last(@, new)]
        /\ UNCHANGED <<left, fate, cur, tail, via, pc, target>>
    BY <1>9 DEF ThreadFork, tcb_pool_add_runnable_tcb_safe, schedVars, callVars
  <2>2. ll_link_node_last(pool["runnable"], new) \in Seq(Thread)
    BY LinkNodeLast DEF TypeOK, Lists
  <2>3. pool' \in [Lists -> Seq(Thread)] /\ status' \in [Tcb -> Statuses]
    BY <2>1, <2>2 DEF TypeOK, Statuses
  <2>. QED
    BY <2>1, <2>3 DEF TypeOK
<1>10. CASE Restore
  <2>1. /\ LoadContext(cur, via) /\ cur # None
        /\ UNCHANGED <<threads, status, pool, left, cur, pc, target>>
    BY <1>10 DEF Restore, restore_context, callVars, TypeOK
  <2>2. cur \in Tcb /\ via \in [Tcb -> Seq(Thread)]
    BY <2>1 DEF TypeOK
  <2>3. tail' \in Thread \cup {None} /\ via' \in [Tcb -> Seq(Thread)] /\ fate' \in Fates
    BY <2>1, <2>2, LoadType DEF TypeOK
  <2>. QED
    BY <2>1, <2>3 DEF TypeOK
<1>11. CASE Timer
  BY <1>11, TimerType
<1>12. CASE UNCHANGED vars
  BY <1>12 DEF vars, poolVars, schedVars, callVars, TypeOK
<1>. QED
  BY <1>1, <1>2, <1>3, <1>4, <1>5, <1>6, <1>7, <1>8, <1>9, <1>10, <1>11, <1>12
     DEF Next, ThreadStep, Undefined

(* In every reachable state the variables have their types. *)
THEOREM TypeCorrect == Spec => []TypeOK
<1>1. Init => TypeOK
  BY InitType
<1>2. TypeOK /\ [Next]_vars => TypeOK'
  BY NextType
<1>. QED
  BY <1>1, <1>2, PTL DEF Spec

-----------------------------------------------------------------------------
(* A switch leaves the lists a partition. *)
LEMMA SwitchPartitioned ==
  ASSUME NEW p \in [Lists -> Seq(Thread)], NEW T, Partitioned(p, T), NEW tid
  PROVE  Partitioned(PoolAfterSwitch(p, tid), T)
<1> DEFINE s == p["runnable"]
<1>1. s \in Seq(Thread) /\ IsInjective(s) /\ "runnable" \in Lists
  BY DEF Lists, Partitioned
<1> HIDE DEF s
<1>2. /\ ll_rotate(s) \in Seq(Thread) /\ IsInjective(ll_rotate(s))
      /\ Range(ll_rotate(s)) = Range(s)
  BY <1>1, Rotate
<1>3. Partitioned([p EXCEPT !["runnable"] = ll_rotate(s)], T)
  BY <1>1, <1>2, ReorderPartitioned DEF s
<1>. QED
  BY <1>3 DEF PoolAfterSwitch, s

(* So does moving a node, be it to the list it should go to or not. *)
LEMMA MoveNodeKeepsPartition ==
  ASSUME TypeOK, PoolsPartition, NEW t \in Thread,
         NEW l \in Lists, NEW m \in Lists, l # m,
         MoveNode(t, l, m), threads' = threads
  PROVE  PoolsPartition'
<1>1. CASE ~In(l, t)
  BY <1>1 DEF MoveNode, PoolsPartition
<1>2. CASE In(l, t)
  <2> DEFINE b == ll_link_node_last(pool[m], t)
  <2>1. pool \in [Lists -> Seq(Thread)] /\ pool[m] \in Seq(Thread)
    BY DEF TypeOK
  <2>2. /\ b \in Seq(Thread) /\ Range(b) = Range(pool[m]) \cup {t}
        /\ t \notin Range(pool[m]) /\ IsInjective(pool[m]) => IsInjective(b)
    BY <2>1, LinkNodeLast
  <2>3. pool' = [pool EXCEPT ![l] = ll_unlink_node(@, t), ![m] = b]
    BY <1>2 DEF MoveNode
  <2> HIDE DEF b
  <2>4. Partitioned([pool EXCEPT ![l] = ll_unlink_node(@, t), ![m] = b], threads)
    BY <1>2, <2>1, <2>2, MoveNodePartitioned DEF In, PoolsPartition
  <2>. QED
    BY <2>3, <2>4 DEF PoolsPartition
<1>. QED
  BY <1>1, <1>2

(* ... going to sleep, which links the node in order ... *)
LEMMA SleepKeepsPartition ==
  ASSUME TypeOK, PoolsPartition, NEW t \in Thread, NEW due,
         tcb_pool_make_sleeping(t, due), threads' = threads
  PROVE  PoolsPartition'
<1>1. CASE ~In("runnable", t)
  BY <1>1 DEF tcb_pool_make_sleeping, PoolsPartition
<1>2. CASE In("runnable", t)
  <2> DEFINE b == ll_link_node_sorted(pool["sleeping"], t, due)
  <2>1. pool \in [Lists -> Seq(Thread)] /\ pool["sleeping"] \in Seq(Thread)
        /\ "runnable" \in Lists /\ "sleeping" \in Lists
    BY DEF TypeOK, Lists
  <2>2. /\ b \in Seq(Thread) /\ Range(b) = Range(pool["sleeping"]) \cup {t}
        /\ t \notin Range(pool["sleeping"]) /\ IsInjective(pool["sleeping"])
             => IsInjective(b)
    BY <2>1, LinkNodeSorted
  <2>3. pool' = [pool EXCEPT !["runnable"] = ll_unlink_node(@, t), !["sleeping"] = b]
    BY <1>2 DEF tcb_pool_make_sleeping
  <2> HIDE DEF b
  <2>4. Partitioned([pool EXCEPT !["runnable"] = ll_unlink_node(@, t),
                                 !["sleeping"] = b], threads)
    BY <1>2, <2>1, <2>2, MoveNodePartitioned DEF In, PoolsPartition
  <2>. QED
    BY <2>3, <2>4 DEF PoolsPartition
<1>. QED
  BY <1>1, <1>2

(* ... a new thread, whose tid no other has ... *)
LEMMA ForkKeepsPartition ==
  ASSUME TypeOK, PoolsPartition, NEW new \in Thread, new \notin threads,
         tcb_pool_add_runnable_tcb_safe(new)
  PROVE  PoolsPartition'
<1> DEFINE b == ll_link_node_last(pool["runnable"], new)
<1>1. pool \in [Lists -> Seq(Thread)] /\ pool["runnable"] \in Seq(Thread)
  BY DEF TypeOK, Lists
<1>2. \A l \in Lists : new \notin Range(pool[l])
  BY DEF PoolsPartition, Partitioned
<1>3. IsInjective(pool["runnable"]) /\ new \notin Range(pool["runnable"])
  BY <1>2 DEF PoolsPartition, Partitioned, Lists
<1>4. IsInjective(b) /\ Range(b) = Range(pool["runnable"]) \cup {new}
  BY <1>1, <1>3, LinkNodeLast
<1>5. threads' = threads \cup {new} /\ pool' = [pool EXCEPT !["runnable"] = b]
  BY DEF tcb_pool_add_runnable_tcb_safe
<1> HIDE DEF b
<1>6. \A l \in Lists : pool'[l] = IF l = "runnable" THEN b ELSE pool[l]
  BY <1>1, <1>5
<1>7. \A l \in Lists : IsInjective(pool'[l])
  BY <1>4, <1>6 DEF PoolsPartition, Partitioned
<1>8. \A l \in Lists : Range(pool'[l]) =
         IF l = "runnable" THEN Range(pool[l]) \cup {new} ELSE Range(pool[l])
  BY <1>4, <1>6
<1>9. \A l, m \in Lists : l # m => Range(pool'[l]) \cap Range(pool'[m]) = {}
  <2>1. SUFFICES ASSUME NEW l \in Lists, NEW m \in Lists, l # m,
                        NEW x, x \in Range(pool'[l]), x \in Range(pool'[m])
                 PROVE  FALSE
    OBVIOUS
  <2>2. ~(x \in Range(pool[l]) /\ x \in Range(pool[m]))
    BY <2>1 DEF PoolsPartition, Partitioned
  <2>. QED
    BY <1>2, <1>8, <2>1, <2>2
<1>10. threads' = {t \in Thread : \E l \in Lists : t \in Range(pool'[l])}
  <2>1. \A x : (\E l \in Lists : x \in Range(pool'[l]))
                 <=> (x = new \/ \E l \in Lists : x \in Range(pool[l]))
    BY <1>8 DEF Lists
  <2>2. threads = {t \in Thread : \E l \in Lists : t \in Range(pool[l])}
    BY DEF PoolsPartition, Partitioned
  <2>. QED
    BY <1>5, <2>1, <2>2
<1>. QED
  BY <1>7, <1>9, <1>10 DEF PoolsPartition, Partitioned

(* ... and the timer. *)
LEMMA TimerKeepsPartition ==
  ASSUME TypeOK, PoolsPartition, c_timer_handler
  PROVE  PoolsPartition'
<1>1. CASE WakeupLoops
  BY <1>1 DEF c_timer_handler, PoolsPartition
<1>2. CASE ~WakeupLoops
  <2> DEFINE s == pool["sleeping"]
             n == NumDue(s, AfterTick)
             d == SubSeq(s, 1, n)
             a == SubSeq(s, n + 1, Len(s))
  <2>1. pool \in [Lists -> Seq(Thread)] /\ s \in Seq(Thread)
    BY DEF TypeOK, Lists
  <2>2. /\ n \in 0..Len(s)
        /\ PoolAfterWakeup = [pool EXCEPT !["sleeping"] = a,
                                          !["runnable"] = pool["runnable"] \o d]
    BY <2>1, WakeupLists
  <2>3. d \in Seq(Thread) /\ a \in Seq(Thread) /\ s = d \o a
    <3> HIDE DEF n, s
    <3>. QED
      BY <2>1, <2>2, SplitList
  <2> HIDE DEF d, a, n
  <2>4. PoolAfterWakeup \in [Lists -> Seq(Thread)]
        /\ Partitioned(PoolAfterWakeup, threads)
    BY <2>1, <2>2, <2>3, WakeupPartitioned DEF PoolsPartition
  <2>5. pool' = PoolAfterSwitch(PoolAfterWakeup, None) /\ threads' = threads
    BY <1>2 DEF c_timer_handler, context_switch
  <2>. QED
    BY <2>4, <2>5, SwitchPartitioned DEF PoolsPartition
<1>. QED
  BY <1>1, <1>2

(* The boot threads are each in the runnable list, once. *)
LEMMA InitPartition == Init => PoolsPartition
<1> SUFFICES ASSUME Init PROVE PoolsPartition
  OBVIOUS
<1>1. pool["runnable"] = Boot /\ pool["waiting"] = <<>> /\ pool["sleeping"] = <<>>
  BY DEF Init, SchedInit, Lists
<1>2. threads = Range(Boot) /\ Range(Boot) \subseteq Thread
  BY ThreadAssumption, RangeOfSeq DEF Init, SchedInit
<1>3. Range(<<>>) = {} /\ IsInjective(<<>>)
  BY DEF Range, IsInjective
<1>4. \A l \in Lists : IsInjective(pool[l])
  BY <1>1, <1>3, ThreadAssumption DEF Lists
<1>5. \A l \in Lists : Range(pool[l]) = IF l = "runnable" THEN Range(Boot) ELSE {}
  BY <1>1, <1>3 DEF Lists
<1>6. \A l, m \in Lists : l # m => Range(pool[l]) \cap Range(pool[m]) = {}
  BY <1>5
<1>7. threads = {t \in Thread : \E l \in Lists : t \in Range(pool[l])}
  BY <1>2, <1>5 DEF Lists
<1>. QED
  BY <1>4, <1>6, <1>7 DEF PoolsPartition, Partitioned

(* Every step keeps the partition. *)
LEMMA NextPartition == TypeOK /\ PoolsPartition /\ [Next]_vars => PoolsPartition'
<1> SUFFICES ASSUME TypeOK, PoolsPartition, [Next]_vars PROVE PoolsPartition'
  OBVIOUS
<1>1. ASSUME NEW tid, context_switch_safe(tid) PROVE PoolsPartition'
  <2>1. pool' = PoolAfterSwitch(pool, tid) /\ threads' = threads
    BY <1>1 DEF context_switch_safe, context_switch
  <2>2. Partitioned(PoolAfterSwitch(pool, tid), threads)
    BY SwitchPartitioned DEF TypeOK, PoolsPartition
  <2>. QED
    BY <2>1, <2>2 DEF PoolsPartition
<1>2. ASSUME NEW t \in Thread, YieldAny(t) \/ YieldTo(t) \/ SwitchAway(t)
      PROVE  PoolsPartition'
  BY <1>1, <1>2 DEF YieldAny, YieldTo, SwitchAway
<1>3. ASSUME NEW t \in Thread, Deschedule(t) PROVE PoolsPartition'
  <2>1. CASE MakeWaitingFails(t)
    BY <1>3, <2>1 DEF Deschedule, poolVars, PoolsPartition
  <2>2. CASE ~MakeWaitingFails(t)
    <3>1. MoveNode(t, "runnable", "waiting") /\ threads' = threads
      BY <1>3, <2>2 DEF Deschedule, At, scheduler_deschedule_current_safe,
                        tcb_pool_make_waiting
    <3>. QED
      BY <3>1, MoveNodeKeepsPartition DEF Lists
  <2>. QED
    BY <2>1, <2>2
<1>4. ASSUME NEW t \in Thread, NEW ticks \in SleepTicks, Sleep(t, ticks)
      PROVE  PoolsPartition'
  <2>1. /\ threads' = threads
        /\ UNCHANGED pool \/ tcb_pool_make_sleeping(t, left')
    BY <1>4 DEF Sleep, At, scheduler_make_current_sleeping_safe
  <2>. QED
    BY <2>1, SleepKeepsPartition DEF PoolsPartition
<1>5. ASSUME NEW t \in Thread, NEW tid \in Thread, MakeRunnable(t, tid)
      PROVE  PoolsPartition'
  <2>1. MoveNode(tid, SuspendedIn(tid), "runnable") /\ threads' = threads
    BY <1>5 DEF MakeRunnable, scheduler_make_runnable_safe, tcb_pool_make_runnable
  <2>2. /\ SuspendedIn(tid) \in Lists /\ "runnable" \in Lists
        /\ SuspendedIn(tid) # "runnable"
    BY DEF SuspendedIn, Lists
  <2>. QED
    BY <2>1, <2>2, MoveNodeKeepsPartition
<1>6. ASSUME NEW t \in Thread, NEW new \in Thread, ThreadFork(t, new)
      PROVE  PoolsPartition'
  BY <1>6, ForkKeepsPartition DEF ThreadFork
<1>7. CASE Timer
  BY <1>7, TimerKeepsPartition DEF Timer
<1>8. ASSUME UNCHANGED <<threads, pool>> PROVE PoolsPartition'
  BY <1>8 DEF PoolsPartition
<1>9. ASSUME NEW t \in Thread, NEW tid \in Thread,
             YieldCheck(t, tid) \/ DescheduleCheck(t)
      PROVE  PoolsPartition'
  BY <1>8, <1>9 DEF YieldCheck, DescheduleCheck, poolVars
<1>10. CASE Restore
  BY <1>8, <1>10 DEF Restore, restore_context
<1>11. CASE UNCHANGED vars
  BY <1>8, <1>11 DEF vars, poolVars
<1>. QED
  BY <1>2, <1>3, <1>4, <1>5, <1>6, <1>7, <1>9, <1>10, <1>11
     DEF Next, ThreadStep, Undefined

(* The three lists always hold every thread of the hash table exactly once, *)
(* for any number of threads and any interleaving of their calls.           *)
THEOREM PartitionCorrect == Spec => []PoolsPartition
<1>1. Init => TypeOK /\ PoolsPartition
  BY InitType, InitPartition
<1>2. TypeOK /\ PoolsPartition /\ [Next]_vars => (TypeOK /\ PoolsPartition)'
  BY NextType, NextPartition
<1>. QED
  BY <1>1, <1>2, PTL DEF Spec

-----------------------------------------------------------------------------
(* Only the thread that a switch sets running is RUNNING after it. *)
LEMMA SetRunningAlone ==
  ASSUME TypeOK, OnlyCurrentRuns, NEW n \in Tcb, scheduler_set_running_tcb(n)
  PROVE  OnlyCurrentRuns'
<1>1. cur' = n /\ status' = [scheduler_defer_current_tcb EXCEPT ![n] = "RUNNING"]
  BY DEF scheduler_set_running_tcb
<1>2. /\ scheduler_defer_current_tcb \in [Tcb -> Statuses]
      /\ \A t \in Tcb : scheduler_defer_current_tcb[t] # "RUNNING"
  <2>1. CASE cur # None /\ status[cur] = "RUNNING"
    BY <2>1 DEF scheduler_defer_current_tcb, TypeOK, Statuses, OnlyCurrentRuns
  <2>2. CASE ~(cur # None /\ status[cur] = "RUNNING")
    BY <2>2, ThreadAssumption
       DEF scheduler_defer_current_tcb, TypeOK, OnlyCurrentRuns, Tcb
  <2>. QED
    BY <2>1, <2>2
<1>. QED
  BY <1>1, <1>2 DEF OnlyCurrentRuns

(* Every step leaves at most the current thread RUNNING. *)
LEMMA NextOnlyCurrent == TypeOK /\ OnlyCurrentRuns /\ [Next]_vars => OnlyCurrentRuns'
<1> SUFFICES ASSUME TypeOK, OnlyCurrentRuns, [Next]_vars PROVE OnlyCurrentRuns'
  OBVIOUS
<1>1. ASSUME NEW tid, context_switch_safe(tid) PROVE OnlyCurrentRuns'
  <2>1. SwitchTarget(pool, tid) \in Tcb
    BY SwitchType DEF TypeOK
  <2>. QED
    BY <1>1, <2>1, SetRunningAlone DEF context_switch_safe, context_switch
<1>2. ASSUME NEW t \in Thread, YieldAny(t) \/ YieldTo(t) \/ SwitchAway(t)
      PROVE  OnlyCurrentRuns'
  BY <1>1, <1>2 DEF YieldAny, YieldTo, SwitchAway
<1>3. CASE Timer
  <2>1. CASE WakeupLoops
    BY <1>3, <2>1 DEF Timer, c_timer_handler, schedVars, OnlyCurrentRuns
  <2>2. CASE ~WakeupLoops
    <3>1. scheduler_set_running_tcb(SwitchTarget(PoolAfterWakeup, None))
      BY <1>3, <2>2 DEF Timer, c_timer_handler, context_switch
    <3>2. SwitchTarget(PoolAfterWakeup, None) \in Tcb
      BY WakeupType, SwitchType DEF TypeOK
    <3>. QED
      BY <3>1, <3>2, SetRunningAlone
  <2>. QED
    BY <2>1, <2>2
<1>4. ASSUME NEW x \in Tcb, NEW st, st # "RUNNING",
             status' = [status EXCEPT ![x] = st], cur' = cur
      PROVE  OnlyCurrentRuns'
  BY <1>4 DEF TypeOK, OnlyCurrentRuns
<1>5. ASSUME NEW t \in Thread, Deschedule(t) PROVE OnlyCurrentRuns'
  BY <1>4, <1>5 DEF Deschedule, At, scheduler_deschedule_current_safe, poolVars,
                    schedVars, OnlyCurrentRuns, Tcb
<1>6. ASSUME NEW t \in Thread, NEW ticks \in SleepTicks, Sleep(t, ticks)
      PROVE  OnlyCurrentRuns'
  BY <1>4, <1>6 DEF Sleep, At, scheduler_make_current_sleeping_safe, schedVars, Tcb
<1>7. ASSUME NEW t \in Thread, NEW tid \in Thread, MakeRunnable(t, tid)
      PROVE  OnlyCurrentRuns'
  BY <1>4, <1>7 DEF MakeRunnable, scheduler_make_runnable_safe, schedVars, Tcb
<1>8. ASSUME NEW t \in Thread, NEW new \in Thread, ThreadFork(t, new)
      PROVE  OnlyCurrentRuns'
  BY <1>4, <1>8 DEF ThreadFork, tcb_pool_add_runnable_tcb_safe, schedVars, Tcb
<1>9. ASSUME UNCHANGED <<status, cur>> PROVE OnlyCurrentRuns'
  BY <1>9 DEF OnlyCurrentRuns
<1>10. ASSUME NEW t \in Thread, NEW tid \in Thread,
              YieldCheck(t, tid) \/ DescheduleCheck(t)
       PROVE  OnlyCurrentRuns'
  BY <1>9, <1>10 DEF YieldCheck, DescheduleCheck, poolVars, schedVars
<1>11. CASE Restore
  BY <1>9, <1>11 DEF Restore, restore_context
<1>12. CASE UNCHANGED vars
  BY <1>9, <1>12 DEF vars, poolVars, schedVars
<1>. QED
  BY <1>2, <1>3, <1>5, <1>6, <1>7, <1>8, <1>10, <1>11, <1>12
     DEF Next, ThreadStep, Undefined

(* Whatever thread is switched to, by whichever call, no other is RUNNING. *)
THEOREM OnlyCurrentCorrect == Spec => []OnlyCurrentRuns
<1>1. Init => TypeOK /\ OnlyCurrentRuns
  <2>1. Init => OnlyCurrentRuns
    BY DEF Init, SchedInit, OnlyCurrentRuns
  <2>. QED
    BY <2>1, InitType
<1>2. TypeOK /\ OnlyCurrentRuns /\ [Next]_vars => (TypeOK /\ OnlyCurrentRuns)'
  BY NextType, NextOnlyCurrent
<1>. QED
  BY <1>1, <1>2, PTL DEF Spec

-----------------------------------------------------------------------------
(* If a switch picks a thread of the list, the list is not empty. *)
LEMMA PickedFromList ==
  ASSUME NEW p \in [Lists -> Seq(Thread)], SwitchTarget(p, None) \in Thread
  PROVE  PoolAfterSwitch(p, None)["runnable"] # <<>>
<1> DEFINE s == p["runnable"]
<1>1. s \in Seq(Thread)
  BY DEF Lists
<1>2. s # <<>>
  BY ThreadAssumption DEF SwitchTarget, scheduler_get_next_tcb
<1>3. PoolAfterSwitch(p, None)["runnable"] = ll_rotate(s)
  BY DEF PoolAfterSwitch, Lists
<1> HIDE DEF s
<1>. QED
  BY <1>1, <1>2, <1>3, Rotate

(* The runnable list does not become empty behind a thread's back. *)
LEMMA NextCallerNotAlone == TypeOK /\ CallerNotAlone /\ [Next]_vars => CallerNotAlone'
<1> SUFFICES ASSUME TypeOK, CallerNotAlone, [Next]_vars PROVE CallerNotAlone'
  OBVIOUS
<1>1. ASSUME context_switch_safe(None) PROVE CallerNotAlone'
  <2>1. /\ pool' = PoolAfterSwitch(pool, None)
        /\ cur' = SwitchTarget(pool, None)
    BY <1>1 DEF context_switch_safe, context_switch, scheduler_set_running_tcb
  <2>. QED
    BY <2>1, PickedFromList DEF TypeOK, CallerNotAlone
<1>2. ASSUME NEW t \in Thread, YieldAny(t) \/ SwitchAway(t) PROVE CallerNotAlone'
  BY <1>1, <1>2 DEF YieldAny, SwitchAway
<1>3. ASSUME NEW t \in Thread, YieldTo(t) PROVE CallerNotAlone'
  <2>1. CASE target[t] = None
    BY <1>1, <1>3, <2>1 DEF YieldTo
  <2>2. CASE target[t] # None
    <3>1. pool' = pool /\ pool["runnable"] # <<>>
      BY <1>3, <2>2 DEF YieldTo, At, context_switch_safe, context_switch,
                        PoolAfterSwitch, CallerNotAlone
    <3>. QED
      BY <3>1 DEF CallerNotAlone
  <2>. QED
    BY <2>1, <2>2
<1>4. ASSUME NEW t \in Thread, Deschedule(t) PROVE CallerNotAlone'
  <2>1. CASE MakeWaitingFails(t)
    BY <1>4, <2>1 DEF Deschedule, At, Goto, poolVars, schedVars, CallerNotAlone
  <2>2. CASE ~MakeWaitingFails(t)
    <3>1. cur = t /\ cur' = cur /\ pc' = [pc EXCEPT ![t] = "switch"]
      BY <1>4, <2>2 DEF Deschedule, At, Goto, scheduler_deschedule_current_safe,
                        schedVars
    <3>. QED
      BY <3>1 DEF CallerNotAlone, TypeOK
  <2>. QED
    BY <2>1, <2>2
<1>5. ASSUME NEW t \in Thread, NEW ticks \in SleepTicks, Sleep(t, ticks)
      PROVE  CallerNotAlone'
  <2>1. cur = t /\ cur' = cur /\ pool["runnable"] # <<>>
    BY <1>5 DEF Sleep, At, scheduler_make_current_sleeping_safe, schedVars,
                CallerNotAlone
  <2>2. pc' = [pc EXCEPT ![t] = "switch"]
    BY <1>5, <2>1 DEF Sleep, Goto, MakeSleepingFails, UnlinkFails
  <2>. QED
    BY <2>1, <2>2 DEF CallerNotAlone, TypeOK
<1>6. ASSUME pc' = pc, cur' = cur,
             pool["runnable"] # <<>> => pool'["runnable"] # <<>>
      PROVE  CallerNotAlone'
  BY <1>6 DEF CallerNotAlone
<1>7. ASSUME NEW t \in Thread, NEW tid \in Thread, MakeRunnable(t, tid)
      PROVE  CallerNotAlone'
  <2>1. /\ MoveNode(tid, SuspendedIn(tid), "runnable")
        /\ pc' = pc /\ cur' = cur
    BY <1>7 DEF MakeRunnable, scheduler_make_runnable_safe, tcb_pool_make_runnable,
                callVars, schedVars
  <2>2. CASE In(SuspendedIn(tid), tid)
    <3>1. SuspendedIn(tid) # "runnable"
      BY DEF SuspendedIn
    <3>2. pool["runnable"] \in Seq(Thread)
      BY DEF TypeOK, Lists
    <3>3. pool'["runnable"] = ll_link_node_last(pool["runnable"], tid)
      BY <2>1, <2>2, <3>1 DEF MoveNode, TypeOK, Lists, SuspendedIn
    <3>. QED
      BY <1>6, <2>1, <3>2, <3>3, LinkNodeLast
  <2>3. CASE ~In(SuspendedIn(tid), tid)
    BY <1>6, <2>1, <2>3 DEF MoveNode
  <2>. QED
    BY <2>2, <2>3
<1>8. ASSUME NEW t \in Thread, NEW new \in Thread, ThreadFork(t, new)
      PROVE  CallerNotAlone'
  <2>1. /\ pool' = [pool EXCEPT !["runnable"] = ll_link_node_last(@, new)]
        /\ pc' = pc /\ cur' = cur
    BY <1>8 DEF ThreadFork, tcb_pool_add_runnable_tcb_safe, callVars, schedVars
  <2>2. pool["runnable"] \in Seq(Thread)
    BY DEF TypeOK, Lists
  <2>3. pool'["runnable"] = ll_link_node_last(pool["runnable"], new)
    BY <2>1 DEF TypeOK, Lists
  <2>. QED
    BY <1>6, <2>1, <2>2, <2>3, LinkNodeLast
<1>9. CASE Timer
  <2>1. CASE WakeupLoops
    BY <1>6, <1>9, <2>1 DEF Timer, c_timer_handler, schedVars, callVars
  <2>2. CASE ~WakeupLoops
    <3>1. /\ pool' = PoolAfterSwitch(PoolAfterWakeup, None)
          /\ cur' = SwitchTarget(PoolAfterWakeup, None)
      BY <1>9, <2>2 DEF Timer, c_timer_handler, context_switch,
                        scheduler_set_running_tcb
    <3>. QED
      BY <3>1, WakeupType, PickedFromList DEF TypeOK, CallerNotAlone
  <2>. QED
    BY <2>1, <2>2
<1>10. ASSUME NEW t \in Thread, NEW tid \in Thread,
              YieldCheck(t, tid) \/ DescheduleCheck(t)
       PROVE  CallerNotAlone'
  BY <1>10 DEF YieldCheck, DescheduleCheck, At, Goto, poolVars, schedVars,
               CallerNotAlone
<1>11. CASE Restore
  BY <1>6, <1>11 DEF Restore, restore_context, callVars
<1>12. CASE UNCHANGED vars
  BY <1>6, <1>12 DEF vars, poolVars, schedVars, callVars
<1>. QED
  BY <1>2, <1>3, <1>4, <1>5, <1>7, <1>8, <1>9, <1>10, <1>11, <1>12
     DEF Next, ThreadStep, Undefined

(* No thread ever finds the runnable list empty when it makes a call, not  *)
(* even one whose own node is in another list.                             *)
THEOREM CallerNotAloneCorrect == Spec => []CallerNotAlone
<1>1. Init => TypeOK /\ CallerNotAlone
  <2>1. Init => CallerNotAlone
    BY ThreadAssumption DEF Init, SchedInit, CallerNotAlone
  <2>. QED
    BY <2>1, InitType
<1>2. TypeOK /\ CallerNotAlone /\ [Next]_vars => (TypeOK /\ CallerNotAlone)'
  BY NextType, NextCallerNotAlone
<1>. QED
  BY <1>1, <1>2, PTL DEF Spec

-----------------------------------------------------------------------------
(* A switch changes the order of the runnable list and nothing else. *)
LEMMA SwitchRanges ==
  ASSUME NEW p \in [Lists -> Seq(Thread)], NEW tid, NEW l \in Lists
  PROVE  /\ Range(PoolAfterSwitch(p, tid)[l]) = Range(p[l])
         /\ l # "runnable" => PoolAfterSwitch(p, tid)[l] = p[l]
<1> DEFINE s == p["runnable"]
<1>1. s \in Seq(Thread)
  BY DEF Lists
<1>2. Range(ll_rotate(s)) = Range(s)
  <2> HIDE DEF s
  <2>. QED
    BY <1>1, Rotate
<1>. QED
  BY <1>2 DEF PoolAfterSwitch

(* Moving a node that is where it should be takes it out of the one list   *)
(* and into the other.                                                     *)
LEMMA MoveNodeRanges ==
  ASSUME TypeOK, PoolsPartition, NEW t \in Thread,
         NEW l \in Lists, NEW m \in Lists, l # m, MoveNode(t, l, m), In(l, t)
  PROVE  /\ Range(pool'[l]) = Range(pool[l]) \ {t}
         /\ Range(pool'[m]) = Range(pool[m]) \cup {t}
         /\ \A k \in Lists : k # l /\ k # m => pool'[k] = pool[k]
         /\ fate' = fate
<1>1. pool[l] \in Seq(Thread) /\ pool[m] \in Seq(Thread)
  BY DEF TypeOK
<1>2. pool' = [pool EXCEPT ![l] = ll_unlink_node(@, t), ![m] = ll_link_node_last(@, t)]
      /\ fate' = fate
  BY DEF MoveNode
<1>3. /\ pool'[l] = ll_unlink_node(pool[l], t)
      /\ pool'[m] = ll_link_node_last(pool[m], t)
      /\ \A k \in Lists : k # l /\ k # m => pool'[k] = pool[k]
  BY <1>2 DEF TypeOK
<1>4. Range(ll_unlink_node(pool[l], t)) = Range(pool[l]) \ {t}
  <2>1. IsInjective(pool[l]) /\ t \in Range(pool[l])
    BY DEF PoolsPartition, Partitioned, In
  <2>. QED
    BY <1>1, <2>1, UnlinkNode
<1>5. Range(ll_link_node_last(pool[m], t)) = Range(pool[m]) \cup {t}
  BY <1>1, LinkNodeLast
<1>. QED
  BY <1>2, <1>3, <1>4, <1>5

(* The timer takes off the sleeping list exactly a prefix of threads that  *)
(* are due, and puts them in the runnable list.                            *)
LEMMA WakeupRanges ==
  ASSUME TypeOK
  PROVE  LET q == PoolAfterWakeup IN
         /\ q["waiting"] = pool["waiting"]
         /\ Range(pool["runnable"]) \subseteq Range(q["runnable"])
         /\ Range(q["sleeping"]) \subseteq Range(pool["sleeping"])
         /\ \A t \in Range(pool["sleeping"]) :
              \/ t \in Range(q["sleeping"])
              \/ t \in Range(q["runnable"]) /\ left[t] = 1
<1> DEFINE s == pool["sleeping"]
           r == pool["runnable"]
           n == NumDue(s, AfterTick)
           d == SubSeq(s, 1, n)
           a == SubSeq(s, n + 1, Len(s))
           q == PoolAfterWakeup
<1>1. s \in Seq(Thread) /\ r \in Seq(Thread) /\ pool \in [Lists -> Seq(Thread)]
  BY DEF TypeOK, Lists
<1>2. /\ n \in 0..Len(s)
      /\ q = [pool EXCEPT !["sleeping"] = a, !["runnable"] = r \o d]
  BY <1>1, WakeupLists
<1>3. q["waiting"] = pool["waiting"] /\ q["sleeping"] = a /\ q["runnable"] = r \o d
  BY <1>1, <1>2 DEF Lists
<1>4. /\ d \in Seq(Thread) /\ a \in Seq(Thread) /\ s = d \o a
  <2> HIDE DEF n, s
  <2>. QED
    BY <1>1, <1>2, SplitList
<1>5. \A i \in 1..n : AfterTick[s[i]] = 0
  <2> HIDE DEF s
  <2>. QED
    BY <1>1, DuePrefix
<1>6. ASSUME NEW t \in Range(d) PROVE left[t] = 1
  <2>1. PICK i \in DOMAIN d : d[i] = t
    BY DEF Range
  <2>2. DOMAIN d = 1..n /\ \A j \in 1..n : d[j] = s[j]
    <3>1. Len(s) \in Nat /\ \A j \in 1..Len(s) : s[j] \in Thread
      BY <1>1, LenProperties, ElementOfSeq
    <3> HIDE DEF s, n
    <3>. QED
      BY <1>2, <1>4, <3>1, SubSeqProperties, LenProperties
  <2>3. t = s[i] /\ i \in 1..n
    BY <2>1, <2>2
  <2>4. i \in DOMAIN s /\ t \in Thread /\ In("sleeping", t)
    <3>1. DOMAIN s = 1..Len(s) /\ Len(s) \in Nat /\ i \in 1..Len(s)
      BY <1>1, <1>2, <2>3, LenProperties
    <3>. QED
      BY <1>1, <2>3, <3>1, ElementOfSeq DEF In, Range
  <2>5. AfterTick[t] = 0
    BY <1>5, <2>3
  <2>6. AfterTick[t] = left[t] - 1 /\ left[t] \in Int
    BY <2>4 DEF AfterTick, TypeOK
  <2>. QED
    BY <2>5, <2>6
<1> HIDE DEF d, a, n, q
<1>7. Range(r \o d) = Range(r) \cup Range(d)
  <2> HIDE DEF r
  <2>. QED
    BY <1>1, <1>4, ConcatRange
<1>8. Range(s) = Range(d) \cup Range(a)
  <2>1. Range(d \o a) = Range(d) \cup Range(a)
    BY <1>4, ConcatRange
  <2> HIDE DEF s
  <2>. QED
    BY <1>4, <2>1
<1>. QED
  BY <1>3, <1>6, <1>7, <1>8 DEF q

-----------------------------------------------------------------------------
(* What the later invariants rest on. *)
Base == TypeOK /\ PoolsPartition /\ CallerNotAlone

(* The base is an invariant. *)
LEMMA BaseCorrect == (Init => Base) /\ (Base /\ [Next]_vars => Base')
<1>1. Init => CallerNotAlone
  BY ThreadAssumption DEF Init, SchedInit, CallerNotAlone
<1>. QED
  BY <1>1, InitType, NextType, InitPartition, NextPartition, NextCallerNotAlone
     DEF Base

(* A switch takes no status to WAITING, SLEEPING or UNINIT. *)
LEMMA SwitchStatus ==
  ASSUME TypeOK, NEW n \in Tcb, scheduler_set_running_tcb(n), NEW t \in Tcb
  PROVE  status'[t] = status[t] \/ status'[t] \in {"RUNNABLE", "RUNNING"}
BY DEF scheduler_set_running_tcb, scheduler_defer_current_tcb, TypeOK

(* A thread is in one list only. *)
LEMMA InOneList ==
  ASSUME PoolsPartition, NEW l \in Lists, NEW m \in Lists, l # m,
         NEW t, In(l, t)
  PROVE  ~In(m, t)
BY DEF PoolsPartition, Partitioned, In

(* Every step keeps a WAITING thread waiting and a SLEEPING one asleep or  *)
(* just woken.                                                             *)
LEMMA NextStatusMatches ==
  Base /\ StatusMatchesPool /\ [Next]_vars => StatusMatchesPool'
<1> SUFFICES ASSUME Base, StatusMatchesPool, [Next]_vars
             PROVE  StatusMatchesPool'
  OBVIOUS
<1> SUFFICES ASSUME fate' = "ok", NEW x \in Thread, x \in threads'
             PROVE  /\ status'[x] # "UNINIT"
                    /\ status'[x] = "WAITING" => In("waiting", x)'
                    /\ status'[x] = "SLEEPING"
                         => In("sleeping", x)' \/ In("runnable", x)'
  <2>1. threads' \subseteq Thread
    BY BaseCorrect DEF Base, TypeOK
  <2>. QED
    BY <2>1 DEF StatusMatchesPool
<1> DEFINE Goal == /\ status'[x] # "UNINIT"
                   /\ status'[x] = "WAITING" => In("waiting", x)'
                   /\ status'[x] = "SLEEPING" => In("sleeping", x)' \/ In("runnable", x)'
<1> USE DEF Base
<1>0. x \in Tcb /\ Lists = {"runnable", "waiting", "sleeping"}
  BY DEF Tcb, Lists
<1>1. ASSUME fate = "ok", x \in threads
      PROVE  /\ status[x] # "UNINIT"
             /\ status[x] = "WAITING" => In("waiting", x)
             /\ status[x] = "SLEEPING" => In("sleeping", x) \/ In("runnable", x)
  BY <1>1 DEF StatusMatchesPool
<1>2. ASSUME fate = "ok", x \in threads, NEW tid, context_switch_safe(tid) PROVE Goal
  <2>1. /\ pool' = PoolAfterSwitch(pool, tid)
        /\ scheduler_set_running_tcb(SwitchTarget(pool, tid))
    BY <1>2 DEF context_switch_safe, context_switch
  <2>2. SwitchTarget(pool, tid) \in Tcb
    BY SwitchType DEF TypeOK
  <2>3. status'[x] = status[x] \/ status'[x] \in {"RUNNABLE", "RUNNING"}
    BY <1>0, <2>1, <2>2, SwitchStatus
  <2>4. \A l \in Lists : Range(pool'[l]) = Range(pool[l])
    BY <2>1, SwitchRanges DEF TypeOK
  <2>. QED
    BY <1>0, <1>1, <1>2, <2>3, <2>4 DEF In
<1>3. ASSUME NEW t \in Thread, YieldAny(t) \/ YieldTo(t) \/ SwitchAway(t) PROVE Goal
  <2>1. fate = "ok" /\ \E tid : context_switch_safe(tid)
    BY <1>3 DEF YieldAny, YieldTo, SwitchAway, At
  <2>2. x \in threads
    BY <2>1 DEF context_switch_safe
  <2>. QED
    BY <1>2, <2>1, <2>2
<1>4. ASSUME UNCHANGED <<threads, status, pool, fate>> PROVE Goal
  BY <1>1, <1>4 DEF In
<1>5. ASSUME NEW t \in Thread, Deschedule(t) PROVE Goal
  <2>1. CASE MakeWaitingFails(t)
    BY <1>4, <1>5, <2>1 DEF Deschedule, poolVars
  <2>2. CASE ~MakeWaitingFails(t)
    <3>1. /\ fate = "ok" /\ threads' = threads
          /\ MoveNode(t, "runnable", "waiting")
          /\ status' = [status EXCEPT ![t] = "WAITING"]
      BY <1>5, <2>2 DEF Deschedule, At, scheduler_deschedule_current_safe,
                        tcb_pool_make_waiting
    <3>2. In("runnable", t)
      BY <3>1 DEF MoveNode
    <3>3. /\ Range(pool'["runnable"]) = Range(pool["runnable"]) \ {t}
          /\ Range(pool'["waiting"]) = Range(pool["waiting"]) \cup {t}
          /\ pool'["sleeping"] = pool["sleeping"]
      BY <1>0, <3>1, <3>2, MoveNodeRanges
    <3>4. status'[x] = IF x = t THEN "WAITING" ELSE status[x]
      BY <1>0, <3>1 DEF TypeOK
    <3>. QED
      BY <1>1, <3>1, <3>3, <3>4 DEF In
  <2>. QED
    BY <2>1, <2>2
<1>6. ASSUME NEW t \in Thread, NEW ticks \in SleepTicks, Sleep(t, ticks) PROVE Goal
  <2>1. /\ fate = "ok" /\ threads' = threads /\ cur = t /\ pc[t] = "user"
        /\ status' = [status EXCEPT ![t] = "SLEEPING"]
        /\ MakeSleepingFails \/ tcb_pool_make_sleeping(t, left')
    BY <1>6 DEF Sleep, At, scheduler_make_current_sleeping_safe
  <2>2. ~MakeSleepingFails
    BY <2>1 DEF MakeSleepingFails, UnlinkFails, CallerNotAlone
  <2>3. tcb_pool_make_sleeping(t, left') /\ In("runnable", t)
    BY <2>1, <2>2 DEF tcb_pool_make_sleeping
  <2>4. pool["runnable"] \in Seq(Thread) /\ pool["sleeping"] \in Seq(Thread)
    BY <1>0 DEF TypeOK
  <2>5. /\ pool'["runnable"] = ll_unlink_node(pool["runnable"], t)
        /\ pool'["sleeping"] = ll_link_node_sorted(pool["sleeping"], t, left')
        /\ pool'["waiting"] = pool["waiting"]
    BY <1>0, <2>3 DEF tcb_pool_make_sleeping, TypeOK
  <2>6. Range(ll_unlink_node(pool["runnable"], t)) = Range(pool["runnable"]) \ {t}
    <3>1. IsInjective(pool["runnable"]) /\ t \in Range(pool["runnable"])
      BY <1>0, <2>3 DEF PoolsPartition, Partitioned, In
    <3>. QED
      BY <2>4, <3>1, UnlinkNode
  <2>7. Range(ll_link_node_sorted(pool["sleeping"], t, left'))
          = Range(pool["sleeping"]) \cup {t}
    BY <2>4, LinkNodeSorted
  <2>8. status'[x] = IF x = t THEN "SLEEPING" ELSE status[x]
    BY <1>0, <2>1 DEF TypeOK
  <2>. QED
    BY <1>1, <2>1, <2>5, <2>6, <2>7, <2>8 DEF In
<1>7. ASSUME NEW t \in Thread, NEW tid \in Thread, MakeRunnable(t, tid) PROVE Goal
  <2> DEFINE l == SuspendedIn(tid)
  <2>1. /\ fate = "ok" /\ threads' = threads /\ MoveNode(tid, l, "runnable")
        /\ status' = [status EXCEPT ![tid] = "RUNNABLE"]
    BY <1>7 DEF MakeRunnable, At, scheduler_make_runnable_safe, tcb_pool_make_runnable
  <2>2. l \in Lists /\ l # "runnable" /\ In(l, tid)
    BY <1>0, <2>1 DEF SuspendedIn, MoveNode
  <2> HIDE DEF l
  <2>3. /\ Range(pool'[l]) = Range(pool[l]) \ {tid}
        /\ Range(pool'["runnable"]) = Range(pool["runnable"]) \cup {tid}
        /\ \A k \in Lists : k # l /\ k # "runnable" => pool'[k] = pool[k]
    BY <1>0, <2>1, <2>2, MoveNodeRanges
  <2>4. status'[x] = IF x = tid THEN "RUNNABLE" ELSE status[x]
    BY <1>0, <2>1 DEF TypeOK
  <2>5. x # tid => \A k \in Lists : In(k, x) => In(k, x)'
    BY <1>0, <2>2, <2>3 DEF In
  <2>. QED
    BY <1>0, <1>1, <2>1, <2>4, <2>5
<1>8. ASSUME NEW t \in Thread, NEW new \in Thread, ThreadFork(t, new) PROVE Goal
  <2>1. /\ fate = "ok" /\ threads' = threads \cup {new}
        /\ status' = [status EXCEPT ![new] = "RUNNABLE"]
        /\ pool' = [pool EXCEPT !["runnable"] = ll_link_node_last(@, new)]
    BY <1>8 DEF ThreadFork, At, tcb_pool_add_runnable_tcb_safe
  <2>2. /\ pool["runnable"] \in Seq(Thread)
        /\ pool'["runnable"] = ll_link_node_last(pool["runnable"], new)
        /\ pool'["waiting"] = pool["waiting"] /\ pool'["sleeping"] = pool["sleeping"]
    BY <1>0, <2>1 DEF TypeOK
  <2>3. Range(ll_link_node_last(pool["runnable"], new)) = Range(pool["runnable"]) \cup {new}
    <3>1. pool["runnable"] \in Seq(Thread)
      BY <2>2
    <3>. QED
      BY <3>1, LinkNodeLast
  <2>4. status'[x] = IF x = new THEN "RUNNABLE" ELSE status[x]
    BY <1>0, <2>1 DEF TypeOK
  <2>. QED
    BY <1>1, <2>1, <2>2, <2>3, <2>4 DEF In
<1>9. CASE Timer
  <2>1. fate = "ok" /\ ~WakeupLoops
    BY <1>9 DEF Timer, c_timer_handler
  <2>2. /\ threads' = threads /\ pool' = PoolAfterSwitch(PoolAfterWakeup, None)
        /\ scheduler_set_running_tcb(SwitchTarget(PoolAfterWakeup, None))
    BY <1>9, <2>1 DEF Timer, c_timer_handler, context_switch
  <2>3. PoolAfterWakeup \in [Lists -> Seq(Thread)]
    BY WakeupType DEF TypeOK
  <2>4. SwitchTarget(PoolAfterWakeup, None) \in Tcb
    BY <2>3, SwitchType DEF TypeOK
  <2>5. status'[x] = status[x] \/ status'[x] \in {"RUNNABLE", "RUNNING"}
    BY <1>0, <2>2, <2>4, SwitchStatus
  <2>6. \A l \in Lists : Range(pool'[l]) = Range(PoolAfterWakeup[l])
    BY <2>2, <2>3, SwitchRanges
  <2>7. /\ PoolAfterWakeup["waiting"] = pool["waiting"]
        /\ In("sleeping", x) \/ In("runnable", x)
             => \/ x \in Range(PoolAfterWakeup["sleeping"])
                \/ x \in Range(PoolAfterWakeup["runnable"])
    BY WakeupRanges DEF In
  <2>. QED
    BY <1>0, <1>1, <2>1, <2>2, <2>5, <2>6, <2>7 DEF In
<1>10. ASSUME NEW t \in Thread, NEW tid \in Thread,
              YieldCheck(t, tid) \/ DescheduleCheck(t)
       PROVE  Goal
  BY <1>4, <1>10 DEF YieldCheck, DescheduleCheck, poolVars
<1>11. CASE Restore
  <2>1. fate = fate' /\ UNCHANGED <<threads, status, pool>>
    BY <1>11 DEF Restore, restore_context
  <2>. QED
    BY <1>4, <2>1
<1>12. CASE UNCHANGED vars
  BY <1>4, <1>12 DEF vars, poolVars
<1>. QED
  BY <1>3, <1>5, <1>6, <1>7, <1>8, <1>9, <1>10, <1>11, <1>12
     DEF Next, ThreadStep, Undefined

(* As long as the kernel is ok, a thread's status agrees with its list. *)
THEOREM StatusCorrect == Spec => []StatusMatchesPool
<1>1. Init => Base /\ StatusMatchesPool
  <2>1. Init => StatusMatchesPool
    <3>1. Range(Boot) \subseteq Thread
      BY ThreadAssumption, RangeOfSeq
    <3>. QED
      BY <3>1 DEF Init, SchedInit, StatusMatchesPool, Tcb
  <2>. QED
    BY <2>1, BaseCorrect
<1>2. Base /\ StatusMatchesPool /\ [Next]_vars => (Base /\ StatusMatchesPool)'
  BY BaseCorrect, NextStatusMatches
<1>. QED
  BY <1>1, <1>2, PTL DEF Spec

-----------------------------------------------------------------------------
(* The sleeping list s, with the times key: in order, and all in the future. *)
Future(s, key) == Ordered(s, key) /\ \A t \in Range(s) : key[t] > 0

(* A tick and the wake-up that follows it leave the sleepers in order, and *)
(* none of them overdue: whoever was due has been taken off the list.      *)
LEMMA WakeupInOrder ==
  ASSUME TypeOK, Future(pool["sleeping"], left)
  PROVE  Future(PoolAfterWakeup["sleeping"], AfterTick)
<1> DEFINE s == pool["sleeping"]
           n == NumDue(s, AfterTick)
           d == SubSeq(s, 1, n)
           a == SubSeq(s, n + 1, Len(s))
<1>1. s \in Seq(Thread) /\ pool \in [Lists -> Seq(Thread)]
  BY DEF TypeOK, Lists
<1>2. /\ n \in 0..Len(s)
      /\ PoolAfterWakeup =
           [pool EXCEPT !["sleeping"] = a, !["runnable"] = pool["runnable"] \o d]
  BY <1>1, WakeupLists
<1>3. PoolAfterWakeup["sleeping"] = a
  BY <1>1, <1>2 DEF Lists
<1>4. n # Len(s) => AfterTick[s[n + 1]] # 0
  <2> HIDE DEF s
  <2>. QED
    BY <1>1, DuePrefix
<1>5. \A t \in Range(s) : t \in Thread /\ left[t] \in Int /\ left[t] > 0
                          /\ AfterTick[t] = left[t] - 1
  <2>1. Range(s) \subseteq Thread
    <3> HIDE DEF s
    <3>. QED
      BY <1>1, RangeOfSeq
  <2>. QED
    BY <2>1 DEF AfterTick, In, TypeOK, Future
<1>6. Ordered(s, left)
  BY DEF Future
<1> HIDE DEF s, n
<1>7. d \in Seq(Thread) /\ a \in Seq(Thread) /\ s = d \o a
  BY <1>1, <1>2, SplitList
<1>8. /\ Len(s) \in Nat /\ DOMAIN s = 1..Len(s) /\ DOMAIN a = 1..Len(a)
      /\ Len(a) = Len(s) - n
      /\ \A i \in 1..(Len(s) - n) : a[i] = s[n + i]
  <2>1. Len(s) \in Nat /\ DOMAIN s = 1..Len(s) /\ \A i \in 1..Len(s) : s[i] \in Thread
    BY <1>1, LenProperties, ElementOfSeq
  <2>2. \A i \in (n + 1)..Len(s) : s[i] \in Thread
    BY <1>2, <2>1
  <2>3. /\ Len(a) = IF n + 1 <= Len(s) THEN Len(s) - (n + 1) + 1 ELSE 0
        /\ \A i \in 1..(Len(s) - (n + 1) + 1) : a[i] = s[(n + 1) + i - 1]
    BY <1>2, <2>1, <2>2, SubSeqProperties
  <2>4. DOMAIN a = 1..Len(a)
    BY <1>7, LenProperties
  <2> HIDE DEF a
  <2>5. n \in Nat /\ n <= Len(s)
    BY <1>2, <2>1
  <2>6. Len(a) = Len(s) - n
    <3>1. CASE n + 1 <= Len(s)
      <4>1. Len(a) = Len(s) - (n + 1) + 1
        BY <2>3, <3>1
      <4>2. Len(s) - (n + 1) + 1 = Len(s) - n
        BY <2>1, <2>5
      <4>. QED
        BY <4>1, <4>2
    <3>2. CASE ~(n + 1 <= Len(s))
      <4>1. Len(a) = 0
        BY <2>3, <3>2
      <4>2. \A p, q \in Nat : p <= q /\ ~(p + 1 <= q) => q - p = 0
        OBVIOUS
      <4>3. Len(s) - n = 0
        BY <2>1, <2>5, <3>2, <4>2
      <4>. QED
        BY <4>1, <4>3
    <3>. QED
      BY <3>1, <3>2
  <2>7. ASSUME NEW i \in 1..(Len(s) - n) PROVE a[i] = s[n + i]
    <3>1. i \in 1..(Len(s) - (n + 1) + 1) /\ (n + 1) + i - 1 = n + i
      BY <2>1, <2>5
    <3>. QED
      BY <2>3, <3>1
  <2>. QED
    BY <2>1, <2>4, <2>6, <2>7
<1> HIDE DEF d, a
<1>9. ASSUME NEW i \in DOMAIN a
      PROVE  n + i \in DOMAIN s /\ a[i] = s[n + i] /\ a[i] \in Range(s)
  <2>1. i \in 1..(Len(s) - n) /\ n + i \in DOMAIN s
    BY <1>2, <1>8
  <2>. QED
    BY <1>8, <2>1 DEF Range
<1>10. Ordered(a, AfterTick)
  <2>1. SUFFICES ASSUME NEW i \in DOMAIN a, NEW j \in DOMAIN a, i < j
                 PROVE  AfterTick[a[i]] <= AfterTick[a[j]]
    BY DEF Ordered
  <2>2. n + i < n + j
    BY <1>2, <1>8, <2>1
  <2>3. left[a[i]] <= left[a[j]]
    BY <1>6, <1>9, <2>2 DEF Ordered
  <2>. QED
    BY <1>5, <1>9, <2>3
<1>11. ASSUME NEW i \in DOMAIN a PROVE AfterTick[a[i]] > 0
  <2>0. /\ n \in Nat /\ Len(s) \in Nat /\ DOMAIN a = 1..(Len(s) - n)
        /\ i \in 1..(Len(s) - n)
    BY <1>2, <1>8
  <2>1. 1 \in DOMAIN a /\ n # Len(s)
    BY <2>0
  <2>2. AfterTick[s[n + 1]] # 0 /\ a[1] = s[n + 1] /\ a[1] \in Range(s)
    BY <1>4, <1>9, <2>1
  <2>3. AfterTick[a[1]] > 0
    BY <1>5, <2>2
  <2>4. i = 1 \/ 1 < i
    BY <1>8
  <2>5. AfterTick[a[1]] <= AfterTick[a[i]] \/ i = 1
    BY <1>10, <2>1, <2>4 DEF Ordered
  <2>6. AfterTick[a[i]] \in Int /\ AfterTick[a[1]] \in Int
    BY <1>5, <1>9, <2>2
  <2>. QED
    BY <2>3, <2>5, <2>6
<1>. QED
  BY <1>3, <1>10, <1>11 DEF Future, Range

(* Every step keeps the sleepers in order and in the future. *)
LEMMA NextSleepersInOrder ==
  Base /\ SleepersInOrder /\ [Next]_vars => SleepersInOrder'
<1> SUFFICES ASSUME Base, SleepersInOrder, [Next]_vars, fate' = "ok"
             PROVE  Future(pool'["sleeping"], left')
  BY DEF SleepersInOrder, Future
<1> USE DEF Base
<1> DEFINE s == pool["sleeping"]
           Goal == Future(pool'["sleeping"], left')
<1>1. /\ s \in Seq(Thread) /\ left \in [Thread -> Int]
      /\ Lists = {"runnable", "waiting", "sleeping"}
  BY DEF TypeOK, Lists
<1>2. fate = "ok" => Future(s, left)
  BY DEF SleepersInOrder, Future
<1>3. ASSUME fate = "ok", pool'["sleeping"] = s, left' = left PROVE Goal
  BY <1>2, <1>3
<1>4. ASSUME NEW t \in Thread, YieldAny(t) \/ YieldTo(t) \/ SwitchAway(t) PROVE Goal
  <2>1. fate = "ok" /\ \E tid : context_switch_safe(tid)
    BY <1>4 DEF YieldAny, YieldTo, SwitchAway, At
  <2>2. PICK tid : context_switch_safe(tid)
    BY <2>1
  <2>3. pool' = PoolAfterSwitch(pool, tid) /\ left' = left
    BY <2>2 DEF context_switch_safe, context_switch
  <2>4. pool'["sleeping"] = s
    BY <1>1, <2>3, SwitchRanges DEF TypeOK
  <2>. QED
    BY <1>3, <2>1, <2>3, <2>4
<1>5. ASSUME NEW t \in Thread, Deschedule(t) PROVE Goal
  <2>1. CASE MakeWaitingFails(t)
    BY <1>3, <1>5, <2>1 DEF Deschedule, poolVars
  <2>2. CASE ~MakeWaitingFails(t)
    <3>1. fate = "ok" /\ left' = left /\ MoveNode(t, "runnable", "waiting")
      BY <1>5, <2>2 DEF Deschedule, At, scheduler_deschedule_current_safe,
                        tcb_pool_make_waiting
    <3>2. In("runnable", t)
      BY <3>1 DEF MoveNode
    <3>3. pool'["sleeping"] = s
      BY <1>1, <3>1, <3>2, MoveNodeRanges
    <3>. QED
      BY <1>3, <3>1, <3>3
  <2>. QED
    BY <2>1, <2>2
<1>6. ASSUME NEW t \in Thread, NEW ticks \in SleepTicks, Sleep(t, ticks) PROVE Goal
  <2>1. /\ fate = "ok" /\ cur = t /\ pc[t] = "user"
        /\ left' = [left EXCEPT ![t] = ticks]
        /\ MakeSleepingFails \/ tcb_pool_make_sleeping(t, left')
    BY <1>6 DEF Sleep, At, scheduler_make_current_sleeping_safe
  <2>2. ~MakeSleepingFails
    BY <2>1 DEF MakeSleepingFails, UnlinkFails, CallerNotAlone
  <2>3. tcb_pool_make_sleeping(t, left') /\ In("runnable", t)
    BY <2>1, <2>2 DEF tcb_pool_make_sleeping
  <2>4. pool'["sleeping"] = ll_link_node_sorted(s, t, left')
    BY <1>1, <2>3 DEF tcb_pool_make_sleeping, TypeOK
  <2>5. t \notin Range(s)
    BY <1>1, <2>3, InOneList DEF In
  <2>6. ticks \in Int /\ ticks > 0
    BY ThreadAssumption
  <2>7. /\ left' \in [Thread -> Int] /\ left'[t] = ticks
        /\ \A x \in Thread : x # t => left'[x] = left[x]
    BY <1>1, <2>1, <2>6
  <2>8. Range(s) \subseteq Thread
    <3> HIDE DEF s
    <3>. QED
      BY <1>1, RangeOfSeq
  <2>9. \A x \in Range(s) : left'[x] = left[x]
    BY <2>5, <2>7, <2>8
  <2>10. Ordered(s, left) /\ \A x \in Range(s) : left[x] > 0
    BY <1>2, <2>1 DEF Future
  <2> HIDE DEF s
  <2>11. Ordered(s, left')
    BY <2>9, <2>10, OrderedAgree
  <2>12. Ordered(ll_link_node_sorted(s, t, left'), left')
    BY <1>1, <2>7, <2>11, LinkNodeSortedOrder
  <2>13. Range(ll_link_node_sorted(s, t, left')) = Range(s) \cup {t}
    BY <1>1, LinkNodeSorted
  <2>14. \A x \in Range(ll_link_node_sorted(s, t, left')) : left'[x] > 0
    BY <2>6, <2>7, <2>9, <2>10, <2>13
  <2>. QED
    BY <2>4, <2>12, <2>14 DEF Future
<1>7. ASSUME NEW t \in Thread, NEW tid \in Thread, MakeRunnable(t, tid) PROVE Goal
  <2> DEFINE l == SuspendedIn(tid)
  <2>1. /\ fate = "ok" /\ MoveNode(tid, l, "runnable")
        /\ left' = [left EXCEPT ![tid] = 0]
    BY <1>7 DEF MakeRunnable, At, scheduler_make_runnable_safe, tcb_pool_make_runnable
  <2>2. l \in {"waiting", "sleeping"} /\ In(l, tid)
    BY <1>1, <2>1 DEF SuspendedIn, MoveNode
  <2> HIDE DEF l
  <2>3. Range(s) \subseteq Thread
    <3> HIDE DEF s
    <3>. QED
      BY <1>1, RangeOfSeq
  <2>4. \A x \in Thread : x # tid => left'[x] = left[x]
    BY <1>1, <2>1
  <2>5. Ordered(s, left) /\ \A x \in Range(s) : left[x] > 0
    BY <1>2, <2>1 DEF Future
  <2>6. CASE l = "waiting"
    <3>1. pool'["sleeping"] = s
      BY <1>1, <2>1, <2>2, <2>6, MoveNodeRanges
    <3>2. tid \notin Range(s)
      BY <1>1, <2>2, <2>6, InOneList DEF In
    <3>3. \A x \in Range(s) : left'[x] = left[x]
      BY <2>3, <2>4, <3>2
    <3> HIDE DEF s
    <3>4. Ordered(s, left')
      BY <2>5, <3>3, OrderedAgree
    <3>. QED
      BY <2>5, <3>1, <3>3, <3>4 DEF Future
  <2>7. CASE l = "sleeping"
    <3>1. pool'["sleeping"] = ll_unlink_node(s, tid) /\ tid \in Range(s)
      BY <1>1, <2>1, <2>2, <2>7 DEF MoveNode, TypeOK, In
    <3>2. IsInjective(s)
      BY <1>1 DEF PoolsPartition, Partitioned
    <3> HIDE DEF s
    <3>3. Range(ll_unlink_node(s, tid)) = Range(s) \ {tid}
      BY <1>1, <3>1, <3>2, UnlinkNode
    <3>4. \A x \in Range(ll_unlink_node(s, tid)) : left'[x] = left[x] /\ left[x] > 0
      BY <2>3, <2>4, <2>5, <3>3
    <3>5. Ordered(ll_unlink_node(s, tid), left)
      BY <1>1, <2>5, <3>1, UnlinkKeepsOrder
    <3>6. Ordered(ll_unlink_node(s, tid), left')
      BY <3>4, <3>5, OrderedAgree
    <3>. QED
      BY <3>1, <3>4, <3>6 DEF Future
  <2>. QED
    BY <2>2, <2>6, <2>7
<1>8. ASSUME NEW t \in Thread, NEW new \in Thread, ThreadFork(t, new) PROVE Goal
  <2>1. /\ fate = "ok" /\ left' = left
        /\ pool' = [pool EXCEPT !["runnable"] = ll_link_node_last(@, new)]
    BY <1>8 DEF ThreadFork, At, tcb_pool_add_runnable_tcb_safe
  <2>2. pool'["sleeping"] = s
    BY <1>1, <2>1 DEF TypeOK
  <2>. QED
    BY <1>3, <2>1, <2>2
<1>9. CASE Timer
  <2>1. fate = "ok" /\ ~WakeupLoops
    BY <1>9 DEF Timer, c_timer_handler
  <2>2. /\ pool' = PoolAfterSwitch(PoolAfterWakeup, None) /\ left' = AfterTick
    BY <1>9, <2>1 DEF Timer, c_timer_handler, context_switch
  <2>3. pool'["sleeping"] = PoolAfterWakeup["sleeping"]
    BY <1>1, <2>2, WakeupType, SwitchRanges DEF TypeOK
  <2>4. Future(PoolAfterWakeup["sleeping"], AfterTick)
    BY <1>2, <2>1, WakeupInOrder
  <2>. QED
    BY <2>2, <2>3, <2>4
<1>10. ASSUME NEW t \in Thread, NEW tid \in Thread,
              YieldCheck(t, tid) \/ DescheduleCheck(t)
       PROVE  Goal
  BY <1>3, <1>10 DEF YieldCheck, DescheduleCheck, poolVars
<1>11. CASE Restore
  BY <1>3, <1>11 DEF Restore, restore_context
<1>12. CASE UNCHANGED vars
  BY <1>3, <1>12 DEF vars, poolVars
<1>. QED
  BY <1>4, <1>5, <1>6, <1>7, <1>8, <1>9, <1>10, <1>11, <1>12
     DEF Next, ThreadStep, Undefined

(* As long as the kernel is ok, the sleeping list is in the order of the   *)
(* wake-up times and no sleeper is overdue, so that tcb_pool_wakeup, which *)
(* looks at its head for a time equal to the present, misses nobody.       *)
THEOREM SleepersInOrderCorrect == Spec => []SleepersInOrder
<1>1. Init => Base /\ SleepersInOrder
  <2>1. Init => SleepersInOrder
    BY DEF Init, SchedInit, SleepersInOrder, Ordered, Range, Lists
  <2>. QED
    BY <2>1, BaseCorrect
<1>2. Base /\ SleepersInOrder /\ [Next]_vars => (Base /\ SleepersInOrder)'
  BY BaseCorrect, NextSleepersInOrder
<1>. QED
  BY <1>1, <1>2, PTL DEF Spec

-----------------------------------------------------------------------------
(* A step that takes a thread off the sleeping list is the tick that makes *)
(* it due, or a make_runnable of it.                                       *)
LEMMA StepWakesOnTime ==
  ASSUME Base, Next, NEW t \in Thread, In("sleeping", t), ~In("sleeping", t)'
  PROVE  left[t] = 1 \/ status'[t] = "RUNNABLE"
<1> USE DEF Base
<1> DEFINE Goal == left[t] = 1 \/ status'[t] = "RUNNABLE"
<1>1. pool["sleeping"] \in Seq(Thread) /\ Lists = {"runnable", "waiting", "sleeping"}
  BY DEF TypeOK, Lists
<1>2. ASSUME Range(pool["sleeping"]) \subseteq Range(pool'["sleeping"]) PROVE FALSE
  BY <1>2 DEF In
<1>3. ASSUME NEW u \in Thread, YieldAny(u) \/ YieldTo(u) \/ SwitchAway(u) PROVE Goal
  <2>1. PICK tid : context_switch_safe(tid)
    BY <1>3 DEF YieldAny, YieldTo, SwitchAway
  <2>2. pool' = PoolAfterSwitch(pool, tid)
    BY <2>1 DEF context_switch_safe, context_switch
  <2>3. pool'["sleeping"] = pool["sleeping"]
    BY <1>1, <2>2, SwitchRanges DEF TypeOK
  <2>. QED
    BY <1>2, <2>3
<1>4. ASSUME NEW u \in Thread, Deschedule(u) PROVE Goal
  <2>1. UNCHANGED pool \/ MoveNode(u, "runnable", "waiting")
    BY <1>4 DEF Deschedule, At, scheduler_deschedule_current_safe,
                tcb_pool_make_waiting, poolVars
  <2>2. pool'["sleeping"] = pool["sleeping"]
    BY <1>1, <2>1, MoveNodeRanges DEF MoveNode
  <2>. QED
    BY <1>2, <2>2
<1>5. ASSUME NEW u \in Thread, NEW ticks \in SleepTicks, Sleep(u, ticks) PROVE Goal
  <2>1. UNCHANGED pool \/ tcb_pool_make_sleeping(u, left')
    BY <1>5 DEF Sleep, At, scheduler_make_current_sleeping_safe
  <2>2. \/ pool'["sleeping"] = pool["sleeping"]
        \/ pool'["sleeping"] = ll_link_node_sorted(pool["sleeping"], u, left')
    BY <1>1, <2>1 DEF tcb_pool_make_sleeping, TypeOK
  <2>3. Range(ll_link_node_sorted(pool["sleeping"], u, left'))
          = Range(pool["sleeping"]) \cup {u}
    BY <1>1, LinkNodeSorted
  <2>. QED
    BY <1>2, <2>2, <2>3
<1>6. ASSUME NEW u \in Thread, NEW tid \in Thread, MakeRunnable(u, tid) PROVE Goal
  <2> DEFINE l == SuspendedIn(tid)
  <2>1. /\ MoveNode(tid, l, "runnable")
        /\ status' = [status EXCEPT ![tid] = "RUNNABLE"]
    BY <1>6 DEF MakeRunnable, scheduler_make_runnable_safe, tcb_pool_make_runnable
  <2>2. l \in {"waiting", "sleeping"}
    BY DEF SuspendedIn
  <2> HIDE DEF l
  <2>3. CASE ~In(l, tid)
    BY <1>2, <2>1, <2>3 DEF MoveNode
  <2>4. CASE In(l, tid)
    <3>1. /\ Range(pool'[l]) = Range(pool[l]) \ {tid}
          /\ \A k \in Lists : k # l /\ k # "runnable" => pool'[k] = pool[k]
      BY <1>1, <2>1, <2>2, <2>4, MoveNodeRanges
    <3>2. t = tid
      BY <1>1, <1>2, <2>2, <3>1 DEF In
    <3>3. status'[t] = "RUNNABLE"
      BY <2>1, <3>2 DEF TypeOK, Tcb
    <3>. QED
      BY <3>3
  <2>. QED
    BY <2>3, <2>4
<1>7. ASSUME NEW u \in Thread, NEW new \in Thread, ThreadFork(u, new) PROVE Goal
  <2>1. pool'["sleeping"] = pool["sleeping"]
    BY <1>1, <1>7 DEF ThreadFork, tcb_pool_add_runnable_tcb_safe, TypeOK
  <2>. QED
    BY <1>2, <2>1
<1>8. CASE Timer
  <2>1. CASE WakeupLoops
    BY <1>2, <1>8, <2>1 DEF Timer, c_timer_handler
  <2>2. CASE ~WakeupLoops
    <3>1. pool' = PoolAfterSwitch(PoolAfterWakeup, None)
      BY <1>8, <2>2 DEF Timer, c_timer_handler, context_switch
    <3>2. pool'["sleeping"] = PoolAfterWakeup["sleeping"]
      BY <1>1, <3>1, WakeupType, SwitchRanges DEF TypeOK
    <3>. QED
      BY <3>2, WakeupRanges DEF In
  <2>. QED
    BY <2>1, <2>2
<1>9. ASSUME UNCHANGED pool PROVE Goal
  BY <1>2, <1>9
<1>10. ASSUME NEW u \in Thread, NEW tid \in Thread,
              YieldCheck(u, tid) \/ DescheduleCheck(u)
       PROVE  Goal
  BY <1>9, <1>10 DEF YieldCheck, DescheduleCheck, poolVars
<1>11. CASE Restore
  BY <1>9, <1>11 DEF Restore, restore_context
<1>12. CASE Undefined
  BY <1>9, <1>12 DEF Undefined, vars, poolVars
<1>. QED
  BY <1>3, <1>4, <1>5, <1>6, <1>7, <1>8, <1>10, <1>11, <1>12 DEF Next, ThreadStep

(* No sleeper is ever taken off the sleeping list before its time, unless  *)
(* some thread calls make_runnable on it.                                  *)
THEOREM NoEarlyWakeupCorrect == Spec => NoEarlyWakeup
<1> DEFINE Step == \A t \in Thread : In("sleeping", t) /\ ~In("sleeping", t)'
                                       => left[t] = 1 \/ status'[t] = "RUNNABLE"
<1>1. Init => Base
  BY BaseCorrect
<1>2. Base /\ [Next]_vars => Base'
  BY BaseCorrect
<1>3. Base /\ [Next]_vars => [Step]_vars
  BY StepWakesOnTime
<1>4. Spec => [][Step]_vars
  BY <1>1, <1>2, <1>3, PTL DEF Spec
<1>. QED
  BY <1>4 DEF NoEarlyWakeup

=============================================================================
