----------------------------- MODULE UserThreads -----------------------------
(***************************************************************************)
(* The thread library, user/libthread/thread.c: thr_create, thr_exit and   *)
(* thr_join on the thread pool, which a readers/writers lock guards.  The  *)
(* threads it makes may use a lock and a semaphore of the program's, too.  *)
(*                                                                         *)
(* A thread_t of the pool is a record; its join_cv has at most one waiter, *)
(* and its mutex is held only within a step.  Stacks are numbered: stack k *)
(* is the k-th of thread_stack_size bytes below parent_stack_top.          *)
(***************************************************************************)
EXTENDS UserSync, FiniteSets

CONSTANTS
  MaxThreads,  \* bound: thread_fork fails beyond it
  Creators,    \* the threads that call thr_create
  Joiners,     \* the threads that call thr_join
  NULL

(* A thread that has to take a lock or the semaphore. *)
Request == [what : {"pool", "lock", "sem"}, type : {"READ", "WRITE", "WAIT"},
            asleep : BOOLEAN]

ASSUME UserThreadsAssumption ==
  /\ MaxThreads \in Nat \ {0} /\ Creators \cup Joiners \subseteq 1 .. MaxThreads
  /\ NULL \notin Nat \cup Request

Thread == 1 .. MaxThreads
Main == 1

VARIABLES
  pool,      \* thread_pool
  poolLock,  \* thread_pool_lock
  stacks,    \* how many stacks there are room for above STACK_BOTTOM
  started,   \* how many threads the kernel has started: their tids
  stack,     \* the stack each runs on
  pc,        \* where each is
  lk,        \* the lock or semaphore it is about to take, and if it sleeps there
  loc,       \* its local variables
  lock, sem, \* the program's lock and semaphore
  users,     \* the threads that have used them: each does so once
  joined     \* history: the joins that returned 0, as <<tid, status>>

libVars == <<pool, poolLock, stacks, started, stack, users, joined>>

vars == <<libVars, pc, lk, loc, lock, sem>>

Entry(tid, s, pending) ==
  [k_tid |-> tid, stack_top |-> s, status |-> "ALIVE", exit_status |-> 0,
   pending_join |-> pending, waiter |-> NULL]

NoLocals == [target |-> 0, found |-> 0, esp |-> 0, child |-> 0]

(* thr_init, by the first thread. *)
Init ==
  /\ pool = <<Entry(Main, 0, FALSE)>> /\ poolLock = rwlock_init
  /\ stacks = 1 /\ started = 1 /\ stack = [t \in Thread |-> 0]
  /\ pc = [t \in Thread |-> IF t = Main THEN "out" ELSE "unborn"]
  /\ lk = [t \in Thread |-> NULL]
  /\ loc = [t \in Thread |-> NoLocals]
  /\ lock = rwlock_init /\ sem = sem_init(1)
  /\ users = {} /\ joined = {}

At(t, p) == pc[t] = p /\ lk[t] = NULL

Goto(t, p) == pc' = [pc EXCEPT ![t] = p]

(* t goes to p, where it has to take what first. *)
Taking(what, type) == [what |-> what, type |-> type, asleep |-> FALSE]
Take(t, what, type, p) ==
  Goto(t, p) /\ lk' = [lk EXCEPT ![t] = Taking(what, type)]

(* The threads of W are woken; w goes on to take what, or does not wait. *)
Wake(W) == [t \in Thread |-> IF t \in W THEN [lk[t] EXCEPT !.asleep = FALSE] ELSE lk[t]]

-----------------------------------------------------------------------------
(* The locks. *)

TakePool(t) ==
  /\ lk[t] \in {Taking("pool", "READ"), Taking("pool", "WRITE")}
  /\ poolLock' = rwlock_lock(poolLock, t, lk[t].type)
  /\ lk' = [lk EXCEPT ![t] = IF MustWait(poolLock, @.type)
                               THEN [@ EXCEPT !.asleep = TRUE] ELSE NULL]
  /\ UNCHANGED <<pool, stacks, started, stack, pc, loc, lock, sem, joined, users>>

TakeLock(t) ==
  /\ lk[t] \in {Taking("lock", "READ"), Taking("lock", "WRITE")}
  /\ lock' = rwlock_lock(lock, t, lk[t].type)
  /\ lk' = [lk EXCEPT ![t] = IF MustWait(lock, @.type)
                               THEN [@ EXCEPT !.asleep = TRUE] ELSE NULL]
  /\ UNCHANGED <<libVars, pc, loc, sem>>

TakeSem(t) ==
  /\ lk[t] = Taking("sem", "WAIT")
  /\ sem' = sem_wait(sem, t)
  /\ lk' = [lk EXCEPT ![t] = IF sem.count - 1 < 0 THEN [@ EXCEPT !.asleep = TRUE] ELSE NULL]
  /\ UNCHANGED <<libVars, pc, loc, lock>>

(* A thread uses one of them, once. *)
Use(t) ==
  /\ t \notin users /\ At(t, "out")
  /\ \/ Take(t, "lock", "READ", "reading")
     \/ Take(t, "lock", "WRITE", "writing")
     \/ Take(t, "sem", "WAIT", "inside")
  /\ users' = users \cup {t}
  /\ UNCHANGED <<pool, poolLock, stacks, started, stack, joined, loc, lock, sem>>

Unlock(t) ==
  /\ At(t, "reading") \/ At(t, "writing")
  /\ lock' = rwlock_unlock(lock)
  /\ lk' = Wake(UnlockWakes(lock))
  /\ Goto(t, "out")
  /\ UNCHANGED <<libVars, loc, sem>>

Downgrade(t) ==
  /\ At(t, "writing")
  /\ lock' = rwlock_downgrade(lock)
  /\ lk' = Wake(DowngradeWakes(lock))
  /\ Goto(t, "reading")
  /\ UNCHANGED <<libVars, loc, sem>>

(* A waiter that is signalled has the unit. *)
SemSignal(t) ==
  /\ At(t, "inside")
  /\ sem' = sem_signal(sem)
  /\ lk' = [u \in Thread |-> IF u \in SemWakes(sem) THEN NULL ELSE lk[u]]
  /\ Goto(t, "out")
  /\ UNCHANGED <<libVars, loc, lock>>

(* rwlock_unlock of the pool's lock, at the end of a step of t. *)
ReleasePool(t, p) ==
  /\ poolLock' = rwlock_unlock(poolLock)
  /\ lk' = Wake(UnlockWakes(poolLock))
  /\ Goto(t, p)

-----------------------------------------------------------------------------
(* thr_create *)

thr_create(t) ==
  /\ t \in Creators /\ At(t, "out")
  /\ Take(t, "pool", "READ", "search")
  /\ UNCHANGED <<libVars, loc, lock, sem>>

(* ll_find: the first entry of the pool, 0 if there is none. *)
First(S) == IF S = {} THEN 0 ELSE CHOOSE i \in S : \A j \in S : i <= j

(* Mutant: the new stack overlaps the last one. *)
SearchAbove(t) ==
  /\ At(t, "search")
  /\ LET i == First({k \in DOMAIN pool : pool[k].status = "DEAD"})
     IN  /\ pool' = IF i = 0 THEN pool
                    ELSE [pool EXCEPT ![i].status = "ALIVE", ![i].waiter = NULL]
         /\ loc' = [loc EXCEPT ![t].found = i,
                       ![t].esp = IF i = 0 THEN Len(pool) - 1 ELSE pool[i].stack_top]
  /\ ReleasePool(t, "fork")
  /\ UNCHANGED <<stacks, started, stack, lock, sem, users, joined>>

(* A dead thread's entry and stack are used again; otherwise the new stack *)
(* is below those of as many threads as the pool has.                      *)
Search(t) ==
  /\ At(t, "search")
  /\ LET i == First({k \in DOMAIN pool : pool[k].status = "DEAD"})
     IN  /\ pool' = IF i = 0 THEN pool
                    ELSE [pool EXCEPT ![i].status = "ALIVE", ![i].waiter = NULL]
         /\ loc' = [loc EXCEPT ![t].found = i,
                               ![t].esp = IF i = 0 THEN Len(pool) ELSE pool[i].stack_top]
  /\ ReleasePool(t, "fork")
  /\ UNCHANGED <<stacks, started, stack, lock, sem, users, joined>>

(* More room for stacks, if the stack would end below STACK_BOTTOM. *)
new_thr_page(top) == IF top + 1 > stacks THEN stacks + 1 ELSE stacks

(* thread_fork, for a new stack after new_thr_page. *)
Fork(t) ==
  /\ At(t, "fork") /\ started < MaxThreads
  /\ LET child == started + 1
     IN  /\ started' = child
         /\ stack' = [stack EXCEPT ![child] = loc[t].esp]
         /\ loc' = [loc EXCEPT ![t].child = child]
         /\ IF loc[t].found = 0
              THEN pc' = [pc EXCEPT ![t] = "link", ![child] = "out"]
                   /\ lk' = [lk EXCEPT ![t] = Taking("pool", "WRITE")]
              ELSE pc' = [pc EXCEPT ![t] = "settid", ![child] = "out"] /\ UNCHANGED lk
  /\ stacks' = IF loc[t].found = 0 THEN new_thr_page(loc[t].esp) ELSE stacks
  /\ UNCHANGED <<pool, poolLock, lock, sem, joined, users>>

(* The kernel has no more threads: the entry is given back under its mutex *)
(* and the mutex is then locked a second time, for ever.                   *)
ForkFails(t) ==
  /\ At(t, "fork") /\ started = MaxThreads
  /\ IF loc[t].found = 0
       THEN Goto(t, "out") /\ UNCHANGED pool
       ELSE Goto(t, "stuck") /\ pool' = [pool EXCEPT ![loc[t].found].status = "DEAD"]
  /\ loc' = [loc EXCEPT ![t] = NoLocals]
  /\ UNCHANGED <<poolLock, stacks, started, stack, lk, lock, sem, joined, users>>

(* add_to_pool_s; nobody sets pending_join, in memory fresh from malloc. *)
add_to_pool_s(t) ==
  /\ At(t, "link")
  /\ \E pending \in BOOLEAN :
       pool' = Append(pool, Entry(loc[t].child, loc[t].esp, pending))
  /\ loc' = [loc EXCEPT ![t] = NoLocals]
  /\ ReleasePool(t, "out")
  /\ UNCHANGED <<stacks, started, stack, lock, sem, users, joined>>

SetTid(t) ==
  /\ At(t, "settid")
  /\ pool' = [pool EXCEPT ![loc[t].found].k_tid = loc[t].child]
  /\ loc' = [loc EXCEPT ![t] = NoLocals]
  /\ Goto(t, "out")
  /\ UNCHANGED <<poolLock, stacks, started, stack, lk, lock, sem, joined, users>>

-----------------------------------------------------------------------------
(* thr_exit and thr_join *)

find_thread_by_k_tid(k) == First({i \in DOMAIN pool : pool[i].k_tid = k})

thr_exit(t) ==
  /\ t # Main /\ At(t, "out")
  /\ Take(t, "pool", "READ", "exit")
  /\ UNCHANGED <<libVars, loc, lock, sem>>

(* The parent may not have added the thread yet: let it, and look again. *)
ExitMissing(t) ==
  /\ At(t, "exit") /\ find_thread_by_k_tid(t) = 0
  /\ poolLock' = rwlock_unlock(poolLock)
  /\ lk' = [Wake(UnlockWakes(poolLock)) EXCEPT ![t] = Taking("pool", "READ")]
  /\ UNCHANGED <<pool, stacks, started, stack, pc, loc, lock, sem, joined, users>>

(* Mutant: the joiner is not signalled. *)
ExitSilent(t) ==
  /\ At(t, "exit")
  /\ LET i == find_thread_by_k_tid(t)
     IN  /\ i # 0
         /\ pool' = [pool EXCEPT ![i].status = "ZOMBIE", ![i].exit_status = t]
  /\ ReleasePool(t, "vanish")
  /\ UNCHANGED <<stacks, started, stack, loc, lock, sem, joined, users>>

(* The status is the thread's tid; cond_signal wakes the joiner.  From here *)
(* to vanish the thread still runs on its stack.                           *)
ExitFound(t) ==
  /\ At(t, "exit")
  /\ LET i == find_thread_by_k_tid(t)
     IN  /\ i # 0
         /\ pool' = [pool EXCEPT ![i].status = "ZOMBIE", ![i].exit_status = t,
                                 ![i].waiter = NULL]
         /\ poolLock' = rwlock_unlock(poolLock)
         /\ lk' = Wake(UnlockWakes(poolLock))
         /\ pc' = [u \in Thread |-> IF u = t THEN "vanish"
                                    ELSE IF u = pool[i].waiter THEN "woken" ELSE pc[u]]
  /\ UNCHANGED <<stacks, started, stack, loc, lock, sem, joined, users>>

vanish(t) ==
  /\ At(t, "vanish") /\ Goto(t, "gone")
  /\ UNCHANGED <<libVars, lk, loc, lock, sem>>

thr_join(t, k) ==
  /\ t \in Joiners /\ At(t, "out")
  /\ loc' = [loc EXCEPT ![t].child = k]
  /\ Take(t, "pool", "READ", "find")
  /\ UNCHANGED <<libVars, lock, sem>>

JoinFind(t) ==
  /\ At(t, "find")
  /\ LET i == find_thread_by_k_tid(loc[t].child)
     IN  /\ loc' = [loc EXCEPT ![t] = IF i = 0 THEN NoLocals ELSE [@ EXCEPT !.target = i]]
         /\ ReleasePool(t, IF i = 0 THEN "out" ELSE "join")
  /\ UNCHANGED <<pool, stacks, started, stack, lock, sem, users, joined>>

(* Dead, or another join is pending: -1. *)
JoinRefused(t) ==
  /\ At(t, "join") \/ At(t, "woken")
  /\ LET e == pool[loc[t].target]
     IN  \/ pc[t] = "join" /\ e.status = "DEAD"
         \/ e.status = "ALIVE" /\ e.pending_join
  /\ Goto(t, "out") /\ loc' = [loc EXCEPT ![t] = NoLocals]
  /\ UNCHANGED <<libVars, lk, lock, sem>>

JoinWait(t) ==
  /\ At(t, "join") \/ At(t, "woken")
  /\ pool[loc[t].target].status = "ALIVE" /\ ~pool[loc[t].target].pending_join
  /\ pool' = [pool EXCEPT ![loc[t].target].pending_join = TRUE, ![loc[t].target].waiter = t]
  /\ Goto(t, "joining")
  /\ UNCHANGED <<poolLock, stacks, started, stack, lk, loc, lock, sem, joined, users>>

(* Mutant: the joiner does not wait for the zombie. *)
ReapAlive(t) ==
  /\ At(t, "join") \/ At(t, "woken")
  /\ pool[loc[t].target].status # "DEAD"
  /\ joined' = joined \cup {<<loc[t].child, pool[loc[t].target].exit_status>>}
  /\ pool' = [pool EXCEPT ![loc[t].target].status = "DEAD",
                          ![loc[t].target].k_tid = -1,
                          ![loc[t].target].pending_join = FALSE]
  /\ Goto(t, "out") /\ loc' = [loc EXCEPT ![t] = NoLocals]
  /\ UNCHANGED <<poolLock, stacks, started, stack, lk, lock, sem, users>>

reap_zombie(t) ==
  /\ \/ At(t, "join") /\ pool[loc[t].target].status = "ZOMBIE"
     \/ At(t, "woken") /\ pool[loc[t].target].status # "ALIVE"
  /\ joined' = joined \cup {<<loc[t].child, pool[loc[t].target].exit_status>>}
  /\ pool' = [pool EXCEPT ![loc[t].target].status = "DEAD",
                          ![loc[t].target].k_tid = -1,
                          ![loc[t].target].pending_join = FALSE]
  /\ Goto(t, "out") /\ loc' = [loc EXCEPT ![t] = NoLocals]
  /\ UNCHANGED <<poolLock, stacks, started, stack, lk, lock, sem, users>>

-----------------------------------------------------------------------------
(* What a thread does of its own accord once it is in a call, and what a   *)
(* program that does not hang does: leave its critical sections, and exit. *)
Step(t) ==
  \/ TakePool(t) \/ TakeLock(t) \/ TakeSem(t) \/ Unlock(t) \/ SemSignal(t)
  \/ Search(t) \/ Fork(t) \/ ForkFails(t) \/ add_to_pool_s(t) \/ SetTid(t)
  \/ Use(t) \/ thr_exit(t) \/ ExitMissing(t) \/ ExitFound(t) \/ vanish(t)
  \/ JoinFind(t) \/ JoinRefused(t) \/ JoinWait(t) \/ reap_zombie(t)

Next ==
  \E t \in Thread :
    \/ Step(t) \/ Downgrade(t) \/ thr_create(t)
    \/ \E k \in Thread \ {t, Main} : thr_join(t, k)

(* The scheduler takes turns.  A thread that is not in the pool yet looks  *)
(* again and again, but yields after it has unlocked: the others have a    *)
(* turn while the lock is free.                                            *)
Spec ==
  /\ Init /\ [][Next]_vars
  /\ \A t \in Thread : WF_vars(Step(t)) /\ SF_vars(TakePool(t) /\ lk'[t] = NULL)

-----------------------------------------------------------------------------
(* The program's lock: no reader with a writer, no two writers; count and  *)
(* writer_locked say who is inside; and while no writer holds it, all who  *)
(* sleep are writers, which is why the last reader may wake just one       *)
(* (rwlock_unlock's comment).                                              *)
LockExcludes ==
  LET In(p) == {t \in Thread : At(t, p)}
  IN  /\ Cardinality(In("reading")) = lock.count
      /\ Cardinality(In("writing")) = IF lock.writer_locked THEN 1 ELSE 0
      /\ In("reading") = {} \/ In("writing") = {}
      /\ ~lock.writer_locked => \A t \in Elements(lock.q) : lk[t].type = "WRITE"
      /\ Cardinality(In("inside")) <= 1

(* Threads that run have stacks of their own, above STACK_BOTTOM, up to    *)
(* the point where thr_exit lets its joiner go on: from there to vanish a  *)
(* new thread may be on the same stack.                                    *)
StacksDisjoint ==
  \A t, u \in {x \in Thread : pc[x] \notin {"unborn", "vanish", "gone"}} :
    /\ stack[t] < stacks
    /\ t # u => stack[t] # stack[u]

(* A join that succeeds returns the exit status of the thread it named. *)
JoinsItsThread == \A j \in joined : j[1] = j[2]

(* No wakeup is lost: whoever sleeps on a lock or the semaphore, or waits  *)
(* to join, goes on, when the others do.                                   *)
NobodyHangs ==
  \A t \in Thread :
    /\ lk[t] # NULL ~> lk[t] = NULL
    /\ pc[t] = "joining" ~> pc[t] # "joining"

=============================================================================
