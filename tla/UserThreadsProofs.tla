-------------------------- MODULE UserThreadsProofs --------------------------
(***************************************************************************)
(* Proofs that the invariants of UserThreads hold for any number of        *)
(* threads: the program's lock and semaphore exclude whoever creates and   *)
(* joins threads, stacks are disjoint if one thread creates the others,    *)
(* and joins return the right status if one thread joins them.             *)
(***************************************************************************)
EXTENDS UserThreads, SequenceTheorems, FiniteSetTheorems, WellFoundedInduction, TLAPS

-----------------------------------------------------------------------------
(* Types. *)

Points ==
  {"unborn", "out", "reading", "writing", "inside", "search", "fork", "link", "settid",
   "stuck", "exit", "vanish", "gone", "find", "join", "joining", "woken"}

RwLock == [count : Int, writer_locked : BOOLEAN, q : Seq(Thread)]

ThreadEntry ==
  [k_tid : Int, stack_top : Nat, status : {"ALIVE", "ZOMBIE", "DEAD"}, exit_status : Int,
   pending_join : BOOLEAN, waiter : Thread \cup {NULL}]

Locals == [target : Nat, found : Nat, esp : Nat, child : Nat]

TypeInv ==
  /\ pool \in Seq(ThreadEntry)
  /\ poolLock \in RwLock /\ lock \in RwLock
  /\ sem \in [count : Int, q : Seq(Thread)]
  /\ stacks \in Nat /\ started \in Thread
  /\ stack \in [Thread -> Nat]
  /\ pc \in [Thread -> Points]
  /\ lk \in [Thread -> Request \cup {NULL}]
  /\ loc \in [Thread -> Locals]

-----------------------------------------------------------------------------
(* The locks. *)

(* Who has to take what, and where. *)
Wanted ==
  {<<"reading", "lock", "READ">>, <<"writing", "lock", "WRITE">>, <<"inside", "sem", "WAIT">>,
   <<"search", "pool", "READ">>, <<"link", "pool", "WRITE">>, <<"exit", "pool", "READ">>,
   <<"find", "pool", "READ">>}

WantInv ==
  \A t \in Thread : lk[t] # NULL => <<pc[t], lk[t].what, lk[t].type>> \in Wanted

(* q has each thread that sleeps on what once. *)
Sleeps(t, what) == lk[t] # NULL /\ lk[t].what = what /\ lk[t].asleep

Queue(q, what) ==
  /\ \A i, j \in DOMAIN q : q[i] = q[j] => i = j
  /\ \A t \in Thread : t \in Elements(q) <=> Sleeps(t, what)

QueueInv == Queue(poolLock.q, "pool") /\ Queue(lock.q, "lock") /\ Queue(sem.q, "sem")

Inside(p) == {t \in Thread : At(t, p)}

(* The program's lock. *)
RwInv ==
  /\ Cardinality(Inside("reading")) = lock.count
  /\ Cardinality(Inside("writing")) = IF lock.writer_locked THEN 1 ELSE 0
  /\ lock.writer_locked => lock.count = 0
  /\ ~lock.writer_locked => \A t \in Elements(lock.q) : lk[t].type = "WRITE"

(* Its semaphore. *)
SemInv ==
  /\ sem.count <= 1
  /\ sem.count = 1 => Inside("inside") = {}
  /\ \A t, u \in Inside("inside") : t = u

-----------------------------------------------------------------------------
(* The pool. *)

(* Who is waiting to join is one who is at it. *)
WaiterInv ==
  \A i \in DOMAIN pool :
    pool[i].waiter # NULL => pc[pool[i].waiter] = "joining" /\ loc[pool[i].waiter].target = i

CreatePoints == {"search", "fork", "link", "settid", "stuck"}
JoinPoints == {"join", "joining", "woken"}

(* Who is where, and what the local variables stand for. *)
PlaceInv ==
  /\ \A t \in Thread : t > started => pc[t] = "unborn"
  /\ \A t \in Thread : pc[t] \in CreatePoints => t \in Creators
  /\ \A t \in Thread : pc[t] \in JoinPoints \cup {"find"} => t \in Joiners /\ loc[t].child \in Thread
  /\ \A t \in Thread : pc[t] \in JoinPoints => loc[t].target \in DOMAIN pool

(* The entries of the pool: one for a thread, and a thread that is being   *)
(* created has none yet.  A dead entry, or one that is used again, has no  *)
(* thread.                                                                 *)
Reused(t) == pc[t] \in {"fork", "settid"} /\ loc[t].found # 0
Created(t) == pc[t] \in {"link", "settid"}

EntryInv ==
  /\ \A i \in DOMAIN pool :
       /\ pool[i].k_tid = -1 \/ pool[i].k_tid \in 1 .. started
       /\ pool[i].status = "DEAD" => pool[i].k_tid = -1
       /\ pool[i].status = "ZOMBIE" => pool[i].exit_status = pool[i].k_tid
  /\ \A i, j \in DOMAIN pool : pool[i].k_tid = pool[j].k_tid /\ pool[i].k_tid # -1 => i = j
  /\ \A t \in Thread :
       Reused(t) => /\ loc[t].found \in DOMAIN pool
                    /\ pool[loc[t].found].k_tid = -1 /\ pool[loc[t].found].status = "ALIVE"
  /\ \A t, u \in Thread : Reused(t) /\ Reused(u) /\ loc[t].found = loc[u].found => t = u
  /\ \A t \in Thread :
       Created(t) => /\ loc[t].child \in 1 .. started
                     /\ \A i \in DOMAIN pool : pool[i].k_tid # loc[t].child
  /\ \A t, u \in Thread : Created(t) /\ Created(u) /\ loc[t].child = loc[u].child => t = u
  /\ \A t \in Thread : pc[t] = "link" => loc[t].found = 0
  /\ \A t \in Thread : pc[t] = "settid" => loc[t].found # 0

-----------------------------------------------------------------------------
(* With one joiner: what it has found stays the entry it looked for. *)
OneJoiner == \A t, u \in Joiners : t = u

JoinInv ==
  \A t \in Thread :
    pc[t] \in JoinPoints =>
      /\ pool[loc[t].target].k_tid = loc[t].child
      /\ pool[loc[t].target].status # "DEAD"

(* With one creator: where a running thread's stack is. *)
OneCreator == \A t, u \in Creators : t = u

Running(x) == pc[x] \notin {"unborn", "vanish", "gone"}

Home(x) ==
  \/ \E i \in DOMAIN pool : pool[i].k_tid = x /\ pool[i].status = "ALIVE" /\ stack[x] = i - 1
  \/ \E t \in Thread : Created(t) /\ loc[t].child = x /\ stack[x] = loc[t].esp

TopsInv ==
  /\ \A i \in DOMAIN pool : pool[i].stack_top = i - 1
  /\ Len(pool) <= stacks

EspInv ==
  \A t \in Thread :
    /\ pc[t] \in {"fork", "link"} /\ loc[t].found = 0 => loc[t].esp = Len(pool)
    /\ Reused(t) => loc[t].esp = loc[t].found - 1
    /\ pc[t] = "link" => loc[t].esp < stacks

HomeInv == \A x \in Thread : Running(x) => Home(x)

StackInv == TopsInv /\ EspInv /\ HomeInv

-----------------------------------------------------------------------------
(* Lemmas about the operators. *)

(* The thread count is a natural number, and NULL is neither a thread nor  *)
(* a request.                                                              *)
LEMMA Constants ==
  /\ MaxThreads \in Nat /\ MaxThreads >= 1 /\ Main \in Thread /\ Thread \subseteq Nat
  /\ NULL \notin Thread /\ NULL \notin Request
BY UserThreadsAssumption DEF Thread, Main

(* What a thread is about to take. *)
LEMMA Requests ==
  /\ Taking("pool", "READ") \in Request /\ Taking("pool", "WRITE") \in Request
  /\ Taking("lock", "READ") \in Request /\ Taking("lock", "WRITE") \in Request
  /\ Taking("sem", "WAIT") \in Request
  /\ \A r \in Request : [r EXCEPT !.asleep = TRUE] \in Request
<1>1. /\ Taking("pool", "READ") \in Request /\ Taking("pool", "WRITE") \in Request
      /\ Taking("lock", "READ") \in Request /\ Taking("lock", "WRITE") \in Request
      /\ Taking("sem", "WAIT") \in Request
  BY DEF Taking, Request
<1>2. \A r \in Request : [r EXCEPT !.asleep = TRUE] \in Request
  BY DEF Request
<1>. QED
  BY <1>1, <1>2

(* The fields of a request that is new. *)
LEMMA TakingIs ==
  \A what, type : /\ Taking(what, type).what = what /\ Taking(what, type).type = type
                  /\ ~Taking(what, type).asleep
BY DEF Taking

(* ll_find returns an entry that fits, and 0 only if none does. *)
LEMMA FirstIs ==
  ASSUME NEW S \in SUBSET (Nat \ {0})
  PROVE  /\ S = {} => First(S) = 0
         /\ S # {} => First(S) \in S /\ First(S) # 0
<1>1. CASE S = {}
  BY <1>1 DEF First
<1>2. CASE S # {}
  <2>1. PICK m \in S : \A x \in S : ~(<<x, m>> \in OpToRel(<, Nat))
    BY <1>2, NatLessThanWellFounded, WFMin
  <2>2. ASSUME NEW x \in S PROVE m <= x
    <3>1. <<x, m>> \in Nat \X Nat
      OBVIOUS
    <3>2. ~(<<x, m>>[1] < <<x, m>>[2])
      BY <2>1, <3>1 DEF OpToRel
    <3>. QED
      BY <3>2
  <2>. QED
    BY <1>2, <2>2 DEF First
<1>. QED
  BY <1>1, <1>2

(* The lookups in the pool. *)
LEMMA Finds ==
  ASSUME pool \in Seq(ThreadEntry)
  PROVE  /\ \A k : LET i == find_thread_by_k_tid(k) IN
              i # 0 => i \in DOMAIN pool /\ pool[i].k_tid = k
         /\ LET i == First({k \in DOMAIN pool : pool[k].status = "DEAD"}) IN
              i # 0 => i \in DOMAIN pool /\ pool[i].status = "DEAD"
<1>1. DOMAIN pool \subseteq Nat \ {0}
  OBVIOUS
<1>2. ASSUME NEW k, find_thread_by_k_tid(k) # 0
      PROVE  find_thread_by_k_tid(k) \in {i \in DOMAIN pool : pool[i].k_tid = k}
  <2> DEFINE S == {i \in DOMAIN pool : pool[i].k_tid = k}
  <2>1. S \in SUBSET (Nat \ {0})
    BY <1>1
  <2>2. First(S) # 0
    BY <1>2 DEF find_thread_by_k_tid
  <2> HIDE DEF S
  <2>3. First(S) \in S
    BY <2>1, <2>2, FirstIs
  <2>. QED
    BY <2>3 DEF S, find_thread_by_k_tid
<1>3. ASSUME First({k \in DOMAIN pool : pool[k].status = "DEAD"}) # 0
      PROVE  First({k \in DOMAIN pool : pool[k].status = "DEAD"})
               \in {k \in DOMAIN pool : pool[k].status = "DEAD"}
  <2> DEFINE S == {k \in DOMAIN pool : pool[k].status = "DEAD"}
  <2>1. S \in SUBSET (Nat \ {0})
    BY <1>1
  <2>2. First(S) # 0
    BY <1>3
  <2> HIDE DEF S
  <2>3. First(S) \in S
    BY <2>1, <2>2, FirstIs
  <2>. QED
    BY <2>3 DEF S
<1>. QED
  BY <1>2, <1>3

(* The operations of the locks return locks. *)
LEMMA LockTypes ==
  ASSUME NEW rw \in RwLock, NEW t \in Thread, NEW type
  PROVE  /\ rwlock_lock(rw, t, type) \in RwLock
         /\ rwlock_unlock(rw) \in RwLock
         /\ rwlock_downgrade(rw) \in RwLock
<1>1. /\ rw.count \in Int /\ rw.count + 1 \in Int /\ rw.count - 1 \in Int /\ 0 \in Int
      /\ rw.q \in Seq(Thread) /\ <<>> \in Seq(Thread)
  BY DEF RwLock
<1>2. Append(rw.q, t) \in Seq(Thread)
  BY <1>1
<1>3. rw.q # <<>> => Tail(rw.q) \in Seq(Thread)
  BY <1>1
<1>4. rwlock_lock(rw, t, type) \in RwLock
  BY <1>1, <1>2 DEF rwlock_lock, cond_wait, RwLock
<1>5. rwlock_unlock(rw) \in RwLock
  BY <1>1, <1>3 DEF rwlock_unlock, cond_broadcast, cond_signal, RwLock
<1>6. rwlock_downgrade(rw) \in RwLock
  BY <1>1 DEF rwlock_downgrade, cond_broadcast, RwLock
<1>. QED
  BY <1>4, <1>5, <1>6

(* The operations of the semaphore return semaphores. *)
LEMMA SemTypes ==
  ASSUME NEW s \in [count : Int, q : Seq(Thread)], NEW t \in Thread
  PROVE  /\ sem_wait(s, t) \in [count : Int, q : Seq(Thread)]
         /\ sem_signal(s) \in [count : Int, q : Seq(Thread)]
<1>1. /\ s.count \in Int /\ s.count + 1 \in Int /\ s.count - 1 \in Int
      /\ s.q \in Seq(Thread)
  OBVIOUS
<1>2. Append(s.q, t) \in Seq(Thread)
  BY <1>1
<1>3. s.q # <<>> => Tail(s.q) \in Seq(Thread)
  BY <1>1
<1>4. sem_wait(s, t) \in [count : Int, q : Seq(Thread)]
  BY <1>1, <1>2 DEF sem_wait
<1>5. sem_signal(s) \in [count : Int, q : Seq(Thread)]
  BY <1>1, <1>3 DEF sem_signal
<1>. QED
  BY <1>4, <1>5

(* new is lk with the threads of W awake. *)
Woken(new, W) ==
  /\ new \in [Thread -> Request \cup {NULL}]
  /\ \A t \in Thread :
       /\ new[t] = NULL <=> lk[t] = NULL
       /\ lk[t] # NULL =>
            /\ new[t].what = lk[t].what /\ new[t].type = lk[t].type
            /\ new[t].asleep <=> lk[t].asleep /\ t \notin W

(* Waking threads that sleep on something. *)
LEMMA WakeIs ==
  ASSUME TypeInv, NEW what, NEW W \in SUBSET {t \in Thread : Sleeps(t, what)}
  PROVE  Woken(Wake(W), W)
<1>1. lk \in [Thread -> Request \cup {NULL}]
  BY DEF TypeInv
<1>2. ASSUME NEW t \in Thread
      PROVE  /\ Wake(W)[t] \in Request \cup {NULL}
             /\ Wake(W)[t] = NULL <=> lk[t] = NULL
             /\ lk[t] # NULL =>
                  /\ Wake(W)[t].what = lk[t].what /\ Wake(W)[t].type = lk[t].type
                  /\ Wake(W)[t].asleep <=> lk[t].asleep /\ t \notin W
  <2>1. CASE t \in W
    <3>1. lk[t] \in Request
      BY <1>1, <2>1 DEF Sleeps
    <3>2. Wake(W)[t] = [lk[t] EXCEPT !.asleep = FALSE]
      BY <2>1 DEF Wake
    <3>. QED
      BY <2>1, <3>1, <3>2, Constants DEF Request
  <2>2. CASE t \notin W
    BY <1>1, <2>2 DEF Wake
  <2>. QED
    BY <2>1, <2>2
<1>. QED
  BY <1>2 DEF Woken, Wake

(* Whom the locks wake sleeps on them. *)
LEMMA WakesSleepers ==
  ASSUME TypeInv, QueueInv
  PROVE  /\ UnlockWakes(poolLock) \in SUBSET {t \in Thread : Sleeps(t, "pool")}
         /\ UnlockWakes(lock) \in SUBSET {t \in Thread : Sleeps(t, "lock")}
         /\ DowngradeWakes(lock) \in SUBSET {t \in Thread : Sleeps(t, "lock")}
         /\ SemWakes(sem) \in SUBSET {t \in Thread : Sleeps(t, "sem")}
<1>1. \A q \in Seq(Thread) :
        Elements(q) \subseteq Thread /\ (q # <<>> => Head(q) \in Elements(q))
  BY DEF Elements
<1>2. poolLock.q \in Seq(Thread) /\ lock.q \in Seq(Thread) /\ sem.q \in Seq(Thread)
  BY DEF TypeInv, RwLock
<1>3. /\ UnlockWakes(poolLock) \subseteq Elements(poolLock.q)
      /\ UnlockWakes(lock) \subseteq Elements(lock.q)
  BY <1>1, <1>2 DEF UnlockWakes, Signalled
<1>4. SemWakes(sem) \subseteq Elements(sem.q)
  BY <1>1, <1>2 DEF SemWakes, Signalled
<1>5. DowngradeWakes(lock) = Elements(lock.q)
  BY DEF DowngradeWakes
<1>. QED
  BY <1>1, <1>2, <1>3, <1>4, <1>5 DEF QueueInv, Queue

(* The unlocks wake sleepers, and change nothing else. *)
LEMMA UnlockIs ==
  ASSUME TypeInv, QueueInv
  PROVE  /\ Woken(Wake(UnlockWakes(poolLock)), UnlockWakes(poolLock))
         /\ Woken(Wake(UnlockWakes(lock)), UnlockWakes(lock))
         /\ Woken(Wake(DowngradeWakes(lock)), DowngradeWakes(lock))
BY WakesSleepers, WakeIs

-----------------------------------------------------------------------------
(* An entry of a thread that has exited, and of one that was reaped. *)
LEMMA EntryTypes ==
  ASSUME NEW e \in ThreadEntry, NEW x \in Int
  PROVE  /\ [e EXCEPT !.status = "ZOMBIE", !.exit_status = x, !.waiter = NULL] \in ThreadEntry
         /\ [e EXCEPT !.status = "DEAD", !.k_tid = x, !.pending_join = FALSE] \in ThreadEntry
         /\ [e EXCEPT !.k_tid = x] \in ThreadEntry
<1>1. [e EXCEPT !.status = "ZOMBIE", !.exit_status = x, !.waiter = NULL] \in ThreadEntry
  BY DEF ThreadEntry
<1>2. [e EXCEPT !.status = "DEAD", !.k_tid = x, !.pending_join = FALSE] \in ThreadEntry
  BY DEF ThreadEntry
<1>3. [e EXCEPT !.k_tid = x] \in ThreadEntry
  BY DEF ThreadEntry
<1>. QED
  BY <1>1, <1>2, <1>3

(* Another state of an entry of the pool. *)
LEMMA PoolTypes ==
  ASSUME pool \in Seq(ThreadEntry), NEW i \in DOMAIN pool, NEW e \in ThreadEntry
  PROVE  [pool EXCEPT ![i] = e] \in Seq(ThreadEntry)
OBVIOUS

(* Every step keeps the types. *)
LEMMA TypeStep ==
  ASSUME TypeInv, QueueInv, PlaceInv, EntryInv, [Next]_vars
  PROVE  TypeInv'
<1>ty. /\ pool \in Seq(ThreadEntry) /\ poolLock \in RwLock /\ lock \in RwLock
       /\ sem \in [count : Int, q : Seq(Thread)] /\ stacks \in Nat /\ started \in Thread
       /\ stack \in [Thread -> Nat] /\ pc \in [Thread -> Points]
       /\ lk \in [Thread -> Request \cup {NULL}] /\ loc \in [Thread -> Locals]
  BY DEF TypeInv
<1>wk. /\ Wake(UnlockWakes(poolLock)) \in [Thread -> Request \cup {NULL}]
       /\ Wake(UnlockWakes(lock)) \in [Thread -> Request \cup {NULL}]
       /\ Wake(DowngradeWakes(lock)) \in [Thread -> Request \cup {NULL}]
  BY UnlockIs DEF Woken
<1>nl. NoLocals \in Locals
  BY DEF NoLocals, Locals
<1>ac. \A t \in Thread :
         /\ pc[t] \in JoinPoints => loc[t].target \in DOMAIN pool
         /\ Reused(t) => loc[t].found \in DOMAIN pool
  BY DEF PlaceInv, EntryInv
<1>en. \A i \in DOMAIN pool : pool[i] \in ThreadEntry
  BY <1>ty
<1>1. ASSUME NEW t \in Thread, TakePool(t) PROVE TypeInv'
  <2>1. lk' \in [Thread -> Request \cup {NULL}]
    BY <1>1, <1>ty, Requests DEF TakePool
  <2>2. poolLock' \in RwLock
    BY <1>1, <1>ty, LockTypes DEF TakePool
  <2>. QED
    BY <1>1, <1>ty, <2>1, <2>2 DEF TakePool, TypeInv
<1>2. ASSUME NEW t \in Thread, TakeLock(t) PROVE TypeInv'
  <2>1. lk' \in [Thread -> Request \cup {NULL}]
    BY <1>2, <1>ty, Requests DEF TakeLock
  <2>2. lock' \in RwLock
    BY <1>2, <1>ty, LockTypes DEF TakeLock
  <2>. QED
    BY <1>2, <1>ty, <2>1, <2>2 DEF TakeLock, TypeInv, libVars
<1>3. ASSUME NEW t \in Thread, TakeSem(t) PROVE TypeInv'
  <2>1. lk' \in [Thread -> Request \cup {NULL}]
    BY <1>3, <1>ty, Requests DEF TakeSem
  <2>2. sem' \in [count : Int, q : Seq(Thread)]
    BY <1>3, <1>ty, SemTypes DEF TakeSem
  <2>. QED
    BY <1>3, <1>ty, <2>1, <2>2 DEF TakeSem, TypeInv, libVars
<1>4. ASSUME NEW t \in Thread, Use(t) PROVE TypeInv'
  BY <1>4, <1>ty, Requests DEF Use, Take, Goto, Points, TypeInv
<1>5. ASSUME NEW t \in Thread, Unlock(t) PROVE TypeInv'
  BY <1>5, <1>ty, <1>wk, LockTypes DEF Unlock, Goto, Points, TypeInv, libVars
<1>6. ASSUME NEW t \in Thread, Downgrade(t) PROVE TypeInv'
  BY <1>6, <1>ty, <1>wk, LockTypes DEF Downgrade, Goto, Points, TypeInv, libVars
<1>7. ASSUME NEW t \in Thread, SemSignal(t) PROVE TypeInv'
  BY <1>7, <1>ty, SemTypes DEF SemSignal, Goto, Points, TypeInv, libVars
<1>8. ASSUME NEW t \in Thread, thr_create(t) PROVE TypeInv'
  BY <1>8, <1>ty, Requests DEF thr_create, Take, Goto, Points, TypeInv, libVars
<1>9. ASSUME NEW t \in Thread, Search(t) PROVE TypeInv'
  <2> DEFINE i == First({k \in DOMAIN pool : pool[k].status = "DEAD"})
  <2>i. i # 0 => i \in DOMAIN pool
    BY <1>ty, Finds
  <2> HIDE DEF i
  <2>1. pool' \in Seq(ThreadEntry)
    <3>1. CASE i = 0
      BY <1>9, <1>ty, <3>1 DEF Search, i
    <3>2. CASE i # 0
      <4>1. i \in DOMAIN pool
        BY <2>i, <3>2
      <4>2. [pool[i] EXCEPT !.status = "ALIVE", !.waiter = NULL] \in ThreadEntry
        BY <1>en, <4>1 DEF ThreadEntry
      <4>3. pool' = [pool EXCEPT ![i] = [pool[i] EXCEPT !.status = "ALIVE", !.waiter = NULL]]
        BY <1>9, <3>2, <4>1 DEF Search, i
      <4>. QED
        BY <1>ty, <4>1, <4>2, <4>3, PoolTypes
    <3>. QED
      BY <3>1, <3>2
  <2>2. loc' \in [Thread -> Locals]
    <3>1. (IF i = 0 THEN Len(pool) ELSE pool[i].stack_top) \in Nat /\ i \in Nat
      BY <1>ty, <1>en, <2>i DEF ThreadEntry
    <3>2. [loc[t] EXCEPT !.found = i, !.esp = IF i = 0 THEN Len(pool) ELSE pool[i].stack_top]
            \in Locals
      BY <1>ty, <3>1 DEF Locals
    <3>. QED
      BY <1>9, <1>ty, <3>2 DEF Search, i
  <2>. QED
    BY <1>9, <1>ty, <1>wk, <2>1, <2>2, LockTypes
    DEF Search, ReleasePool, Goto, Points, TypeInv
<1>10. ASSUME NEW t \in Thread, Fork(t) PROVE TypeInv'
  <2>1. started + 1 \in Thread /\ started + 1 \in Nat
    BY <1>10, <1>ty, Constants DEF Fork, Thread
  <2>2. stacks' \in Nat
    BY <1>10, <1>ty DEF Fork, new_thr_page
  <2>3. loc[t].esp \in Nat /\ [loc[t] EXCEPT !.child = started + 1] \in Locals
    BY <1>ty, <2>1 DEF Locals
  <2>4. loc' \in [Thread -> Locals] /\ stack' \in [Thread -> Nat]
    BY <1>10, <1>ty, <2>1, <2>3 DEF Fork
  <2>5. lk' \in [Thread -> Request \cup {NULL}] /\ pc' \in [Thread -> Points]
    BY <1>10, <1>ty, Requests, <2>1 DEF Fork, Points
  <2>. QED
    BY <1>10, <1>ty, <2>1, <2>2, <2>4, <2>5 DEF Fork, TypeInv
<1>11. ASSUME NEW t \in Thread, ForkFails(t) PROVE TypeInv'
  <2>1. pool' \in Seq(ThreadEntry)
    <3>1. CASE loc[t].found = 0
      BY <1>11, <1>ty, <3>1 DEF ForkFails
    <3>2. CASE loc[t].found # 0
      <4>1. loc[t].found \in DOMAIN pool
        BY <1>11, <1>ac, <3>2 DEF ForkFails, At, Reused
      <4>2. [pool[loc[t].found] EXCEPT !.status = "DEAD"] \in ThreadEntry
        BY <1>en, <4>1 DEF ThreadEntry
      <4>3. pool' = [pool EXCEPT ![loc[t].found] =
                       [pool[loc[t].found] EXCEPT !.status = "DEAD"]]
        BY <1>11, <3>2, <4>1 DEF ForkFails
      <4>. QED
        BY <1>ty, <4>1, <4>2, <4>3, PoolTypes
    <3>. QED
      BY <3>1, <3>2
  <2>. QED
    BY <1>11, <1>ty, <1>nl, <2>1 DEF ForkFails, Goto, Points, TypeInv
<1>12. ASSUME NEW t \in Thread, add_to_pool_s(t) PROVE TypeInv'
  <2>1. PICK pending \in BOOLEAN :
          pool' = Append(pool, Entry(loc[t].child, loc[t].esp, pending))
    BY <1>12 DEF add_to_pool_s
  <2>2. Entry(loc[t].child, loc[t].esp, pending) \in ThreadEntry
    BY <1>ty DEF Entry, ThreadEntry, Locals
  <2>3. pool' \in Seq(ThreadEntry)
    BY <1>ty, <2>1, <2>2
  <2>. QED
    BY <1>12, <1>ty, <1>nl, <1>wk, <2>3, LockTypes
    DEF add_to_pool_s, ReleasePool, Goto, Points, TypeInv
<1>13. ASSUME NEW t \in Thread, SetTid(t) PROVE TypeInv'
  <2>1. pool' \in Seq(ThreadEntry)
    <3>1. loc[t].found \in DOMAIN pool
      BY <1>13, <1>ac DEF SetTid, At, Reused, EntryInv
    <3>2. [pool[loc[t].found] EXCEPT !.k_tid = loc[t].child] \in ThreadEntry
      <4>1. loc[t].child \in Int
        BY <1>ty DEF Locals
      <4>. QED
        BY <1>en, <3>1, <4>1, EntryTypes
    <3>. QED
      BY <1>13, <1>ty, <3>1, <3>2, PoolTypes DEF SetTid
  <2>. QED
    BY <1>13, <1>ty, <1>nl, <2>1 DEF SetTid, Goto, Points, TypeInv
<1>14. ASSUME NEW t \in Thread, thr_exit(t) PROVE TypeInv'
  BY <1>14, <1>ty, Requests DEF thr_exit, Take, Goto, Points, TypeInv, libVars
<1>15. ASSUME NEW t \in Thread, ExitMissing(t) PROVE TypeInv'
  BY <1>15, <1>ty, <1>wk, Requests, LockTypes DEF ExitMissing, TypeInv
<1>16. ASSUME NEW t \in Thread, ExitFound(t) PROVE TypeInv'
  <2> DEFINE i == find_thread_by_k_tid(t)
  <2>1. i \in DOMAIN pool
    BY <1>16, <1>ty, Finds DEF ExitFound
  <2> HIDE DEF i
  <2>2. [pool[i] EXCEPT !.status = "ZOMBIE", !.exit_status = t, !.waiter = NULL] \in ThreadEntry
    <3>1. t \in Int
      BY Constants
    <3>. QED
      BY <1>en, <2>1, <3>1, EntryTypes
  <2>3. pool' = [pool EXCEPT ![i] =
                   [pool[i] EXCEPT !.status = "ZOMBIE", !.exit_status = t, !.waiter = NULL]]
    BY <1>16, <2>1 DEF ExitFound, i
  <2>4. pool' \in Seq(ThreadEntry)
    BY <1>ty, <2>1, <2>2, <2>3, PoolTypes
  <2>5. pc' \in [Thread -> Points]
    BY <1>16, <1>ty DEF ExitFound, Points
  <2>. QED
    BY <1>16, <1>ty, <1>wk, <2>4, <2>5, LockTypes DEF ExitFound, TypeInv
<1>17. ASSUME NEW t \in Thread, vanish(t) PROVE TypeInv'
  BY <1>17, <1>ty DEF vanish, Goto, Points, TypeInv, libVars
<1>18. ASSUME NEW t \in Thread, JoinFind(t) PROVE TypeInv'
  <2> DEFINE i == find_thread_by_k_tid(loc[t].child)
  <2>1. i # 0 => i \in DOMAIN pool
    BY <1>ty, Finds
  <2> HIDE DEF i
  <2>2. i \in Nat
    BY <1>ty, <2>1
  <2>3. [loc[t] EXCEPT !.target = i] \in Locals
    BY <1>ty, <2>2 DEF Locals
  <2>4. loc' \in [Thread -> Locals]
    BY <1>18, <1>ty, <1>nl, <2>3 DEF JoinFind, i
  <2>. QED
    BY <1>18, <1>ty, <1>wk, <2>4, LockTypes
    DEF JoinFind, ReleasePool, Goto, Points, TypeInv
<1>19. ASSUME NEW t \in Thread, JoinRefused(t) PROVE TypeInv'
  BY <1>19, <1>ty, <1>nl DEF JoinRefused, Goto, Points, TypeInv, libVars
<1>20. ASSUME NEW t \in Thread, JoinWait(t) PROVE TypeInv'
  <2> DEFINE i == loc[t].target
  <2>1. i \in DOMAIN pool
    BY <1>20, <1>ac DEF JoinWait, At, JoinPoints
  <2>2. [pool[i] EXCEPT !.pending_join = TRUE, !.waiter = t] \in ThreadEntry
    BY <1>en, <2>1 DEF ThreadEntry
  <2>3. pool' = [pool EXCEPT ![i] = [pool[i] EXCEPT !.pending_join = TRUE, !.waiter = t]]
    BY <1>20, <2>1 DEF JoinWait
  <2>4. pool' \in Seq(ThreadEntry)
    BY <1>ty, <2>1, <2>2, <2>3, PoolTypes
  <2>. QED
    BY <1>20, <1>ty, <2>4 DEF JoinWait, Goto, Points, TypeInv
<1>21. ASSUME NEW t \in Thread, reap_zombie(t) PROVE TypeInv'
  <2> DEFINE i == loc[t].target
  <2>1. i \in DOMAIN pool
    BY <1>21, <1>ac DEF reap_zombie, At, JoinPoints
  <2>2. [pool[i] EXCEPT !.status = "DEAD", !.k_tid = -1, !.pending_join = FALSE] \in ThreadEntry
    <3>1. -1 \in Int
      OBVIOUS
    <3>. QED
      BY <1>en, <2>1, <3>1, EntryTypes
  <2>3. pool' = [pool EXCEPT ![i] =
                   [pool[i] EXCEPT !.status = "DEAD", !.k_tid = -1, !.pending_join = FALSE]]
    BY <1>21, <2>1 DEF reap_zombie
  <2>4. pool' \in Seq(ThreadEntry)
    BY <1>ty, <2>1, <2>2, <2>3, PoolTypes
  <2>. QED
    BY <1>21, <1>ty, <1>nl, <2>4 DEF reap_zombie, Goto, Points, TypeInv
<1>22. ASSUME NEW t \in Thread, NEW k \in Thread \ {t, Main}, thr_join(t, k) PROVE TypeInv'
  <2>1. [loc[t] EXCEPT !.child = k] \in Locals
    BY <1>ty, Constants DEF Locals
  <2>. QED
    BY <1>22, <1>ty, Requests, <2>1 DEF thr_join, Take, Goto, Points, TypeInv, libVars
<1>23. CASE UNCHANGED vars
  BY <1>23, <1>ty DEF TypeInv, vars, libVars
<1>. QED
  BY <1>1, <1>2, <1>3, <1>4, <1>5, <1>6, <1>7, <1>8, <1>9, <1>10, <1>11, <1>12, <1>13,
     <1>14, <1>15, <1>16, <1>17, <1>18, <1>19, <1>20, <1>21, <1>22, <1>23
  DEF Next, Step

-----------------------------------------------------------------------------
(* Every step keeps who has to take what, and who is where. *)

(* Who has to take a lock is at a point where the code takes it. *)
LEMMA WantStep ==
  ASSUME TypeInv, QueueInv, WantInv, PlaceInv, WaiterInv, [Next]_vars
  PROVE  WantInv'
<1>ty. /\ pool \in Seq(ThreadEntry) /\ started \in Thread
       /\ pc \in [Thread -> Points]
       /\ lk \in [Thread -> Request \cup {NULL}] /\ loc \in [Thread -> Locals]
  BY DEF TypeInv
<1>wk. /\ Woken(Wake(UnlockWakes(poolLock)), UnlockWakes(poolLock))
       /\ Woken(Wake(UnlockWakes(lock)), UnlockWakes(lock))
       /\ Woken(Wake(DowngradeWakes(lock)), DowngradeWakes(lock))
  BY UnlockIs
<1>wt. \A u \in Thread : lk[u] # NULL => <<pc[u], lk[u].what, lk[u].type>> \in Wanted
  BY DEF WantInv
<1>rq. \A what, type :
         /\ Taking(what, type) # NULL \/ Taking(what, type) \notin Request
         /\ Taking(what, type).what = what /\ Taking(what, type).type = type
  BY TakingIs, Constants
<1>1. ASSUME NEW t \in Thread, TakePool(t) PROVE WantInv'
  <2>1. lk[t] \in Request
    BY <1>1, Requests DEF TakePool
  <2>2. /\ lk[t] \in Request /\ pc' = pc
        /\ lk' = [lk EXCEPT ![t] = IF MustWait(poolLock, lk[t].type)
                                     THEN [@ EXCEPT !.asleep = TRUE] ELSE NULL]
    BY <1>1, <2>1 DEF TakePool
  <2>3. [lk[t] EXCEPT !.asleep = TRUE].what = lk[t].what
        /\ [lk[t] EXCEPT !.asleep = TRUE].type = lk[t].type
    BY <2>2 DEF Request
  <2>. QED
    BY <1>ty, <1>wt, <2>2, <2>3, Constants DEF WantInv
<1>2. ASSUME NEW t \in Thread, TakeLock(t) PROVE WantInv'
  <2>1. lk[t] \in Request
    BY <1>2, Requests DEF TakeLock
  <2>2. /\ lk[t] \in Request /\ pc' = pc
        /\ lk' = [lk EXCEPT ![t] = IF MustWait(lock, lk[t].type)
                                     THEN [@ EXCEPT !.asleep = TRUE] ELSE NULL]
    BY <1>2, <2>1 DEF TakeLock
  <2>3. [lk[t] EXCEPT !.asleep = TRUE].what = lk[t].what
        /\ [lk[t] EXCEPT !.asleep = TRUE].type = lk[t].type
    BY <2>2 DEF Request
  <2>. QED
    BY <1>ty, <1>wt, <2>2, <2>3, Constants DEF WantInv
<1>3. ASSUME NEW t \in Thread, TakeSem(t) PROVE WantInv'
  <2>1. lk[t] \in Request
    BY <1>3, Requests DEF TakeSem
  <2>2. /\ lk[t] \in Request /\ pc' = pc
        /\ lk' = [lk EXCEPT ![t] = IF sem.count - 1 < 0
                                     THEN [@ EXCEPT !.asleep = TRUE] ELSE NULL]
    BY <1>3, <2>1 DEF TakeSem
  <2>3. [lk[t] EXCEPT !.asleep = TRUE].what = lk[t].what
        /\ [lk[t] EXCEPT !.asleep = TRUE].type = lk[t].type
    BY <2>2 DEF Request
  <2>. QED
    BY <1>ty, <1>wt, <2>2, <2>3, Constants DEF WantInv
<1>4. ASSUME NEW t \in Thread, Use(t) PROVE WantInv'
  BY <1>4, <1>ty, <1>wt, <1>rq DEF Use, Take, Goto, WantInv, Wanted
<1>5. ASSUME NEW t \in Thread, Unlock(t) PROVE WantInv'
  BY <1>5, <1>ty, <1>wk, <1>wt DEF Unlock, At, Goto, Woken, WantInv
<1>6. ASSUME NEW t \in Thread, Downgrade(t) PROVE WantInv'
  BY <1>6, <1>ty, <1>wk, <1>wt DEF Downgrade, At, Goto, Woken, WantInv
<1>7. ASSUME NEW t \in Thread, SemSignal(t) PROVE WantInv'
  BY <1>7, <1>ty, <1>wt DEF SemSignal, At, Goto, WantInv
<1>8. ASSUME NEW t \in Thread, thr_create(t) PROVE WantInv'
  BY <1>8, <1>ty, <1>wt, <1>rq DEF thr_create, Take, Goto, WantInv, Wanted
<1>9. ASSUME NEW t \in Thread, Search(t) PROVE WantInv'
  BY <1>9, <1>ty, <1>wk, <1>wt DEF Search, ReleasePool, At, Goto, Woken, WantInv
<1>10. ASSUME NEW t \in Thread, Fork(t) PROVE WantInv'
  <2>1. started + 1 \in Thread /\ pc[started + 1] = "unborn"
    BY <1>10, <1>ty, Constants DEF Fork, PlaceInv, Thread
  <2>2. lk[started + 1] = NULL
    BY <1>wt, <2>1 DEF Wanted
  <2>. QED
    BY <1>10, <1>ty, <1>wt, <1>rq, <2>1, <2>2 DEF Fork, At, WantInv, Wanted
<1>11. ASSUME NEW t \in Thread, ForkFails(t) PROVE WantInv'
  BY <1>11, <1>ty, <1>wt DEF ForkFails, At, Goto, WantInv
<1>12. ASSUME NEW t \in Thread, add_to_pool_s(t) PROVE WantInv'
  BY <1>12, <1>ty, <1>wk, <1>wt DEF add_to_pool_s, ReleasePool, At, Goto, Woken, WantInv
<1>13. ASSUME NEW t \in Thread, SetTid(t) PROVE WantInv'
  BY <1>13, <1>ty, <1>wt DEF SetTid, At, Goto, WantInv
<1>14. ASSUME NEW t \in Thread, thr_exit(t) PROVE WantInv'
  BY <1>14, <1>ty, <1>wt, <1>rq DEF thr_exit, Take, Goto, WantInv, Wanted
<1>15. ASSUME NEW t \in Thread, ExitMissing(t) PROVE WantInv'
  BY <1>15, <1>ty, <1>wk, <1>wt, <1>rq DEF ExitMissing, At, Woken, WantInv, Wanted
<1>16. ASSUME NEW t \in Thread, ExitFound(t) PROVE WantInv'
  <2>1. find_thread_by_k_tid(t) \in DOMAIN pool
    BY <1>16, <1>ty, Finds DEF ExitFound
  <2>2. ASSUME NEW u \in Thread, u = pool[find_thread_by_k_tid(t)].waiter
        PROVE  lk[u] = NULL
    BY <1>wt, <2>1, <2>2, Constants DEF WaiterInv, Wanted
  <2>. QED
    BY <1>16, <1>ty, <1>wk, <1>wt, <2>2 DEF ExitFound, At, Woken, WantInv
<1>17. ASSUME NEW t \in Thread, vanish(t) PROVE WantInv'
  BY <1>17, <1>ty, <1>wt DEF vanish, At, Goto, WantInv, libVars
<1>18. ASSUME NEW t \in Thread, JoinFind(t) PROVE WantInv'
  BY <1>18, <1>ty, <1>wk, <1>wt DEF JoinFind, ReleasePool, At, Goto, Woken, WantInv
<1>19. ASSUME NEW t \in Thread, JoinRefused(t) PROVE WantInv'
  BY <1>19, <1>ty, <1>wt DEF JoinRefused, At, Goto, WantInv, libVars
<1>20. ASSUME NEW t \in Thread, JoinWait(t) PROVE WantInv'
  BY <1>20, <1>ty, <1>wt DEF JoinWait, At, Goto, WantInv
<1>21. ASSUME NEW t \in Thread, reap_zombie(t) PROVE WantInv'
  BY <1>21, <1>ty, <1>wt DEF reap_zombie, At, Goto, WantInv
<1>22. ASSUME NEW t \in Thread, NEW k \in Thread \ {t, Main}, thr_join(t, k) PROVE WantInv'
  BY <1>22, <1>ty, <1>wt, <1>rq DEF thr_join, Take, Goto, WantInv, Wanted
<1>23. CASE UNCHANGED vars
  BY <1>23, <1>wt DEF WantInv, vars
<1>. QED
  BY <1>1, <1>2, <1>3, <1>4, <1>5, <1>6, <1>7, <1>8, <1>9, <1>10, <1>11, <1>12, <1>13,
     <1>14, <1>15, <1>16, <1>17, <1>18, <1>19, <1>20, <1>21, <1>22, <1>23
  DEF Next, Step

(* The points of thr_create and thr_join, and what they have in loc. *)
LEMMA PlaceStep ==
  ASSUME TypeInv, QueueInv, WantInv, PlaceInv, WaiterInv, [Next]_vars
  PROVE  PlaceInv'
<1>ty. /\ pool \in Seq(ThreadEntry) /\ started \in Thread
       /\ pc \in [Thread -> Points]
       /\ lk \in [Thread -> Request \cup {NULL}] /\ loc \in [Thread -> Locals]
  BY DEF TypeInv
<1>pl. \A u \in Thread :
         /\ u > started => pc[u] = "unborn"
         /\ pc[u] \in CreatePoints => u \in Creators
         /\ pc[u] \in JoinPoints \cup {"find"} => u \in Joiners /\ loc[u].child \in Thread
         /\ pc[u] \in JoinPoints => loc[u].target \in DOMAIN pool
  BY DEF PlaceInv
<1>lo. /\ loc \in [Thread -> Locals]
       /\ \A u \in Thread : \A x :
            /\ [loc[u] EXCEPT !.target = x].target = x
            /\ [loc[u] EXCEPT !.target = x].child = loc[u].child
            /\ [loc[u] EXCEPT !.child = x].child = x
  BY <1>ty DEF Locals
<1>nu. Thread \subseteq Nat
  BY Constants
<1>1. ASSUME NEW t \in Thread, TakePool(t) PROVE PlaceInv'
  BY <1>1, <1>ty, <1>pl DEF TakePool, PlaceInv
<1>2. ASSUME NEW t \in Thread, TakeLock(t) PROVE PlaceInv'
  BY <1>2, <1>ty, <1>pl DEF TakeLock, PlaceInv, libVars
<1>3. ASSUME NEW t \in Thread, TakeSem(t) PROVE PlaceInv'
  BY <1>3, <1>ty, <1>pl DEF TakeSem, PlaceInv, libVars
<1>4. ASSUME NEW t \in Thread, Use(t) PROVE PlaceInv'
  BY <1>4, <1>ty, <1>pl, <1>nu
  DEF Use, At, Take, Goto, PlaceInv, CreatePoints, JoinPoints
<1>5. ASSUME NEW t \in Thread, Unlock(t) PROVE PlaceInv'
  BY <1>5, <1>ty, <1>pl, <1>nu
  DEF Unlock, At, Goto, libVars, PlaceInv, CreatePoints, JoinPoints
<1>6. ASSUME NEW t \in Thread, Downgrade(t) PROVE PlaceInv'
  BY <1>6, <1>ty, <1>pl, <1>nu
  DEF Downgrade, At, Goto, libVars, PlaceInv, CreatePoints, JoinPoints
<1>7. ASSUME NEW t \in Thread, SemSignal(t) PROVE PlaceInv'
  BY <1>7, <1>ty, <1>pl, <1>nu
  DEF SemSignal, At, Goto, libVars, PlaceInv, CreatePoints, JoinPoints
<1>8. ASSUME NEW t \in Thread, thr_create(t) PROVE PlaceInv'
  BY <1>8, <1>ty, <1>pl, <1>nu
  DEF thr_create, At, Take, Goto, libVars, PlaceInv, CreatePoints, JoinPoints
<1>9. ASSUME NEW t \in Thread, Search(t) PROVE PlaceInv'
  <2>1. DOMAIN pool' = DOMAIN pool
    BY <1>9 DEF Search
  <2>2. \A u \in Thread : u # t => loc'[u] = loc[u]
    BY <1>9, <1>ty DEF Search
  <2>. QED
    BY <1>9, <1>ty, <1>pl, <1>nu, <2>1, <2>2
    DEF Search, ReleasePool, At, Goto, PlaceInv, CreatePoints, JoinPoints
<1>10. ASSUME NEW t \in Thread, Fork(t) PROVE PlaceInv'
  <2>1. started + 1 \in Thread /\ pc[started + 1] = "unborn" /\ started \in Nat
    BY <1>10, <1>ty, <1>nu, <1>pl, Constants DEF Fork, Thread
  <2>2. \A u \in Thread : u # t => loc'[u] = loc[u]
    BY <1>10, <1>ty DEF Fork
  <2>3. \A u \in Thread : \/ pc'[u] = pc[u] /\ u # started + 1
                          \/ u = t /\ pc[u] = "fork" /\ pc'[u] \in {"link", "settid"}
                          \/ u = started + 1 /\ pc'[u] = "out"
    BY <1>10, <1>ty, <2>1 DEF Fork, At
  <2>4. started' = started + 1 /\ pool' = pool
    BY <1>10 DEF Fork
  <2>5. \A u \in Thread : u > started' => pc'[u] = "unborn"
    <3>1. SUFFICES ASSUME NEW u \in Thread, u > started + 1 PROVE pc'[u] = "unborn"
      BY <2>4
    <3>2. u # started + 1 /\ u > started
      BY <1>nu, <2>1, <3>1
    <3>. QED
      BY <1>pl, <2>3, <3>2
  <2>. QED
    BY <1>10, <1>ty, <1>pl, <2>1, <2>2, <2>3, <2>4, <2>5
    DEF Fork, At, PlaceInv, CreatePoints, JoinPoints
<1>11. ASSUME NEW t \in Thread, ForkFails(t) PROVE PlaceInv'
  <2>1. DOMAIN pool' = DOMAIN pool
    BY <1>11 DEF ForkFails
  <2>2. \A u \in Thread : u # t => loc'[u] = loc[u]
    BY <1>11, <1>ty DEF ForkFails
  <2>. QED
    BY <1>11, <1>ty, <1>pl, <1>nu, <2>1, <2>2
    DEF ForkFails, At, Goto, PlaceInv, CreatePoints, JoinPoints
<1>12. ASSUME NEW t \in Thread, add_to_pool_s(t) PROVE PlaceInv'
  <2>1. DOMAIN pool \subseteq DOMAIN pool'
    BY <1>12, <1>ty DEF add_to_pool_s
  <2>2. \A u \in Thread : u # t => loc'[u] = loc[u]
    BY <1>12, <1>ty DEF add_to_pool_s
  <2>. QED
    BY <1>12, <1>ty, <1>pl, <1>nu, <2>1, <2>2
    DEF add_to_pool_s, ReleasePool, At, Goto, PlaceInv, CreatePoints, JoinPoints
<1>13. ASSUME NEW t \in Thread, SetTid(t) PROVE PlaceInv'
  <2>1. DOMAIN pool' = DOMAIN pool
    BY <1>13 DEF SetTid
  <2>2. \A u \in Thread : u # t => loc'[u] = loc[u]
    BY <1>13, <1>ty DEF SetTid
  <2>. QED
    BY <1>13, <1>ty, <1>pl, <1>nu, <2>1, <2>2
    DEF SetTid, At, Goto, PlaceInv, CreatePoints, JoinPoints
<1>14. ASSUME NEW t \in Thread, thr_exit(t) PROVE PlaceInv'
  BY <1>14, <1>ty, <1>pl, <1>nu
  DEF thr_exit, At, Take, Goto, libVars, PlaceInv, CreatePoints, JoinPoints
<1>15. ASSUME NEW t \in Thread, ExitMissing(t) PROVE PlaceInv'
  BY <1>15, <1>ty, <1>pl, <1>nu DEF ExitMissing, At, PlaceInv, CreatePoints, JoinPoints
<1>16. ASSUME NEW t \in Thread, ExitFound(t) PROVE PlaceInv'
  <2>1. DOMAIN pool' = DOMAIN pool /\ loc' = loc /\ started' = started
    BY <1>16 DEF ExitFound
  <2>2. find_thread_by_k_tid(t) \in DOMAIN pool /\ pc[t] = "exit"
    BY <1>16, <1>ty, Finds DEF ExitFound, At
  <2>3. ASSUME NEW u \in Thread, u = pool[find_thread_by_k_tid(t)].waiter
        PROVE  pc[u] = "joining"
    BY <2>2, <2>3, Constants DEF WaiterInv
  <2>4. \A u \in Thread : \/ pc'[u] = pc[u]
                          \/ u = t /\ pc'[u] = "vanish"
                          \/ pc[u] = "joining" /\ pc'[u] = "woken"
    BY <1>16, <2>3 DEF ExitFound
  <2>. QED
    BY <1>ty, <1>pl, <1>nu, <2>1, <2>2, <2>4 DEF PlaceInv, CreatePoints, JoinPoints
<1>17. ASSUME NEW t \in Thread, vanish(t) PROVE PlaceInv'
  BY <1>17, <1>ty, <1>pl, <1>nu
  DEF vanish, At, Goto, libVars, PlaceInv, CreatePoints, JoinPoints
<1>18. ASSUME NEW t \in Thread, JoinFind(t) PROVE PlaceInv'
  <2> DEFINE i == find_thread_by_k_tid(loc[t].child)
  <2>1. i # 0 => i \in DOMAIN pool
    BY <1>ty, Finds
  <2> HIDE DEF i
  <2>2. /\ pc[t] = "find" /\ pool' = pool /\ started' = started
        /\ loc' = [loc EXCEPT ![t] = IF i = 0 THEN NoLocals ELSE [@ EXCEPT !.target = i]]
        /\ pc' = [pc EXCEPT ![t] = IF i = 0 THEN "out" ELSE "join"]
    BY <1>18 DEF JoinFind, ReleasePool, At, Goto, i
  <2>3. i # 0 => loc'[t].target = i /\ loc'[t].child = loc[t].child
    BY <1>ty, <1>lo, <2>2
  <2>4. \A u \in Thread : u # t => loc'[u] = loc[u]
    BY <1>ty, <2>2
  <2>. QED
    BY <1>ty, <1>pl, <1>nu, <2>1, <2>2, <2>3, <2>4
    DEF PlaceInv, CreatePoints, JoinPoints
<1>19. ASSUME NEW t \in Thread, JoinRefused(t) PROVE PlaceInv'
  BY <1>19, <1>ty, <1>pl, <1>nu
  DEF JoinRefused, At, Goto, libVars, PlaceInv, CreatePoints, JoinPoints
<1>20. ASSUME NEW t \in Thread, JoinWait(t) PROVE PlaceInv'
  <2>1. DOMAIN pool' = DOMAIN pool
    BY <1>20 DEF JoinWait
  <2>. QED
    BY <1>20, <1>ty, <1>pl, <1>nu, <2>1
    DEF JoinWait, At, Goto, PlaceInv, CreatePoints, JoinPoints
<1>21. ASSUME NEW t \in Thread, reap_zombie(t) PROVE PlaceInv'
  <2>1. DOMAIN pool' = DOMAIN pool
    BY <1>21 DEF reap_zombie
  <2>2. \A u \in Thread : u # t => loc'[u] = loc[u]
    BY <1>21, <1>ty DEF reap_zombie
  <2>. QED
    BY <1>21, <1>ty, <1>pl, <1>nu, <2>1, <2>2
    DEF reap_zombie, At, Goto, PlaceInv, CreatePoints, JoinPoints
<1>22. ASSUME NEW t \in Thread, NEW k \in Thread \ {t, Main}, thr_join(t, k) PROVE PlaceInv'
  <2>1. pc[t] = "out" /\ t \in Joiners /\ pool' = pool /\ started' = started
        /\ pc' = [pc EXCEPT ![t] = "find"] /\ loc' = [loc EXCEPT ![t].child = k]
    BY <1>22 DEF thr_join, Take, Goto, At, libVars
  <2>2. loc'[t].child = k /\ \A u \in Thread : u # t => loc'[u] = loc[u]
    BY <1>ty, <1>lo, <2>1
  <2>. QED
    BY <1>ty, <1>pl, <1>nu, <2>1, <2>2 DEF PlaceInv, CreatePoints, JoinPoints
<1>23. CASE UNCHANGED vars
  BY <1>23, <1>pl DEF PlaceInv, vars, libVars
<1>. QED
  BY <1>1, <1>2, <1>3, <1>4, <1>5, <1>6, <1>7, <1>8, <1>9, <1>10, <1>11, <1>12, <1>13,
     <1>14, <1>15, <1>16, <1>17, <1>18, <1>19, <1>20, <1>21, <1>22, <1>23
  DEF Next, Step

-----------------------------------------------------------------------------
(* What the steps do to the pool and the threads' places. *)

Others(t) == \A u \in Thread \ {t} : pc'[u] = pc[u] /\ loc'[u] = loc[u]

OtherEntries(i) ==
  /\ DOMAIN pool' = DOMAIN pool
  /\ \A k \in DOMAIN pool \ {i} : pool'[k] = pool[k]

(* The fields a step leaves alone in entry i. *)
SameThread(i) == pool'[i].k_tid = pool[i].k_tid /\ pool'[i].stack_top = pool[i].stack_top

(* Search finds no dead entry, or takes the first one. *)
LEMMA SearchIs ==
  ASSUME TypeInv, NEW t \in Thread, Search(t)
  PROVE  /\ Others(t) /\ pc[t] = "search" /\ pc'[t] = "fork"
         /\ stacks' = stacks /\ started' = started /\ stack' = stack /\ joined' = joined
         /\ \/ pool' = pool /\ loc'[t].found = 0 /\ loc'[t].esp = Len(pool)
            \/ \E i \in DOMAIN pool :
                 /\ OtherEntries(i) /\ SameThread(i)
                 /\ pool[i].status = "DEAD" /\ pool'[i].status = "ALIVE"
                 /\ pool'[i].waiter = NULL
                 /\ loc'[t].found = i /\ loc'[t].esp = pool[i].stack_top
<1>ty. /\ pool \in Seq(ThreadEntry) /\ pc \in [Thread -> Points] /\ loc \in [Thread -> Locals]
  BY DEF TypeInv
<1> DEFINE i == First({k \in DOMAIN pool : pool[k].status = "DEAD"})
           e == IF i = 0 THEN Len(pool) ELSE pool[i].stack_top
<1>1. i # 0 => i \in DOMAIN pool /\ pool[i].status = "DEAD"
  BY <1>ty, Finds
<1>2. /\ pc[t] = "search" /\ pc' = [pc EXCEPT ![t] = "fork"]
      /\ stacks' = stacks /\ started' = started /\ stack' = stack /\ joined' = joined
      /\ loc' = [loc EXCEPT ![t].found = i, ![t].esp = e]
      /\ pool' = IF i = 0 THEN pool
                 ELSE [pool EXCEPT ![i].status = "ALIVE", ![i].waiter = NULL]
  BY DEF Search, ReleasePool, At, Goto
<1> HIDE DEF i
<1>3. Others(t) /\ pc'[t] = "fork"
  BY <1>ty, <1>2 DEF Others
<1>4. loc'[t].found = i /\ loc'[t].esp = e
  BY <1>ty, <1>2 DEF Locals
<1>5. CASE i = 0
  BY <1>2, <1>3, <1>4, <1>5
<1>6. CASE i # 0
  <2>1. i \in DOMAIN pool /\ pool[i] \in ThreadEntry
    BY <1>ty, <1>1, <1>6
  <2>2. OtherEntries(i) /\ pool'[i] = [pool[i] EXCEPT !.status = "ALIVE", !.waiter = NULL]
    BY <1>ty, <1>2, <1>6, <2>1 DEF OtherEntries
  <2>3. SameThread(i) /\ pool'[i].status = "ALIVE" /\ pool'[i].waiter = NULL
    BY <2>1, <2>2 DEF SameThread, ThreadEntry
  <2>. QED
    BY <1>1, <1>2, <1>3, <1>4, <1>6, <2>1, <2>2, <2>3
<1>. QED
  BY <1>5, <1>6

(* Fork starts the next thread on the stack that was found. *)
LEMMA ForkIs ==
  ASSUME TypeInv, PlaceInv, NEW t \in Thread, Fork(t)
  PROVE  /\ started + 1 \in Thread /\ t # started + 1 /\ started' = started + 1
         /\ pc[started + 1] = "unborn" /\ pc'[started + 1] = "out"
         /\ stack'[started + 1] = loc[t].esp
         /\ \A u \in Thread \ {started + 1} : stack'[u] = stack[u]
         /\ \A u \in Thread \ {t, started + 1} : pc'[u] = pc[u]
         /\ \A u \in Thread \ {t} : loc'[u] = loc[u]
         /\ pc[t] = "fork" /\ pc'[t] = IF loc[t].found = 0 THEN "link" ELSE "settid"
         /\ loc'[t].child = started + 1
         /\ loc'[t].found = loc[t].found /\ loc'[t].esp = loc[t].esp
         /\ pool' = pool /\ joined' = joined
         /\ stacks' = IF loc[t].found = 0 /\ loc[t].esp + 1 > stacks THEN stacks + 1 ELSE stacks
<1>ty. /\ pc \in [Thread -> Points] /\ loc \in [Thread -> Locals]
       /\ stack \in [Thread -> Nat] /\ started \in Thread
  BY DEF TypeInv
<1>1. started + 1 \in Thread /\ pc[started + 1] = "unborn" /\ pc[t] = "fork"
  BY <1>ty, Constants DEF Fork, PlaceInv, Thread, At
<1>2. /\ loc' = [loc EXCEPT ![t].child = started + 1]
      /\ stack' = [stack EXCEPT ![started + 1] = loc[t].esp]
      /\ pc' = [pc EXCEPT ![t] = IF loc[t].found = 0 THEN "link" ELSE "settid",
                          ![started + 1] = "out"]
  BY DEF Fork
<1>3. /\ loc'[t].child = started + 1
      /\ loc'[t].found = loc[t].found /\ loc'[t].esp = loc[t].esp
      /\ \A u \in Thread \ {t} : loc'[u] = loc[u]
  BY <1>ty, <1>2 DEF Locals
<1>4. /\ pc'[started + 1] = "out"
      /\ \A u \in Thread \ {t, started + 1} : pc'[u] = pc[u]
      /\ pc'[t] = IF loc[t].found = 0 THEN "link" ELSE "settid"
      /\ stack'[started + 1] = loc[t].esp
      /\ \A u \in Thread \ {started + 1} : stack'[u] = stack[u]
  BY <1>ty, <1>1, <1>2
<1>5. /\ started' = started + 1 /\ pool' = pool /\ joined' = joined
      /\ stacks' = IF loc[t].found = 0 /\ loc[t].esp + 1 > stacks THEN stacks + 1 ELSE stacks
  BY DEF Fork, new_thr_page
<1>. QED
  BY <1>1, <1>3, <1>4, <1>5

(* ForkFails gives the entry back, if it had one. *)
LEMMA ForkFailsIs ==
  ASSUME TypeInv, EntryInv, NEW t \in Thread, ForkFails(t)
  PROVE  /\ Others(t) /\ pc[t] = "fork" /\ pc'[t] \in {"out", "stuck"}
         /\ stacks' = stacks /\ started' = started /\ stack' = stack /\ joined' = joined
         /\ \/ pool' = pool
            \/ \E i \in DOMAIN pool :
                 /\ loc[t].found = i /\ i # 0
                 /\ OtherEntries(i) /\ SameThread(i) /\ pool'[i].waiter = pool[i].waiter
                 /\ pool'[i].status = "DEAD"
<1>ty. /\ pool \in Seq(ThreadEntry) /\ pc \in [Thread -> Points] /\ loc \in [Thread -> Locals]
  BY DEF TypeInv
<1>1. /\ Others(t) /\ pc[t] = "fork" /\ pc'[t] \in {"out", "stuck"}
      /\ stacks' = stacks /\ started' = started /\ stack' = stack /\ joined' = joined
  BY <1>ty DEF ForkFails, At, Goto, Others
<1>2. CASE loc[t].found = 0
  BY <1>1, <1>2 DEF ForkFails
<1>3. CASE loc[t].found # 0
  <2> DEFINE i == loc[t].found
  <2>1. i \in DOMAIN pool /\ pool[i] \in ThreadEntry
    BY <1>ty, <1>1, <1>3 DEF EntryInv, Reused
  <2>2. OtherEntries(i) /\ pool'[i] = [pool[i] EXCEPT !.status = "DEAD"]
    BY <1>ty, <1>3, <2>1 DEF ForkFails, OtherEntries
  <2>3. SameThread(i) /\ pool'[i].status = "DEAD" /\ pool'[i].waiter = pool[i].waiter
    BY <2>1, <2>2 DEF SameThread, ThreadEntry
  <2>. QED
    BY <1>1, <1>3, <2>1, <2>2, <2>3
<1>. QED
  BY <1>2, <1>3

(* add_to_pool_s links the new thread's entry. *)
LEMMA AddIs ==
  ASSUME TypeInv, NEW t \in Thread, add_to_pool_s(t)
  PROVE  LET n == Len(pool) + 1 IN
         /\ Others(t) /\ pc[t] = "link" /\ pc'[t] = "out"
         /\ stacks' = stacks /\ started' = started /\ stack' = stack /\ joined' = joined
         /\ Len(pool') = n /\ DOMAIN pool' = DOMAIN pool \cup {n} /\ n \notin DOMAIN pool
         /\ \A k \in DOMAIN pool : pool'[k] = pool[k]
         /\ pool'[n].k_tid = loc[t].child /\ pool'[n].stack_top = loc[t].esp
         /\ pool'[n].status = "ALIVE" /\ pool'[n].waiter = NULL
<1>ty. /\ pool \in Seq(ThreadEntry) /\ pc \in [Thread -> Points] /\ loc \in [Thread -> Locals]
  BY DEF TypeInv
<1>1. /\ Others(t) /\ pc[t] = "link" /\ pc'[t] = "out"
      /\ stacks' = stacks /\ started' = started /\ stack' = stack /\ joined' = joined
  BY <1>ty DEF add_to_pool_s, ReleasePool, At, Goto, Others
<1>2. PICK pending \in BOOLEAN : pool' = Append(pool, Entry(loc[t].child, loc[t].esp, pending))
  BY DEF add_to_pool_s
<1> DEFINE n == Len(pool) + 1
           e == Entry(loc[t].child, loc[t].esp, pending)
<1>3. e.k_tid = loc[t].child /\ e.stack_top = loc[t].esp /\ e.status = "ALIVE" /\ e.waiter = NULL
  BY DEF Entry
<1> HIDE DEF e
<1>4. /\ Len(pool') = n /\ DOMAIN pool' = DOMAIN pool \cup {n} /\ n \notin DOMAIN pool
      /\ \A k \in DOMAIN pool : pool'[k] = pool[k]
      /\ pool'[n] = e
  <2>1. pool' = Append(pool, e) /\ Len(pool) \in Nat /\ DOMAIN pool = 1 .. Len(pool)
    BY <1>ty, <1>2 DEF e
  <2>. QED
    BY <1>ty, <2>1, AppendProperties
<1>. QED
  BY <1>1, <1>3, <1>4

(* SetTid gives the entry that is used again its thread. *)
LEMMA SetTidIs ==
  ASSUME TypeInv, EntryInv, NEW t \in Thread, SetTid(t)
  PROVE  LET i == loc[t].found IN
         /\ Others(t) /\ pc[t] = "settid" /\ pc'[t] = "out"
         /\ stacks' = stacks /\ started' = started /\ stack' = stack /\ joined' = joined
         /\ i \in DOMAIN pool /\ i # 0 /\ OtherEntries(i)
         /\ pool'[i].stack_top = pool[i].stack_top /\ pool'[i].k_tid = loc[t].child
         /\ pool'[i].waiter = pool[i].waiter /\ pool'[i].status = pool[i].status
         /\ pool'[i].exit_status = pool[i].exit_status
<1>ty. /\ pool \in Seq(ThreadEntry) /\ pc \in [Thread -> Points] /\ loc \in [Thread -> Locals]
  BY DEF TypeInv
<1> DEFINE i == loc[t].found
<1>1. /\ Others(t) /\ pc[t] = "settid" /\ pc'[t] = "out"
      /\ stacks' = stacks /\ started' = started /\ stack' = stack /\ joined' = joined
  BY <1>ty DEF SetTid, At, Goto, Others
<1>2. i # 0 /\ i \in DOMAIN pool /\ pool[i] \in ThreadEntry
  BY <1>ty, <1>1 DEF EntryInv, Reused
<1>3. OtherEntries(i) /\ pool'[i] = [pool[i] EXCEPT !.k_tid = loc[t].child]
  BY <1>ty, <1>2 DEF SetTid, OtherEntries
<1>4. /\ pool'[i].stack_top = pool[i].stack_top /\ pool'[i].k_tid = loc[t].child
      /\ pool'[i].waiter = pool[i].waiter /\ pool'[i].status = pool[i].status
      /\ pool'[i].exit_status = pool[i].exit_status
  BY <1>2, <1>3 DEF ThreadEntry
<1>. QED
  BY <1>1, <1>2, <1>3, <1>4

(* ExitFound makes its entry a zombie and wakes who waits there. *)
LEMMA ExitFoundIs ==
  ASSUME TypeInv, WaiterInv, NEW t \in Thread, ExitFound(t)
  PROVE  LET i == find_thread_by_k_tid(t) IN
         /\ loc' = loc /\ pc[t] = "exit" /\ pc'[t] = "vanish"
         /\ \A u \in Thread \ {t} :
              pc'[u] = IF u = pool[i].waiter THEN "woken" ELSE pc[u]
         /\ \A u \in Thread : u = pool[i].waiter => pc[u] = "joining" /\ loc[u].target = i
         /\ stacks' = stacks /\ started' = started /\ stack' = stack /\ joined' = joined
         /\ i \in DOMAIN pool /\ OtherEntries(i) /\ SameThread(i) /\ pool[i].k_tid = t
         /\ pool'[i].status = "ZOMBIE" /\ pool'[i].exit_status = t /\ pool'[i].waiter = NULL
<1>ty. /\ pool \in Seq(ThreadEntry) /\ pc \in [Thread -> Points]
  BY DEF TypeInv
<1> DEFINE i == find_thread_by_k_tid(t)
<1>1. i \in DOMAIN pool /\ pool[i].k_tid = t /\ pool[i] \in ThreadEntry
  BY <1>ty, Finds DEF ExitFound
<1>2. /\ loc' = loc /\ pc[t] = "exit"
      /\ stacks' = stacks /\ started' = started /\ stack' = stack /\ joined' = joined
      /\ pc' = [u \in Thread |-> IF u = t THEN "vanish"
                                 ELSE IF u = pool[i].waiter THEN "woken" ELSE pc[u]]
      /\ pool' = [pool EXCEPT ![i].status = "ZOMBIE", ![i].exit_status = t, ![i].waiter = NULL]
  BY DEF ExitFound, At
<1> HIDE DEF i
<1>3. \A u \in Thread : u = pool[i].waiter => pc[u] = "joining" /\ loc[u].target = i
  BY <1>1, Constants DEF WaiterInv
<1>4. OtherEntries(i)
      /\ pool'[i] = [pool[i] EXCEPT !.status = "ZOMBIE", !.exit_status = t, !.waiter = NULL]
  BY <1>ty, <1>1, <1>2 DEF OtherEntries
<1>5. SameThread(i) /\ pool'[i].status = "ZOMBIE" /\ pool'[i].exit_status = t
      /\ pool'[i].waiter = NULL
  BY <1>1, <1>4 DEF SameThread, ThreadEntry
<1>6. /\ pc'[t] = "vanish"
      /\ \A u \in Thread \ {t} : pc'[u] = IF u = pool[i].waiter THEN "woken" ELSE pc[u]
  BY <1>2
<1>. QED
  BY <1>1, <1>2, <1>3, <1>4, <1>5, <1>6 DEF i

(* JoinFind has the entry of the thread it was asked for. *)
LEMMA JoinFindIs ==
  ASSUME TypeInv, NEW t \in Thread, JoinFind(t)
  PROVE  /\ Others(t) /\ pc[t] = "find" /\ pool' = pool
         /\ stacks' = stacks /\ started' = started /\ stack' = stack /\ joined' = joined
         /\ \/ pc'[t] = "out"
            \/ \E i \in DOMAIN pool : /\ pc'[t] = "join" /\ pool[i].k_tid = loc[t].child
                                      /\ loc'[t].target = i /\ loc'[t].child = loc[t].child
<1>ty. /\ pool \in Seq(ThreadEntry) /\ pc \in [Thread -> Points] /\ loc \in [Thread -> Locals]
  BY DEF TypeInv
<1> DEFINE i == find_thread_by_k_tid(loc[t].child)
<1>1. i # 0 => i \in DOMAIN pool /\ pool[i].k_tid = loc[t].child
  BY <1>ty, Finds
<1>2. /\ pc[t] = "find" /\ pool' = pool
      /\ stacks' = stacks /\ started' = started /\ stack' = stack /\ joined' = joined
      /\ loc' = [loc EXCEPT ![t] = IF i = 0 THEN NoLocals ELSE [@ EXCEPT !.target = i]]
      /\ pc' = [pc EXCEPT ![t] = IF i = 0 THEN "out" ELSE "join"]
  BY DEF JoinFind, ReleasePool, At, Goto
<1> HIDE DEF i
<1>3. i # 0 => loc'[t].target = i /\ loc'[t].child = loc[t].child
  BY <1>ty, <1>2 DEF Locals
<1>4. Others(t) /\ pc'[t] = IF i = 0 THEN "out" ELSE "join"
  BY <1>ty, <1>2 DEF Others
<1>. QED
  BY <1>1, <1>2, <1>3, <1>4

(* JoinWait leaves the thread's name in the entry. *)
LEMMA JoinWaitIs ==
  ASSUME TypeInv, PlaceInv, NEW t \in Thread, JoinWait(t)
  PROVE  LET i == loc[t].target IN
         /\ loc' = loc /\ Others(t) /\ pc[t] \in {"join", "woken"} /\ pc'[t] = "joining"
         /\ stacks' = stacks /\ started' = started /\ stack' = stack /\ joined' = joined
         /\ i \in DOMAIN pool /\ OtherEntries(i) /\ SameThread(i)
         /\ pool[i].status = "ALIVE" /\ pool'[i].status = pool[i].status
         /\ pool'[i].exit_status = pool[i].exit_status /\ pool'[i].waiter = t
<1>ty. /\ pool \in Seq(ThreadEntry) /\ pc \in [Thread -> Points] /\ loc \in [Thread -> Locals]
  BY DEF TypeInv
<1> DEFINE i == loc[t].target
<1>1. /\ loc' = loc /\ Others(t) /\ pc[t] \in {"join", "woken"} /\ pc'[t] = "joining"
      /\ stacks' = stacks /\ started' = started /\ stack' = stack /\ joined' = joined
      /\ pool[i].status = "ALIVE"
  BY <1>ty DEF JoinWait, At, Goto, Others
<1>2. i \in DOMAIN pool /\ pool[i] \in ThreadEntry
  BY <1>ty, <1>1 DEF PlaceInv, JoinPoints
<1>3. OtherEntries(i) /\ pool'[i] = [pool[i] EXCEPT !.pending_join = TRUE, !.waiter = t]
  BY <1>ty, <1>2 DEF JoinWait, OtherEntries
<1>4. SameThread(i) /\ pool'[i].status = pool[i].status
      /\ pool'[i].exit_status = pool[i].exit_status /\ pool'[i].waiter = t
  BY <1>2, <1>3 DEF SameThread, ThreadEntry
<1>. QED
  BY <1>1, <1>2, <1>3, <1>4

(* reap_zombie records the status and frees the entry. *)
LEMMA ReapIs ==
  ASSUME TypeInv, PlaceInv, NEW t \in Thread, reap_zombie(t)
  PROVE  LET i == loc[t].target IN
         /\ Others(t) /\ pc[t] \in {"join", "woken"} /\ pc'[t] = "out"
         /\ stacks' = stacks /\ started' = started /\ stack' = stack
         /\ joined' = joined \cup {<<loc[t].child, pool[i].exit_status>>}
         /\ i \in DOMAIN pool /\ OtherEntries(i) /\ pool[i].status # "ALIVE"
         /\ pool'[i].status = "DEAD" /\ pool'[i].k_tid = -1
         /\ pool'[i].stack_top = pool[i].stack_top /\ pool'[i].waiter = pool[i].waiter
<1>ty. /\ pool \in Seq(ThreadEntry) /\ pc \in [Thread -> Points] /\ loc \in [Thread -> Locals]
  BY DEF TypeInv
<1> DEFINE i == loc[t].target
<1>1. /\ Others(t) /\ pc[t] \in {"join", "woken"} /\ pc'[t] = "out"
      /\ stacks' = stacks /\ started' = started /\ stack' = stack
      /\ joined' = joined \cup {<<loc[t].child, pool[i].exit_status>>}
      /\ pool[i].status # "ALIVE"
  BY <1>ty DEF reap_zombie, At, Goto, Others
<1>2. i \in DOMAIN pool /\ pool[i] \in ThreadEntry
  BY <1>ty, <1>1 DEF PlaceInv, JoinPoints
<1>3. OtherEntries(i)
      /\ pool'[i] = [pool[i] EXCEPT !.status = "DEAD", !.k_tid = -1, !.pending_join = FALSE]
  BY <1>ty, <1>2 DEF reap_zombie, OtherEntries
<1>4. /\ pool'[i].status = "DEAD" /\ pool'[i].k_tid = -1
      /\ pool'[i].stack_top = pool[i].stack_top /\ pool'[i].waiter = pool[i].waiter
  BY <1>2, <1>3 DEF ThreadEntry
<1>. QED
  BY <1>1, <1>2, <1>3, <1>4

(* The other steps leave the pool, the stacks and the joins alone. *)
Quiet ==
  /\ pool' = pool /\ stacks' = stacks /\ started' = started /\ stack' = stack
  /\ joined' = joined
  /\ \A u \in Thread :
       \/ pc'[u] = pc[u] /\ loc'[u] = loc[u]
       \/ /\ pc[u] \in {"out", "reading", "writing", "inside", "join", "woken"}
          /\ pc'[u] \in {"out", "reading", "writing", "inside", "search", "exit", "find"}
       \/ pc[u] = "vanish" /\ pc'[u] = "gone"

(* All other steps are quiet. *)
LEMMA QuietSteps ==
  ASSUME TypeInv, [Next]_vars,
         \A t \in Thread :
           /\ ~Search(t) /\ ~Fork(t) /\ ~ForkFails(t) /\ ~add_to_pool_s(t) /\ ~SetTid(t)
           /\ ~ExitFound(t) /\ ~JoinFind(t) /\ ~JoinWait(t) /\ ~reap_zombie(t)
  PROVE  Quiet
<1>ty. /\ pc \in [Thread -> Points] /\ loc \in [Thread -> Locals]
  BY DEF TypeInv
<1>1. ASSUME NEW t \in Thread, TakePool(t) PROVE Quiet
  BY <1>1, <1>ty DEF TakePool, Quiet
<1>2. ASSUME NEW t \in Thread, TakeLock(t) PROVE Quiet
  BY <1>2, <1>ty DEF TakeLock, Quiet, libVars
<1>3. ASSUME NEW t \in Thread, TakeSem(t) PROVE Quiet
  BY <1>3, <1>ty DEF TakeSem, Quiet, libVars
<1>4. ASSUME NEW t \in Thread, Use(t) PROVE Quiet
  BY <1>4, <1>ty DEF Use, Quiet, At, Take, Goto
<1>5. ASSUME NEW t \in Thread, Unlock(t) PROVE Quiet
  BY <1>5, <1>ty DEF Unlock, Quiet, libVars, At, Goto
<1>6. ASSUME NEW t \in Thread, Downgrade(t) PROVE Quiet
  BY <1>6, <1>ty DEF Downgrade, Quiet, libVars, At, Goto
<1>7. ASSUME NEW t \in Thread, SemSignal(t) PROVE Quiet
  BY <1>7, <1>ty DEF SemSignal, Quiet, libVars, At, Goto
<1>8. ASSUME NEW t \in Thread, thr_create(t) PROVE Quiet
  BY <1>8, <1>ty DEF thr_create, Quiet, libVars, At, Take, Goto
<1>9. ASSUME NEW t \in Thread, thr_exit(t) PROVE Quiet
  BY <1>9, <1>ty DEF thr_exit, Quiet, libVars, At, Take, Goto
<1>10. ASSUME NEW t \in Thread, ExitMissing(t) PROVE Quiet
  BY <1>10, <1>ty DEF ExitMissing, Quiet
<1>11. ASSUME NEW t \in Thread, vanish(t) PROVE Quiet
  BY <1>11, <1>ty DEF vanish, Quiet, libVars, At, Goto
<1>12. ASSUME NEW t \in Thread, JoinRefused(t) PROVE Quiet
  BY <1>12, <1>ty DEF JoinRefused, Quiet, libVars, At, Goto
<1>13. ASSUME NEW t \in Thread, NEW k \in Thread \ {t, Main}, thr_join(t, k) PROVE Quiet
  BY <1>13, <1>ty DEF thr_join, Quiet, libVars, At, Take, Goto
<1>14. CASE UNCHANGED vars
  BY <1>14 DEF Quiet, vars, libVars
<1>. QED
  BY <1>1, <1>2, <1>3, <1>4, <1>5, <1>6, <1>7, <1>8, <1>9, <1>10, <1>11, <1>12, <1>13,
     <1>14
  DEF Next, Step

-----------------------------------------------------------------------------
(* Every step keeps the entries of the pool. *)

(* Every step keeps who waits where. *)
LEMMA WaiterStep ==
  ASSUME TypeInv, PlaceInv, EntryInv, WaiterInv, [Next]_vars
  PROVE  WaiterInv'
<1>nu. Thread \subseteq Nat /\ NULL \notin Thread
  BY Constants
<1>po. pool \in Seq(ThreadEntry) /\ loc \in [Thread -> Locals] /\ started \in Thread
  BY DEF TypeInv
<1>re. \A i \in DOMAIN pool : pool[i] \in ThreadEntry
  BY <1>po
<1>ty. /\ DOMAIN pool \subseteq Nat \ {0} /\ started \in Nat
       /\ \A i \in DOMAIN pool : pool[i].waiter \in Thread \cup {NULL}
       /\ \A u \in Thread : loc[u].found \in Nat
  BY <1>nu, <1>po, <1>re DEF ThreadEntry, Locals
<1>wi. \A i \in DOMAIN pool :
         pool[i].waiter # NULL =>
           pc[pool[i].waiter] = "joining" /\ loc[pool[i].waiter].target = i
  BY DEF WaiterInv
<1> DEFINE Still == \A u \in Thread :
                      pc[u] = "joining" => pc'[u] = "joining" /\ loc'[u] = loc[u]
           Fewer == \A i \in DOMAIN pool' :
                      pool'[i].waiter # NULL => i \in DOMAIN pool /\ pool'[i].waiter = pool[i].waiter
<1>in. ASSUME Still, Fewer PROVE WaiterInv'
  BY <1>in, <1>ty, <1>wi DEF WaiterInv
<1> HIDE DEF Still, Fewer
<1>1. ASSUME NEW t \in Thread, Search(t) PROVE WaiterInv'
  <2>1. Still
    BY <1>1, SearchIs DEF Still, Others
  <2>2. CASE pool' = pool
    BY <1>in, <2>1, <2>2 DEF Fewer
  <2>3. CASE pool' # pool
    <3>1. PICK i \in DOMAIN pool : OtherEntries(i) /\ pool'[i].waiter = NULL
      BY <1>1, <2>3, SearchIs
    <3>2. Fewer
      BY <3>1 DEF Fewer, OtherEntries
    <3>. QED
      BY <1>in, <2>1, <3>2
  <2>. QED
    BY <2>2, <2>3
<1>2. ASSUME NEW t \in Thread, Fork(t) PROVE WaiterInv'
  <2>1. Still
    <3>1. SUFFICES ASSUME NEW u \in Thread, pc[u] = "joining"
                   PROVE  pc'[u] = "joining" /\ loc'[u] = loc[u]
      BY DEF Still
    <3>2. u # t /\ u # started + 1
      BY <1>2, <3>1, ForkIs
    <3>. QED
      BY <1>2, <3>1, <3>2, ForkIs
  <2>2. Fewer
    BY <1>2, ForkIs DEF Fewer
  <2>. QED
    BY <1>in, <2>1, <2>2
<1>3. ASSUME NEW t \in Thread, ForkFails(t) PROVE WaiterInv'
  <2>1. Still
    BY <1>3, ForkFailsIs DEF Still, Others
  <2>2. CASE pool' = pool
    BY <1>in, <2>1, <2>2 DEF Fewer
  <2>3. CASE pool' # pool
    <3>1. PICK i \in DOMAIN pool : OtherEntries(i) /\ pool'[i].waiter = pool[i].waiter
      BY <1>3, <2>3, ForkFailsIs
    <3>2. Fewer
      BY <3>1 DEF Fewer, OtherEntries
    <3>. QED
      BY <1>in, <2>1, <3>2
  <2>. QED
    BY <2>2, <2>3
<1>4. ASSUME NEW t \in Thread, add_to_pool_s(t) PROVE WaiterInv'
  <2>1. Still
    BY <1>4, AddIs DEF Still, Others
  <2>2. Fewer
    BY <1>4, AddIs DEF Fewer, OtherEntries
  <2>. QED
    BY <1>in, <2>1, <2>2
<1>5. ASSUME NEW t \in Thread, SetTid(t) PROVE WaiterInv'
  <2>1. Still
    BY <1>5, SetTidIs DEF Still, Others
  <2>2. Fewer
    BY <1>5, SetTidIs DEF Fewer, OtherEntries
  <2>. QED
    BY <1>in, <2>1, <2>2
<1>6. ASSUME NEW t \in Thread, ExitFound(t) PROVE WaiterInv'
  <2> DEFINE i == find_thread_by_k_tid(t)
  <2>1. /\ pc[t] = "exit" /\ loc' = loc /\ i \in DOMAIN pool /\ pool'[i].waiter = NULL
        /\ OtherEntries(i)
        /\ \A u \in Thread \ {t} : pc'[u] = IF u = pool[i].waiter THEN "woken" ELSE pc[u]
        /\ \A u \in Thread : u = pool[i].waiter => loc[u].target = i
    BY <1>6, ExitFoundIs
  <2> HIDE DEF i
  <2>2. SUFFICES ASSUME NEW k \in DOMAIN pool', pool'[k].waiter # NULL
                 PROVE  /\ pc'[pool'[k].waiter] = "joining"
                        /\ loc'[pool'[k].waiter].target = k
    BY DEF WaiterInv
  <2>3. k \in DOMAIN pool /\ k # i /\ pool'[k].waiter = pool[k].waiter
    BY <2>1, <2>2 DEF OtherEntries
  <2>4. /\ pool[k].waiter \in Thread /\ pc[pool[k].waiter] = "joining"
        /\ loc[pool[k].waiter].target = k
    BY <1>ty, <1>wi, <2>2, <2>3
  <2>. QED
    BY <2>1, <2>3, <2>4
<1>7. ASSUME NEW t \in Thread, JoinFind(t) PROVE WaiterInv'
  <2>1. Still
    BY <1>7, JoinFindIs DEF Still, Others
  <2>2. Fewer
    BY <1>7, JoinFindIs DEF Fewer
  <2>. QED
    BY <1>in, <2>1, <2>2
<1>8. ASSUME NEW t \in Thread, JoinWait(t) PROVE WaiterInv'
  <2> DEFINE i == loc[t].target
  <2>1. /\ pc[t] \in {"join", "woken"} /\ pc'[t] = "joining" /\ loc' = loc
        /\ i \in DOMAIN pool /\ pool'[i].waiter = t /\ OtherEntries(i)
        /\ \A u \in Thread \ {t} : pc'[u] = pc[u]
    BY <1>8, JoinWaitIs DEF Others
  <2>2. SUFFICES ASSUME NEW k \in DOMAIN pool', pool'[k].waiter # NULL
                 PROVE  /\ pc'[pool'[k].waiter] = "joining"
                        /\ loc'[pool'[k].waiter].target = k
    BY DEF WaiterInv
  <2>3. CASE k = i
    BY <2>1, <2>3
  <2>4. CASE k # i
    BY <1>ty, <1>wi, <2>1, <2>2, <2>4 DEF OtherEntries
  <2>. QED
    BY <2>3, <2>4
<1>9. ASSUME NEW t \in Thread, reap_zombie(t) PROVE WaiterInv'
  <2>1. Still
    BY <1>9, ReapIs DEF Still, Others
  <2>2. Fewer
    BY <1>9, ReapIs DEF Fewer, OtherEntries
  <2>. QED
    BY <1>in, <2>1, <2>2
<1>10. CASE Quiet
  <2>1. Still
    BY <1>10 DEF Quiet, Still
  <2>2. Fewer
    BY <1>10 DEF Quiet, Fewer
  <2>. QED
    BY <1>in, <2>1, <2>2
<1>. QED
  BY <1>1, <1>2, <1>3, <1>4, <1>5, <1>6, <1>7, <1>8, <1>9, <1>10, QuietSteps

(* Every step keeps the entries apart. *)
LEMMA EntryStep ==
  ASSUME TypeInv, PlaceInv, EntryInv, WaiterInv, [Next]_vars
  PROVE  EntryInv'
<1>nu. Thread \subseteq Nat /\ NULL \notin Thread
  BY Constants
<1>po. pool \in Seq(ThreadEntry) /\ loc \in [Thread -> Locals] /\ started \in Thread
  BY DEF TypeInv
<1>re. \A i \in DOMAIN pool : pool[i] \in ThreadEntry
  BY <1>po
<1>ty. /\ DOMAIN pool \subseteq Nat \ {0} /\ started \in Nat
       /\ \A i \in DOMAIN pool : pool[i].waiter \in Thread \cup {NULL}
       /\ \A u \in Thread : loc[u].found \in Nat
  BY <1>nu, <1>po, <1>re DEF ThreadEntry, Locals
<1>1. ASSUME NEW t \in Thread, Search(t) PROVE EntryInv'
  <2>1. Others(t) /\ pc'[t] = "fork" /\ started' = started
    BY <1>1, SearchIs
  <2>2. CASE pool' = pool /\ loc'[t].found = 0
    BY <1>ty, <1>nu, <2>1, <2>2 DEF EntryInv, Reused, Created, Others
  <2>3. CASE ~(pool' = pool /\ loc'[t].found = 0)
    <3>1. PICK i \in DOMAIN pool :
            /\ OtherEntries(i) /\ SameThread(i) /\ loc'[t].found = i
            /\ pool[i].status = "DEAD" /\ pool'[i].status = "ALIVE"
      BY <1>1, <2>3, SearchIs
    <3>. QED
      BY <1>ty, <1>nu, <2>1, <3>1
      DEF EntryInv, Reused, Created, Others, OtherEntries, SameThread
  <2>. QED
    BY <2>2, <2>3
<1>2. ASSUME NEW t \in Thread, Fork(t) PROVE EntryInv'
  BY <1>2, <1>ty, <1>nu, ForkIs DEF EntryInv, Reused, Created, OtherEntries, SameThread
<1>3. ASSUME NEW t \in Thread, ForkFails(t) PROVE EntryInv'
  BY <1>3, <1>ty, <1>nu, ForkFailsIs
  DEF EntryInv, Reused, Created, OtherEntries, SameThread, Others
<1>4. ASSUME NEW t \in Thread, add_to_pool_s(t) PROVE EntryInv'
  <2> DEFINE n == Len(pool) + 1
  <2>1. /\ Others(t) /\ pc[t] = "link" /\ pc'[t] = "out" /\ started' = started
        /\ DOMAIN pool' = DOMAIN pool \cup {n} /\ n \notin DOMAIN pool
        /\ \A k \in DOMAIN pool : pool'[k] = pool[k]
        /\ pool'[n].k_tid = loc[t].child /\ pool'[n].status = "ALIVE"
    BY <1>4, AddIs
  <2> HIDE DEF n
  <2>. QED
    BY <1>ty, <1>nu, <2>1 DEF EntryInv, Reused, Created, Others
<1>5. ASSUME NEW t \in Thread, SetTid(t) PROVE EntryInv'
  BY <1>5, <1>ty, <1>nu, SetTidIs
  DEF EntryInv, Reused, Created, OtherEntries, SameThread, Others
<1>6. ASSUME NEW t \in Thread, ExitFound(t) PROVE EntryInv'
  BY <1>6, <1>ty, <1>nu, ExitFoundIs
  DEF EntryInv, Reused, Created, OtherEntries, SameThread
<1>7. ASSUME NEW t \in Thread, JoinFind(t) PROVE EntryInv'
  <2>1. /\ Others(t) /\ pool' = pool /\ started' = started
        /\ pc'[t] \in {"out", "join"}
    BY <1>7, JoinFindIs
  <2>. QED
    BY <1>ty, <1>nu, <2>1 DEF EntryInv, Reused, Created, Others
<1>8. ASSUME NEW t \in Thread, JoinWait(t) PROVE EntryInv'
  BY <1>8, <1>ty, <1>nu, JoinWaitIs
  DEF EntryInv, Reused, Created, OtherEntries, SameThread, Others
<1>9. ASSUME NEW t \in Thread, reap_zombie(t) PROVE EntryInv'
  BY <1>9, <1>ty, <1>nu, ReapIs
  DEF EntryInv, Reused, Created, OtherEntries, SameThread, Others
<1>10. CASE Quiet
  BY <1>10, <1>ty, <1>nu DEF Quiet, EntryInv, Reused, Created
<1>. QED
  BY <1>1, <1>2, <1>3, <1>4, <1>5, <1>6, <1>7, <1>8, <1>9, <1>10, QuietSteps

-----------------------------------------------------------------------------
(* One joiner: what it found stays its own. *)

(* Every step keeps the joiner's entry its own. *)
LEMMA JoinStep ==
  ASSUME OneJoiner, TypeInv, PlaceInv, EntryInv, WaiterInv, JoinInv, [Next]_vars
  PROVE  JoinInv'
<1>nu. Thread \subseteq Nat /\ NULL \notin Thread
  BY Constants
<1>po. pool \in Seq(ThreadEntry) /\ loc \in [Thread -> Locals] /\ started \in Thread
  BY DEF TypeInv
<1>re. \A i \in DOMAIN pool : pool[i] \in ThreadEntry
  BY <1>po
<1>ty. /\ DOMAIN pool \subseteq Nat \ {0} /\ started \in Nat
       /\ \A i \in DOMAIN pool : pool[i].waiter \in Thread \cup {NULL}
       /\ \A u \in Thread : loc[u].found \in Nat
  BY <1>nu, <1>po, <1>re DEF ThreadEntry, Locals
<1>ne. \A k \in Thread : k # -1
  BY <1>nu
<1>ji. \A u \in Thread :
         pc[u] \in JoinPoints =>
           /\ loc[u].target \in DOMAIN pool
           /\ loc[u].child \in Thread /\ loc[u].child # -1 /\ u \in Joiners
           /\ pool[loc[u].target].k_tid = loc[u].child
           /\ pool[loc[u].target].status # "DEAD"
  BY <1>ne DEF JoinInv, PlaceInv
<1>en. /\ \A i \in DOMAIN pool : pool[i].status = "DEAD" => pool[i].k_tid = -1
       /\ \A u \in Thread : Reused(u) => pool[loc[u].found].k_tid = -1
  BY DEF EntryInv
<1>1. ASSUME NEW t \in Thread, Search(t) PROVE JoinInv'
  <2>1. Others(t) /\ pc'[t] = "fork"
    BY <1>1, SearchIs
  <2>2. CASE pool' = pool
    BY <1>ji, <2>1, <2>2 DEF JoinInv, JoinPoints, Others
  <2>3. CASE pool' # pool
    <3>1. PICK i \in DOMAIN pool : OtherEntries(i) /\ pool[i].status = "DEAD"
      BY <1>1, <2>3, SearchIs
    <3>. QED
      BY <1>ji, <2>1, <3>1 DEF JoinInv, JoinPoints, Others, OtherEntries
  <2>. QED
    BY <2>2, <2>3
<1>2. ASSUME NEW t \in Thread, Fork(t) PROVE JoinInv'
  <2>1. pool' = pool
    BY <1>2, ForkIs
  <2>2. \A u \in Thread : pc'[u] \in JoinPoints => pc[u] = pc'[u] /\ loc'[u] = loc[u]
    BY <1>2, ForkIs DEF JoinPoints
  <2>. QED
    BY <1>ji, <2>1, <2>2 DEF JoinInv
<1>3. ASSUME NEW t \in Thread, ForkFails(t) PROVE JoinInv'
  <2>1. Others(t) /\ pc[t] = "fork" /\ pc'[t] \in {"out", "stuck"}
    BY <1>3, ForkFailsIs
  <2>2. CASE pool' = pool
    BY <1>ji, <2>1, <2>2 DEF JoinInv, JoinPoints, Others
  <2>3. CASE pool' # pool
    <3>1. PICK i \in DOMAIN pool : OtherEntries(i) /\ loc[t].found = i /\ i # 0
      BY <1>3, <2>3, ForkFailsIs
    <3>2. pool[i].k_tid = -1
      BY <1>en, <2>1, <3>1 DEF Reused
    <3>. QED
      BY <1>ji, <2>1, <3>1, <3>2 DEF JoinInv, JoinPoints, Others, OtherEntries
  <2>. QED
    BY <2>2, <2>3
<1>4. ASSUME NEW t \in Thread, add_to_pool_s(t) PROVE JoinInv'
  <2>1. /\ Others(t) /\ pc'[t] = "out" /\ \A k \in DOMAIN pool : pool'[k] = pool[k]
    BY <1>4, AddIs
  <2>. QED
    BY <1>ji, <2>1 DEF JoinInv, JoinPoints, Others
<1>5. ASSUME NEW t \in Thread, SetTid(t) PROVE JoinInv'
  <2>1. /\ Others(t) /\ pc[t] = "settid" /\ pc'[t] = "out"
        /\ loc[t].found # 0 /\ OtherEntries(loc[t].found)
    BY <1>5, SetTidIs
  <2>2. pool[loc[t].found].k_tid = -1
    BY <1>en, <2>1 DEF Reused
  <2>. QED
    BY <1>ji, <2>1, <2>2 DEF JoinInv, JoinPoints, Others, OtherEntries
<1>6. ASSUME NEW t \in Thread, ExitFound(t) PROVE JoinInv'
  <2> DEFINE i == find_thread_by_k_tid(t)
  <2>1. /\ loc' = loc /\ pc'[t] = "vanish"
        /\ \A u \in Thread \ {t} : pc'[u] = IF u = pool[i].waiter THEN "woken" ELSE pc[u]
        /\ \A u \in Thread : u = pool[i].waiter => pc[u] = "joining"
        /\ OtherEntries(i) /\ pool'[i].k_tid = pool[i].k_tid /\ pool'[i].status = "ZOMBIE"
    BY <1>6, ExitFoundIs DEF SameThread
  <2> HIDE DEF i
  <2>2. \A u \in Thread : pc'[u] \in JoinPoints => pc[u] \in JoinPoints
    BY <2>1 DEF JoinPoints
  <2>. QED
    BY <1>ji, <2>1, <2>2 DEF JoinInv, OtherEntries
<1>7. ASSUME NEW t \in Thread, JoinFind(t) PROVE JoinInv'
  <2>1. Others(t) /\ pool' = pool /\ pc[t] = "find"
    BY <1>7, JoinFindIs
  <2>2. CASE pc'[t] = "out"
    BY <1>ji, <2>1, <2>2 DEF JoinInv, JoinPoints, Others
  <2>3. CASE pc'[t] # "out"
    <3>1. PICK i \in DOMAIN pool : /\ pool[i].k_tid = loc[t].child /\ loc'[t].target = i
                                  /\ loc'[t].child = loc[t].child
      BY <1>7, <2>3, JoinFindIs
    <3>2. pool[i].status # "DEAD"
      <4>1. loc[t].child \in Thread
        BY <2>1 DEF PlaceInv
      <4>. QED
        BY <1>nu, <1>en, <3>1, <4>1
    <3>. QED
      BY <1>ji, <2>1, <3>1, <3>2 DEF JoinInv, JoinPoints, Others
  <2>. QED
    BY <2>2, <2>3
<1>8. ASSUME NEW t \in Thread, JoinWait(t) PROVE JoinInv'
  <2> DEFINE i == loc[t].target
  <2>1. /\ loc' = loc /\ Others(t) /\ pc[t] \in {"join", "woken"} /\ OtherEntries(i)
        /\ pool'[i].k_tid = pool[i].k_tid /\ pool'[i].status = pool[i].status
    BY <1>8, JoinWaitIs DEF SameThread
  <2>2. \A u \in Thread : pc'[u] \in JoinPoints => pc[u] \in JoinPoints
    BY <2>1 DEF JoinPoints, Others
  <2> HIDE DEF i
  <2>. QED
    BY <1>ji, <2>1, <2>2 DEF JoinInv, OtherEntries
<1>9. ASSUME NEW t \in Thread, reap_zombie(t) PROVE JoinInv'
  <2>1. Others(t) /\ pc[t] \in JoinPoints /\ pc'[t] \notin JoinPoints
    BY <1>9, ReapIs DEF JoinPoints
  <2>2. \A u \in Thread : pc'[u] \notin JoinPoints
    BY <1>ji, <2>1 DEF OneJoiner, Others
  <2>. QED
    BY <2>2 DEF JoinInv
<1>10. CASE Quiet
  BY <1>10, <1>ji DEF Quiet, JoinInv, JoinPoints
<1>. QED
  BY <1>1, <1>2, <1>3, <1>4, <1>5, <1>6, <1>7, <1>8, <1>9, <1>10, QuietSteps

(* Only a reap adds a join, of a thread that has exited. *)
LEMMA JoinedStep ==
  ASSUME TypeInv, PlaceInv, EntryInv, WaiterInv, JoinInv, JoinsItsThread, [Next]_vars
  PROVE  JoinsItsThread'
<1>1. ASSUME NEW t \in Thread, Search(t) PROVE JoinsItsThread'
  BY <1>1, SearchIs DEF JoinsItsThread
<1>2. ASSUME NEW t \in Thread, Fork(t) PROVE JoinsItsThread'
  BY <1>2, ForkIs DEF JoinsItsThread
<1>3. ASSUME NEW t \in Thread, ForkFails(t) PROVE JoinsItsThread'
  BY <1>3, ForkFailsIs DEF JoinsItsThread
<1>4. ASSUME NEW t \in Thread, add_to_pool_s(t) PROVE JoinsItsThread'
  BY <1>4, AddIs DEF JoinsItsThread
<1>5. ASSUME NEW t \in Thread, SetTid(t) PROVE JoinsItsThread'
  BY <1>5, SetTidIs DEF JoinsItsThread
<1>6. ASSUME NEW t \in Thread, ExitFound(t) PROVE JoinsItsThread'
  BY <1>6, ExitFoundIs DEF JoinsItsThread
<1>7. ASSUME NEW t \in Thread, JoinFind(t) PROVE JoinsItsThread'
  BY <1>7, JoinFindIs DEF JoinsItsThread
<1>8. ASSUME NEW t \in Thread, JoinWait(t) PROVE JoinsItsThread'
  BY <1>8, JoinWaitIs DEF JoinsItsThread
<1>9. ASSUME NEW t \in Thread, reap_zombie(t) PROVE JoinsItsThread'
  <2> DEFINE i == loc[t].target
  <2>1. /\ pc[t] \in JoinPoints /\ i \in DOMAIN pool /\ pool[i].status # "ALIVE"
        /\ joined' = joined \cup {<<loc[t].child, pool[i].exit_status>>}
    BY <1>9, ReapIs DEF JoinPoints
  <2>2. pool[i] \in ThreadEntry
    BY <2>1 DEF TypeInv
  <2>3. pool[i].k_tid = loc[t].child /\ pool[i].status # "DEAD"
    BY <2>1 DEF JoinInv
  <2>4. pool[i].status = "ZOMBIE"
    BY <2>1, <2>2, <2>3 DEF ThreadEntry
  <2>5. pool[i].exit_status = loc[t].child
    BY <2>1, <2>3, <2>4 DEF EntryInv
  <2>. QED
    BY <2>1, <2>5 DEF JoinsItsThread
<1>10. CASE Quiet
  BY <1>10 DEF Quiet, JoinsItsThread
<1>. QED
  BY <1>1, <1>2, <1>3, <1>4, <1>5, <1>6, <1>7, <1>8, <1>9, <1>10, QuietSteps

-----------------------------------------------------------------------------
(* One creator: each running thread has a stack of its own. *)

(* Every step keeps the pool's stacks in order. *)
LEMMA TopsStep ==
  ASSUME TypeInv, QueueInv, PlaceInv, EntryInv, WaiterInv, StackInv, [Next]_vars
  PROVE  TopsInv'
<1>ty. /\ pool \in Seq(ThreadEntry) /\ Len(pool) \in Nat /\ stacks \in Nat
       /\ DOMAIN pool = 1 .. Len(pool)
  BY DEF TypeInv
<1>to. TopsInv /\ EspInv
  BY DEF StackInv
<1>len. pool' \in Seq(ThreadEntry)
  BY TypeStep DEF TypeInv
<1>in. ASSUME stacks' = stacks, DOMAIN pool' = DOMAIN pool,
              \A i \in DOMAIN pool : pool'[i].stack_top = pool[i].stack_top
       PROVE  TopsInv'
  <2>1. Len(pool') = Len(pool)
    BY <1>ty, <1>in, <1>len
  <2>. QED
    BY <1>to, <1>in, <2>1 DEF TopsInv
<1>1. ASSUME NEW t \in Thread, Search(t) PROVE TopsInv'
  <2>1. CASE pool' = pool
    BY <1>1, <1>in, <2>1, SearchIs
  <2>2. CASE pool' # pool
    <3>1. PICK i \in DOMAIN pool : OtherEntries(i) /\ SameThread(i)
      BY <1>1, <2>2, SearchIs
    <3>. QED
      BY <1>1, <1>in, <3>1, SearchIs DEF OtherEntries, SameThread
  <2>. QED
    BY <2>1, <2>2
<1>2. ASSUME NEW t \in Thread, Fork(t) PROVE TopsInv'
  <2>1. stacks <= stacks' /\ pool' = pool
    BY <1>2, <1>ty, ForkIs
  <2>2. stacks' \in Nat
    BY TypeStep DEF TypeInv
  <2>. QED
    BY <1>ty, <1>to, <2>1, <2>2 DEF TopsInv
<1>3. ASSUME NEW t \in Thread, ForkFails(t) PROVE TopsInv'
  <2>1. CASE pool' = pool
    BY <1>3, <1>in, <2>1, ForkFailsIs
  <2>2. CASE pool' # pool
    <3>1. PICK i \in DOMAIN pool : OtherEntries(i) /\ SameThread(i)
      BY <1>3, <2>2, ForkFailsIs
    <3>. QED
      BY <1>3, <1>in, <3>1, ForkFailsIs DEF OtherEntries, SameThread
  <2>. QED
    BY <2>1, <2>2
<1>4. ASSUME NEW t \in Thread, add_to_pool_s(t) PROVE TopsInv'
  <2>1. /\ pc[t] = "link" /\ stacks' = stacks /\ Len(pool') = Len(pool) + 1
        /\ DOMAIN pool' = DOMAIN pool \cup {Len(pool) + 1}
        /\ \A k \in DOMAIN pool : pool'[k] = pool[k]
        /\ pool'[Len(pool) + 1].stack_top = loc[t].esp
    BY <1>4, AddIs
  <2>2. loc[t].esp = Len(pool) /\ loc[t].esp < stacks
    BY <1>to, <2>1 DEF EspInv, EntryInv
  <2>. QED
    BY <1>ty, <1>to, <2>1, <2>2 DEF TopsInv
<1>5. ASSUME NEW t \in Thread, SetTid(t) PROVE TopsInv'
  BY <1>5, <1>in, SetTidIs DEF OtherEntries, SameThread
<1>6. ASSUME NEW t \in Thread, ExitFound(t) PROVE TopsInv'
  BY <1>6, <1>in, ExitFoundIs DEF OtherEntries, SameThread
<1>7. ASSUME NEW t \in Thread, JoinFind(t) PROVE TopsInv'
  BY <1>7, <1>in, JoinFindIs
<1>8. ASSUME NEW t \in Thread, JoinWait(t) PROVE TopsInv'
  BY <1>8, <1>in, JoinWaitIs DEF OtherEntries, SameThread
<1>9. ASSUME NEW t \in Thread, reap_zombie(t) PROVE TopsInv'
  BY <1>9, <1>in, ReapIs DEF OtherEntries, SameThread
<1>10. CASE Quiet
  BY <1>10, <1>to DEF Quiet, TopsInv
<1>. QED
  BY <1>1, <1>2, <1>3, <1>4, <1>5, <1>6, <1>7, <1>8, <1>9, <1>10, QuietSteps

(* Every step keeps the stack of the thread that is being made. *)
LEMMA EspStep ==
  ASSUME OneCreator, TypeInv, QueueInv, PlaceInv, EntryInv, WaiterInv, StackInv, [Next]_vars
  PROVE  EspInv'
<1>ty. /\ pool \in Seq(ThreadEntry) /\ Len(pool) \in Nat /\ stacks \in Nat
       /\ pool' \in Seq(ThreadEntry) /\ DOMAIN pool = 1 .. Len(pool)
  BY TypeStep DEF TypeInv
<1>es. TopsInv /\ EspInv
  BY DEF StackInv
<1>ln. DOMAIN pool' = DOMAIN pool => Len(pool') = Len(pool)
  BY <1>ty
<1> DEFINE Makes(u) == pc[u] \in {"fork", "link", "settid"}
<1>in. ASSUME Len(pool') = Len(pool), stacks' = stacks,
              \A u \in Thread : Makes(u)' => pc'[u] = pc[u] /\ loc'[u] = loc[u]
       PROVE  EspInv'
  BY <1>in, <1>es DEF EspInv, Reused
<1>cr. \A u, v \in Thread : Makes(u) /\ pc[v] \in CreatePoints => u = v
  BY DEF PlaceInv, OneCreator, CreatePoints
<1>1. ASSUME NEW t \in Thread, Search(t) PROVE EspInv'
  <2>1. /\ Others(t) /\ pc[t] = "search" /\ pc'[t] = "fork" /\ stacks' = stacks
    BY <1>1, SearchIs
  <2>2. \A u \in Thread : Makes(u)' => u = t
    BY <1>cr, <2>1 DEF Others, CreatePoints
  <2>3. CASE pool' = pool /\ loc'[t].found = 0 /\ loc'[t].esp = Len(pool)
    BY <2>1, <2>2, <2>3 DEF EspInv, Reused
  <2>4. CASE ~(pool' = pool /\ loc'[t].found = 0 /\ loc'[t].esp = Len(pool))
    <3>1. PICK i \in DOMAIN pool : loc'[t].found = i /\ loc'[t].esp = pool[i].stack_top
      BY <1>1, <2>4, SearchIs
    <3>2. loc'[t].found # 0 /\ loc'[t].esp = loc'[t].found - 1
      BY <1>ty, <1>es, <3>1 DEF TopsInv
    <3>. QED
      BY <2>1, <2>2, <3>2 DEF EspInv, Reused
  <2>. QED
    BY <2>3, <2>4
<1>2. ASSUME NEW t \in Thread, Fork(t) PROVE EspInv'
  <2>1. /\ pc[t] = "fork" /\ pool' = pool
        /\ pc'[t] = IF loc[t].found = 0 THEN "link" ELSE "settid"
        /\ loc'[t].found = loc[t].found /\ loc'[t].esp = loc[t].esp
        /\ stacks' = IF loc[t].found = 0 /\ loc[t].esp + 1 > stacks THEN stacks + 1 ELSE stacks
    BY <1>2, ForkIs
  <2>2. \A u \in Thread : Makes(u)' => u = t
    BY <1>2, <1>cr, ForkIs DEF CreatePoints
  <2>3. CASE loc[t].found = 0
    <3>1. loc[t].esp = Len(pool) /\ Len(pool) <= stacks
      BY <1>es, <2>1, <2>3 DEF EspInv, TopsInv
    <3>2. loc'[t].esp < stacks'
      BY <1>ty, <2>1, <2>3, <3>1
    <3>. QED
      BY <2>1, <2>2, <2>3, <3>1, <3>2 DEF EspInv, Reused
  <2>4. CASE loc[t].found # 0
    <3>1. loc[t].esp = loc[t].found - 1
      BY <1>es, <2>1, <2>4 DEF EspInv, Reused
    <3>. QED
      BY <2>1, <2>2, <2>4, <3>1 DEF EspInv, Reused
  <2>. QED
    BY <2>3, <2>4
<1>3. ASSUME NEW t \in Thread, ForkFails(t) PROVE EspInv'
  <2>1. DOMAIN pool' = DOMAIN pool /\ stacks' = stacks
    <3>1. CASE pool' = pool
      BY <1>3, <3>1, ForkFailsIs
    <3>2. CASE pool' # pool
      BY <1>3, <3>2, ForkFailsIs DEF OtherEntries
    <3>. QED
      BY <3>1, <3>2
  <2>2. \A u \in Thread : Makes(u)' => pc'[u] = pc[u] /\ loc'[u] = loc[u]
    BY <1>3, ForkFailsIs DEF Others
  <2>. QED
    BY <1>in, <1>ln, <2>1, <2>2
<1>4. ASSUME NEW t \in Thread, add_to_pool_s(t) PROVE EspInv'
  <2>1. \A u \in Thread : ~Makes(u)'
    <3>1. Others(t) /\ pc[t] = "link" /\ pc'[t] = "out"
      BY <1>4, AddIs
    <3>. QED
      BY <1>cr, <3>1 DEF Others, CreatePoints
  <2>. QED
    BY <2>1 DEF EspInv, Reused
<1>5. ASSUME NEW t \in Thread, SetTid(t) PROVE EspInv'
  <2>1. DOMAIN pool' = DOMAIN pool /\ stacks' = stacks
    BY <1>5, SetTidIs DEF OtherEntries
  <2>2. \A u \in Thread : Makes(u)' => pc'[u] = pc[u] /\ loc'[u] = loc[u]
    BY <1>5, SetTidIs DEF Others
  <2>. QED
    BY <1>in, <1>ln, <2>1, <2>2
<1>6. ASSUME NEW t \in Thread, ExitFound(t) PROVE EspInv'
  <2>1. DOMAIN pool' = DOMAIN pool /\ stacks' = stacks
    BY <1>6, ExitFoundIs DEF OtherEntries
  <2>2. \A u \in Thread : Makes(u)' => pc'[u] = pc[u] /\ loc'[u] = loc[u]
    BY <1>6, ExitFoundIs
  <2>. QED
    BY <1>in, <1>ln, <2>1, <2>2
<1>7. ASSUME NEW t \in Thread, JoinFind(t) PROVE EspInv'
  <2>1. DOMAIN pool' = DOMAIN pool /\ stacks' = stacks
    BY <1>7, JoinFindIs DEF OtherEntries
  <2>2. \A u \in Thread : Makes(u)' => pc'[u] = pc[u] /\ loc'[u] = loc[u]
    BY <1>7, JoinFindIs DEF Others
  <2>. QED
    BY <1>in, <1>ln, <2>1, <2>2
<1>8. ASSUME NEW t \in Thread, JoinWait(t) PROVE EspInv'
  <2>1. DOMAIN pool' = DOMAIN pool /\ stacks' = stacks
    BY <1>8, JoinWaitIs DEF OtherEntries
  <2>2. \A u \in Thread : Makes(u)' => pc'[u] = pc[u] /\ loc'[u] = loc[u]
    BY <1>8, JoinWaitIs DEF Others
  <2>. QED
    BY <1>in, <1>ln, <2>1, <2>2
<1>9. ASSUME NEW t \in Thread, reap_zombie(t) PROVE EspInv'
  <2>1. DOMAIN pool' = DOMAIN pool /\ stacks' = stacks
    BY <1>9, ReapIs DEF OtherEntries
  <2>2. \A u \in Thread : Makes(u)' => pc'[u] = pc[u] /\ loc'[u] = loc[u]
    BY <1>9, ReapIs DEF Others
  <2>. QED
    BY <1>in, <1>ln, <2>1, <2>2
<1>10. CASE Quiet
  <2>1. \A u \in Thread : Makes(u)' => pc'[u] = pc[u] /\ loc'[u] = loc[u]
    BY <1>10 DEF Quiet
  <2>. QED
    BY <1>10, <1>in, <2>1 DEF Quiet
<1>. QED
  BY <1>1, <1>2, <1>3, <1>4, <1>5, <1>6, <1>7, <1>8, <1>9, <1>10, QuietSteps

(* Every step keeps the stack of each running thread. *)
LEMMA HomeStep ==
  ASSUME TypeInv, PlaceInv, EntryInv, WaiterInv, StackInv, [Next]_vars
  PROVE  HomeInv'
<1>ty. /\ DOMAIN pool = 1 .. Len(pool) /\ Len(pool) \in Nat
  BY DEF TypeInv
<1>ne. \A k \in Thread : k # -1
  BY Constants
<1>ho. EspInv /\ \A x \in Thread : Running(x) => Home(x)
  BY DEF StackInv, HomeInv
<1> DEFINE In(x, i) == /\ i \in DOMAIN pool /\ pool[i].k_tid = x /\ pool[i].status = "ALIVE"
                       /\ stack[x] = i - 1
           Of(x, u) == Created(u) /\ loc[u].child = x /\ stack[x] = loc[u].esp
<1>hd. /\ \A x \in Thread : Home(x) <=> (\E i \in DOMAIN pool : In(x, i)) \/ (\E u \in Thread : Of(x, u))
       /\ \A x \in Thread, i \in DOMAIN pool' : In(x, i)' => Home(x)'
       /\ \A x, u \in Thread : Of(x, u)' => Home(x)'
  BY DEF Home
<1>in. ASSUME \A x \in Thread : Running(x)' => Running(x),
              \A x \in Thread, i \in DOMAIN pool : Running(x)' /\ In(x, i) => In(x, i)',
              \A x, u \in Thread : Of(x, u) => Of(x, u)' \/ \E i \in DOMAIN pool' : In(x, i)',
              DOMAIN pool \subseteq DOMAIN pool'
       PROVE  HomeInv'
  <2>1. SUFFICES ASSUME NEW x \in Thread, Running(x)' PROVE Home(x)'
    BY DEF HomeInv
  <2>2. Running(x) /\ Home(x)
    BY <1>ho, <1>in, <2>1
  <2>3. CASE \E i \in DOMAIN pool : In(x, i)
    BY <1>hd, <1>in, <2>1, <2>3
  <2>4. CASE \E u \in Thread : Of(x, u)
    BY <1>hd, <1>in, <2>1, <2>4
  <2>. QED
    BY <1>hd, <2>2, <2>3, <2>4
<1>1. ASSUME NEW t \in Thread, Search(t) PROVE HomeInv'
  <2>1. \A x \in Thread : Running(x)' => Running(x)
    BY <1>1, SearchIs DEF Running, Others
  <2>2. /\ DOMAIN pool' = DOMAIN pool
        /\ \A x \in Thread, i \in DOMAIN pool : Running(x)' /\ In(x, i) => In(x, i)'
    <3>1. CASE pool' = pool
      BY <1>1, <3>1, SearchIs
    <3>2. CASE pool' # pool
      <4>1. PICK k \in DOMAIN pool : OtherEntries(k) /\ SameThread(k) /\ pool[k].status = "DEAD"
        BY <1>1, <3>2, SearchIs
      <4>. QED
        BY <1>1, <4>1, SearchIs DEF OtherEntries
    <3>. QED
      BY <3>1, <3>2
  <2>3. \A x, u \in Thread : Of(x, u) => Of(x, u)'
    BY <1>1, SearchIs DEF Created, Others
  <2>. QED
    BY <1>in, <2>1, <2>2, <2>3
<1>2. ASSUME NEW t \in Thread, Fork(t) PROVE HomeInv'
  <2>1. /\ started + 1 \in Thread /\ pc[t] = "fork" /\ pool' = pool
        /\ pc[started + 1] = "unborn"
        /\ stack'[started + 1] = loc[t].esp /\ loc'[t].esp = loc[t].esp
        /\ loc'[t].child = started + 1 /\ pc'[t] \in {"link", "settid"}
        /\ \A u \in Thread \ {started + 1} : stack'[u] = stack[u]
        /\ \A u \in Thread \ {t, started + 1} : pc'[u] = pc[u]
        /\ \A u \in Thread \ {t} : loc'[u] = loc[u]
    BY <1>2, ForkIs
  <2>2. SUFFICES ASSUME NEW x \in Thread, Running(x)' PROVE Home(x)'
    BY DEF HomeInv
  <2>3. CASE x = started + 1
    <3>1. Of(x, t)'
      BY <2>1, <2>3 DEF Created
    <3>. QED
      BY <1>hd, <3>1
  <2>4. CASE x # started + 1
    <3>1. Running(x) /\ Home(x)
      BY <1>ho, <2>1, <2>2, <2>4 DEF Running
    <3>2. CASE \E i \in DOMAIN pool : In(x, i)
      BY <1>hd, <2>1, <2>4, <3>2
    <3>3. CASE \E u \in Thread : Of(x, u)
      <4>1. PICK u \in Thread : Of(x, u)
        BY <3>3
      <4>2. u # t /\ u # started + 1
        BY <2>1, <4>1 DEF Created
      <4>3. Of(x, u)'
        BY <2>1, <2>4, <4>1, <4>2 DEF Created
      <4>. QED
        BY <1>hd, <4>3
    <3>. QED
      BY <1>hd, <3>1, <3>2, <3>3
  <2>. QED
    BY <2>3, <2>4
<1>3. ASSUME NEW t \in Thread, ForkFails(t) PROVE HomeInv'
  <2>1. \A x \in Thread : Running(x)' => Running(x)
    BY <1>3, ForkFailsIs DEF Running, Others
  <2>2. /\ DOMAIN pool' = DOMAIN pool
        /\ \A x \in Thread, i \in DOMAIN pool : Running(x)' /\ In(x, i) => In(x, i)'
    <3>1. CASE pool' = pool
      BY <1>3, <3>1, ForkFailsIs
    <3>2. CASE pool' # pool
      <4>1. PICK k \in DOMAIN pool : OtherEntries(k) /\ SameThread(k) /\ loc[t].found = k /\ k # 0
        BY <1>3, <3>2, ForkFailsIs
      <4>. QED
        <5>1. pool[k].k_tid = -1
          BY <1>3, <4>1, ForkFailsIs DEF EntryInv, Reused
        <5>. QED
          BY <1>3, <1>ne, <4>1, <5>1, ForkFailsIs DEF OtherEntries
    <3>. QED
      BY <3>1, <3>2
  <2>3. \A x, u \in Thread : Of(x, u) => Of(x, u)'
    BY <1>3, ForkFailsIs DEF Created, Others
  <2>. QED
    BY <1>in, <2>1, <2>2, <2>3
<1>4. ASSUME NEW t \in Thread, add_to_pool_s(t) PROVE HomeInv'
  <2> DEFINE n == Len(pool) + 1
  <2>1. /\ Others(t) /\ pc[t] = "link" /\ pc'[t] = "out" /\ stack' = stack
        /\ DOMAIN pool' = DOMAIN pool \cup {n} /\ n \in DOMAIN pool'
        /\ \A k \in DOMAIN pool : pool'[k] = pool[k]
        /\ pool'[n].k_tid = loc[t].child /\ pool'[n].status = "ALIVE"
    BY <1>4, AddIs
  <2>2. loc[t].esp = n - 1
    BY <1>ty, <1>ho, <2>1 DEF EspInv, EntryInv
  <2> HIDE DEF n
  <2>3. \A x \in Thread : Running(x)' => Running(x)
    BY <2>1 DEF Running, Others
  <2>4. \A x \in Thread, i \in DOMAIN pool : Running(x)' /\ In(x, i) => In(x, i)'
    BY <2>1
  <2>5. \A x, u \in Thread : Of(x, u) => Of(x, u)' \/ \E i \in DOMAIN pool' : In(x, i)'
    <3>1. SUFFICES ASSUME NEW x \in Thread, NEW u \in Thread, Of(x, u)
                   PROVE  Of(x, u)' \/ \E i \in DOMAIN pool' : In(x, i)'
      OBVIOUS
    <3>2. CASE u = t
      <4>1. /\ n \in DOMAIN pool' /\ pool'[n].k_tid = x /\ pool'[n].status = "ALIVE"
            /\ stack'[x] = n - 1
        BY <2>1, <2>2, <3>1, <3>2
      <4>. QED
        BY <4>1
    <3>3. CASE u # t
      BY <2>1, <3>1, <3>3 DEF Others, Created
    <3>. QED
      BY <3>2, <3>3
  <2>. QED
    BY <1>in, <2>1, <2>3, <2>4, <2>5
<1>5. ASSUME NEW t \in Thread, SetTid(t) PROVE HomeInv'
  <2> DEFINE n == loc[t].found
  <2>1. /\ Others(t) /\ pc[t] = "settid" /\ pc'[t] = "out" /\ stack' = stack
        /\ n \in DOMAIN pool' /\ n # 0 /\ OtherEntries(n)
        /\ pool'[n].k_tid = loc[t].child /\ pool'[n].status = pool[n].status
    BY <1>5, SetTidIs DEF OtherEntries
  <2>2. loc[t].esp = n - 1
    BY <1>ho, <2>1 DEF EspInv, Reused
  <2> HIDE DEF n
  <2>3. \A x \in Thread : Running(x)' => Running(x)
    BY <2>1 DEF Running, Others
  <2>4. \A x \in Thread, i \in DOMAIN pool : Running(x)' /\ In(x, i) => In(x, i)'
    <3>1. pool[n].k_tid = -1
      BY <2>1 DEF EntryInv, Reused, n
    <3>. QED
      BY <1>ne, <2>1, <3>1 DEF OtherEntries
  <2>5. \A x, u \in Thread : Of(x, u) => Of(x, u)' \/ \E i \in DOMAIN pool' : In(x, i)'
    <3>1. SUFFICES ASSUME NEW x \in Thread, NEW u \in Thread, Of(x, u)
                   PROVE  Of(x, u)' \/ \E i \in DOMAIN pool' : In(x, i)'
      OBVIOUS
    <3>2. CASE u = t
      <4>1. /\ n \in DOMAIN pool' /\ pool'[n].k_tid = x /\ pool'[n].status = "ALIVE"
            /\ stack'[x] = n - 1
        BY <2>1, <2>2, <3>1, <3>2 DEF EntryInv, Reused, n
      <4>. QED
        BY <4>1
    <3>3. CASE u # t
      BY <2>1, <3>1, <3>3 DEF Others, Created
    <3>. QED
      BY <3>2, <3>3
  <2>. QED
    BY <1>in, <2>1, <2>3, <2>4, <2>5 DEF OtherEntries
<1>6. ASSUME NEW t \in Thread, ExitFound(t) PROVE HomeInv'
  <2> DEFINE k == find_thread_by_k_tid(t)
  <2>1. /\ loc' = loc /\ pc[t] = "exit" /\ pc'[t] = "vanish" /\ stack' = stack
        /\ \A u \in Thread \ {t} : pc'[u] = IF u = pool[k].waiter THEN "woken" ELSE pc[u]
        /\ \A u \in Thread : u = pool[k].waiter => pc[u] = "joining"
        /\ k \in DOMAIN pool /\ OtherEntries(k) /\ pool[k].k_tid = t
    BY <1>6, ExitFoundIs
  <2> HIDE DEF k
  <2>2. \A x \in Thread : Running(x)' => Running(x) /\ x # t
    BY <2>1 DEF Running
  <2>3. /\ DOMAIN pool' = DOMAIN pool
        /\ \A x \in Thread, i \in DOMAIN pool : Running(x)' /\ In(x, i) => In(x, i)'
    BY <2>1, <2>2 DEF OtherEntries
  <2>4. \A x, u \in Thread : Of(x, u) => Of(x, u)'
    BY <2>1 DEF Created
  <2>. QED
    BY <1>in, <2>2, <2>3, <2>4
<1>7. ASSUME NEW t \in Thread, JoinFind(t) PROVE HomeInv'
  <2>1. \A x \in Thread : Running(x)' => Running(x)
    BY <1>7, JoinFindIs DEF Running, Others
  <2>2. /\ DOMAIN pool' = DOMAIN pool
        /\ \A x \in Thread, i \in DOMAIN pool : Running(x)' /\ In(x, i) => In(x, i)'
    BY <1>7, JoinFindIs DEF OtherEntries, SameThread
  <2>3. \A x, u \in Thread : Of(x, u) => Of(x, u)'
    BY <1>7, JoinFindIs DEF Created, Others
  <2>. QED
    BY <1>in, <2>1, <2>2, <2>3
<1>8. ASSUME NEW t \in Thread, JoinWait(t) PROVE HomeInv'
  <2>1. \A x \in Thread : Running(x)' => Running(x)
    BY <1>8, JoinWaitIs DEF Running, Others
  <2>2. /\ DOMAIN pool' = DOMAIN pool
        /\ \A x \in Thread, i \in DOMAIN pool : Running(x)' /\ In(x, i) => In(x, i)'
    BY <1>8, JoinWaitIs DEF OtherEntries, SameThread
  <2>3. \A x, u \in Thread : Of(x, u) => Of(x, u)'
    BY <1>8, JoinWaitIs DEF Created, Others
  <2>. QED
    BY <1>in, <2>1, <2>2, <2>3
<1>9. ASSUME NEW t \in Thread, reap_zombie(t) PROVE HomeInv'
  <2>1. \A x \in Thread : Running(x)' => Running(x)
    BY <1>9, ReapIs DEF Running, Others
  <2>2. /\ DOMAIN pool' = DOMAIN pool
        /\ \A x \in Thread, i \in DOMAIN pool : Running(x)' /\ In(x, i) => In(x, i)'
    BY <1>9, ReapIs DEF OtherEntries, SameThread
  <2>3. \A x, u \in Thread : Of(x, u) => Of(x, u)'
    BY <1>9, ReapIs DEF Created, Others
  <2>. QED
    BY <1>in, <2>1, <2>2, <2>3
<1>10. CASE Quiet
  <2>1. \A x \in Thread : Running(x)' => Running(x)
    BY <1>10 DEF Quiet, Running
  <2>2. /\ DOMAIN pool' = DOMAIN pool
        /\ \A x \in Thread, i \in DOMAIN pool : Running(x)' /\ In(x, i) => In(x, i)'
    BY <1>10 DEF Quiet
  <2>3. \A x, u \in Thread : Of(x, u) => Of(x, u)'
    BY <1>10 DEF Quiet, Created
  <2>. QED
    BY <1>in, <2>1, <2>2, <2>3
<1>. QED
  BY <1>1, <1>2, <1>3, <1>4, <1>5, <1>6, <1>7, <1>8, <1>9, <1>10, QuietSteps

(* Threads whose stacks are where StackInv says have different stacks. *)
LEMMA HomesDisjoint ==
  ASSUME OneCreator, TypeInv, PlaceInv, EntryInv, StackInv
  PROVE  StacksDisjoint
<1>ty. /\ DOMAIN pool = 1 .. Len(pool) /\ Len(pool) \in Nat /\ stacks \in Nat
       /\ \A t \in Thread : loc[t].found \in Nat
  BY DEF TypeInv, Locals
<1>ne. \A k \in Thread : k # -1
  BY Constants
<1> DEFINE In(x, i) == /\ i \in DOMAIN pool /\ pool[i].k_tid = x /\ pool[i].status = "ALIVE"
                       /\ stack[x] = i - 1
           Of(x, u) == Created(u) /\ loc[u].child = x /\ stack[x] = loc[u].esp
<1>ho. \A x \in Thread :
         Running(x) => (\E i \in DOMAIN pool : In(x, i)) \/ (\E u \in Thread : Of(x, u))
  BY DEF StackInv, HomeInv, Home
<1>1. ASSUME NEW u \in Thread, Created(u)
      PROVE  \/ pc[u] = "link" /\ loc[u].esp = Len(pool) /\ loc[u].esp < stacks
             \/ /\ loc[u].found \in DOMAIN pool /\ pool[loc[u].found].k_tid = -1
                /\ loc[u].esp = loc[u].found - 1
  <2>1. CASE pc[u] = "link"
    BY <2>1 DEF EntryInv, StackInv, EspInv
  <2>2. CASE pc[u] = "settid"
    BY <2>2 DEF EntryInv, StackInv, EspInv, Reused
  <2>. QED
    BY <1>1, <2>1, <2>2 DEF Created
<1>2. ASSUME NEW x \in Thread, Running(x) PROVE stack[x] < stacks
  <2>1. Len(pool) <= stacks
    BY DEF StackInv, TopsInv
  <2>2. CASE \E i \in DOMAIN pool : In(x, i)
    BY <1>ty, <2>1, <2>2
  <2>3. CASE \E u \in Thread : Of(x, u)
    BY <1>ty, <1>1, <2>1, <2>3
  <2>. QED
    BY <1>ho, <1>2, <2>2, <2>3
<1>3. ASSUME NEW x \in Thread, NEW u \in Thread, Of(x, u),
             NEW y \in Thread, NEW i \in DOMAIN pool, In(y, i)
      PROVE  stack[x] # stack[y]
  <2>1. CASE loc[u].esp = Len(pool)
    BY <1>ty, <1>3, <2>1
  <2>2. CASE loc[u].found \in DOMAIN pool /\ pool[loc[u].found].k_tid = -1
             /\ loc[u].esp = loc[u].found - 1
    <3>1. i # loc[u].found
      BY <1>ne, <1>3, <2>2
    <3>. QED
      BY <1>ty, <1>3, <2>2, <3>1
  <2>. QED
    BY <1>1, <1>3, <2>1, <2>2
<1>4. ASSUME NEW x \in Thread, NEW y \in Thread, Running(x), Running(y), x # y
      PROVE  stack[x] # stack[y]
  <2>1. CASE (\E i \in DOMAIN pool : In(x, i)) /\ (\E i \in DOMAIN pool : In(y, i))
    <3>1. PICK i \in DOMAIN pool, j \in DOMAIN pool : In(x, i) /\ In(y, j)
      BY <2>1
    <3>2. i # j /\ i \in Nat /\ j \in Nat
      BY <1>ty, <1>4, <3>1
    <3>. QED
      BY <3>1, <3>2
  <2>2. CASE (\E u \in Thread : Of(x, u)) /\ (\E u \in Thread : Of(y, u))
    <3>1. PICK u \in Thread, v \in Thread : Of(x, u) /\ Of(y, v)
      BY <2>2
    <3>2. u = v
      BY <3>1 DEF Created, PlaceInv, CreatePoints, OneCreator
    <3>. QED
      BY <1>4, <3>1, <3>2
  <2>3. CASE (\E u \in Thread : Of(x, u)) /\ (\E i \in DOMAIN pool : In(y, i))
    BY <1>3, <2>3
  <2>4. CASE (\E i \in DOMAIN pool : In(x, i)) /\ (\E u \in Thread : Of(y, u))
    BY <1>3, <2>4
  <2>. QED
    BY <1>ho, <1>4, <2>1, <2>2, <2>3, <2>4
<1>. QED
  BY <1>2, <1>4 DEF StacksDisjoint, Running

-----------------------------------------------------------------------------
(* The queues of the locks and the semaphore. *)

Once(q) == \A i, j \in DOMAIN q : q[i] = q[j] => i = j

(* A thread that is not in a queue is added to it. *)
LEMMA QueueAppend ==
  ASSUME NEW q \in Seq(Thread), NEW t \in Thread, Once(q), t \notin Elements(q)
  PROVE  Once(Append(q, t)) /\ Elements(Append(q, t)) = Elements(q) \cup {t}
<1> DEFINE r == Append(q, t)
<1>1. /\ Len(q) \in Nat /\ DOMAIN q = 1 .. Len(q) /\ DOMAIN r = 1 .. Len(q) + 1
      /\ \A i \in 1 .. Len(q) : r[i] = q[i]
      /\ r[Len(q) + 1] = t
  BY AppendProperties
<1> HIDE DEF r
<1>2. DOMAIN r = DOMAIN q \cup {Len(q) + 1} /\ Len(q) + 1 \notin DOMAIN q
  BY <1>1
<1>3. \A i \in DOMAIN q : q[i] # t
  BY DEF Elements
<1>4. Once(r)
  BY <1>1, <1>2, <1>3 DEF Once
<1>5. Elements(r) = Elements(q) \cup {t}
  BY <1>1, <1>2 DEF Elements
<1>. QED
  BY <1>4, <1>5 DEF r

(* The head of a queue is taken from it. *)
LEMMA QueueTail ==
  ASSUME NEW q \in Seq(Thread), q # <<>>, Once(q)
  PROVE  Once(Tail(q)) /\ Elements(Tail(q)) = Elements(q) \ {Head(q)}
<1> DEFINE r == Tail(q)
<1>1. /\ Len(q) \in Nat /\ Len(q) >= 1 /\ DOMAIN q = 1 .. Len(q)
      /\ DOMAIN r = 1 .. Len(q) - 1
      /\ \A i \in 1 .. Len(q) - 1 : r[i] = q[i + 1]
      /\ Head(q) = q[1]
  BY HeadTailProperties, EmptySeq
<1> HIDE DEF r
<1>2. ASSUME NEW i \in DOMAIN r PROVE i + 1 \in DOMAIN q /\ i + 1 # 1 /\ r[i] = q[i + 1]
  BY <1>1
<1>3. ASSUME NEW i \in DOMAIN q, i # 1
      PROVE  i - 1 \in DOMAIN r /\ r[i - 1] = q[i]
  <2>1. i - 1 \in DOMAIN r /\ (i - 1) + 1 = i
    BY <1>1, <1>3
  <2>. QED
    BY <1>1, <2>1
<1>4. 1 \in DOMAIN q
  BY <1>1
<1>5. Once(r)
  <2>1. SUFFICES ASSUME NEW i \in DOMAIN r, NEW j \in DOMAIN r, r[i] = r[j] PROVE i = j
    BY DEF Once
  <2>2. i + 1 = j + 1
    BY <1>2, <2>1 DEF Once
  <2>. QED
    BY <1>1, <2>2
<1>6. ASSUME NEW x \in Elements(r) PROVE x \in Elements(q) /\ x # q[1]
  <2>1. PICK i \in DOMAIN r : x = r[i]
    BY DEF Elements
  <2>. QED
    BY <1>2, <1>4, <2>1 DEF Elements, Once
<1>7. ASSUME NEW x \in Elements(q), x # q[1] PROVE x \in Elements(r)
  <2>1. PICK i \in DOMAIN q : x = q[i]
    BY DEF Elements
  <2>2. i # 1
    BY <1>7, <2>1
  <2>. QED
    BY <1>3, <2>1, <2>2 DEF Elements
<1>. QED
  BY <1>1, <1>5, <1>6, <1>7 DEF r

(* The empty queue. *)
LEMMA QueueEmpty == Once(<<>>) /\ Elements(<<>>) = {}
BY DEF Once, Elements

(* The queue an operation leaves has those it does not wake. *)
LEMMA UnlockQueue ==
  ASSUME NEW rw \in RwLock, Once(rw.q)
  PROVE  LET r == rwlock_unlock(rw) IN
         Once(r.q) /\ Elements(r.q) = Elements(rw.q) \ UnlockWakes(rw)
<1>ty. rw.q \in Seq(Thread)
  BY DEF RwLock
<1>1. CASE rw.writer_locked
  <2>1. rwlock_unlock(rw).q = <<>> /\ UnlockWakes(rw) = Elements(rw.q)
    BY <1>1 DEF rwlock_unlock, UnlockWakes, cond_broadcast, RwLock
  <2>. QED
    BY <2>1, QueueEmpty
<1>2. CASE ~rw.writer_locked /\ rw.count = 1
  <2>1. rwlock_unlock(rw).q = cond_signal(rw.q) /\ UnlockWakes(rw) = Signalled(rw.q)
    BY <1>2 DEF rwlock_unlock, UnlockWakes, RwLock
  <2>2. CASE rw.q = <<>>
    BY <2>1, <2>2 DEF cond_signal, Signalled
  <2>3. CASE rw.q # <<>>
    BY <1>ty, <2>1, <2>3, QueueTail DEF cond_signal, Signalled
  <2>. QED
    BY <2>2, <2>3
<1>3. CASE ~rw.writer_locked /\ rw.count # 1
  <2>1. rwlock_unlock(rw).q = rw.q /\ UnlockWakes(rw) = {}
    BY <1>3 DEF rwlock_unlock, UnlockWakes, RwLock
  <2>. QED
    BY <2>1
<1>. QED
  BY <1>1, <1>2, <1>3

(* A downgrade wakes all. *)
LEMMA DowngradeQueue ==
  ASSUME NEW rw \in RwLock
  PROVE  LET r == rwlock_downgrade(rw) IN
         Once(r.q) /\ Elements(r.q) = Elements(rw.q) \ DowngradeWakes(rw)
<1>1. rwlock_downgrade(rw).q = <<>> /\ DowngradeWakes(rw) = Elements(rw.q)
  BY DEF rwlock_downgrade, DowngradeWakes, cond_broadcast, RwLock
<1>. QED
  BY <1>1, QueueEmpty

(* sem_signal wakes the head, if the count says that there is one. *)
LEMMA SignalQueue ==
  ASSUME NEW s \in [count : Int, q : Seq(Thread)], Once(s.q)
  PROVE  LET r == sem_signal(s) IN
         Once(r.q) /\ Elements(r.q) = Elements(s.q) \ SemWakes(s)
<1>1. CASE s.count + 1 <= 0 /\ s.q # <<>>
  <2>1. sem_signal(s).q = Tail(s.q) /\ SemWakes(s) = {Head(s.q)}
    BY <1>1 DEF sem_signal, SemWakes, Signalled
  <2>. QED
    BY <1>1, <2>1, QueueTail
<1>2. CASE ~(s.count + 1 <= 0 /\ s.q # <<>>)
  <2>1. sem_signal(s).q = s.q /\ SemWakes(s) = {}
    BY <1>2 DEF sem_signal, SemWakes, Signalled
  <2>. QED
    BY <2>1
<1>. QED
  BY <1>1, <1>2

(* The threads that sleep on what. *)
Sleepers(what) == {t \in Thread : Sleeps(t, what)}

(* A queue has the sleepers, each once. *)
LEMMA QueueIs ==
  ASSUME NEW q \in Seq(Thread), NEW what
  PROVE  Queue(q, what) <=> Once(q) /\ Elements(q) = Sleepers(what)
<1>1. Elements(q) \subseteq Thread
  BY DEF Elements
<1>. QED
  BY <1>1 DEF Queue, Once, Sleepers

(* Waking threads takes them from the sleepers of what they slept on. *)
LEMMA WokenSleepers ==
  ASSUME TypeInv, NEW what \in {"pool", "lock", "sem"},
         NEW W \in SUBSET Sleepers(what), NEW new, Woken(new, W), lk' = new
  PROVE  /\ Sleepers(what)' = Sleepers(what) \ W
         /\ \A x \in {"pool", "lock", "sem"} \ {what} : Sleepers(x)' = Sleepers(x)
BY DEF Woken, Sleepers, Sleeps

(* Every step keeps the queues. *)
LEMMA QueueStep ==
  ASSUME TypeInv, QueueInv, WantInv, PlaceInv, EntryInv, [Next]_vars
  PROVE  QueueInv'
<1>ty. /\ poolLock \in RwLock /\ lock \in RwLock /\ sem \in [count : Int, q : Seq(Thread)]
       /\ lk \in [Thread -> Request \cup {NULL}]
       /\ poolLock.q \in Seq(Thread) /\ lock.q \in Seq(Thread) /\ sem.q \in Seq(Thread)
  BY DEF TypeInv, RwLock
<1>tn. poolLock'.q \in Seq(Thread) /\ lock'.q \in Seq(Thread) /\ sem'.q \in Seq(Thread)
  BY TypeStep DEF TypeInv, RwLock
<1>qu. /\ Once(poolLock.q) /\ Elements(poolLock.q) = Sleepers("pool")
       /\ Once(lock.q) /\ Elements(lock.q) = Sleepers("lock")
       /\ Once(sem.q) /\ Elements(sem.q) = Sleepers("sem")
  BY <1>ty, QueueIs DEF QueueInv
<1>qn. ASSUME Once(poolLock'.q), Elements(poolLock'.q) = Sleepers("pool")',
              Once(lock'.q), Elements(lock'.q) = Sleepers("lock")',
              Once(sem'.q), Elements(sem'.q) = Sleepers("sem")'
       PROVE  QueueInv'
  BY <1>qn, <1>tn DEF QueueInv, Queue, Once, Sleepers, Elements
<1>wk. /\ Woken(Wake(UnlockWakes(poolLock)), UnlockWakes(poolLock))
       /\ Woken(Wake(UnlockWakes(lock)), UnlockWakes(lock))
       /\ Woken(Wake(DowngradeWakes(lock)), DowngradeWakes(lock))
       /\ UnlockWakes(poolLock) \in SUBSET Sleepers("pool")
       /\ UnlockWakes(lock) \in SUBSET Sleepers("lock")
       /\ DowngradeWakes(lock) \in SUBSET Sleepers("lock")
       /\ SemWakes(sem) \in SUBSET Sleepers("sem")
  BY UnlockIs, WakesSleepers DEF Sleepers
<1> DEFINE Same(x) == Sleepers(x)' = Sleepers(x)
<1>sa. ASSUME Same("pool"), Same("lock"), Same("sem"),
              poolLock' = poolLock, lock' = lock, sem' = sem
       PROVE  QueueInv'
  BY <1>sa, <1>qu, <1>qn
<1>re. ASSUME poolLock' = rwlock_unlock(poolLock), lock' = lock, sem' = sem,
              lk' = Wake(UnlockWakes(poolLock))
       PROVE  QueueInv'
  <2>1. /\ Sleepers("pool")' = Sleepers("pool") \ UnlockWakes(poolLock)
        /\ Same("lock") /\ Same("sem")
    BY <1>re, <1>wk, WokenSleepers
  <2>2. Once(poolLock'.q) /\ Elements(poolLock'.q) = Elements(poolLock.q) \ UnlockWakes(poolLock)
    BY <1>re, <1>ty, <1>qu, UnlockQueue
  <2>. QED
    BY <1>re, <1>qu, <1>qn, <2>1, <2>2
<1>1. ASSUME NEW t \in Thread, TakePool(t) PROVE QueueInv'
  <2>1. /\ lk[t] \in Request /\ lk[t].what = "pool" /\ ~lk[t].asleep
        /\ lock' = lock /\ sem' = sem
    BY <1>1, TakingIs, Requests DEF TakePool
  <2>2. t \notin Sleepers("pool")
    BY <2>1 DEF Sleepers, Sleeps
  <2>3. CASE MustWait(poolLock, lk[t].type)
    <3>1. lk' = [lk EXCEPT ![t] = [lk[t] EXCEPT !.asleep = TRUE]] /\ poolLock'.q = Append(poolLock.q, t)
      BY <1>1, <1>ty, <2>3 DEF TakePool, rwlock_lock, cond_wait, RwLock
    <3>2. /\ [lk[t] EXCEPT !.asleep = TRUE] # NULL
          /\ [lk[t] EXCEPT !.asleep = TRUE].what = "pool"
          /\ [lk[t] EXCEPT !.asleep = TRUE].asleep
      BY <2>1, Requests, Constants DEF Request
    <3>3. /\ Sleepers("pool")' = Sleepers("pool") \cup {t}
          /\ Same("lock") /\ Same("sem")
      BY <1>ty, <2>1, <3>1, <3>2 DEF Sleepers, Sleeps
    <3>4. Once(poolLock'.q) /\ Elements(poolLock'.q) = Elements(poolLock.q) \cup {t}
      BY <1>ty, <1>qu, <2>2, <3>1, QueueAppend
    <3>. QED
      BY <1>qu, <1>qn, <2>1, <3>3, <3>4
  <2>4. CASE ~(MustWait(poolLock, lk[t].type))
    <3>1. lk' = [lk EXCEPT ![t] = NULL] /\ poolLock'.q = poolLock.q
      BY <1>1, <1>ty, <2>4 DEF TakePool, rwlock_lock, RwLock
    <3>2. Same("pool") /\ Same("lock") /\ Same("sem")
      BY <1>ty, <2>1, <3>1 DEF Sleepers, Sleeps
    <3>. QED
      BY <1>qu, <1>qn, <2>1, <3>1, <3>2
  <2>. QED
    BY <2>3, <2>4
<1>2. ASSUME NEW t \in Thread, TakeLock(t) PROVE QueueInv'
  <2>1. /\ lk[t] \in Request /\ lk[t].what = "lock" /\ ~lk[t].asleep
        /\ poolLock' = poolLock /\ sem' = sem
    BY <1>2, TakingIs, Requests DEF TakeLock, libVars
  <2>2. t \notin Sleepers("lock")
    BY <2>1 DEF Sleepers, Sleeps
  <2>3. CASE MustWait(lock, lk[t].type)
    <3>1. lk' = [lk EXCEPT ![t] = [lk[t] EXCEPT !.asleep = TRUE]] /\ lock'.q = Append(lock.q, t)
      BY <1>2, <1>ty, <2>3 DEF TakeLock, rwlock_lock, cond_wait, RwLock
    <3>2. /\ [lk[t] EXCEPT !.asleep = TRUE] # NULL
          /\ [lk[t] EXCEPT !.asleep = TRUE].what = "lock"
          /\ [lk[t] EXCEPT !.asleep = TRUE].asleep
      BY <2>1, Requests, Constants DEF Request
    <3>3. /\ Sleepers("lock")' = Sleepers("lock") \cup {t}
          /\ Same("pool") /\ Same("sem")
      BY <1>ty, <2>1, <3>1, <3>2 DEF Sleepers, Sleeps
    <3>4. Once(lock'.q) /\ Elements(lock'.q) = Elements(lock.q) \cup {t}
      BY <1>ty, <1>qu, <2>2, <3>1, QueueAppend
    <3>. QED
      BY <1>qu, <1>qn, <2>1, <3>3, <3>4
  <2>4. CASE ~(MustWait(lock, lk[t].type))
    <3>1. lk' = [lk EXCEPT ![t] = NULL] /\ lock'.q = lock.q
      BY <1>2, <1>ty, <2>4 DEF TakeLock, rwlock_lock, RwLock
    <3>2. Same("pool") /\ Same("lock") /\ Same("sem")
      BY <1>ty, <2>1, <3>1 DEF Sleepers, Sleeps
    <3>. QED
      BY <1>qu, <1>qn, <2>1, <3>1, <3>2
  <2>. QED
    BY <2>3, <2>4
<1>3. ASSUME NEW t \in Thread, TakeSem(t) PROVE QueueInv'
  <2>1. /\ lk[t] \in Request /\ lk[t].what = "sem" /\ ~lk[t].asleep
        /\ poolLock' = poolLock /\ lock' = lock
    BY <1>3, TakingIs, Requests DEF TakeSem, libVars
  <2>2. t \notin Sleepers("sem")
    BY <2>1 DEF Sleepers, Sleeps
  <2>3. CASE sem.count - 1 < 0
    <3>1. lk' = [lk EXCEPT ![t] = [lk[t] EXCEPT !.asleep = TRUE]] /\ sem'.q = Append(sem.q, t)
      BY <1>3, <1>ty, <2>3 DEF TakeSem, sem_wait
    <3>2. /\ [lk[t] EXCEPT !.asleep = TRUE] # NULL
          /\ [lk[t] EXCEPT !.asleep = TRUE].what = "sem"
          /\ [lk[t] EXCEPT !.asleep = TRUE].asleep
      BY <2>1, Requests, Constants DEF Request
    <3>3. /\ Sleepers("sem")' = Sleepers("sem") \cup {t}
          /\ Same("pool") /\ Same("lock")
      BY <1>ty, <2>1, <3>1, <3>2 DEF Sleepers, Sleeps
    <3>4. Once(sem'.q) /\ Elements(sem'.q) = Elements(sem.q) \cup {t}
      BY <1>ty, <1>qu, <2>2, <3>1, QueueAppend
    <3>. QED
      BY <1>qu, <1>qn, <2>1, <3>3, <3>4
  <2>4. CASE ~(sem.count - 1 < 0)
    <3>1. lk' = [lk EXCEPT ![t] = NULL] /\ sem'.q = sem.q
      BY <1>3, <1>ty, <2>4 DEF TakeSem, sem_wait
    <3>2. Same("pool") /\ Same("lock") /\ Same("sem")
      BY <1>ty, <2>1, <3>1 DEF Sleepers, Sleeps
    <3>. QED
      BY <1>qu, <1>qn, <2>1, <3>1, <3>2
  <2>. QED
    BY <2>3, <2>4
<1>4. ASSUME NEW t \in Thread, Use(t) PROVE QueueInv'
  <2>1. /\ lk[t] = NULL /\ \E what, type : lk' = [lk EXCEPT ![t] = Taking(what, type)]
        /\ poolLock' = poolLock /\ lock' = lock /\ sem' = sem
    BY <1>4 DEF Use, At, Take
  <2>2. Same("pool") /\ Same("lock") /\ Same("sem")
    BY <1>ty, TakingIs, <2>1 DEF Sleepers, Sleeps
  <2>. QED
    BY <1>sa, <2>1, <2>2
<1>5. ASSUME NEW t \in Thread, Unlock(t) PROVE QueueInv'
  <2>1. /\ lk' = Wake(UnlockWakes(lock)) /\ lock' = rwlock_unlock(lock)
        /\ poolLock' = poolLock /\ sem' = sem
    BY <1>5 DEF Unlock, libVars
  <2>2. Sleepers("lock")' = Sleepers("lock") \ UnlockWakes(lock) /\ Same("pool") /\ Same("sem")
    BY <1>wk, <2>1, WokenSleepers
  <2>3. Once(lock'.q) /\ Elements(lock'.q) = Elements(lock.q) \ UnlockWakes(lock)
    BY <1>ty, <1>qu, <2>1, UnlockQueue
  <2>. QED
    BY <1>qu, <1>qn, <2>1, <2>2, <2>3
<1>6. ASSUME NEW t \in Thread, Downgrade(t) PROVE QueueInv'
  <2>1. /\ lk' = Wake(DowngradeWakes(lock)) /\ lock' = rwlock_downgrade(lock)
        /\ poolLock' = poolLock /\ sem' = sem
    BY <1>6 DEF Downgrade, libVars
  <2>2. Sleepers("lock")' = Sleepers("lock") \ DowngradeWakes(lock) /\ Same("pool") /\ Same("sem")
    BY <1>wk, <2>1, WokenSleepers
  <2>3. Once(lock'.q) /\ Elements(lock'.q) = Elements(lock.q) \ DowngradeWakes(lock)
    BY <1>ty, <1>qu, <2>1, DowngradeQueue
  <2>. QED
    BY <1>qu, <1>qn, <2>1, <2>2, <2>3
<1>7. ASSUME NEW t \in Thread, SemSignal(t) PROVE QueueInv'
  <2>1. /\ lk' = [u \in Thread |-> IF u \in SemWakes(sem) THEN NULL ELSE lk[u]]
        /\ sem' = sem_signal(sem) /\ poolLock' = poolLock /\ lock' = lock
    BY <1>7 DEF SemSignal, libVars
  <2>2. Sleepers("sem")' = Sleepers("sem") \ SemWakes(sem) /\ Same("pool") /\ Same("lock")
    BY <1>wk, <2>1 DEF Sleepers, Sleeps
  <2>3. Once(sem'.q) /\ Elements(sem'.q) = Elements(sem.q) \ SemWakes(sem)
    BY <1>ty, <1>qu, <2>1, SignalQueue
  <2>. QED
    BY <1>qu, <1>qn, <2>1, <2>2, <2>3
<1>8. ASSUME NEW t \in Thread, thr_create(t) PROVE QueueInv'
  <2>1. /\ lk[t] = NULL /\ \E what, type : lk' = [lk EXCEPT ![t] = Taking(what, type)]
        /\ poolLock' = poolLock /\ lock' = lock /\ sem' = sem
    BY <1>8 DEF thr_create, At, Take, libVars
  <2>2. Same("pool") /\ Same("lock") /\ Same("sem")
    BY <1>ty, TakingIs, <2>1 DEF Sleepers, Sleeps
  <2>. QED
    BY <1>sa, <2>1, <2>2
<1>9. ASSUME NEW t \in Thread, Search(t) PROVE QueueInv'
  BY <1>9, <1>re DEF Search, ReleasePool
<1>10. ASSUME NEW t \in Thread, Fork(t) PROVE QueueInv'
  <2>1. /\ lk[t] = NULL /\ lk' \in {lk, [lk EXCEPT ![t] = Taking("pool", "WRITE")]}
        /\ poolLock' = poolLock /\ lock' = lock /\ sem' = sem
    BY <1>10 DEF Fork, At
  <2>2. CASE lk' = lk
    BY <1>sa, <2>1, <2>2 DEF Sleepers, Sleeps
  <2>3. CASE lk' = [lk EXCEPT ![t] = Taking("pool", "WRITE")]
    <3>1. Same("pool") /\ Same("lock") /\ Same("sem")
      BY <1>ty, TakingIs, <2>1, <2>3 DEF Sleepers, Sleeps
    <3>. QED
      BY <1>sa, <2>1, <3>1
  <2>. QED
    BY <2>1, <2>2, <2>3
<1>11. ASSUME NEW t \in Thread, ForkFails(t) PROVE QueueInv'
  BY <1>11, <1>sa DEF ForkFails, Sleepers, Sleeps
<1>12. ASSUME NEW t \in Thread, add_to_pool_s(t) PROVE QueueInv'
  BY <1>12, <1>re DEF add_to_pool_s, ReleasePool
<1>13. ASSUME NEW t \in Thread, SetTid(t) PROVE QueueInv'
  BY <1>13, <1>sa DEF SetTid, Sleepers, Sleeps
<1>14. ASSUME NEW t \in Thread, thr_exit(t) PROVE QueueInv'
  <2>1. /\ lk[t] = NULL /\ \E what, type : lk' = [lk EXCEPT ![t] = Taking(what, type)]
        /\ poolLock' = poolLock /\ lock' = lock /\ sem' = sem
    BY <1>14 DEF thr_exit, At, Take, libVars
  <2>2. Same("pool") /\ Same("lock") /\ Same("sem")
    BY <1>ty, TakingIs, <2>1 DEF Sleepers, Sleeps
  <2>. QED
    BY <1>sa, <2>1, <2>2
<1>15. ASSUME NEW t \in Thread, ExitMissing(t) PROVE QueueInv'
  <2> DEFINE new == Wake(UnlockWakes(poolLock))
  <2>1. /\ lk[t] = NULL /\ lk' = [new EXCEPT ![t] = Taking("pool", "READ")]
        /\ poolLock' = rwlock_unlock(poolLock) /\ lock' = lock /\ sem' = sem
    BY <1>15 DEF ExitMissing, At
  <2>2. Woken(new, UnlockWakes(poolLock))
    BY <1>wk
  <2> HIDE DEF new
  <2>3. \A u \in Thread, x \in {"pool", "lock", "sem"} :
          Sleeps(u, x)' <=> Sleeps(u, x) /\ u \notin UnlockWakes(poolLock)
    <3>1. SUFFICES ASSUME NEW u \in Thread, NEW x \in {"pool", "lock", "sem"}
                   PROVE  Sleeps(u, x)' <=> Sleeps(u, x) /\ u \notin UnlockWakes(poolLock)
      OBVIOUS
    <3>2. CASE u = t
      BY TakingIs, <2>1, <2>2, <3>2 DEF Woken, Sleeps
    <3>3. CASE u # t
      BY <2>1, <2>2, <3>3 DEF Woken, Sleeps
    <3>. QED
      BY <3>2, <3>3
  <2>4. /\ Sleepers("pool")' = Sleepers("pool") \ UnlockWakes(poolLock)
        /\ Same("lock") /\ Same("sem")
    BY <1>wk, <2>3 DEF Sleepers, Sleeps
  <2>5. Once(poolLock'.q) /\ Elements(poolLock'.q) = Elements(poolLock.q) \ UnlockWakes(poolLock)
    BY <1>ty, <1>qu, <2>1, UnlockQueue
  <2>. QED
    BY <1>qu, <1>qn, <2>1, <2>4, <2>5
<1>16. ASSUME NEW t \in Thread, ExitFound(t) PROVE QueueInv'
  BY <1>16, <1>re DEF ExitFound
<1>17. ASSUME NEW t \in Thread, vanish(t) PROVE QueueInv'
  BY <1>17, <1>sa DEF vanish, Sleepers, Sleeps, libVars
<1>18. ASSUME NEW t \in Thread, JoinFind(t) PROVE QueueInv'
  BY <1>18, <1>re DEF JoinFind, ReleasePool
<1>19. ASSUME NEW t \in Thread, JoinRefused(t) PROVE QueueInv'
  BY <1>19, <1>sa DEF JoinRefused, Sleepers, Sleeps, libVars
<1>20. ASSUME NEW t \in Thread, JoinWait(t) PROVE QueueInv'
  BY <1>20, <1>sa DEF JoinWait, Sleepers, Sleeps
<1>21. ASSUME NEW t \in Thread, reap_zombie(t) PROVE QueueInv'
  BY <1>21, <1>sa DEF reap_zombie, Sleepers, Sleeps
<1>22. ASSUME NEW t \in Thread, NEW k \in Thread \ {t, Main}, thr_join(t, k) PROVE QueueInv'
  <2>1. /\ lk[t] = NULL /\ \E what, type : lk' = [lk EXCEPT ![t] = Taking(what, type)]
        /\ poolLock' = poolLock /\ lock' = lock /\ sem' = sem
    BY <1>22 DEF thr_join, At, Take, libVars
  <2>2. Same("pool") /\ Same("lock") /\ Same("sem")
    BY <1>ty, TakingIs, <2>1 DEF Sleepers, Sleeps
  <2>. QED
    BY <1>sa, <2>1, <2>2
<1>23. CASE UNCHANGED vars
  BY <1>23, <1>sa DEF Sleepers, Sleeps, vars, libVars
<1>. QED
  BY <1>1, <1>2, <1>3, <1>4, <1>5, <1>6, <1>7, <1>8, <1>9, <1>10, <1>11, <1>12, <1>13,
     <1>14, <1>15, <1>16, <1>17, <1>18, <1>19, <1>20, <1>21, <1>22, <1>23
  DEF Next, Step

-----------------------------------------------------------------------------
(* Who is inside the program's lock and semaphore. *)

LockPoints == {"reading", "writing", "inside"}

(* A step of another kind leaves them alone. *)
Apart ==
  /\ lock' = lock /\ sem' = sem
  /\ \A p \in LockPoints : Inside(p)' = Inside(p)
  /\ \A u \in Thread : Sleeps(u, "lock") => lk'[u].type = lk[u].type

(* All steps but those of the lock and the semaphore are apart. *)
LEMMA ApartSteps ==
  ASSUME TypeInv, QueueInv, WantInv, PlaceInv, WaiterInv, [Next]_vars,
         \A t \in Thread : /\ ~TakeLock(t) /\ ~TakeSem(t) /\ ~Unlock(t) /\ ~Downgrade(t)
                           /\ ~SemSignal(t)
  PROVE  Apart
<1>ty. /\ pool \in Seq(ThreadEntry) /\ pc \in [Thread -> Points] /\ started \in Thread
       /\ lk \in [Thread -> Request \cup {NULL}]
  BY DEF TypeInv
<1>wk. Woken(Wake(UnlockWakes(poolLock)), UnlockWakes(poolLock))
  BY UnlockIs
<1>nn. \A what, type : Taking(what, type) = NULL => Taking(what, type) \notin Request
  BY Constants
<1>wt. \A u \in Thread : pc[u] \in LockPoints => lk[u] = NULL \/ lk[u].what # "pool"
  BY DEF WantInv, Wanted, LockPoints
<1>1. ASSUME NEW t \in Thread, TakePool(t) PROVE Apart
  <2>1. /\ pc' = pc /\ lock' = lock /\ sem' = sem /\ lk[t] # NULL /\ lk[t].what = "pool"
        /\ \A u \in Thread \ {t} : lk'[u] = lk[u]
    BY <1>1, <1>ty, Constants, Requests, TakingIs DEF TakePool
  <2>. QED
    BY <1>wt, <2>1 DEF Apart, Inside, At, Sleeps
<1>2. ASSUME NEW t \in Thread, Use(t) PROVE Apart
  <2>1. /\ lk[t] = NULL /\ pc[t] = "out" /\ lock' = lock /\ sem' = sem
        /\ lk'[t] # NULL
        /\ \A u \in Thread \ {t} : lk'[u] = lk[u] /\ pc'[u] = pc[u]
    BY <1>2, <1>ty, Requests, Constants DEF Use, At, Take, Goto
  <2>. QED
    BY <2>1 DEF Apart, Inside, At, Sleeps, LockPoints
<1>3. ASSUME NEW t \in Thread, thr_create(t) PROVE Apart
  <2>1. /\ lk[t] = NULL /\ pc[t] = "out" /\ lock' = lock /\ sem' = sem
        /\ lk'[t] # NULL
        /\ \A u \in Thread \ {t} : lk'[u] = lk[u] /\ pc'[u] = pc[u]
    BY <1>3, <1>ty, Requests, Constants DEF thr_create, At, Take, Goto, libVars
  <2>. QED
    BY <2>1 DEF Apart, Inside, At, Sleeps, LockPoints
<1>4. ASSUME NEW t \in Thread, Search(t) PROVE Apart
  BY <1>4, <1>ty, <1>wk
  DEF Search, ReleasePool, Goto, Woken, Apart, Inside, At, Sleeps, LockPoints
<1>5. ASSUME NEW t \in Thread, Fork(t) PROVE Apart
  <2>1. started + 1 \in Thread /\ pc[started + 1] = "unborn" /\ pc[t] = "fork"
    BY <1>5, <1>ty, Constants DEF Fork, PlaceInv, Thread, At
  <2>2. /\ lock' = lock /\ sem' = sem /\ lk[t] = NULL
        /\ \A u \in Thread \ {t} : lk'[u] = lk[u]
        /\ \A u \in Thread \ {t, started + 1} : pc'[u] = pc[u]
        /\ pc'[t] \in {"link", "settid"} /\ pc'[started + 1] = "out"
    BY <1>5, <1>ty, <2>1 DEF Fork, At
  <2>. QED
    BY <2>1, <2>2 DEF Apart, Inside, At, Sleeps, LockPoints
<1>6. ASSUME NEW t \in Thread, ForkFails(t) PROVE Apart
  BY <1>6, <1>ty DEF ForkFails, Goto, Apart, Inside, At, Sleeps, LockPoints
<1>7. ASSUME NEW t \in Thread, add_to_pool_s(t) PROVE Apart
  BY <1>7, <1>ty, <1>wk
  DEF add_to_pool_s, ReleasePool, Goto, Woken, Apart, Inside, At, Sleeps, LockPoints
<1>8. ASSUME NEW t \in Thread, SetTid(t) PROVE Apart
  BY <1>8, <1>ty DEF SetTid, Goto, Apart, Inside, At, Sleeps, LockPoints
<1>9. ASSUME NEW t \in Thread, thr_exit(t) PROVE Apart
  <2>1. /\ lk[t] = NULL /\ pc[t] = "out" /\ lock' = lock /\ sem' = sem
        /\ lk'[t] # NULL
        /\ \A u \in Thread \ {t} : lk'[u] = lk[u] /\ pc'[u] = pc[u]
    BY <1>9, <1>ty, Requests, Constants DEF thr_exit, At, Take, Goto, libVars
  <2>. QED
    BY <2>1 DEF Apart, Inside, At, Sleeps, LockPoints
<1>10. ASSUME NEW t \in Thread, ExitMissing(t) PROVE Apart
  <2>1. /\ lock' = lock /\ sem' = sem /\ pc' = pc /\ pc[t] = "exit" /\ lk[t] = NULL
        /\ lk' = [Wake(UnlockWakes(poolLock)) EXCEPT ![t] = Taking("pool", "READ")]
    BY <1>10 DEF ExitMissing, At
  <2>. QED
    BY <1>ty, <1>wk, <2>1 DEF Woken, Apart, Inside, At, Sleeps, LockPoints
<1>11. ASSUME NEW t \in Thread, ExitFound(t) PROVE Apart
  <2>1. /\ lock' = lock /\ sem' = sem /\ lk' = Wake(UnlockWakes(poolLock))
    BY <1>11 DEF ExitFound
  <2>2. \A u \in Thread : pc'[u] = pc[u] \/ (pc[u] \notin LockPoints /\ pc'[u] \notin LockPoints)
    <3> DEFINE i == find_thread_by_k_tid(t)
    <3>1. /\ pc[t] = "exit" /\ pc'[t] = "vanish"
          /\ \A u \in Thread \ {t} : pc'[u] = IF u = pool[i].waiter THEN "woken" ELSE pc[u]
          /\ \A u \in Thread : u = pool[i].waiter => pc[u] = "joining"
      BY <1>11, ExitFoundIs
    <3> HIDE DEF i
    <3>2. ASSUME NEW u \in Thread \ {t}
          PROVE  pc'[u] = pc[u] \/ (pc[u] = "joining" /\ pc'[u] = "woken")
      BY <3>1
    <3>. QED
      BY <3>1, <3>2 DEF LockPoints
  <2>. QED
    BY <1>wk, <2>1, <2>2 DEF Woken, Apart, Inside, At, Sleeps
<1>12. ASSUME NEW t \in Thread, vanish(t) PROVE Apart
  BY <1>12, <1>ty DEF vanish, Goto, Apart, Inside, At, Sleeps, LockPoints, libVars
<1>13. ASSUME NEW t \in Thread, JoinFind(t) PROVE Apart
  BY <1>13, <1>ty, <1>wk
  DEF JoinFind, ReleasePool, Goto, Woken, Apart, Inside, At, Sleeps, LockPoints
<1>14. ASSUME NEW t \in Thread, JoinRefused(t) PROVE Apart
  BY <1>14, <1>ty DEF JoinRefused, Goto, Apart, Inside, At, Sleeps, LockPoints, libVars
<1>15. ASSUME NEW t \in Thread, JoinWait(t) PROVE Apart
  BY <1>15, <1>ty DEF JoinWait, Goto, Apart, Inside, At, Sleeps, LockPoints
<1>16. ASSUME NEW t \in Thread, reap_zombie(t) PROVE Apart
  BY <1>16, <1>ty DEF reap_zombie, Goto, Apart, Inside, At, Sleeps, LockPoints
<1>17. ASSUME NEW t \in Thread, NEW k \in Thread \ {t, Main}, thr_join(t, k) PROVE Apart
  <2>1. /\ lk[t] = NULL /\ pc[t] = "out" /\ lock' = lock /\ sem' = sem
        /\ lk'[t] # NULL
        /\ \A u \in Thread \ {t} : lk'[u] = lk[u] /\ pc'[u] = pc[u]
    BY <1>17, <1>ty, Requests, Constants DEF thr_join, At, Take, Goto, libVars
  <2>. QED
    BY <2>1 DEF Apart, Inside, At, Sleeps, LockPoints
<1>18. CASE UNCHANGED vars
  BY <1>18 DEF Apart, Inside, At, Sleeps, vars
<1>. QED
  BY <1>1, <1>2, <1>3, <1>4, <1>5, <1>6, <1>7, <1>8, <1>9, <1>10, <1>11, <1>12, <1>13,
     <1>14, <1>15, <1>16, <1>17, <1>18
  DEF Next, Step

(* The size of a set of threads. *)
LEMMA CountThreads ==
  /\ \A S \in SUBSET Thread : IsFiniteSet(S) /\ Cardinality(S) \in Nat
  /\ \A S \in SUBSET Thread, t \in Thread :
       t \notin S => Cardinality(S \cup {t}) = Cardinality(S) + 1
  /\ \A S \in SUBSET Thread, t \in Thread :
       t \in S => Cardinality(S \ {t}) = Cardinality(S) - 1
  /\ \A S \in SUBSET Thread : Cardinality(S) = 0 <=> S = {}
<1>1. \A S \in SUBSET Thread : IsFiniteSet(S) /\ Cardinality(S) \in Nat
  <2>1. IsFiniteSet(Thread)
    BY Constants, FS_Interval DEF Thread
  <2>. QED
    BY <2>1, FS_Subset, FS_CardinalityType
<1>2. \A S \in SUBSET Thread, t \in Thread :
        t \notin S => Cardinality(S \cup {t}) = Cardinality(S) + 1
  BY <1>1, FS_AddElement
<1>3. \A S \in SUBSET Thread, t \in Thread :
        t \in S => Cardinality(S \ {t}) = Cardinality(S) - 1
  BY <1>1, FS_RemoveElement
<1>4. \A S \in SUBSET Thread : Cardinality(S) = 0 <=> S = {}
  BY <1>1, FS_EmptySet
<1>. QED
  BY <1>1, <1>2, <1>3, <1>4

(* Every step keeps who is inside the lock. *)
LEMMA RwStep ==
  ASSUME TypeInv, QueueInv, WantInv, PlaceInv, WaiterInv, RwInv, [Next]_vars
  PROVE  RwInv'
<1>ty. /\ lock \in RwLock /\ lk \in [Thread -> Request \cup {NULL}]
       /\ pc \in [Thread -> Points]
       /\ lock.count \in Int /\ lock.writer_locked \in BOOLEAN /\ lock.q \in Seq(Thread)
  BY DEF TypeInv, RwLock
<1>qu. Once(lock.q) /\ Elements(lock.q) = Sleepers("lock")
  BY <1>ty, QueueIs DEF QueueInv
<1>wk. /\ Woken(Wake(UnlockWakes(lock)), UnlockWakes(lock))
       /\ Woken(Wake(DowngradeWakes(lock)), DowngradeWakes(lock))
  BY UnlockIs
<1> DEFINE R == Inside("reading")
           V == Inside("writing")
<1>in. R \in SUBSET Thread /\ V \in SUBSET Thread
  BY DEF Inside
<1>rw. /\ Cardinality(R) = lock.count
       /\ Cardinality(V) = IF lock.writer_locked THEN 1 ELSE 0
       /\ lock.writer_locked => lock.count = 0
       /\ ~lock.writer_locked => \A u \in Sleepers("lock") : lk[u].type = "WRITE"
  BY <1>qu DEF RwInv
<1>nu. /\ Cardinality(R) \in Nat /\ Cardinality(V) \in Nat
       /\ \A u \in Thread : u \notin R => Cardinality(R \cup {u}) = Cardinality(R) + 1
       /\ \A u \in Thread : u \notin V => Cardinality(V \cup {u}) = Cardinality(V) + 1
       /\ \A u \in Thread : u \in R => Cardinality(R \ {u}) = Cardinality(R) - 1
       /\ \A u \in Thread : u \in V => Cardinality(V \ {u}) = Cardinality(V) - 1
       /\ Cardinality(R) = 0 <=> R = {}
       /\ Cardinality(V) = 0 <=> V = {}
  BY <1>in, CountThreads
<1>ap. ASSUME Apart PROVE RwInv'
  <2>1. R' = R /\ V' = V
    BY <1>ap DEF Apart, LockPoints
  <2>2. ~lock'.writer_locked => \A u \in Elements(lock'.q) : lk'[u].type = "WRITE"
    BY <1>ap, <1>qu, <1>rw DEF Apart, Sleepers
  <2>. QED
    BY <1>ap, <1>rw, <2>1, <2>2 DEF Apart, RwInv
<1> HIDE DEF R, V
<1>1. ASSUME NEW t \in Thread, TakeLock(t) PROVE RwInv'
  <2>1. /\ lk[t] \in Request /\ lk[t].what = "lock" /\ ~lk[t].asleep
        /\ lk[t].type \in {"READ", "WRITE"} /\ pc' = pc
    BY <1>1, Requests, TakingIs DEF TakeLock
  <2>2. pc[t] = IF lk[t].type = "READ" THEN "reading" ELSE "writing"
    BY <2>1, Constants DEF WantInv, Wanted
  <2>n. lk[t] # NULL
    BY <2>1, Constants
  <2>3. t \notin R /\ t \notin V
    BY <2>n DEF R, V, Inside, At
  <2>4. CASE MustWait(lock, lk[t].type)
    <3>1. lk' = [lk EXCEPT ![t] = [lk[t] EXCEPT !.asleep = TRUE]]
          /\ lock' = [lock EXCEPT !.q = Append(lock.q, t)]
      BY <1>1, <2>4 DEF TakeLock, rwlock_lock, cond_wait
    <3>2. [lk[t] EXCEPT !.asleep = TRUE] # NULL /\ [lk[t] EXCEPT !.asleep = TRUE].type = lk[t].type
      BY <2>1, Requests, Constants DEF Request
    <3>3. R' = R /\ V' = V
      BY <1>ty, <2>1, <2>3, <2>n, <3>1, <3>2 DEF R, V, Inside, At
    <3>4. /\ lock'.count = lock.count /\ lock'.writer_locked = lock.writer_locked
          /\ lock'.q = Append(lock.q, t)
      BY <1>ty, <3>1 DEF RwLock
    <3>5. Elements(lock'.q) = Sleepers("lock") \cup {t}
      <4>1. t \notin Elements(lock.q)
        BY <1>qu, <2>1 DEF Sleepers, Sleeps
      <4>. QED
        BY <1>ty, <1>qu, <3>4, <4>1, QueueAppend
    <3>6. ~lock.writer_locked => lk[t].type = "WRITE"
      BY <2>4 DEF MustWait
    <3>7. ~lock'.writer_locked => \A u \in Elements(lock'.q) : lk'[u].type = "WRITE"
      BY <1>ty, <1>rw, <3>1, <3>2, <3>4, <3>5, <3>6 DEF Sleepers
    <3>. QED
      BY <1>rw, <3>3, <3>4, <3>7 DEF RwInv, R, V
  <2>5. CASE ~MustWait(lock, lk[t].type) /\ lk[t].type = "READ"
    <3>1. lk' = [lk EXCEPT ![t] = NULL] /\ lock' = [lock EXCEPT !.count = lock.count + 1]
          /\ ~lock.writer_locked
      BY <1>1, <2>5 DEF TakeLock, rwlock_lock, MustWait
    <3>2. /\ lock'.count = lock.count + 1 /\ lock'.writer_locked = lock.writer_locked
          /\ lock'.q = lock.q
      BY <1>ty, <3>1 DEF RwLock
    <3>3. R' = R \cup {t} /\ V' = V
      BY <1>ty, <2>1, <2>2, <2>5, <3>1 DEF R, V, Inside, At
    <3>4. Cardinality(R') = lock'.count
      BY <1>nu, <1>rw, <2>3, <3>2, <3>3
    <3>5. \A u \in Elements(lock'.q) : lk'[u].type = "WRITE"
      BY <1>ty, <1>qu, <1>rw, <2>1, <3>1, <3>2 DEF Sleepers, Sleeps
    <3>. QED
      BY <1>rw, <3>1, <3>2, <3>3, <3>4, <3>5 DEF RwInv, R, V
  <2>6. CASE ~MustWait(lock, lk[t].type) /\ lk[t].type # "READ"
    <3>1. lk' = [lk EXCEPT ![t] = NULL] /\ lock' = [lock EXCEPT !.writer_locked = TRUE]
          /\ ~lock.writer_locked /\ ~(lock.count > 0)
      BY <1>1, <2>1, <2>6 DEF TakeLock, rwlock_lock, MustWait
    <3>2. /\ lock'.count = lock.count /\ lock'.writer_locked /\ lock'.q = lock.q
      BY <1>ty, <3>1 DEF RwLock
    <3>3. V' = V \cup {t} /\ R' = R
      BY <1>ty, <2>1, <2>2, <2>6, <3>1 DEF R, V, Inside, At
    <3>4. Cardinality(V') = 1 /\ lock.count = 0
      BY <1>nu, <1>rw, <2>3, <3>1, <3>3
    <3>. QED
      BY <1>rw, <3>2, <3>3, <3>4 DEF RwInv, R, V
  <2>. QED
    BY <2>4, <2>5, <2>6
<1>2. ASSUME NEW t \in Thread, Unlock(t) PROVE RwInv'
  <2>1. /\ pc[t] \in {"reading", "writing"} /\ lk[t] = NULL
        /\ lock' = rwlock_unlock(lock) /\ lk' = Wake(UnlockWakes(lock))
        /\ pc' = [pc EXCEPT ![t] = "out"]
    BY <1>2 DEF Unlock, At, Goto
  <2>2. \A u \in Thread : lk'[u] = NULL <=> lk[u] = NULL
    BY <1>wk, <2>1 DEF Woken
  <2>3. R' = R \ {t} /\ V' = V \ {t}
    BY <1>ty, <2>1, <2>2 DEF R, V, Inside, At
  <2>4. CASE pc[t] = "writing"
    <3>1. t \in V /\ t \notin R
      BY <2>1, <2>4 DEF R, V, Inside, At
    <3>2. lock.writer_locked
      BY <1>nu, <1>rw, <3>1
    <3>3. lock' = [lock EXCEPT !.writer_locked = FALSE, !.q = <<>>]
      BY <2>1, <3>2 DEF rwlock_unlock, cond_broadcast
    <3>4. lock'.count = lock.count /\ ~lock'.writer_locked /\ lock'.q = <<>>
      BY <1>ty, <3>3 DEF RwLock
    <3>5. Cardinality(V') = 0 /\ R' = R
      BY <1>nu, <1>rw, <2>3, <3>1, <3>2
    <3>. QED
      BY <1>rw, <3>4, <3>5, QueueEmpty DEF RwInv, R, V
  <2>5. CASE pc[t] = "reading"
    <3>1. t \in R /\ t \notin V
      BY <2>1, <2>5 DEF R, V, Inside, At
    <3>2. ~lock.writer_locked
      BY <1>nu, <1>rw, <3>1
    <3>3. lock'.count = lock.count - 1 /\ lock'.writer_locked = lock.writer_locked
      <4>1. CASE lock.count = 1
        <5>1. lock' = [lock EXCEPT !.count = 0, !.q = cond_signal(@)]
          BY <2>1, <3>2, <4>1 DEF rwlock_unlock
        <5>2. lock'.count = 0 /\ lock'.writer_locked = lock.writer_locked
          BY <1>ty, <5>1 DEF RwLock
        <5>. QED
          BY <4>1, <5>2
      <4>2. CASE lock.count # 1
        <5>1. lock' = [lock EXCEPT !.count = @ - 1]
          BY <2>1, <3>2, <4>2 DEF rwlock_unlock
        <5>. QED
          BY <1>ty, <5>1 DEF RwLock
      <4>. QED
        BY <4>1, <4>2
    <3>4. Cardinality(R') = lock'.count /\ V' = V
      BY <1>nu, <1>rw, <2>3, <3>1, <3>3
    <3>5. Elements(lock'.q) \subseteq Sleepers("lock")
      <4>1. Elements(lock'.q) = Elements(lock.q) \ UnlockWakes(lock)
        BY <1>ty, <1>qu, <2>1, UnlockQueue
      <4>. QED
        BY <1>qu, <4>1
    <3>6. \A u \in Elements(lock'.q) : lk'[u].type = "WRITE"
      BY <1>wk, <1>rw, <2>1, <3>2, <3>5 DEF Sleepers, Sleeps, Woken
    <3>. QED
      BY <1>rw, <3>2, <3>3, <3>4, <3>6 DEF RwInv, R, V
  <2>. QED
    BY <2>1, <2>4, <2>5
<1>3. ASSUME NEW t \in Thread, Downgrade(t) PROVE RwInv'
  <2>1. /\ pc[t] = "writing" /\ lk[t] = NULL
        /\ lock' = rwlock_downgrade(lock) /\ lk' = Wake(DowngradeWakes(lock))
        /\ pc' = [pc EXCEPT ![t] = "reading"]
    BY <1>3 DEF Downgrade, At, Goto
  <2>2. \A u \in Thread : lk'[u] = NULL <=> lk[u] = NULL
    BY <1>wk, <2>1 DEF Woken
  <2>3. /\ t \in V /\ t \notin R /\ R' = R \cup {t} /\ V' = V \ {t}
    BY <1>ty, <2>1, <2>2 DEF R, V, Inside, At
  <2>4. lock.writer_locked
    BY <1>nu, <1>rw, <2>3
  <2>5. /\ lock'.count = lock.count + 1 /\ ~lock'.writer_locked /\ lock'.q = <<>>
    BY <1>ty, <2>1 DEF rwlock_downgrade, cond_broadcast, RwLock
  <2>6. Cardinality(R') = lock'.count /\ Cardinality(V') = 0
    BY <1>nu, <1>rw, <2>3, <2>4, <2>5
  <2>. QED
    BY <2>5, <2>6, QueueEmpty DEF RwInv, R, V
<1>4. ASSUME NEW t \in Thread, TakeSem(t) PROVE RwInv'
  <2>1. lock' = lock /\ pc' = pc /\ pc[t] = "inside" /\ \A u \in Thread \ {t} : lk'[u] = lk[u]
    <3>1. lk[t] # NULL /\ lk[t].what = "sem"
      BY <1>4, Requests, TakingIs, Constants DEF TakeSem
    <3>2. pc[t] = "inside"
      BY <3>1 DEF WantInv, Wanted
    <3>. QED
      BY <1>4, <1>ty, <3>2 DEF TakeSem
  <2>2. R' = R /\ V' = V
    BY <2>1 DEF R, V, Inside, At
  <2>3. t \notin Sleepers("lock")
    BY <2>1 DEF Sleepers, Sleeps, WantInv, Wanted
  <2>4. ~lock'.writer_locked => \A u \in Elements(lock'.q) : lk'[u].type = "WRITE"
    BY <1>qu, <1>rw, <2>1, <2>3 DEF Sleepers
  <2>. QED
    BY <1>rw, <2>1, <2>2, <2>4 DEF RwInv, R, V
<1>5. ASSUME NEW t \in Thread, SemSignal(t) PROVE RwInv'
  <2>1. /\ lock' = lock /\ pc[t] = "inside" /\ pc' = [pc EXCEPT ![t] = "out"]
        /\ lk' = [u \in Thread |-> IF u \in SemWakes(sem) THEN NULL ELSE lk[u]]
    BY <1>5 DEF SemSignal, At, Goto
  <2>2. \A u \in SemWakes(sem) : u \in Thread /\ lk[u] # NULL /\ lk[u].what = "sem"
    BY WakesSleepers DEF Sleeps
  <2>3. \A u \in SemWakes(sem) : pc[u] = "inside" /\ u \notin Sleepers("lock")
    BY <2>2 DEF WantInv, Wanted, Sleepers, Sleeps
  <2>4. R' = R /\ V' = V
    BY <1>ty, <2>1, <2>3 DEF R, V, Inside, At
  <2>5. ~lock'.writer_locked => \A u \in Elements(lock'.q) : lk'[u].type = "WRITE"
    BY <1>qu, <1>rw, <2>1, <2>3 DEF Sleepers
  <2>. QED
    BY <1>rw, <2>1, <2>4, <2>5 DEF RwInv, R, V
<1>. QED
  BY <1>ap, <1>1, <1>2, <1>3, <1>4, <1>5, ApartSteps

(* Every step keeps who is inside the semaphore. *)
LEMMA SemStep ==
  ASSUME TypeInv, QueueInv, WantInv, PlaceInv, WaiterInv, SemInv, [Next]_vars
  PROVE  SemInv'
<1>ty. /\ sem \in [count : Int, q : Seq(Thread)] /\ sem.count \in Int
       /\ lk \in [Thread -> Request \cup {NULL}] /\ pc \in [Thread -> Points]
  BY DEF TypeInv
<1> DEFINE I == Inside("inside")
<1>se. /\ sem.count <= 1 /\ (sem.count = 1 => I = {})
       /\ \A u, v \in I : u = v
  BY DEF SemInv
<1>in. ASSUME sem'.count = sem.count, I' = I PROVE SemInv'
  BY <1>in, <1>se DEF SemInv
<1>1. ASSUME NEW t \in Thread, TakeSem(t) PROVE SemInv'
  <2>1. lk[t] # NULL /\ lk[t] \in Request /\ lk[t].what = "sem"
    BY <1>1, Requests, TakingIs, Constants DEF TakeSem
  <2>2. pc[t] = "inside" /\ pc' = pc
    BY <1>1, <2>1 DEF TakeSem, WantInv, Wanted
  <2>3. sem'.count = sem.count - 1
    BY <1>1, <1>ty DEF TakeSem, sem_wait
  <2>4. CASE sem.count - 1 < 0
    <3>1. [lk[t] EXCEPT !.asleep = TRUE] # NULL
      BY <2>1, Requests, Constants
    <3>2. lk' = [lk EXCEPT ![t] = [lk[t] EXCEPT !.asleep = TRUE]]
      BY <1>1, <2>4 DEF TakeSem
    <3>3. I' = I
      BY <1>ty, <2>1, <2>2, <3>1, <3>2 DEF Inside, At
    <3>4. sem'.count <= 1 /\ sem'.count # 1
      BY <1>ty, <2>3, <2>4
    <3>. QED
      BY <1>se, <3>3, <3>4 DEF SemInv
  <2>5. CASE ~(sem.count - 1 < 0)
    <3>1. sem.count = 1 /\ sem'.count = 0
      BY <1>ty, <1>se, <2>3, <2>5
    <3>2. lk' = [lk EXCEPT ![t] = NULL]
      BY <1>1, <2>5 DEF TakeSem
    <3>3. I' = I \cup {t}
      BY <1>ty, <2>2, <3>2 DEF Inside, At
    <3>. QED
      BY <1>se, <3>1, <3>3 DEF SemInv
  <2>. QED
    BY <2>4, <2>5
<1>2. ASSUME NEW t \in Thread, SemSignal(t) PROVE SemInv'
  <2>1. /\ pc[t] = "inside" /\ lk[t] = NULL /\ sem' = sem_signal(sem)
        /\ lk' = [u \in Thread |-> IF u \in SemWakes(sem) THEN NULL ELSE lk[u]]
        /\ pc' = [pc EXCEPT ![t] = "out"]
    BY <1>2 DEF SemSignal, At, Goto
  <2>2. I = {t}
    <3>1. t \in I
      BY <2>1 DEF Inside, At
    <3>. QED
      BY <1>se, <3>1
  <2>3. sem.count <= 0 /\ sem.count + 1 \in Int /\ sem'.count = sem.count + 1
    <3>1. sem'.count = sem.count + 1
      BY <1>ty, <2>1 DEF sem_signal
    <3>2. sem.count # 1
      BY <1>se, <2>2
    <3>. QED
      BY <1>ty, <1>se, <3>1, <3>2
  <2>4. I' \subseteq SemWakes(sem)
    <3>1. SUFFICES ASSUME NEW u \in Thread, pc'[u] = "inside", lk'[u] = NULL
                   PROVE  u \in SemWakes(sem)
      BY DEF Inside, At
    <3>2. u # t /\ pc[u] = "inside"
      BY <1>ty, <2>1, <3>1
    <3>3. u \notin I
      BY <2>2, <3>2
    <3>. QED
      BY <2>1, <3>1, <3>2, <3>3 DEF Inside, At
  <2>5. CASE sem.count + 1 <= 0
    <3>1. \A u, v \in SemWakes(sem) : u = v
      BY DEF SemWakes, Signalled
    <3>2. sem'.count <= 1 /\ sem'.count # 1
      BY <2>3, <2>5
    <3>. QED
      BY <2>4, <3>1, <3>2 DEF SemInv
  <2>6. CASE ~(sem.count + 1 <= 0)
    <3>1. I' = {}
      BY <2>4, <2>6 DEF SemWakes
    <3>2. sem'.count <= 1
      BY <1>ty, <2>3
    <3>. QED
      BY <3>1, <3>2 DEF SemInv
  <2>. QED
    BY <2>5, <2>6
<1>3. ASSUME NEW t \in Thread, TakeLock(t) PROVE SemInv'
  <2>1. lk[t] # NULL /\ lk[t].what = "lock"
    BY <1>3, Requests, TakingIs, Constants DEF TakeLock
  <2>2. pc[t] # "inside"
    BY <2>1 DEF WantInv, Wanted
  <2>3. /\ pc' = pc /\ sem' = sem /\ \A u \in Thread \ {t} : lk'[u] = lk[u]
    BY <1>3, <1>ty DEF TakeLock
  <2>4. I' = I
    BY <2>2, <2>3 DEF Inside, At
  <2>. QED
    BY <1>in, <2>3, <2>4
<1>4. ASSUME NEW t \in Thread, Unlock(t) \/ Downgrade(t) PROVE SemInv'
  <2>1. /\ pc[t] \in {"reading", "writing"} /\ pc'[t] \in {"out", "reading"} /\ sem' = sem
        /\ \A u \in Thread \ {t} : pc'[u] = pc[u]
        /\ \/ lk' = Wake(UnlockWakes(lock))
           \/ lk' = Wake(DowngradeWakes(lock))
    BY <1>4, <1>ty DEF Unlock, Downgrade, At, Goto
  <2>2. \A u \in Thread : lk'[u] = NULL <=> lk[u] = NULL
    BY <2>1, UnlockIs DEF Woken
  <2>3. I' = I
    BY <2>1, <2>2 DEF Inside, At
  <2>. QED
    BY <1>in, <2>1, <2>3
<1>5. CASE Apart
  BY <1>in, <1>5 DEF Apart, LockPoints
<1>. QED
  BY <1>1, <1>2, <1>3, <1>4, <1>5, ApartSteps

(* The invariants of the lock and the semaphore say who excludes whom. *)
LEMMA InvExcludes ==
  ASSUME TypeInv, QueueInv, RwInv, SemInv
  PROVE  LockExcludes
<1>ty. lock.writer_locked \in BOOLEAN /\ lock.count \in Int
  BY DEF TypeInv, RwLock
<1>in. \A p : Inside(p) \in SUBSET Thread /\ Inside(p) = {t \in Thread : At(t, p)}
  BY DEF Inside
<1>1. Inside("reading") = {} \/ Inside("writing") = {}
  <2>1. CASE lock.writer_locked
    BY <1>in, <2>1, CountThreads DEF RwInv
  <2>2. CASE ~lock.writer_locked
    BY <1>in, <2>2, CountThreads DEF RwInv
  <2>. QED
    BY <2>1, <2>2
<1>2. Cardinality(Inside("inside")) <= 1
  <2>1. CASE Inside("inside") = {}
    BY <2>1, FS_EmptySet
  <2>2. CASE Inside("inside") # {}
    <3>1. PICK t : Inside("inside") = {t}
      BY <2>2 DEF SemInv
    <3>. QED
      BY <3>1, FS_Singleton
  <2>. QED
    BY <2>1, <2>2
<1>. QED
  BY <1>in, <1>1, <1>2 DEF LockExcludes, RwInv

-----------------------------------------------------------------------------
(* The inductive invariants, and the theorems. *)

IInv ==
  /\ TypeInv /\ WantInv /\ QueueInv /\ PlaceInv /\ WaiterInv /\ EntryInv
  /\ RwInv /\ SemInv

(* The invariants hold when thr_init returns. *)
LEMMA InitInv ==
  ASSUME Init
  PROVE  IInv /\ JoinInv /\ JoinsItsThread /\ StackInv
<1> DEFINE e == Entry(Main, 0, FALSE)
<1>co. 1 \in Thread /\ MaxThreads \in Nat
  BY Constants DEF Main
<1>in. /\ pool = <<e>> /\ poolLock = rwlock_init /\ stacks = 1 /\ started = 1
       /\ stack = [t \in Thread |-> 0]
       /\ pc = [t \in Thread |-> IF t = Main THEN "out" ELSE "unborn"]
       /\ lk = [t \in Thread |-> NULL] /\ loc = [t \in Thread |-> NoLocals]
       /\ lock = rwlock_init /\ sem = sem_init(1) /\ joined = {}
  BY DEF Init
<1>e. /\ e \in ThreadEntry /\ e.k_tid = 1 /\ e.stack_top = 0 /\ e.status = "ALIVE"
      /\ e.waiter = NULL
  BY <1>co DEF Entry, ThreadEntry, Main
<1> HIDE DEF e
<1>po. /\ pool \in Seq(ThreadEntry) /\ DOMAIN pool = {1} /\ pool[1] = e /\ Len(pool) = 1
  BY <1>in, <1>e
<1>lo. /\ rwlock_init \in RwLock /\ rwlock_init.count = 0 /\ ~rwlock_init.writer_locked
       /\ rwlock_init.q = <<>> /\ sem_init(1) \in [count : Int, q : Seq(Thread)]
       /\ sem_init(1).count = 1 /\ sem_init(1).q = <<>>
  BY DEF rwlock_init, RwLock, sem_init
<1>1. TypeInv
  <2>1. NoLocals \in Locals
    BY DEF NoLocals, Locals
  <2>. QED
    BY <1>co, <1>in, <1>po, <1>lo, <2>1 DEF TypeInv, Points
<1>2. WantInv
  BY <1>in DEF WantInv
<1>3. QueueInv
  <2>1. \A what : Queue(<<>>, what)
    BY <1>in, QueueEmpty DEF Queue, Sleeps
  <2>. QED
    BY <1>in, <1>lo, <2>1 DEF QueueInv
<1>pc. \A t \in Thread : /\ pc[t] \in {"out", "unborn"} /\ (t > started => pc[t] = "unborn")
                         /\ (t # 1 => pc[t] = "unborn")
  BY <1>co, <1>in DEF Main
<1>4. PlaceInv
  BY <1>pc DEF PlaceInv, CreatePoints, JoinPoints
<1>5. WaiterInv
  BY <1>po, <1>e DEF WaiterInv
<1>6. EntryInv
  BY <1>in, <1>po, <1>e, <1>pc DEF EntryInv, Reused, Created
<1>7. \A p \in LockPoints : Inside(p) = {}
  BY <1>pc DEF Inside, At, LockPoints
<1>8. RwInv
  <2>1. Inside("reading") = {} /\ Inside("writing") = {}
    BY <1>7 DEF LockPoints
  <2>2. Elements(lock.q) = {}
    BY <1>in, <1>lo, QueueEmpty
  <2>. QED
    BY <1>in, <1>lo, <2>1, <2>2, FS_EmptySet DEF RwInv
<1>9. SemInv
  BY <1>in, <1>lo, <1>7 DEF SemInv, LockPoints
<1>10. JoinInv /\ JoinsItsThread
  BY <1>in, <1>pc DEF JoinInv, JoinPoints, JoinsItsThread
<1>11. TopsInv /\ EspInv
  BY <1>in, <1>po, <1>e, <1>pc DEF TopsInv, EspInv, Reused
<1>12. HomeInv
  <2>1. stack[1] = 0
    BY <1>co, <1>in
  <2>. QED
    BY <1>po, <1>e, <1>pc, <2>1 DEF HomeInv, Home, Running
<1>. QED
  BY <1>1, <1>2, <1>3, <1>4, <1>5, <1>6, <1>8, <1>9, <1>10, <1>11, <1>12
  DEF IInv, StackInv

(* Every step keeps the invariant. *)
LEMMA InvStep ==
  ASSUME IInv, [Next]_vars
  PROVE  IInv'
BY TypeStep, WantStep, QueueStep, PlaceStep, WaiterStep, EntryStep, RwStep, SemStep
DEF IInv

(* The invariant holds, whoever creates and joins. *)
LEMMA Invariant == Spec => []IInv
<1>1. Init => IInv
  BY InitInv
<1>2. IInv /\ [Next]_vars => IInv'
  BY InvStep
<1>. QED
  BY <1>1, <1>2, PTL DEF Spec

(* The program's lock and semaphore exclude, whatever the threads create,  *)
(* join and exit: who is inside is what rwlock_lock, rwlock_unlock,        *)
(* rwlock_downgrade, sem_wait and sem_signal count, and the last reader    *)
(* need wake only one sleeper, for all of them are writers.                *)
THEOREM LockExcludesCorrect == Spec => []LockExcludes
<1>1. IInv => LockExcludes
  BY InvExcludes DEF IInv
<1>. QED
  BY <1>1, Invariant, PTL

(* If one thread joins the others, thr_join returns the status of the      *)
(* thread it named: the entry it found is that thread's until it reaps it, *)
(* however many threads thr_create makes and reuses entries for meanwhile. *)
THEOREM JoinsItsThreadCorrect ==
  ASSUME OneJoiner
  PROVE  Spec => []JoinsItsThread
<1>1. Init => JoinInv /\ JoinsItsThread
  BY InitInv
<1>2. IInv /\ (JoinInv /\ JoinsItsThread) /\ [Next]_vars => (JoinInv /\ JoinsItsThread)'
  BY JoinStep, JoinedStep DEF IInv
<1>. QED
  BY <1>1, <1>2, Invariant, PTL DEF Spec

(* If one thread creates the others, threads that run have stacks of their *)
(* own, above STACK_BOTTOM: thr_create hands out the stack of a dead       *)
(* thread, or one below all those of the pool, and that thread is in the   *)
(* pool before the next is made.                                           *)
THEOREM StacksDisjointCorrect ==
  ASSUME OneCreator
  PROVE  Spec => []StacksDisjoint
<1>1. Init => StackInv
  BY InitInv
<1>2. IInv /\ StackInv /\ [Next]_vars => StackInv'
  <2>1. ASSUME IInv, StackInv, [Next]_vars PROVE TopsInv' /\ EspInv' /\ HomeInv'
    BY <2>1, TopsStep, EspStep, HomeStep DEF IInv
  <2>. QED
    BY <2>1 DEF StackInv
<1>3. IInv /\ StackInv => StacksDisjoint
  BY HomesDisjoint DEF IInv
<1>. QED
  BY <1>1, <1>2, <1>3, Invariant, PTL DEF Spec

=============================================================================
