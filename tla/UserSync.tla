------------------------------- MODULE UserSync -------------------------------
(***************************************************************************)
(* The readers/writers lock and the semaphore of user/libthread, with the  *)
(* condition variable the lock sleeps on.  Each operation runs under a     *)
(* mutex, so it is one step, up to the point where cond_wait or sem_wait   *)
(* sleeps: the thread is in the queue then, and the reject flag makes up   *)
(* for a wakeup that comes before the deschedule.                          *)
(*                                                                         *)
(* A lock or a semaphore is a record; the operations return the record     *)
(* they leave.                                                             *)
(***************************************************************************)
EXTENDS Integers, Sequences

Elements(q) == {q[i] : i \in DOMAIN q}

(* The queue of a condition variable. *)
cond_wait(q, t) == Append(q, t)

cond_signal(q) == IF q = <<>> THEN q ELSE Tail(q)

cond_broadcast(q) == <<>>

(* Whom a signal wakes. *)
Signalled(q) == IF q = <<>> THEN {} ELSE {Head(q)}

rwlock_init == [count |-> 0, writer_locked |-> FALSE, q |-> <<>>]

(* Mutant: a writer does not wait for the readers. *)
MustWaitWriter(rw, type) == rw.writer_locked

MustWait(rw, type) ==
  rw.writer_locked \/ (type = "WRITE" /\ rw.count > 0)

(* The loop's test: sleep on the condition variable, or take the lock. *)
rwlock_lock(rw, t, type) ==
  CASE MustWait(rw, type) -> [rw EXCEPT !.q = cond_wait(@, t)]
    [] ~MustWait(rw, type) /\ type = "READ" -> [rw EXCEPT !.count = @ + 1]
    [] OTHER -> [rw EXCEPT !.writer_locked = TRUE]

(* By a writer all that sleep, by the last reader one. *)
UnlockWakes(rw) ==
  CASE rw.writer_locked -> Elements(rw.q)
    [] ~rw.writer_locked /\ rw.count = 1 -> Signalled(rw.q)
    [] OTHER -> {}

rwlock_unlock(rw) ==
  CASE rw.writer_locked -> [rw EXCEPT !.writer_locked = FALSE, !.q = cond_broadcast(@)]
    [] ~rw.writer_locked /\ rw.count = 1 -> [rw EXCEPT !.count = 0, !.q = cond_signal(@)]
    [] OTHER -> [rw EXCEPT !.count = @ - 1]

rwlock_downgrade(rw) ==
  [rw EXCEPT !.writer_locked = FALSE, !.count = @ + 1, !.q = cond_broadcast(@)]

DowngradeWakes(rw) == Elements(rw.q)

sem_init(n) == [count |-> n, q |-> <<>>]

sem_wait(s, t) ==
  [s EXCEPT !.count = @ - 1, !.q = IF s.count - 1 < 0 THEN Append(@, t) ELSE @]

SemWakes(s) == IF s.count + 1 <= 0 THEN Signalled(s.q) ELSE {}

sem_signal(s) ==
  [s EXCEPT !.count = @ + 1,
            !.q = IF s.count + 1 <= 0 /\ s.q # <<>> THEN Tail(@) ELSE @]

=============================================================================
