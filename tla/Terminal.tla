------------------------------- MODULE Terminal -------------------------------
(***************************************************************************)
(* The terminal: the keyboard of kern/keyboard.c, its interrupt handler,   *)
(* and the system calls of kern/handlers/console_io_handlers.c.  Readers   *)
(* call readline; one more thread prints, moves the cursor and so on.      *)
(*                                                                         *)
(* The handler runs on the stack of the thread it interrupts: irq[t] is    *)
(* the sequence of the handlers begun on t, and t itself goes on when they *)
(* have all returned.  The keyboard has an interrupt gate, so a handler    *)
(* that gets the mutex at once is one step; one that has to yield for it   *)
(* runs with interrupts enabled from then on, and so does one that has     *)
(* signalled, because sem_signal unlocks the scheduler.                    *)
(*                                                                         *)
(* The semaphore is what KernSem shows it to be: waiters are served in     *)
(* order.  A putbyte is one step, and one thread at a time prints          *)
(* (console_lock).                                                         *)
(***************************************************************************)
EXTENDS CircBuffer, Console

CONSTANTS
  Reader, Printer,  \* the threads
  None,             \* no thread
  Char,             \* the keys that can be typed, and the bytes printed
  MaxLen,           \* bound: the length of a readline or a print
  MaxEvents         \* bound: the keys typed and the console calls together

ASSUME TerminalAssumption == MaxLen \in Nat /\ MaxEvents \in Nat

VARIABLES
  kbuf,          \* the keyboard's circular buffer
  typed,         \* history: the keys typed, not taken back and not yet read
  m,             \* who holds the keyboard's mutex
  sem, waiters,  \* the keyboard's semaphore
  con,           \* the console
  pc, len,       \* the readers: where they are, how much they read
  irq,           \* the keyboard handlers on each thread's stack, innermost last
  printing,      \* the bytes left of a print
  events         \* keys and console calls so far

vars == <<kbuf, typed, m, sem, waiters, con, pc, len, irq, printing, events>>

Thread == Reader \cup {Printer}

Points == {"out", "wait", "lock", "read", "unlock", "failed"}

Init ==
  /\ kbuf = circ_buf_init /\ typed = <<>> /\ m = None
  /\ sem = 0 /\ waiters = <<>>
  /\ con = ConsoleInit
  /\ pc = [r \in Reader |-> "out"] /\ len = [r \in Reader |-> 0]
  /\ irq = [t \in Thread |-> <<>>]
  /\ printing = 0
  /\ events = 0

-----------------------------------------------------------------------------
(* The keyboard's interrupt. *)

(* A backspace is echoed only if there is something to take back. *)
print_to_console(c) ==
  IF c = "backspace" /\ circ_buf_count(kbuf) = 0 THEN con ELSE putbyte(con, c)

write_to_buffer(c) ==
  IF c = "backspace" THEN circ_buf_delete_front(kbuf) ELSE circ_buf_write(kbuf, c)

(* Between the lock and the signal: a reader is waiting if the count is    *)
(* negative.                                                               *)
EchoAndWrite(c) ==
  /\ con' = IF sem < 0 THEN print_to_console(c) ELSE con
  /\ kbuf' = write_to_buffer(c)
  /\ typed' = CASE c # "backspace" /\ Len(typed) + 1 < Length -> Append(typed, c)
                [] c = "backspace" /\ typed # <<>> -> SubSeq(typed, 1, Len(typed) - 1)
                [] OTHER -> typed

(* A key for which there is no room is dropped, and nobody is told. *)
Signals(c) == c = "newline" /\ ~Full(kbuf)

Signal(c) ==
  /\ sem' = IF Signals(c) THEN sem + 1 ELSE sem
  /\ IF Signals(c) /\ sem < 0
       THEN /\ pc' = [pc EXCEPT ![Head(waiters)] = "lock"]
            /\ waiters' = Tail(waiters)
       ELSE UNCHANGED <<waiters, pc>>

(* The interrupt comes while t runs. *)
Interrupt(t) ==
  /\ events < MaxEvents
  /\ t \in Reader => pc[t] # "wait"
  /\ events' = events + 1
  /\ UNCHANGED <<len, printing>>

(* The mutex is free. *)
keyboard_write(t, c) ==
  /\ Interrupt(t)
  /\ m = None
  /\ EchoAndWrite(c) /\ Signal(c)
  /\ IF Signals(c)
       THEN m' = t /\ irq' = [irq EXCEPT ![t] = Append(@, [c |-> c, at |-> "unlock"])]
       ELSE UNCHANGED <<m, irq>>

(* It is not, and the handler yields. *)
keyboard_write_contended(t, c) ==
  /\ Interrupt(t)
  /\ m # None
  /\ irq' = [irq EXCEPT ![t] = Append(@, [c |-> c, at |-> "lock"])]
  /\ UNCHANGED <<kbuf, typed, m, sem, waiters, con, pc>>

HandlerAt(t, p) == irq[t] # <<>> /\ irq[t][Len(irq[t])].at = p

HandlerGoto(t, p) == irq' = [irq EXCEPT ![t][Len(irq[t])].at = p]

HandlerLock(t) ==
  /\ HandlerAt(t, "lock")
  /\ m = None
  /\ m' = t
  /\ HandlerGoto(t, "write")
  /\ UNCHANGED <<kbuf, typed, sem, waiters, con, pc, len, printing, events>>

HandlerWrite(t) ==
  /\ HandlerAt(t, "write")
  /\ LET c == irq[t][Len(irq[t])].c IN EchoAndWrite(c) /\ Signal(c)
  /\ HandlerGoto(t, "unlock")
  /\ UNCHANGED <<m, len, printing, events>>

(* Mutant: the handler returns with the mutex held. *)
HandlerReturnLocked(t) ==
  /\ HandlerAt(t, "unlock")
  /\ irq' = [irq EXCEPT ![t] = SubSeq(@, 1, Len(@) - 1)]
  /\ UNCHANGED <<m, kbuf, typed, sem, waiters, con, pc, len, printing, events>>

HandlerReturn(t) ==
  /\ HandlerAt(t, "unlock")
  /\ m' = None
  /\ irq' = [irq EXCEPT ![t] = SubSeq(@, 1, Len(@) - 1)]
  /\ UNCHANGED <<kbuf, typed, sem, waiters, con, pc, len, printing, events>>

-----------------------------------------------------------------------------
(* readline: keyboard_read. *)

Runs(t) == irq[t] = <<>>

At(r, p) == Runs(r) /\ pc[r] = p

syscall_readline(r, n) ==
  /\ At(r, "out")
  /\ len' = [len EXCEPT ![r] = n]
  /\ sem' = sem - 1
  /\ IF sem' < 0
       THEN pc' = [pc EXCEPT ![r] = "wait"] /\ waiters' = Append(waiters, r)
       ELSE pc' = [pc EXCEPT ![r] = "lock"] /\ UNCHANGED waiters
  /\ UNCHANGED <<kbuf, typed, m, con, irq, printing, events>>

ReadLock(r) ==
  /\ At(r, "lock")
  /\ m = None
  /\ m' = r
  /\ pc' = [pc EXCEPT ![r] = "read"]
  /\ UNCHANGED <<kbuf, typed, sem, waiters, con, len, irq, printing, events>>

(* How many keys the loop takes: up to the newline, or len of them; it     *)
(* fails when it runs out of keys before.                                  *)
EndOfLine(r) ==
  LET q == Contents(kbuf)
      ends == {i \in 1 .. len[r] : i = len[r] \/ (i <= Len(q) /\ q[i] = "newline")}
  IN  CHOOSE i \in ends : \A j \in ends : i <= j

ReadKeys(n) ==
  LET b[i \in 0 .. n] == IF i = 0 THEN kbuf ELSE circ_buf_read(b[i - 1]) IN b[n]

keyboard_read(r) ==
  /\ At(r, "read")
  /\ LET n == EndOfLine(r)
         count == circ_buf_count(kbuf)
         taken == IF n <= count THEN n ELSE count
     IN  /\ kbuf' = ReadKeys(taken)
         /\ typed' = SubSeq(typed, taken + 1, Len(typed))
         /\ pc' = [pc EXCEPT ![r] = IF n <= count THEN "unlock" ELSE "failed"]
  /\ UNCHANGED <<m, sem, waiters, con, len, irq, printing, events>>

ReadUnlock(r) ==
  /\ At(r, "unlock") \/ At(r, "failed")
  /\ m' = None
  /\ pc' = [pc EXCEPT ![r] = "out"]
  /\ len' = [len EXCEPT ![r] = 0]
  /\ UNCHANGED <<kbuf, typed, sem, waiters, con, irq, printing, events>>

-----------------------------------------------------------------------------
(* The console calls. *)

Call ==
  /\ Runs(Printer) /\ printing = 0
  /\ events < MaxEvents /\ events' = events + 1
  /\ UNCHANGED <<kbuf, typed, m, sem, waiters, pc, len, irq>>

syscall_print(n) == Call /\ printing' = n /\ UNCHANGED con

putbytes(ch) ==
  /\ Runs(Printer) /\ printing > 0
  /\ con' = putbyte(con, ch)
  /\ printing' = printing - 1
  /\ UNCHANGED <<kbuf, typed, m, sem, waiters, pc, len, irq, events>>

syscall_set_term_color(color) ==
  Call /\ con' = set_term_color(con, color) /\ UNCHANGED printing

(* The caller may pass a position that is out of bounds. *)
syscall_set_cursor_pos(row, col) ==
  Call /\ con' = set_cursor(con, row, col) /\ UNCHANGED printing

(* Functions of the driver that no system call reaches. *)
DriverCall ==
  /\ Call /\ UNCHANGED printing
  /\ con' \in {hide_cursor(con), show_cursor(con), clear_console(con)}

-----------------------------------------------------------------------------
Step(t) ==
  \/ HandlerLock(t) \/ HandlerWrite(t) \/ HandlerReturn(t)
  \/ t \in Reader /\ (ReadLock(t) \/ keyboard_read(t) \/ ReadUnlock(t))

Next ==
  \/ \E t \in Thread :
       \/ Step(t)
       \/ \E c \in Char : keyboard_write(t, c) \/ keyboard_write_contended(t, c)
  \/ \E r \in Reader, n \in 1 .. MaxLen : syscall_readline(r, n)
  \/ \E n \in 1 .. MaxLen : syscall_print(n)
  \/ \E c \in Char \cup {"return"} : putbytes(c)
  \/ \E c \in Color : syscall_set_term_color(c)
  \/ \E row \in -1 .. CONSOLE_HEIGHT, col \in 0 .. CONSOLE_WIDTH :
       syscall_set_cursor_pos(row, col)
  \/ DriverCall

(* A thread that can run is given the CPU again and again; the keys are    *)
(* finitely many, so the mutex is free for good while a thread wants it.   *)
Spec == Init /\ [][Next]_vars /\ \A t \in Thread : WF_vars(Step(t))

-----------------------------------------------------------------------------
(* The buffer, with its wrapped indices, its spare slot and the keys taken *)
(* back from it (circ_buf_delete_front at index 0), holds the keys that    *)
(* were typed, in order: none is lost but those there is no room for, and  *)
(* none is read twice.                                                     *)
BufferIsQueue == Contents(kbuf) = typed

(* putbyte's cases at the edges of the screen, the cursor kept in two      *)
(* registers and moved out of sight by hide_cursor: all of it is a sheet   *)
(* of text written from left to right.                                     *)
Sheet == INSTANCE Screen
           WITH Width <- CONSOLE_WIDTH, Height <- CONSOLE_HEIGHT, Blank <- BLANK,
                Ink <- Char \X Color, text <- con.mem, at <- Lpos(con)
ConsoleIsSheet == Sheet!Spec

(* A handler that waits for a mutex the thread below it holds. *)
SelfDeadlock == \E t \in Thread : m = t /\ HandlerAt(t, "lock")

(* A reader that was given a line returns from readline, unless a key came *)
(* while some thread held the keyboard's mutex: the handler then waits for *)
(* ever for the thread it interrupted.                                     *)
ReaderReturns ==
  \A r \in Reader : pc[r] = "lock" ~> (pc[r] = "out" \/ SelfDeadlock)

=============================================================================
