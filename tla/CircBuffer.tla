------------------------------ MODULE CircBuffer ------------------------------
(***************************************************************************)
(* The circular buffer of kern/data_structures/circ_buffer.c.  A buffer is *)
(* a record of the fields of circ_buf_t; the operations return the buffer  *)
(* they leave.  The indices are uint32_t: arithmetic on them is modulo     *)
(* Word, before the remainder by the length is taken.                      *)
(***************************************************************************)
EXTENDS Integers, Sequences

CONSTANTS
  Length,  \* len, the number of slots
  Word     \* the number of values of a uint32_t

ASSUME BufferAssumption ==
  /\ Length \in Nat \ {0}
  /\ Word \in Nat
  /\ \E k \in 1 .. Word : Word = k * Length

Index == 0 .. Length - 1

(* What is in the slots before they are written. *)
Unset == "unset"

circ_buf_init == [i_r |-> 0, i_w |-> 0, n |-> 0, buf |-> [i \in Index |-> Unset]]

(* The slots in use, from the one that is read next. *)
Contents(c) == [i \in 1 .. c.n |-> c.buf[(c.i_r + i - 1) % Length]]

(* A slot always stays empty. *)
Full(c) == c.n + 1 = Length

(* Mutant: the buffer is full one element too early. *)
circ_buf_write_early(c, v) ==
  IF c.n + 2 = Length THEN c
  ELSE [c EXCEPT !.buf[c.i_w] = v, !.i_w = ((c.i_w + 1) % Word) % Length, !.n = @ + 1]

circ_buf_write(c, v) ==
  IF Full(c) THEN c
  ELSE [c EXCEPT !.buf[c.i_w] = v, !.i_w = ((c.i_w + 1) % Word) % Length, !.n = @ + 1]

(* The value a read takes out; the caller sees to it that there is one. *)
Front(c) == c.buf[c.i_r]

circ_buf_read(c) ==
  [c EXCEPT !.i_r = ((c.i_r + 1) % Word) % Length, !.n = @ - 1]

(* Mutant: the write index is not wrapped. *)
circ_buf_delete_unwrapped(c) ==
  IF c.n = 0 THEN c
  ELSE [c EXCEPT !.i_w = IF c.i_w = 0 THEN 0 ELSE c.i_w - 1, !.n = @ - 1]

(* Takes back what was written last. *)
circ_buf_delete_front(c) ==
  IF c.n = 0 THEN c
  ELSE [c EXCEPT !.i_w = ((c.i_w - 1) % Word) % Length, !.n = @ - 1]

circ_buf_count(c) == c.n

=============================================================================
