---------------------------- MODULE FrameAllocator ----------------------------
(***************************************************************************)
(* What the virtual memory manager is promised by the frame manager: runs  *)
(* of pages, at least as long as asked for, that nobody else has.          *)
(***************************************************************************)
EXTENDS Integers

CONSTANTS
  Pages,      \* the number of pages of user memory
  MaxRequest  \* bound: the largest request

VARIABLE owned  \* the length of each run that is given out, by its first page

Run(a, n) == a .. a + n - 1

Init == owned = [a \in {} |-> 0]

Alloc(n, a, size) ==
  /\ n <= size
  /\ Run(a, size) \subseteq Run(0, Pages)
  /\ \A b \in DOMAIN owned : Run(a, size) \cap Run(b, owned[b]) = {}
  /\ owned' = [b \in DOMAIN owned \cup {a} |-> IF b = a THEN size ELSE owned[b]]

Dealloc(a) == owned' = [b \in DOMAIN owned \ {a} |-> owned[b]]

Next ==
  \/ \E n \in 1 .. MaxRequest, a \in 0 .. Pages - 1, size \in 1 .. Pages : Alloc(n, a, size)
  \/ \E a \in DOMAIN owned : Dealloc(a)

Spec == Init /\ [][Next]_owned
=============================================================================
