----------------------------- MODULE MCVirtualMem -----------------------------
(* Bounds for the virtual memory: eight user pages in four page tables, a  *)
(* program with a read-only and a writable section that share no page.     *)
EXTENDS VirtualMem

MCSections == <<[addr |-> 1, len |-> 2, rw |-> FALSE], [addr |-> 5, len |-> 3, rw |-> TRUE]>>
MCTouchable == {0, 5}
MCBases == {3, 4}

ASSUME MCLinked == Linked /\ Separate

(* Taking the handler away; a stack in the kernel; interrupts disabled. *)
MCSwexnCalls ==
  {[esp3 |-> NULL, eip |-> NULL, newureg |-> ureg_from_stack],
   [esp3 |-> "kernel", eip |-> "user", newureg |-> NULL],
   [esp3 |-> "user", eip |-> "user",
    newureg |-> [ureg_from_stack EXCEPT !.eflags = {"RESV1"}]]}
=============================================================================
