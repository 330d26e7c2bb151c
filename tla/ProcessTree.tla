----------------------------- MODULE ProcessTree -----------------------------
(***************************************************************************)
(* What fork, vanish and wait promise: a process exits once, its status is *)
(* reported once, to its parent or, if the parent has exited, to the root, *)
(* and whoever it is reported to collects it at most once.                 *)
(***************************************************************************)
CONSTANTS Proc, Root, Nobody

VARIABLES
  state,   \* "unborn", "alive", "exited", "reported" or "collected"
  parent,  \* who forked it
  heir     \* whom its status was reported to

vars == <<state, parent, heir>>

Init ==
  /\ state = [p \in Proc |-> IF p = Root THEN "alive" ELSE "unborn"]
  /\ parent = [p \in Proc |-> Nobody]
  /\ heir = [p \in Proc |-> Nobody]

Fork(p, c) ==
  /\ state[p] = "alive" /\ state[c] = "unborn"
  /\ state' = [state EXCEPT ![c] = "alive"]
  /\ parent' = [parent EXCEPT ![c] = p]
  /\ UNCHANGED heir

Exit(c) ==
  /\ state[c] = "alive"
  /\ state' = [state EXCEPT ![c] = "exited"]
  /\ UNCHANGED <<parent, heir>>

Report(c, r) ==
  /\ state[c] = "exited"
  /\ r = parent[c] \/ (r = Root /\ state[parent[c]] # "alive")
  /\ state' = [state EXCEPT ![c] = "reported"]
  /\ heir' = [heir EXCEPT ![c] = r]
  /\ UNCHANGED parent

Collect(p, c) ==
  /\ state[p] = "alive" /\ state[c] = "reported" /\ heir[c] = p
  /\ state' = [state EXCEPT ![c] = "collected"]
  /\ UNCHANGED <<parent, heir>>

Next ==
  \E p, c \in Proc : Fork(p, c) \/ Exit(c) \/ Report(c, p) \/ Collect(p, c)

Spec == Init /\ [][Next]_vars

=============================================================================
