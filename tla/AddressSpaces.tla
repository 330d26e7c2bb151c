---------------------------- MODULE AddressSpaces ----------------------------
(***************************************************************************)
(* What a process sees of the virtual memory manager: a memory of its own, *)
(* the pages of which are there or not, can be written or not, and hold    *)
(* what it last wrote.                                                     *)
(***************************************************************************)
EXTENDS Integers

CONSTANTS
  Proc,
  Image,   \* the pages of a program that is loaded, and its stack
  Data,    \* those of them that can be written
  Zero     \* what a new page holds

VARIABLE space  \* by process and page: [val, rw]

(* The memory of p becomes M2, having been M. *)

Loaded(M) ==
  /\ DOMAIN M = Image /\ Data \subseteq Image
  /\ \A v \in Data : M[v].rw

New(M, M2) ==
  /\ DOMAIN M # {}
  /\ DOMAIN M \subseteq DOMAIN M2
  /\ \A v \in DOMAIN M2 :
       M2[v] = IF v \in DOMAIN M THEN M[v] ELSE [val |-> Zero, rw |-> TRUE]

(* Only pages that were asked for are removed, never those of the image. *)
Remove(M, M2) ==
  /\ Image \subseteq DOMAIN M2 /\ DOMAIN M2 \subseteq DOMAIN M
  /\ \A v \in DOMAIN M2 : M2[v] = M[v]

Store(M, M2) ==
  \E v \in DOMAIN M :
    /\ M[v].rw
    /\ DOMAIN M2 = DOMAIN M
    /\ M2 = [M EXCEPT ![v].val = M2[v].val]

(* Starting as a copy of another process. *)
Fork(M, M2, copies) == DOMAIN M = {} /\ M2 \in copies

Exit(M2) == DOMAIN M2 = {}

Init ==
  \E p \in Proc :
    /\ Loaded(space[p])
    /\ \A q \in Proc \ {p} : DOMAIN space[q] = {}

Next ==
  \E S \in {space}, S2 \in {space'}, p \in Proc :
    /\ \/ Loaded(S2[p]) \/ New(S[p], S2[p]) \/ Remove(S[p], S2[p])
       \/ Store(S[p], S2[p]) \/ Exit(S2[p])
       \/ Fork(S[p], S2[p], {S[q] : q \in Proc \ {p}})
    /\ \A q \in Proc \ {p} : S2[q] = S[q]

Spec == Init /\ [][Next]_space

=============================================================================
