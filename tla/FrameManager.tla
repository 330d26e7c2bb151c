----------------------------- MODULE FrameManager -----------------------------
(***************************************************************************)
(* The buddy allocator of kern/virtual_mem_mgmt/frame_manager.c.  Bin i    *)
(* holds free frames of 2^i pages.  A frame is split by moving it to the   *)
(* parent pool and making its two halves; two free halves are joined by    *)
(* destroying them and taking the parent back.  Addresses count pages from *)
(* USER_MEM_START, and a frame is named <<i, addr>> by its bin and address.*)
(* Both calls run under the manager's mutex, so that each is one step.     *)
(***************************************************************************)
EXTENDS Integers, Sequences

CONSTANTS
  NumBins,    \* num_bins
  Pages,      \* the number of pages of user memory
  MaxRequest  \* bound: the largest request made

ASSUME FrameAssumption ==
  NumBins \in Nat \ {0} /\ Pages \in Nat \ {0} /\ MaxRequest \in Nat

VARIABLE fm  \* the frames that exist, the bins and the three hash tables

NULL == <<>>

(* 1 << i: one, doubled i times. *)
Doubled[i \in 0 .. NumBins] == IF i = 0 THEN 1 ELSE 2 * Doubled[i - 1]
TWO_POW(i) == Doubled[i]

BinOf(f) == f[1]
Addr(f) == f[2]
Size(f) == TWO_POW(BinOf(f))

With(t, k, v) == [x \in DOMAIN t \cup {k} |-> IF x = k THEN v ELSE t[x]]
Without(t, ks) == [x \in DOMAIN t \ ks |-> t[x]]

(* The hash tables; a put of a key that is there changes nothing. *)
ht_put(t, k, v) == IF k \in DOMAIN t THEN t ELSE With(t, k, v)
ht_remove(t, k) == Without(t, {k})

ParentKey(f) == <<Addr(f), BinOf(f)>>

frame_init(status, buddy, parent) == [status |-> status, buddy |-> buddy, parent |-> parent]

(* f's node is found through the table of free frames. *)
Unlinked(bin, f) ==
  LET k == CHOOSE i \in DOMAIN bin : bin[i] = f
  IN  SubSeq(bin, 1, k - 1) \o SubSeq(bin, k + 1, Len(bin))

-----------------------------------------------------------------------------
(* fm_init_user_space cuts the memory into as many frames of the largest   *)
(* bin as fit, then the next, and so on.                                   *)
FirstFrames ==
  LET Start(i) == IF i = NumBins - 1 THEN 0 ELSE (Pages \div TWO_POW(i + 1)) * TWO_POW(i + 1)
      Number(i) == (Pages - Start(i)) \div TWO_POW(i)
  IN  [i \in 0 .. NumBins - 1 |->
         [k \in 1 .. Number(i) |-> <<i, Start(i) + (k - 1) * TWO_POW(i)>>]]

FirstSet ==
  UNION {{FirstFrames[i][k] : k \in DOMAIN FirstFrames[i]} : i \in 0 .. NumBins - 1}

Init ==
  fm = [frame |-> [f \in FirstSet |-> frame_init("DEALLOC", NULL, NULL)],
        bins |-> FirstFrames,
        deallocated |-> [a \in {Addr(f) : f \in FirstSet} |->
                           CHOOSE f \in FirstSet : Addr(f) = a],
        allocated |-> [a \in {} |-> NULL],
        parents |-> [k \in {} |-> NULL]]

-----------------------------------------------------------------------------
(* Mutant: the right half starts one page late. *)
SplitLate(m, i) ==
  LET p == Head(m.bins[i])
      left == <<i - 1, Addr(p)>>
      right == <<i - 1, Addr(p) + TWO_POW(i - 1) + 1>>
  IN  [m EXCEPT
         !.bins[i] = Tail(@),
         !.bins[i - 1] = @ \o <<left, right>>,
         !.deallocated = ht_put(ht_put(ht_remove(@, Addr(p)), Addr(left), left),
                                Addr(right), right),
         !.parents = ht_put(@, ParentKey(p), p),
         !.frame = With(With([@ EXCEPT ![p].status = "PARENT"],
                             left, frame_init("DEALLOC", right, p)),
                        right, frame_init("DEALLOC", left, p))]

(* The frame manager after it has split the first frame of bin i. *)
Split(m, i) ==
  LET p == Head(m.bins[i])
      left == <<i - 1, Addr(p)>>
      right == <<i - 1, Addr(p) + TWO_POW(i - 1)>>
  IN  [m EXCEPT
         !.bins[i] = Tail(@),
         !.bins[i - 1] = @ \o <<left, right>>,
         !.deallocated = ht_put(ht_put(ht_remove(@, Addr(p)), Addr(left), left),
                                Addr(right), right),
         !.parents = ht_put(@, ParentKey(p), p),
         !.frame = With(With([@ EXCEPT ![p].status = "PARENT"],
                             left, frame_init("DEALLOC", right, p)),
                        right, frame_init("DEALLOC", left, p))]

(* The nearest bin from i on with a frame, from which the recursion splits *)
(* its way down to i; NumBins if there is none, and request_split fails.   *)
NearestBin(m, i) ==
  CHOOSE k \in i .. NumBins :
    /\ \A x \in i .. k - 1 : m.bins[x] = <<>>
    /\ k = NumBins \/ m.bins[k] # <<>>

request_split(m, i) ==
  LET top == NearestBin(m, i)
      s[k \in 0 .. top - i + 1] == IF k = 0 THEN m ELSE Split(s[k - 1], top - k + 1)
  IN  s[top - i + 1]

(* The smallest bin whose frames are large enough. *)
BinFor(n) == CHOOSE j \in 0 .. NumBins - 1 : n <= TWO_POW(j) /\ (j > 0 => n > TWO_POW(j - 1))

Satisfiable(n) ==
  /\ n \in 1 .. TWO_POW(NumBins - 1)
  /\ NearestBin(fm, BinFor(n)) < NumBins

(* The frame at the front of bin j changes hands. *)
Take(m, j) ==
  LET f == Head(m.bins[j])
  IN  [m EXCEPT !.bins[j] = Tail(@),
                !.deallocated = ht_remove(@, Addr(f)),
                !.allocated = ht_put(@, Addr(f), f),
                !.frame[f].status = "ALLOC"]

(* Otherwise it returns an error and changes nothing. *)
fm_alloc(n) ==
  /\ Satisfiable(n)
  /\ LET j == BinFor(n)
     IN  fm' = Take(IF fm.bins[j] = <<>> THEN request_split(fm, j + 1) ELSE fm, j)

-----------------------------------------------------------------------------
HasFreeBuddy(m, f) ==
  LET b == m.frame[f].buddy IN b # NULL /\ m.frame[b].status = "DEALLOC"

(* Mutant: the buddy is not taken out of its bin. *)
DestroyPairInBin(m, f) ==
  LET b == m.frame[f].buddy
  IN  [m EXCEPT !.deallocated = ht_remove(@, Addr(b)),
                !.parents = ht_remove(@, ParentKey(f)),
                !.frame = Without(@, {f, b})]

(* f and its free buddy are destroyed; f is in the parent pool unless it   *)
(* was never split.                                                        *)
DestroyPair(m, f) ==
  LET b == m.frame[f].buddy
  IN  [m EXCEPT !.deallocated = ht_remove(@, Addr(b)),
                !.parents = ht_remove(@, ParentKey(f)),
                !.bins[BinOf(b)] = Unlinked(@, b),
                !.frame = Without(@, {f, b})]

(* f becomes the last of the free frames of its bin. *)
Free(m, f) ==
  [m EXCEPT !.parents = ht_remove(@, ParentKey(f)),
            !.deallocated = ht_put(@, Addr(f), f),
            !.bins[BinOf(f)] = Append(@, f),
            !.frame[f].status = "DEALLOC"]

(* Mutant: a parent is freed without a look at its own buddy. *)
request_join_once(m, f) == Free(m, f)

(* Joins upwards while the buddy is free. *)
request_join(m, f) ==
  LET Join(s) == IF HasFreeBuddy(s.m, s.f)
                   THEN [m |-> DestroyPair(s.m, s.f), f |-> s.m.frame[s.f].parent]
                   ELSE s
      j[k \in 0 .. NumBins] == IF k = 0 THEN [m |-> m, f |-> f] ELSE Join(j[k - 1])
  IN  Free(j[NumBins].m, j[NumBins].f)

(* An address that is not allocated is refused. *)
fm_dealloc(a) ==
  /\ a \in DOMAIN fm.allocated
  /\ LET f == fm.allocated[a]
         m == [fm EXCEPT !.allocated = ht_remove(@, a)]
     IN  fm' = IF HasFreeBuddy(m, f)
                 THEN request_join(DestroyPair(m, f), m.frame[f].parent)
                 ELSE Free(m, f)

Next ==
  \/ \E n \in 1 .. MaxRequest : fm_alloc(n)
  \/ \E a \in 0 .. Pages - 1 : fm_dealloc(a)

Spec == Init /\ [][Next]_fm

-----------------------------------------------------------------------------
Run(f) == Addr(f) .. Addr(f) + Size(f) - 1

WithStatus(s) == {f \in DOMAIN fm.frame : fm.frame[f].status = s}

(* The bins and the hash tables hold exactly the frames whose status says  *)
(* so, each once, under its address, so that no lookup that panics when it *)
(* fails can fail (request_join, fm_dealloc).                              *)
TablesAgree ==
  /\ \A i \in 0 .. NumBins - 1 :
       LET b == fm.bins[i]
       IN  /\ \A j, k \in DOMAIN b : b[j] = b[k] => j = k
           /\ {b[k] : k \in DOMAIN b} = {f \in WithStatus("DEALLOC") : BinOf(f) = i}
  /\ fm.deallocated = [a \in {Addr(f) : f \in WithStatus("DEALLOC")} |->
                         CHOOSE f \in WithStatus("DEALLOC") : Addr(f) = a]
  /\ fm.allocated = [a \in {Addr(f) : f \in WithStatus("ALLOC")} |->
                       CHOOSE f \in WithStatus("ALLOC") : Addr(f) = a]
  /\ fm.parents = [k \in {ParentKey(f) : f \in WithStatus("PARENT")} |-> <<k[2], k[1]>>]

(* The buddy and parent pointers stay within the frames that exist, and    *)
(* are those of a pair that was split: what the assertions of fm_dealloc   *)
(* and request_join require.                                               *)
BuddiesPaired ==
  \A f \in DOMAIN fm.frame :
    LET b == fm.frame[f].buddy
        p == fm.frame[f].parent
    IN  b # NULL =>
          /\ b \in DOMAIN fm.frame /\ p \in WithStatus("PARENT")
          /\ fm.frame[b].buddy = f /\ fm.frame[b].parent = p /\ BinOf(b) = BinOf(f)
          /\ Run(p) = Run(f) \cup Run(b) /\ Run(f) \cap Run(b) = {}

(* No fragmentation that coalescing should have undone: a frame of the     *)
(* original layout, or a half, quarter and so on of one, whose pages are   *)
(* all free is free in one piece, so that a request fails only when no     *)
(* block of its size is free.                                              *)
NoFalseExhaustion ==
  LET taken == UNION {Run(f) : f \in WithStatus("ALLOC")}
      Blocks == {b \in (0 .. NumBins - 1) \X (0 .. Pages - 1) :
                   \E g \in FirstSet : /\ BinOf(b) <= BinOf(g)
                                       /\ Run(b) \subseteq Run(g)
                                       /\ (Addr(b) - Addr(g)) % Size(b) = 0}
  IN  \A b \in Blocks :
        Run(b) \cap taken = {} => \E f \in WithStatus("DEALLOC") : Run(b) \subseteq Run(f)

(* The frame manager gives out disjoint runs of pages. *)
Allocator == INSTANCE FrameAllocator WITH
  owned <- [a \in DOMAIN fm.allocated |-> Size(fm.allocated[a])]

ImplementsAllocator == Allocator!Spec

=============================================================================
