--------------------------- MODULE VirtualMemProofs ---------------------------
(***************************************************************************)
(* Proofs about virtual memory, for any number of processes, page tables   *)
(* and frames: page tables are neither leaked nor shared, and neither are  *)
(* frames; and each process has a memory of its own, as AddressSpaces says.*)
(***************************************************************************)
EXTENDS VirtualMem, SequenceTheorems, FunctionTheorems, FiniteSetTheorems,
        WellFoundedInduction, TLAPS

-----------------------------------------------------------------------------
(* Arithmetic. *)

(* What division by d leaves. *)
LEMMA Division ==
  ASSUME NEW d \in Nat \ {0}, NEW x \in Int
  PROVE  /\ x \div d \in Int /\ x % d \in 0 .. d - 1
         /\ x = d * (x \div d) + (x % d)
OBVIOUS

(* A quotient is known by the multiples it lies between. *)
LEMMA Quotient ==
  ASSUME NEW d \in Nat \ {0}, NEW q \in Int, NEW r \in 0 .. d - 1
  PROVE  (d * q + r) \div d = q
<1> DEFINE x == d * q + r
           e == x \div d
           s == x % d
<1>1. x \in Int /\ d * q \in Int
  OBVIOUS
<1>2. e \in Int /\ s \in 0 .. d - 1 /\ x = d * e + s
  BY <1>1, Division
<1>3. d * (q - e) = s - r
  <2>1. d * (q - e) = d * q - d * e
    BY <1>2
  <2>2. d * e \in Int
    BY <1>2
  <2>. QED
    BY <1>1, <1>2, <2>1, <2>2
<1> HIDE DEF e, s
<1>4. q - e \in Int /\ s - r < d /\ -d < s - r
  BY <1>2
<1>5. q - e < 1
  <2>1. SUFFICES ASSUME q - e >= 1 PROVE FALSE
    BY <1>4
  <2>2. d * (q - e) >= d
    BY <1>4, <2>1
  <2>. QED
    BY <1>2, <1>3, <1>4, <2>2
<1>6. q - e > -1
  <2>1. SUFFICES ASSUME q - e <= -1 PROVE FALSE
    BY <1>4
  <2>2. d * (q - e) <= -d
    BY <1>4, <2>1
  <2>. QED
    BY <1>2, <1>3, <1>4, <2>2
<1>7. q = e
  BY <1>2, <1>4, <1>5, <1>6
<1>. QED
  BY <1>7 DEF e, x

(* A nonempty set of naturals has a least element, and Lowest picks it. *)
LEMMA LowestIs ==
  ASSUME NEW S \in SUBSET Nat, S # {}
  PROVE  Lowest(S) \in S /\ \A x \in S : Lowest(S) <= x
<1>1. PICK a \in S : \A x \in S : ~(<<x, a>> \in OpToRel(<, Nat))
  BY NatLessThanWellFounded, WFMin
<1>2. ASSUME NEW x \in S PROVE a <= x
  <2>1. <<x, a>> \in Nat \X Nat
    OBVIOUS
  <2>2. ~(<<x, a>>[1] < <<x, a>>[2])
    BY <1>1, <2>1 DEF OpToRel
  <2>3. x \in Nat /\ a \in Nat
    OBVIOUS
  <2>. QED
    BY <2>2, <2>3
<1>. QED
  BY <1>2 DEF Lowest

(* A one-to-one map onto T keeps the cardinality. *)
LEMMA OneToOne ==
  ASSUME NEW S, IsFiniteSet(S), NEW T, NEW h \in [S -> T],
         \A x, y \in S : h[x] = h[y] => x = y, \A t \in T : \E x \in S : h[x] = t
  PROVE  IsFiniteSet(T) /\ Cardinality(T) = Cardinality(S)
<1>1. h \in Surjection(S, T)
  BY DEF Surjection
<1>2. h \in Injection(S, T)
  BY DEF Injection, IsInjective
<1>. QED
  BY <1>1, <1>2, FS_Surjection

-----------------------------------------------------------------------------
(* Memory. *)

Dir == 0 .. NumPDE - 1
Slot == 0 .. PTSize - 1

(* An element of a p_addr_list: a frame and its size. *)
Slip == [f : Frame, n : Int]

(* What is in the frames, page by page. *)
IsContents(d) ==
  d = [f \in Frame |-> d[f]] /\ \A f \in Frame : d[f] = [o \in Page |-> d[f][o]]

IsMemory(m) ==
  /\ m = [dir |-> m.dir, pt |-> m.pt, live |-> m.live, list |-> m.list, num |-> m.num,
          alloc |-> m.alloc, data |-> m.data]
  /\ m.dir \in [Proc -> [Dir -> Table \cup {NULL, Dangling}]]
  /\ m.pt \in [Table -> [Slot -> Entry \cup {NULL}]]
  /\ m.live \in SUBSET Table
  /\ m.list \in [Proc -> Seq(Slip)]
  /\ m.num \in [Proc -> Int]
  /\ m.alloc \in [Frame -> Int]
  /\ IsContents(m.data)

(* The frames but for those of F hold what they held. *)
Kept(c, m, F) == \A g \in Frame : g \notin F => c.data[g] = m.data[g]

(* Each table that is allocated is in one directory, once. *)
Owned(m) ==
  /\ \A t \in m.live : \E p \in Proc : \E d \in Dir : m.dir[p][d] = t
  /\ \A p \in Proc : \A d \in Dir : m.dir[p][d] \in Table => m.dir[p][d] \in m.live
  /\ \A p, q \in Proc : \A d, e \in Dir :
       m.dir[p][d] \in Table /\ m.dir[p][d] = m.dir[q][e] => p = q /\ d = e

Good(m) == IsMemory(m) /\ Owned(m)

(* No entry of p's directory is a table that was freed. *)
Whole(m, p) == \A d \in Dir : m.dir[p][d] # Dangling

(* The constants. *)
LEMMA Sizes ==
  /\ NumPDE \in Nat \ {0} /\ PTSize \in Nat \ {0} /\ PAGE_SIZE \in Nat /\ PAGE_SIZE >= 2
  /\ NumPages \in Nat \ {0} /\ NumPages = NumPDE * PTSize /\ Page = 0 .. NumPages - 1
  /\ Page \subseteq Nat /\ IsFiniteSet(Page) /\ IsFiniteSet(Dir)
  /\ StackLow \in Page
<1>1. /\ NumPDE \in Nat \ {0} /\ PTSize \in Nat \ {0} /\ PAGE_SIZE \in Nat \ {0, 1}
      /\ StackLow \in 0 .. NumPDE * PTSize - 1
  BY VirtualMemAssumption
<1>2. NumPDE * PTSize \in Nat \ {0}
  BY <1>1
<1>3. NumPages \in Nat \ {0} /\ Page = 0 .. NumPages - 1 /\ NumPages = NumPDE * PTSize
  BY <1>2 DEF NumPages, Page
<1>4. IsFiniteSet(0 .. NumPages - 1) /\ IsFiniteSet(0 .. NumPDE - 1)
  BY <1>1, <1>3, FS_Interval
<1>. QED
  BY <1>1, <1>3, <1>4 DEF Dir

(* A page has an entry of the directory and one of a table, and they have  *)
(* one page.                                                               *)
LEMMA PageSplit ==
  /\ \A v \in Page : pde_i(v) \in Dir /\ pte_i(v) \in Slot
  /\ \A v, w \in Page : pde_i(v) = pde_i(w) /\ pte_i(v) = pte_i(w) => v = w
<1> DEFINE S == PTSize
           N == NumPDE
<1>1. S \in Nat \ {0} /\ N \in Nat \ {0} /\ N * S \in Nat /\ Page = 0 .. N * S - 1
  BY Sizes
<1> HIDE DEF S, N
<1>2. ASSUME NEW v \in Page
      PROVE  /\ v \div S \in 0 .. N - 1 /\ v % S \in 0 .. S - 1
             /\ v = S * (v \div S) + (v % S)
  <2> DEFINE r == v \div S
             k == v % S
  <2>1. r \in Int /\ k \in 0 .. S - 1 /\ v = S * r + k /\ v \in 0 .. N * S - 1
    BY <1>1, Division
  <2> HIDE DEF r, k
  <2>2. S * r \in Int
    BY <1>1, <2>1
  <2>3. r >= 0
    <3>1. SUFFICES ASSUME r <= -1 PROVE FALSE
      BY <2>1
    <3>2. S * r <= -S
      BY <1>1, <2>1, <3>1
    <3>. QED
      BY <1>1, <2>1, <2>2, <3>2
  <2>4. r < N
    <3>1. SUFFICES ASSUME r >= N PROVE FALSE
      BY <1>1, <2>1
    <3>2. S * r >= N * S
      BY <1>1, <2>1, <3>1
    <3>. QED
      BY <1>1, <2>1, <2>2, <3>2
  <2>. QED
    BY <1>1, <2>1, <2>3, <2>4 DEF r, k
<1>. QED
  BY <1>2 DEF pde_i, pte_i, Dir, Slot, S, N

(* What kind of thing NULL and Dangling are. *)
LEMMA Kinds ==
  /\ NULL \notin Table /\ NULL \notin Entry /\ Dangling \notin Table /\ NULL # Dangling
  /\ IsFiniteSet(Table) /\ IsFiniteSet(Frame) /\ Init0 \in Proc
BY VirtualMemAssumption

(* The fields of a memory. *)
LEMMA GoodFields ==
  ASSUME NEW m, Good(m)
  PROVE  /\ IsMemory(m) /\ Owned(m)
         /\ m.dir \in [Proc -> [Dir -> Table \cup {NULL, Dangling}]]
         /\ m.pt \in [Table -> [Slot -> Entry \cup {NULL}]]
         /\ m.live \in SUBSET Table /\ IsFiniteSet(Table \ m.live)
         /\ m.list \in [Proc -> Seq(Slip)] /\ m.num \in [Proc -> Int]
         /\ m.alloc \in [Frame -> Int] /\ IsContents(m.data)
<1>1. IsFiniteSet(Table \ m.live)
  BY Kinds, FS_Difference
<1>. QED
  BY <1>1 DEF Good, IsMemory

(* A frame has pages. *)
LEMMA Contents ==
  ASSUME NEW m, Good(m), NEW f \in Frame
  PROVE  DOMAIN m.data[f] = Page /\ m.data[f] = [o \in Page |-> m.data[f][o]]
<1> DEFINE x == m.data[f]
<1>1. x = [o \in Page |-> x[o]]
  BY GoodFields DEF IsContents
<1> HIDE DEF x
<1>2. DOMAIN x = Page
  BY <1>1
<1>. QED
  BY <1>1, <1>2 DEF x

(* An entry of a table, or NULL. *)
LEMMA MappingType ==
  ASSUME NEW m, Good(m), NEW p \in Proc, NEW v \in Page
  PROVE  /\ pd_get_mapping(m, p, v) \in Entry \cup {NULL}
         /\ v \in Mapped(m, p) <=> pd_get_mapping(m, p, v) # NULL
         /\ v \in Mapped(m, p) => pd_get_mapping(m, p, v) \in Entry
                                  /\ m.dir[p][pde_i(v)] \in Table
<1>1. pde_i(v) \in Dir /\ pte_i(v) \in Slot
  BY PageSplit
<1> DEFINE t == m.dir[p][pde_i(v)]
           i == pte_i(v)
<1>2. pd_get_mapping(m, p, v) \in Entry \cup {NULL}
  <2>1. pd_get_mapping(m, p, v) = IF t \in Table THEN m.pt[t][i] ELSE NULL
    BY DEF pd_get_mapping
  <2>2. i \in Slot /\ m.pt \in [Table -> [Slot -> Entry \cup {NULL}]]
    BY <1>1, GoodFields
  <2> HIDE DEF t, i
  <2>3. t \in Table => m.pt[t][i] \in Entry \cup {NULL}
    BY <2>2
  <2>. QED
    BY <2>1, <2>3
<1>3. v \in Mapped(m, p) <=> pd_get_mapping(m, p, v) # NULL
  BY DEF Mapped
<1>4. pd_get_mapping(m, p, v) # NULL => m.dir[p][pde_i(v)] \in Table
  BY DEF pd_get_mapping
<1>. QED
  BY <1>2, <1>3, <1>4

(* The mappings depend on directories and tables alone. *)
LEMMA SameTables ==
  ASSUME NEW m, Good(m), NEW c, IsMemory(c),
         c.dir = m.dir, c.pt = m.pt, c.live = m.live
  PROVE  /\ Good(c)
         /\ \A p, v : pd_get_mapping(c, p, v) = pd_get_mapping(m, p, v)
         /\ \A p : Mapped(c, p) = Mapped(m, p)
<1>1. Owned(c)
  BY DEF Good, Owned
<1>2. \A p, v : pd_get_mapping(c, p, v) = pd_get_mapping(m, p, v)
  BY DEF pd_get_mapping
<1>. QED
  BY <1>1, <1>2 DEF Good, Mapped

-----------------------------------------------------------------------------
(* memalign. *)

(* When the heap has enough, every missing table gets a block of its own.  *)
LEMMA NewTablesIs ==
  ASSUME NEW m, Good(m), NEW ds \in SUBSET Dir, HeapHas(m, Cardinality(ds))
  PROVE  /\ NewTables(m, ds) \in [ds -> Table \ m.live]
         /\ \A d, e \in ds : NewTables(m, ds)[d] = NewTables(m, ds)[e] => d = e
<1> DEFINE F == Table \ m.live
           n == Cardinality(ds)
           k == Cardinality(F)
<1>1. IsFiniteSet(ds) /\ IsFiniteSet(F)
  BY GoodFields, Sizes, FS_Subset
<1>2. n \in Nat /\ k \in Nat /\ ExistsBijection(1 .. n, ds) /\ ExistsBijection(1 .. k, F)
  BY <1>1, FS_CardinalityType
<1>3. n <= k
  BY DEF HeapHas
<1> HIDE DEF n, k, F
<1>4. ExistsBijection(ds, 1 .. n)
  BY <1>2, Fun_ExistsBijSymmetric
<1>5. PICK a \in Bijection(ds, 1 .. n) : TRUE
  BY <1>4 DEF ExistsBijection
<1>6. PICK b \in Bijection(1 .. k, F) : TRUE
  BY <1>2 DEF ExistsBijection
<1>7. a \in [ds -> 1 .. n] /\ \A d, e \in ds : a[d] = a[e] => d = e
  BY DEF Bijection, Injection, IsInjective
<1>8. b \in [1 .. k -> F] /\ \A i, j \in 1 .. k : b[i] = b[j] => i = j
  BY DEF Bijection, Injection, IsInjective
<1> DEFINE h == [d \in ds |-> b[a[d]]]
<1>9. \A d \in ds : a[d] \in 1 .. k
  BY <1>2, <1>3, <1>7
<1>10. h \in [ds -> F] /\ \A d, e \in ds : h[d] = h[e] => d = e
  BY <1>7, <1>8, <1>9
<1> HIDE DEF h
<1>11. \E g \in [ds -> F] : \A d, e \in ds : g[d] = g[e] => d = e
  BY <1>10
<1>. QED
  BY <1>11 DEF NewTables, F


-----------------------------------------------------------------------------
(* A batch of mappings. *)

(* What Commit makes of the fields of a memory. *)
LEMMA CommitFields ==
  ASSUME NEW m, Good(m), NEW p \in Proc, NEW entry, DOMAIN entry \in SUBSET Page,
         entry \in [DOMAIN entry -> Entry \cup {NULL}],
         HeapHas(m, Cardinality(Missing(m, p, DOMAIN entry)))
  PROVE  LET vs == DOMAIN entry
             ds == Missing(m, p, vs)
             c == Commit(m, p, entry)
         IN  \E g \in [ds -> Table \ m.live] :
               /\ \A d, e \in ds : g[d] = g[e] => d = e
               /\ IsMemory(c)
               /\ c.list = m.list /\ c.num = m.num /\ c.alloc = m.alloc /\ c.data = m.data
               /\ c.live = m.live \cup {g[d] : d \in ds}
               /\ \A q \in Proc : q # p => c.dir[q] = m.dir[q]
               /\ \A d \in Dir : c.dir[p][d] = IF d \in ds THEN g[d] ELSE m.dir[p][d]
               /\ \A t \in Table, i \in Slot : c.pt[t][i] =
                    IF \E v \in vs : c.dir[p][pde_i(v)] = t /\ pte_i(v) = i
                      THEN entry[CHOOSE v \in vs : c.dir[p][pde_i(v)] = t /\ pte_i(v) = i]
                      ELSE IF t \in {g[d] : d \in ds} THEN NULL ELSE m.pt[t][i]
<1> DEFINE vs == DOMAIN entry
           ds == Missing(m, p, vs)
           g == NewTables(m, ds)
           D == [d \in 0 .. NumPDE - 1 |-> IF d \in ds THEN g[d] ELSE m.dir[p][d]]
           fresh == {g[d] : d \in ds}
           P == [t \in Table |-> [i \in 0 .. PTSize - 1 |->
                  IF \E v \in vs : D[pde_i(v)] = t /\ pte_i(v) = i
                    THEN entry[CHOOSE v \in vs : D[pde_i(v)] = t /\ pte_i(v) = i]
                    ELSE IF t \in fresh THEN NULL ELSE m.pt[t][i]]]
           c == Commit(m, p, entry)
<1>1. ds \in SUBSET Dir
  BY PageSplit DEF Missing
<1>2. g \in [ds -> Table \ m.live] /\ \A d, e \in ds : g[d] = g[e] => d = e
  BY <1>1, NewTablesIs
<1>4. c = [m EXCEPT !.dir[p] = D, !.live = @ \cup fresh, !.pt = P]
  BY DEF Commit
<1>5. /\ m = [dir |-> m.dir, pt |-> m.pt, live |-> m.live, list |-> m.list, num |-> m.num,
              alloc |-> m.alloc, data |-> m.data]
      /\ m.dir \in [Proc -> [Dir -> Table \cup {NULL, Dangling}]]
      /\ m.pt \in [Table -> [Slot -> Entry \cup {NULL}]]
      /\ m.live \in SUBSET Table
      /\ m.list \in [Proc -> Seq(Slip)] /\ m.num \in [Proc -> Int] /\ m.alloc \in [Frame -> Int]
      /\ IsContents(m.data)
  BY GoodFields DEF IsMemory
<1>6. D \in [Dir -> Table \cup {NULL, Dangling}]
  <2>1. ASSUME NEW d \in Dir
        PROVE  (IF d \in ds THEN g[d] ELSE m.dir[p][d]) \in Table \cup {NULL, Dangling}
    BY <1>2, <1>5
  <2>. QED
    BY <2>1 DEF Dir
<1>7. fresh \in SUBSET Table
  BY <1>2
<1>8. P \in [Table -> [Slot -> Entry \cup {NULL}]]
  <2>1. SUFFICES ASSUME NEW t \in Table, NEW i \in Slot PROVE P[t][i] \in Entry \cup {NULL}
    BY DEF Slot
  <2> DEFINE Q(v) == D[pde_i(v)] = t /\ pte_i(v) = i
  <2>2. P[t][i] = IF \E v \in vs : Q(v) THEN entry[CHOOSE v \in vs : Q(v)]
                  ELSE IF t \in fresh THEN NULL ELSE m.pt[t][i]
    BY DEF Slot
  <2> HIDE DEF Q, P
  <2>3. (\E v \in vs : Q(v)) => (CHOOSE v \in vs : Q(v)) \in vs
    OBVIOUS
  <2>. QED
    BY <2>2, <2>3, <1>5
<1> HIDE DEF D, fresh, P
<1>9. c = [dir |-> [m.dir EXCEPT ![p] = D], pt |-> P, live |-> m.live \cup fresh,
           list |-> m.list, num |-> m.num, alloc |-> m.alloc, data |-> m.data]
  BY <1>4, <1>5
<1>10. /\ c.dir = [m.dir EXCEPT ![p] = D] /\ c.pt = P /\ c.live = m.live \cup fresh
       /\ c.list = m.list /\ c.num = m.num /\ c.alloc = m.alloc /\ c.data = m.data
  BY <1>9
<1> HIDE DEF c
<1>11. c.dir \in [Proc -> [Dir -> Table \cup {NULL, Dangling}]]
  BY <1>5, <1>6, <1>10
<1>12. IsMemory(c)
  <2>1. c = [dir |-> c.dir, pt |-> c.pt, live |-> c.live, list |-> c.list, num |-> c.num,
             alloc |-> c.alloc, data |-> c.data]
    BY <1>9, <1>10
  <2>. QED
    BY <1>5, <1>7, <1>8, <1>10, <1>11, <2>1 DEF IsMemory
<1>13. c.dir[p] = D /\ \A q \in Proc : q # p => c.dir[q] = m.dir[q]
  BY <1>5, <1>10
<1>14. \A d \in Dir : c.dir[p][d] = IF d \in ds THEN g[d] ELSE m.dir[p][d]
  BY <1>13 DEF D, Dir
<1>15. \A t \in Table, i \in Slot : c.pt[t][i] =
         IF \E v \in vs : c.dir[p][pde_i(v)] = t /\ pte_i(v) = i
           THEN entry[CHOOSE v \in vs : c.dir[p][pde_i(v)] = t /\ pte_i(v) = i]
           ELSE IF t \in fresh THEN NULL ELSE m.pt[t][i]
  BY <1>10, <1>13 DEF P, Slot
<1>. QED
  BY <1>2, <1>10, <1>12, <1>13, <1>14, <1>15 DEF fresh, c

(* What entry says is mapped in p's directory, and nothing else changes    *)
(* but for the tables that were missing.                                   *)
Committed(c, m, p, entry) ==
  /\ Good(c) /\ Whole(c, p)
  /\ c.list = m.list /\ c.num = m.num /\ c.alloc = m.alloc /\ c.data = m.data
  /\ \A q \in Proc : q # p => c.dir[q] = m.dir[q]
  /\ \A v \in Page : pd_get_mapping(c, p, v) =
       IF v \in DOMAIN entry THEN entry[v] ELSE pd_get_mapping(m, p, v)
  /\ \A q \in Proc, v \in Page : q # p => pd_get_mapping(c, q, v) = pd_get_mapping(m, q, v)
  /\ \A d \in Dir : c.dir[p][d] = NULL
       <=> m.dir[p][d] = NULL /\ d \notin {pde_i(v) : v \in DOMAIN entry}
  /\ Cardinality(Table \ c.live) =
       Cardinality(Table \ m.live) - Cardinality(Missing(m, p, DOMAIN entry))

(* Commit allocates the missing tables, and maps the pages it is given and *)
(* no others.                                                              *)
LEMMA CommitIs ==
  ASSUME NEW m, Good(m), NEW p \in Proc, Whole(m, p),
         NEW entry, DOMAIN entry \in SUBSET Page,
         entry \in [DOMAIN entry -> Entry \cup {NULL}],
         HeapHas(m, Cardinality(Missing(m, p, DOMAIN entry)))
  PROVE  Committed(Commit(m, p, entry), m, p, entry)
<1> DEFINE vs == DOMAIN entry
           ds == Missing(m, p, vs)
           c == Commit(m, p, entry)
<1>1. PICK g \in [ds -> Table \ m.live] :
         /\ \A d, e \in ds : g[d] = g[e] => d = e
         /\ IsMemory(c)
         /\ c.list = m.list /\ c.num = m.num /\ c.alloc = m.alloc /\ c.data = m.data
         /\ c.live = m.live \cup {g[d] : d \in ds}
         /\ \A q \in Proc : q # p => c.dir[q] = m.dir[q]
         /\ \A d \in Dir : c.dir[p][d] = IF d \in ds THEN g[d] ELSE m.dir[p][d]
         /\ \A t \in Table, i \in Slot : c.pt[t][i] =
              IF \E v \in vs : c.dir[p][pde_i(v)] = t /\ pte_i(v) = i
                THEN entry[CHOOSE v \in vs : c.dir[p][pde_i(v)] = t /\ pte_i(v) = i]
                ELSE IF t \in {g[d] : d \in ds} THEN NULL ELSE m.pt[t][i]
  BY CommitFields
<1>2. ds \in SUBSET Dir /\ \A d \in Dir : d \in ds <=> m.dir[p][d] = NULL /\ d \in {pde_i(v) : v \in vs}
  BY PageSplit DEF Missing
<1>3. /\ m.dir \in [Proc -> [Dir -> Table \cup {NULL, Dangling}]] /\ m.live \in SUBSET Table
      /\ IsFiniteSet(Table \ m.live) /\ Owned(m)
  BY GoodFields
<1>4. NULL \notin Table /\ Dangling \notin Table /\ NULL # Dangling
  BY Kinds
<1>5. \A d \in Dir : m.dir[p][d] # Dangling
  BY DEF Whole
<1>6. \A v \in Page : pde_i(v) \in Dir /\ pte_i(v) \in Slot
  BY PageSplit
<1>7. \A v, w \in Page : pde_i(v) = pde_i(w) /\ pte_i(v) = pte_i(w) => v = w
  BY PageSplit
<1> HIDE DEF c, ds
<1>8. Owned(c)
  <2>1. ASSUME NEW t \in c.live PROVE \E q \in Proc : \E d \in Dir : c.dir[q][d] = t
    <3>1. CASE t \in m.live
      <4>1. PICK q \in Proc, d \in Dir : m.dir[q][d] = t
        BY <1>3, <3>1 DEF Owned
      <4>2. c.dir[q][d] = t
        BY <1>1, <1>2, <1>3, <1>4, <3>1, <4>1
      <4>. QED
        BY <4>2
    <3>2. CASE t \in {g[d] : d \in ds}
      BY <1>1, <1>2, <3>2
    <3>. QED
      BY <1>1, <3>1, <3>2
  <2>2. ASSUME NEW q \in Proc, NEW d \in Dir, c.dir[q][d] \in Table PROVE c.dir[q][d] \in c.live
    <3>1. CASE q = p /\ d \in ds
      BY <1>1, <3>1
    <3>2. CASE ~(q = p /\ d \in ds)
      <4>1. c.dir[q][d] = m.dir[q][d]
        BY <1>1, <3>2
      <4>. QED
        BY <1>1, <1>3, <2>2, <4>1 DEF Owned
    <3>. QED
      BY <3>1, <3>2
  <2>3. ASSUME NEW q \in Proc, NEW r \in Proc, NEW d \in Dir, NEW e \in Dir,
               c.dir[q][d] \in Table, c.dir[q][d] = c.dir[r][e]
        PROVE  q = r /\ d = e
    <3> DEFINE New(x, y) == x = p /\ y \in ds
    <3>1. \A x \in Proc, y \in Dir : New(x, y) => c.dir[x][y] = g[y] /\ g[y] \notin m.live
      BY <1>1
    <3>2. \A x \in Proc, y \in Dir : ~New(x, y) => c.dir[x][y] = m.dir[x][y]
      BY <1>1
    <3>3. \A x \in Proc, y \in Dir : m.dir[x][y] \in Table => m.dir[x][y] \in m.live
      BY <1>3 DEF Owned
    <3>4. CASE New(q, d) /\ New(r, e)
      BY <1>1, <2>3, <3>1, <3>4
    <3>5. CASE ~New(q, d) /\ ~New(r, e)
      BY <1>3, <2>3, <3>2, <3>5 DEF Owned
    <3> HIDE DEF New
    <3>6. CASE New(q, d) /\ ~New(r, e)
      BY <2>3, <3>1, <3>2, <3>3, <3>6
    <3>7. CASE ~New(q, d) /\ New(r, e)
      BY <2>3, <3>1, <3>2, <3>3, <3>7
    <3>. QED
      BY <3>4, <3>5, <3>6, <3>7
  <2>. QED
    BY <2>1, <2>2, <2>3 DEF Owned
<1>9. \A q \in Proc, d \in Dir, e \in Dir :
        c.dir[p][d] \in Table /\ c.dir[p][d] = c.dir[q][e] => q = p /\ d = e
  BY <1>8 DEF Owned
<1>10. ASSUME NEW v \in vs PROVE pd_get_mapping(c, p, v) = entry[v]
  <2> DEFINE t == c.dir[p][pde_i(v)]
             Q(w) == c.dir[p][pde_i(w)] = t /\ pte_i(w) = pte_i(v)
  <2>1. t \in Table
    BY <1>1, <1>2, <1>3, <1>5, <1>6
  <2>2. \A w \in vs : Q(w) => w = v
    BY <1>6, <1>7, <1>9, <2>1
  <2>3. Q(v)
    OBVIOUS
  <2>4. c.pt[t][pte_i(v)] = IF \E w \in vs : Q(w) THEN entry[CHOOSE w \in vs : Q(w)]
          ELSE IF t \in {g[d] : d \in ds} THEN NULL ELSE m.pt[t][pte_i(v)]
    BY <1>1, <1>6, <2>1
  <2>5. pd_get_mapping(c, p, v) = c.pt[t][pte_i(v)]
    BY <2>1 DEF pd_get_mapping
  <2> HIDE DEF Q, t
  <2>. QED
    BY <2>2, <2>3, <2>4, <2>5
<1>11. ASSUME NEW v \in Page, v \notin vs PROVE pd_get_mapping(c, p, v) = pd_get_mapping(m, p, v)
  <2> DEFINE t == c.dir[p][pde_i(v)]
             Q(w) == c.dir[p][pde_i(w)] = t /\ pte_i(w) = pte_i(v)
  <2>1. CASE t \notin Table
    <3>1. m.dir[p][pde_i(v)] = t
      BY <1>1, <1>6, <2>1
    <3>. QED
      BY <2>1, <3>1 DEF pd_get_mapping
  <2>2. CASE t \in Table
    <3>1. \A w \in vs : ~Q(w)
      BY <1>6, <1>7, <1>9, <1>11, <2>2
    <3>2. c.pt[t][pte_i(v)] = IF \E w \in vs : Q(w) THEN entry[CHOOSE w \in vs : Q(w)]
            ELSE IF t \in {g[d] : d \in ds} THEN NULL ELSE m.pt[t][pte_i(v)]
      BY <1>1, <1>6, <2>2
    <3>3. pd_get_mapping(c, p, v) = c.pt[t][pte_i(v)]
      BY <2>2 DEF pd_get_mapping
    <3> HIDE DEF Q
    <3>4. pd_get_mapping(c, p, v) = IF t \in {g[d] : d \in ds} THEN NULL ELSE m.pt[t][pte_i(v)]
      BY <3>1, <3>2, <3>3
    <3>5. CASE pde_i(v) \in ds
      <4>1. t = g[pde_i(v)]
        BY <1>1, <1>6, <3>5
      <4>2. m.dir[p][pde_i(v)] = NULL
        BY <1>2, <1>6, <3>5
      <4>. QED
        BY <1>4, <3>4, <3>5, <4>1, <4>2 DEF pd_get_mapping
    <3>6. CASE pde_i(v) \notin ds
      <4>1. t = m.dir[p][pde_i(v)]
        BY <1>1, <1>6, <3>6
      <4>2. t \in m.live
        BY <1>3, <1>6, <2>2, <4>1 DEF Owned
      <4>3. t \notin {g[d] : d \in ds}
        BY <4>2
      <4> HIDE DEF t
      <4>. QED
        BY <2>2, <3>4, <4>1, <4>3 DEF pd_get_mapping
    <3>. QED
      BY <3>5, <3>6
  <2>. QED
    BY <2>1, <2>2
<1>12. ASSUME NEW q \in Proc, NEW v \in Page, q # p
       PROVE  pd_get_mapping(c, q, v) = pd_get_mapping(m, q, v)
  <2> DEFINE t == c.dir[q][pde_i(v)]
             Q(w) == c.dir[p][pde_i(w)] = t /\ pte_i(w) = pte_i(v)
  <2>1. t = m.dir[q][pde_i(v)]
    BY <1>1, <1>12
  <2>2. CASE t \notin Table
    BY <2>1, <2>2 DEF pd_get_mapping
  <2>3. CASE t \in Table
    <3>1. \A w \in vs : ~Q(w)
      BY <1>6, <1>9, <1>12, <2>3
    <3>2. c.pt[t][pte_i(v)] = IF \E w \in vs : Q(w) THEN entry[CHOOSE w \in vs : Q(w)]
            ELSE IF t \in {g[d] : d \in ds} THEN NULL ELSE m.pt[t][pte_i(v)]
      BY <1>1, <1>6, <2>3
    <3>3. t \in m.live
      BY <1>3, <1>6, <2>1, <2>3 DEF Owned
    <3>4. t \notin {g[d] : d \in ds}
      BY <3>3
    <3>5. pd_get_mapping(c, q, v) = c.pt[t][pte_i(v)]
      BY <2>3 DEF pd_get_mapping
    <3> HIDE DEF Q, t
    <3>6. pd_get_mapping(m, q, v) = m.pt[t][pte_i(v)]
      BY <2>1, <2>3 DEF pd_get_mapping
    <3>. QED
      BY <3>1, <3>2, <3>4, <3>5, <3>6
  <2>. QED
    BY <2>2, <2>3
<1>13. Whole(c, p)
  BY <1>1, <1>4, <1>5 DEF Whole
<1>14. \A d \in Dir : c.dir[p][d] = NULL <=> m.dir[p][d] = NULL /\ d \notin {pde_i(v) : v \in vs}
  BY <1>1, <1>2, <1>4
<1>15. Cardinality(Table \ c.live) = Cardinality(Table \ m.live) - Cardinality(ds)
  <2> DEFINE F == Table \ m.live
             G == {g[d] : d \in ds}
  <2>1. IsFiniteSet(ds)
    BY <1>2, Sizes, FS_Subset
  <2>5. IsFiniteSet(G) /\ Cardinality(G) = Cardinality(ds)
    <3>1. g \in [ds -> G] /\ \A t \in G : \E d \in ds : g[d] = t
      OBVIOUS
    <3> HIDE DEF G
    <3>. QED
      BY <1>1, <2>1, <3>1, OneToOne
  <2>6. Table \ c.live = F \ G /\ G \subseteq F
    BY <1>1
  <2>7. F \cap G = G
    BY <2>6
  <2> HIDE DEF F, G
  <2>8. Cardinality(F \ G) = Cardinality(F) - Cardinality(F \cap G)
    BY <1>3, FS_Difference DEF F
  <2>. QED
    BY <2>5, <2>6, <2>7, <2>8 DEF F
<1>. QED
  BY <1>1, <1>8, <1>10, <1>11, <1>12, <1>13, <1>14, <1>15 DEF Committed, Good, c, ds

-----------------------------------------------------------------------------
(* The other changes of a memory. *)

(* Only the contents of a frame change. *)
LEMMA DataIs ==
  ASSUME NEW m, Good(m), NEW f \in Frame, NEW x, x = [o \in Page |-> x[o]]
  PROVE  LET c == [m EXCEPT !.data[f] = x]
         IN  /\ IsMemory(c) /\ c.dir = m.dir /\ c.pt = m.pt /\ c.live = m.live
             /\ c.list = m.list /\ c.num = m.num /\ c.alloc = m.alloc
             /\ Kept(c, m, {f}) /\ c.data[f] = x
<1> DEFINE c == [m EXCEPT !.data[f] = x]
<1>0. /\ m = [dir |-> m.dir, pt |-> m.pt, live |-> m.live, list |-> m.list, num |-> m.num,
              alloc |-> m.alloc, data |-> m.data]
      /\ m.dir \in [Proc -> [Dir -> Table \cup {NULL, Dangling}]]
      /\ m.pt \in [Table -> [Slot -> Entry \cup {NULL}]]
      /\ m.live \in SUBSET Table
      /\ m.list \in [Proc -> Seq(Slip)] /\ m.num \in [Proc -> Int] /\ m.alloc \in [Frame -> Int]
      /\ IsContents(m.data)
  BY GoodFields DEF IsMemory
<1> DEFINE D == [m.data EXCEPT ![f] = x]
<1>1. c = [m EXCEPT !.data = D]
  OBVIOUS
<1>2. D = [g \in Frame |-> IF g = f THEN x ELSE m.data[g]]
  BY <1>0 DEF IsContents
<1> HIDE DEF c, D
<1>3. D[f] = x /\ \A g \in Frame : g # f => D[g] = m.data[g]
  BY <1>2
<1>4. IsContents(D)
  <2>1. D = [g \in Frame |-> D[g]]
    BY <1>2
  <2>2. ASSUME NEW g \in Frame PROVE D[g] = [o \in Page |-> D[g][o]]
    <3>1. CASE g = f
      BY <1>3, <3>1
    <3>2. CASE g # f
      <4>1. D[g] = m.data[g]
        BY <1>3, <3>2
      <4>2. m.data[g] = [o \in Page |-> m.data[g][o]]
        BY <1>0 DEF IsContents
      <4>. QED
        BY <4>1, <4>2
    <3>. QED
      BY <3>1, <3>2
  <2>. QED
    BY <2>1, <2>2 DEF IsContents
<1>5. c = [dir |-> m.dir, pt |-> m.pt, live |-> m.live, list |-> m.list, num |-> m.num,
           alloc |-> m.alloc, data |-> D]
  BY <1>1, <1>0
<1>6. /\ c.dir = m.dir /\ c.pt = m.pt /\ c.live = m.live /\ c.list = m.list /\ c.num = m.num
      /\ c.alloc = m.alloc /\ c.data = D
  BY <1>5
<1>7. c = [dir |-> c.dir, pt |-> c.pt, live |-> c.live, list |-> c.list, num |-> c.num,
           alloc |-> c.alloc, data |-> c.data]
  BY <1>5, <1>6
<1>8. IsMemory(c)
  BY <1>0, <1>6, <1>7, <1>4 DEF IsMemory
<1>9. Kept(c, m, {f}) /\ c.data[f] = x
  BY <1>6, <1>3 DEF Kept
<1>. QED
  BY <1>6, <1>8, <1>9 DEF c

(* p has the frame f, of n pages; the tables are as they were. *)
Given(c, m, p, f, n) ==
  /\ IsMemory(c) /\ c.dir = m.dir /\ c.pt = m.pt /\ c.live = m.live
  /\ c.list = [m.list EXCEPT ![p] = <<[f |-> f, n |-> n]>> \o @]
  /\ c.num = [m.num EXCEPT ![p] = @ + n]
  /\ c.alloc = [m.alloc EXCEPT ![f] = n] /\ c.data = m.data

(* A frame is given to p. *)
LEMMA GiveFrameIs ==
  ASSUME NEW m, Good(m), NEW p \in Proc, NEW f \in Frame, NEW n \in Int
  PROVE  Given(GiveFrame(m, p, f, n), m, p, f, n)
<1> DEFINE c == GiveFrame(m, p, f, n)
           L == [m.list EXCEPT ![p] = <<[f |-> f, n |-> n]>> \o @]
           N == [m.num EXCEPT ![p] = @ + n]
           A == [m.alloc EXCEPT ![f] = n]
<1>1. /\ m = [dir |-> m.dir, pt |-> m.pt, live |-> m.live, list |-> m.list, num |-> m.num,
              alloc |-> m.alloc, data |-> m.data]
      /\ m.dir \in [Proc -> [Dir -> Table \cup {NULL, Dangling}]]
      /\ m.pt \in [Table -> [Slot -> Entry \cup {NULL}]]
      /\ m.live \in SUBSET Table
      /\ m.list \in [Proc -> Seq(Slip)] /\ m.num \in [Proc -> Int] /\ m.alloc \in [Frame -> Int]
      /\ IsContents(m.data)
  BY GoodFields DEF IsMemory
<1>2. L \in [Proc -> Seq(Slip)]
  <2>1. <<[f |-> f, n |-> n]>> \in Seq(Slip)
    BY DEF Slip
  <2>2. m.list[p] \in Seq(Slip)
    BY <1>1
  <2>3. <<[f |-> f, n |-> n]>> \o m.list[p] \in Seq(Slip)
    BY <2>1, <2>2, ConcatProperties
  <2>. QED
    BY <1>1, <2>3
<1>3. N \in [Proc -> Int] /\ A \in [Frame -> Int]
  BY <1>1
<1>4. c = [m EXCEPT !.alloc = A, !.list = L, !.num = N]
  BY <1>1 DEF GiveFrame
<1> HIDE DEF c, L, N, A
<1>5. c = [dir |-> m.dir, pt |-> m.pt, live |-> m.live, list |-> L, num |-> N,
           alloc |-> A, data |-> m.data]
  BY <1>1, <1>4
<1>6. /\ c.dir = m.dir /\ c.pt = m.pt /\ c.live = m.live /\ c.list = L /\ c.num = N
      /\ c.alloc = A /\ c.data = m.data
  BY <1>5
<1>7. c = [dir |-> c.dir, pt |-> c.pt, live |-> c.live, list |-> c.list, num |-> c.num,
           alloc |-> c.alloc, data |-> c.data]
  BY <1>5, <1>6
<1>8. IsMemory(c)
  BY <1>1, <1>2, <1>3, <1>6, <1>7 DEF IsMemory
<1>. QED
  BY <1>6, <1>8 DEF Given, c, L, N, A

(* The frame f, of n pages, is p's, and the pages entry has something for  *)
(* are mapped that way.                                                    *)
Placed(c, m, p, f, n, entry) ==
  /\ Good(c) /\ Whole(c, p)
  /\ \A q \in Proc : q # p => c.dir[q] = m.dir[q]
  /\ \A v \in Page : pd_get_mapping(c, p, v) =
       IF v \in DOMAIN entry THEN entry[v] ELSE pd_get_mapping(m, p, v)
  /\ \A q \in Proc, v \in Page : q # p => pd_get_mapping(c, q, v) = pd_get_mapping(m, q, v)
  /\ \A d \in Dir : c.dir[p][d] = NULL
       <=> m.dir[p][d] = NULL /\ d \notin {pde_i(v) : v \in DOMAIN entry}
  /\ Cardinality(Table \ c.live) =
       Cardinality(Table \ m.live) - Cardinality(Missing(m, p, DOMAIN entry))
  /\ c.list = [m.list EXCEPT ![p] = <<[f |-> f, n |-> n]>> \o @]
  /\ c.num = [m.num EXCEPT ![p] = @ + n]
  /\ c.alloc = [m.alloc EXCEPT ![f] = n]
  /\ Kept(c, m, {f})

(* A frame is given to p and pages of it are mapped; then it is written. *)
LEMMA PlaceIs ==
  ASSUME NEW m, Good(m), NEW p \in Proc, Whole(m, p), NEW f \in Frame, NEW n \in Int,
         NEW entry, DOMAIN entry \in SUBSET Page,
         entry \in [DOMAIN entry -> Entry \cup {NULL}],
         HeapHas(m, Cardinality(Missing(m, p, DOMAIN entry))), NEW x,
         x = [o \in DOMAIN Commit(GiveFrame(m, p, f, n), p, entry).data[f] |-> x[o]]
  PROVE  LET c == Commit(GiveFrame(m, p, f, n), p, entry)
             e == [c EXCEPT !.data[f] = x]
         IN  Placed(e, m, p, f, n, entry) /\ c.data = m.data /\ e.data[f] = x
<1> DEFINE g == GiveFrame(m, p, f, n)
           c == Commit(g, p, entry)
           e == [c EXCEPT !.data[f] = x]
<1>1. Given(g, m, p, f, n)
  BY GiveFrameIs
<1> HIDE DEF g
<1>2. Good(g) /\ \A q, v : pd_get_mapping(g, q, v) = pd_get_mapping(m, q, v)
  BY <1>1, SameTables DEF Given
<1>3. Missing(g, p, DOMAIN entry) = Missing(m, p, DOMAIN entry)
  BY <1>1 DEF Given, Missing
<1>4. Whole(g, p) /\ HeapHas(g, Cardinality(Missing(g, p, DOMAIN entry)))
  BY <1>1, <1>3 DEF Given, Whole, HeapHas
<1>5. Committed(c, g, p, entry)
  BY <1>2, <1>4, CommitIs
<1>6. x = [o \in DOMAIN c.data[f] |-> x[o]]
  BY DEF g
<1> HIDE DEF c
<1>7. c.data = m.data
  BY <1>1, <1>5 DEF Given, Committed
<1>8. x = [o \in Page |-> x[o]]
  <2>1. DOMAIN m.data[f] = Page
    BY Contents
  <2>. QED
    BY <1>7, <1>6, <2>1
<1>9. /\ IsMemory(e) /\ e.dir = c.dir /\ e.pt = c.pt /\ e.live = c.live
      /\ e.list = c.list /\ e.num = c.num /\ e.alloc = c.alloc
      /\ Kept(e, c, {f}) /\ e.data[f] = x
  <2>1. Good(c)
    BY <1>5 DEF Committed
  <2>. QED
    BY <1>8, <2>1, DataIs
<1> HIDE DEF e
<1>10. Good(e) /\ \A q, v : pd_get_mapping(e, q, v) = pd_get_mapping(c, q, v)
  BY <1>5, <1>9, SameTables DEF Committed
<1>11. Whole(e, p)
  BY <1>5, <1>9 DEF Committed, Whole
<1>12. Kept(e, m, {f})
  BY <1>9, <1>7 DEF Kept
<1>13. Placed(e, m, p, f, n, entry)
  BY <1>1, <1>2, <1>3, <1>5, <1>9, <1>10, <1>11, <1>12 DEF Placed, Committed, Given
<1>. QED
  BY <1>9, <1>7, <1>13 DEF e, c, g

(* Entries of p's directory that were NULL are not any more, and no page   *)
(* is mapped or unmapped.                                                  *)
LEMMA AbortIs ==
  ASSUME NEW m, Good(m), NEW p \in Proc, NEW vs \in SUBSET Page
  PROVE  LET c == Abort(m, p, vs)
         IN  /\ Good(c) /\ c.live = m.live
             /\ c.list = m.list /\ c.num = m.num /\ c.alloc = m.alloc /\ c.data = m.data
             /\ \A q \in Proc : q # p => c.dir[q] = m.dir[q]
             /\ \A q \in Proc, v \in Page : pd_get_mapping(c, q, v) = pd_get_mapping(m, q, v)
<1> DEFINE ds == Missing(m, p, vs)
           made == {d \in ds : Cardinality({e \in ds : e < d}) < Cardinality(Table \ m.live)}
           D == [d \in 0 .. NumPDE - 1 |-> IF d \in made THEN Dangling ELSE m.dir[p][d]]
           c == Abort(m, p, vs)
<1>1. /\ m = [dir |-> m.dir, pt |-> m.pt, live |-> m.live, list |-> m.list, num |-> m.num,
              alloc |-> m.alloc, data |-> m.data]
      /\ m.dir \in [Proc -> [Dir -> Table \cup {NULL, Dangling}]]
      /\ m.pt \in [Table -> [Slot -> Entry \cup {NULL}]]
      /\ m.live \in SUBSET Table
      /\ m.list \in [Proc -> Seq(Slip)] /\ m.num \in [Proc -> Int] /\ m.alloc \in [Frame -> Int]
      /\ IsContents(m.data)
  BY GoodFields DEF IsMemory
<1>2. c = [m EXCEPT !.dir[p] = D]
  BY DEF Abort
<1>3. \A d \in made : m.dir[p][d] = NULL
  BY DEF Missing
<1> HIDE DEF made, c
<1>4. D \in [Dir -> Table \cup {NULL, Dangling}]
  <2>1. ASSUME NEW d \in Dir
        PROVE  (IF d \in made THEN Dangling ELSE m.dir[p][d]) \in Table \cup {NULL, Dangling}
    BY <1>1
  <2>. QED
    BY <2>1 DEF Dir
<1>5. \A d \in Dir : D[d] = IF d \in made THEN Dangling ELSE m.dir[p][d]
  BY DEF Dir
<1> DEFINE E == [m.dir EXCEPT ![p] = D]
<1>6. E \in [Proc -> [Dir -> Table \cup {NULL, Dangling}]] /\ E[p] = D
      /\ \A q \in Proc : q # p => E[q] = m.dir[q]
  BY <1>1, <1>4
<1>7. c = [m EXCEPT !.dir = E]
  BY <1>1, <1>2
<1> HIDE DEF D, E
<1>8. c = [dir |-> E, pt |-> m.pt, live |-> m.live, list |-> m.list, num |-> m.num,
           alloc |-> m.alloc, data |-> m.data]
  BY <1>1, <1>7
<1>9. /\ c.dir = E /\ c.pt = m.pt /\ c.live = m.live /\ c.list = m.list /\ c.num = m.num
      /\ c.alloc = m.alloc /\ c.data = m.data
  BY <1>8
<1>10. c = [dir |-> c.dir, pt |-> c.pt, live |-> c.live, list |-> c.list, num |-> c.num,
            alloc |-> c.alloc, data |-> c.data]
  BY <1>8, <1>9
<1>11. IsMemory(c)
  BY <1>1, <1>6, <1>9, <1>10 DEF IsMemory
<1>12. \A q \in Proc, d \in Dir :
         \/ c.dir[q][d] = m.dir[q][d]
         \/ c.dir[q][d] = Dangling /\ m.dir[q][d] = NULL
  BY <1>3, <1>5, <1>6, <1>9
<1>13. NULL \notin Table /\ Dangling \notin Table
  BY Kinds
<1>14. Owned(m)
  BY GoodFields
<1>15. Owned(c)
  <2>1. \A q \in Proc, d \in Dir : c.dir[q][d] \in Table \/ m.dir[q][d] \in Table
                                     => c.dir[q][d] = m.dir[q][d]
    BY <1>12, <1>13
  <2>2. ASSUME NEW t \in c.live PROVE \E q \in Proc : \E d \in Dir : c.dir[q][d] = t
    <3>1. PICK q \in Proc, d \in Dir : m.dir[q][d] = t
      BY <1>9, <1>14 DEF Owned
    <3>. QED
      BY <1>1, <1>9, <2>1, <3>1
  <2>3. \A q \in Proc, d \in Dir : c.dir[q][d] \in Table => c.dir[q][d] \in c.live
    BY <1>9, <1>14, <2>1 DEF Owned
  <2>4. \A q, r \in Proc : \A d, e \in Dir :
          c.dir[q][d] \in Table /\ c.dir[q][d] = c.dir[r][e] => q = r /\ d = e
    <3>1. SUFFICES ASSUME NEW q \in Proc, NEW r \in Proc, NEW d \in Dir, NEW e \in Dir,
                          c.dir[q][d] \in Table, c.dir[q][d] = c.dir[r][e]
                   PROVE  q = r /\ d = e
      OBVIOUS
    <3>2. m.dir[q][d] = c.dir[q][d] /\ m.dir[r][e] = c.dir[r][e]
      BY <2>1, <3>1
    <3>. QED
      BY <1>14, <3>1, <3>2 DEF Owned
  <2>. QED
    BY <2>2, <2>3, <2>4 DEF Owned
<1>16. \A q \in Proc : q # p => c.dir[q] = m.dir[q]
  BY <1>6, <1>9
<1>17. \A q \in Proc, v \in Page : pd_get_mapping(c, q, v) = pd_get_mapping(m, q, v)
  BY <1>9, <1>12, <1>13, PageSplit DEF pd_get_mapping
<1>. QED
  BY <1>9, <1>11, <1>15, <1>16, <1>17 DEF Good, c

(* The user part of p's directory is empty, and so is its list; the frames *)
(* and the tables that were in them are free.                              *)
Cleared(c, m, p) ==
  /\ Good(c)
  /\ \A q \in Proc : q # p =>
       /\ c.dir[q] = m.dir[q] /\ c.list[q] = m.list[q] /\ c.num[q] = m.num[q]
       /\ \A v \in Page : pd_get_mapping(c, q, v) = pd_get_mapping(m, q, v)
  /\ \A d \in Dir : c.dir[p][d] = NULL
  /\ \A v \in Page : pd_get_mapping(c, p, v) = NULL
  /\ c.list[p] = <<>> /\ c.num[p] = 0
  /\ \A f \in Frame : c.alloc[f] =
       IF f \in {m.list[p][i].f : i \in DOMAIN m.list[p]} THEN 0 ELSE m.alloc[f]
  /\ Kept(c, m, {m.list[p][i].f : i \in DOMAIN m.list[p]})

(* What clearing does. *)
LEMMA ClearIs ==
  ASSUME NEW m, Good(m), NEW p \in Proc
  PROVE  Cleared(vmm_clear_user_space(m, p), m, p)
<1> DEFINE mine == {m.list[p][i].f : i \in DOMAIN m.list[p]}
           A == [f \in Frame |-> IF f \in mine THEN 0 ELSE m.alloc[f]]
           B == [f \in Frame |-> IF f \in mine THEN Garbage ELSE m.data[f]]
           L == [m.list EXCEPT ![p] = <<>>]
           N == [m.num EXCEPT ![p] = 0]
           a == pd_dealloc_all_frames(m, p)
           tables == {a.dir[p][d] : d \in DOMAIN a.dir[p]}
           T == [t \in Table |-> IF t \in tables THEN EmptyTable ELSE a.pt[t]]
           D == [d \in DOMAIN a.dir[p] |-> NULL]
           c == pd_clear_user_space(a, p)
<1>1. /\ m = [dir |-> m.dir, pt |-> m.pt, live |-> m.live, list |-> m.list, num |-> m.num,
              alloc |-> m.alloc, data |-> m.data]
      /\ m.dir \in [Proc -> [Dir -> Table \cup {NULL, Dangling}]]
      /\ m.pt \in [Table -> [Slot -> Entry \cup {NULL}]]
      /\ m.live \in SUBSET Table
      /\ m.list \in [Proc -> Seq(Slip)] /\ m.num \in [Proc -> Int] /\ m.alloc \in [Frame -> Int]
      /\ IsContents(m.data)
  BY GoodFields DEF IsMemory
<1>2. a = [m EXCEPT !.alloc = A, !.data = B, !.list = L, !.num = N]
  BY <1>1 DEF pd_dealloc_all_frames
<1>3. /\ L \in [Proc -> Seq(Slip)] /\ N \in [Proc -> Int] /\ A \in [Frame -> Int]
      /\ L[p] = <<>> /\ N[p] = 0
      /\ \A q \in Proc : q # p => L[q] = m.list[q] /\ N[q] = m.num[q]
      /\ \A f \in Frame : A[f] = IF f \in mine THEN 0 ELSE m.alloc[f]
  <2>1. <<>> \in Seq(Slip)
    OBVIOUS
  <2> HIDE DEF mine
  <2>. QED
    BY <1>1, <2>1
<1>4. IsContents(B) /\ \A f \in Frame : f \notin mine => B[f] = m.data[f]
  <2>1. Garbage = [o \in Page |-> Garbage[o]]
    BY DEF Garbage
  <2> HIDE DEF mine
  <2>2. \A f \in Frame : B[f] = IF f \in mine THEN Garbage ELSE m.data[f]
    OBVIOUS
  <2>3. B = [f \in Frame |-> B[f]]
    OBVIOUS
  <2> HIDE DEF B
  <2>4. \A f \in Frame : B[f] = [o \in Page |-> B[f][o]]
    BY <1>1, <2>1, <2>2 DEF IsContents
  <2>. QED
    BY <2>2, <2>3, <2>4 DEF IsContents
<1> HIDE DEF A, B, L, N, a
<1>5. a = [dir |-> m.dir, pt |-> m.pt, live |-> m.live, list |-> L, num |-> N,
           alloc |-> A, data |-> B]
  BY <1>1, <1>2
<1>6. /\ a.dir = m.dir /\ a.pt = m.pt /\ a.live = m.live /\ a.list = L /\ a.num = N
      /\ a.alloc = A /\ a.data = B
  BY <1>5
<1>7. c = [a EXCEPT !.live = @ \ tables, !.pt = T, !.dir[p] = D]
  BY DEF pd_clear_user_space
<1>8. tables = {m.dir[p][d] : d \in Dir} /\ D = [d \in Dir |-> NULL]
  BY <1>1, <1>6
<1>9. T \in [Table -> [Slot -> Entry \cup {NULL}]]
      /\ \A t \in Table : t \notin tables => T[t] = m.pt[t]
  <2>1. EmptyTable \in [Slot -> Entry \cup {NULL}]
    BY DEF EmptyTable, Slot
  <2> HIDE DEF tables
  <2>. QED
    BY <1>1, <1>6, <2>1
<1> DEFINE E == [m.dir EXCEPT ![p] = D]
           V == m.live \ tables
<1>10. E \in [Proc -> [Dir -> Table \cup {NULL, Dangling}]] /\ E[p] = D
      /\ \A q \in Proc : q # p => E[q] = m.dir[q]
  BY <1>1, <1>8
<1>11. c = [a EXCEPT !.live = V, !.pt = T, !.dir = E]
  BY <1>6, <1>7
<1>12. V \in SUBSET Table
  BY <1>1
<1> HIDE DEF tables, T, D, c, E, V
<1>13. c = [dir |-> E, pt |-> T, live |-> V, list |-> L, num |-> N, alloc |-> A, data |-> B]
  BY <1>5, <1>11
<1>14. /\ c.dir = E /\ c.pt = T /\ c.live = V /\ c.list = L /\ c.num = N
       /\ c.alloc = A /\ c.data = B
  BY <1>13
<1>15. c = [dir |-> c.dir, pt |-> c.pt, live |-> c.live, list |-> c.list, num |-> c.num,
            alloc |-> c.alloc, data |-> c.data]
  BY <1>13, <1>14
<1>16. IsMemory(c)
  BY <1>3, <1>9, <1>10, <1>12, <1>14, <1>15, <1>4 DEF IsMemory
<1>17. NULL \notin Table /\ Dangling \notin Table
  BY Kinds
<1>18. Owned(m)
  BY GoodFields
<1>19. \A d \in Dir : c.dir[p][d] = NULL
  BY <1>8, <1>10, <1>14
<1>20. \A q \in Proc : q # p => c.dir[q] = m.dir[q]
  BY <1>10, <1>14
<1>21. \A q \in Proc, d \in Dir : q # p /\ c.dir[q][d] \in Table => c.dir[q][d] \notin tables
  <2>1. SUFFICES ASSUME NEW q \in Proc, NEW d \in Dir, q # p, c.dir[q][d] \in Table,
                        NEW e \in Dir, c.dir[q][d] = m.dir[p][e]
                 PROVE  FALSE
    BY <1>8
  <2>2. m.dir[q][d] = m.dir[p][e] /\ m.dir[q][d] \in Table
    BY <1>20, <2>1
  <2>. QED
    BY <1>18, <2>1, <2>2 DEF Owned
<1>22. Owned(c)
  <2>1. ASSUME NEW t \in c.live PROVE \E q \in Proc : \E d \in Dir : c.dir[q][d] = t
    <3>1. t \in m.live /\ t \notin tables
      BY <1>14 DEF V
    <3>2. PICK q \in Proc, d \in Dir : m.dir[q][d] = t
      BY <1>18, <3>1 DEF Owned
    <3>3. q # p
      BY <1>8, <3>1, <3>2
    <3>. QED
      BY <1>20, <3>2, <3>3
  <2>2. ASSUME NEW q \in Proc, NEW d \in Dir, c.dir[q][d] \in Table PROVE c.dir[q][d] \in c.live
    <3>1. q # p
      BY <1>17, <1>19, <2>2
    <3>2. c.dir[q][d] \in m.live
      BY <1>18, <1>20, <2>2, <3>1 DEF Owned
    <3>. QED
      BY <1>14, <1>21, <2>2, <3>1, <3>2 DEF V
  <2>3. ASSUME NEW q \in Proc, NEW r \in Proc, NEW d \in Dir, NEW e \in Dir,
               c.dir[q][d] \in Table, c.dir[q][d] = c.dir[r][e]
        PROVE  q = r /\ d = e
    <3>1. q # p /\ r # p
      BY <1>17, <1>19, <2>3
    <3>2. c.dir[q] = m.dir[q] /\ c.dir[r] = m.dir[r]
      BY <1>20, <3>1
    <3>. QED
      BY <1>18, <2>3, <3>2 DEF Owned
  <2>. QED
    BY <2>1, <2>2, <2>3 DEF Owned
<1>23. \A v \in Page : pd_get_mapping(c, p, v) = NULL
  BY <1>17, <1>19, PageSplit DEF pd_get_mapping
<1>24. ASSUME NEW q \in Proc, NEW v \in Page, q # p
       PROVE  pd_get_mapping(c, q, v) = pd_get_mapping(m, q, v)
  <2> DEFINE t == m.dir[q][pde_i(v)]
  <2>1. c.dir[q][pde_i(v)] = t
    BY <1>20, <1>24
  <2>2. t \in Table => c.pt[t] = m.pt[t]
    BY <1>9, <1>14, <1>21, <1>24, <2>1, PageSplit
  <2>. QED
    BY <2>1, <2>2 DEF pd_get_mapping
<1>25. c = vmm_clear_user_space(m, p)
  BY DEF vmm_clear_user_space, c, a
<1>26. \A f \in Frame : c.alloc[f] = IF f \in mine THEN 0 ELSE m.alloc[f]
  BY <1>3, <1>14
<1>27. c.list[p] = <<>> /\ c.num[p] = 0
       /\ \A q \in Proc : q # p => c.list[q] = m.list[q] /\ c.num[q] = m.num[q]
  BY <1>3, <1>14
<1> HIDE DEF mine
<1>28. Kept(c, m, mine)
  BY <1>14, <1>4 DEF Kept
<1>29. Cleared(c, m, p)
  BY <1>16, <1>19, <1>20, <1>22, <1>23, <1>24, <1>26, <1>27, <1>28 DEF Cleared, Good, mine
<1>. QED
  BY <1>25, <1>29

(* p's element for the frame f, its k-th, is taken out, and f is free. *)
Taken(c, m, p, f, k) ==
  /\ k \in DOMAIN m.list[p] /\ m.list[p][k].f = f
  /\ IsMemory(c) /\ c.dir = m.dir /\ c.pt = m.pt /\ c.live = m.live
  /\ c.list = [m.list EXCEPT ![p] = SubSeq(@, 1, k - 1) \o SubSeq(@, k + 1, Len(@))]
  /\ c.num = [m.num EXCEPT ![p] = @ - m.list[p][k].n]
  /\ c.alloc = [m.alloc EXCEPT ![f] = 0]
  /\ Kept(c, m, {f})

(* What fm_dealloc and pd_dealloc_frame do. *)
LEMMA TakeFrameIs ==
  ASSUME NEW m, Good(m), NEW p \in Proc, NEW f \in Frame, Listed(m, p, f)
  PROVE  \E k \in DOMAIN m.list[p] : Taken(TakeFrame(m, p, f), m, p, f, k)
<1> DEFINE k == CHOOSE i \in DOMAIN m.list[p] : m.list[p][i].f = f
           s == m.list[p]
           L == [m.list EXCEPT ![p] = SubSeq(@, 1, k - 1) \o SubSeq(@, k + 1, Len(@))]
           N == [m.num EXCEPT ![p] = @ - m.list[p][k].n]
           A == [m.alloc EXCEPT ![f] = 0]
           B == [m.data EXCEPT ![f] = Garbage]
           c == TakeFrame(m, p, f)
<1>1. /\ m = [dir |-> m.dir, pt |-> m.pt, live |-> m.live, list |-> m.list, num |-> m.num,
              alloc |-> m.alloc, data |-> m.data]
      /\ m.dir \in [Proc -> [Dir -> Table \cup {NULL, Dangling}]]
      /\ m.pt \in [Table -> [Slot -> Entry \cup {NULL}]]
      /\ m.live \in SUBSET Table
      /\ m.list \in [Proc -> Seq(Slip)] /\ m.num \in [Proc -> Int] /\ m.alloc \in [Frame -> Int]
      /\ IsContents(m.data)
  BY GoodFields DEF IsMemory
<1>2. k \in DOMAIN s /\ s[k].f = f
  BY DEF Listed
<1>3. c = [m EXCEPT !.num = N, !.list = L, !.alloc = A, !.data = B]
  BY <1>1 DEF TakeFrame
<1> HIDE DEF k, c
<1>4. s \in Seq(Slip) /\ s[k].n \in Int /\ k \in Int
  <2>1. s \in Seq(Slip)
    BY <1>1
  <2> HIDE DEF s
  <2>2. k \in 1 .. Len(s) /\ s[k] \in Slip
    BY <1>2, <2>1
  <2>. QED
    BY <2>1, <2>2 DEF Slip
<1>5. SubSeq(s, 1, k - 1) \o SubSeq(s, k + 1, Len(s)) \in Seq(Slip)
  <2>1. k \in 1 .. Len(s) /\ Len(s) \in Nat
    BY <1>2, <1>4
  <2>2. SubSeq(s, 1, k - 1) \in Seq(Slip) /\ SubSeq(s, k + 1, Len(s)) \in Seq(Slip)
    <3> HIDE DEF s
    <3>1. \A i \in 1 .. Len(s) : s[i] \in Slip
      BY <1>4
    <3>2. \A i \in 1 .. k - 1 : i \in 1 .. Len(s)
      BY <2>1
    <3>3. \A i \in k + 1 .. Len(s) : i \in 1 .. Len(s)
      BY <2>1
    <3>. QED
      BY <1>4, <2>1, <3>1, <3>2, <3>3, SubSeqProperties
  <2>. QED
    BY <2>2, ConcatProperties
<1>6. L \in [Proc -> Seq(Slip)] /\ N \in [Proc -> Int] /\ A \in [Frame -> Int]
  <2>1. L \in [Proc -> Seq(Slip)]
    BY <1>1, <1>5
  <2>2. N \in [Proc -> Int] /\ A \in [Frame -> Int]
    BY <1>1, <1>4
  <2>. QED
    BY <2>1, <2>2
<1>7. IsContents(B) /\ \A g \in Frame : g # f => B[g] = m.data[g]
  <2>1. Garbage = [o \in Page |-> Garbage[o]]
    BY DEF Garbage
  <2>2. B = [g \in Frame |-> IF g = f THEN Garbage ELSE m.data[g]]
    BY <1>1 DEF IsContents
  <2> HIDE DEF B
  <2>3. \A g \in Frame : B[g] = IF g = f THEN Garbage ELSE m.data[g]
    BY <2>2
  <2>4. B = [g \in Frame |-> B[g]]
    BY <2>2
  <2>5. \A g \in Frame : B[g] = [o \in Page |-> B[g][o]]
    BY <1>1, <2>1, <2>3 DEF IsContents
  <2>. QED
    BY <2>3, <2>4, <2>5 DEF IsContents
<1> HIDE DEF L, N, A, B
<1>8. c = [dir |-> m.dir, pt |-> m.pt, live |-> m.live, list |-> L, num |-> N,
           alloc |-> A, data |-> B]
  BY <1>1, <1>3
<1>9. /\ c.dir = m.dir /\ c.pt = m.pt /\ c.live = m.live /\ c.list = L /\ c.num = N
      /\ c.alloc = A /\ c.data = B
  BY <1>8
<1>10. c = [dir |-> c.dir, pt |-> c.pt, live |-> c.live, list |-> c.list, num |-> c.num,
           alloc |-> c.alloc, data |-> c.data]
  BY <1>8, <1>9
<1>11. IsMemory(c)
  BY <1>1, <1>6, <1>9, <1>10, <1>7 DEF IsMemory
<1>12. Kept(c, m, {f})
  BY <1>9, <1>7 DEF Kept
<1>13. Taken(c, m, p, f, k)
  BY <1>2, <1>9, <1>11, <1>12 DEF Taken, L, N, A
<1>. QED
  BY <1>2, <1>13 DEF c

-----------------------------------------------------------------------------
(* The flags of new_pages. *)

Begins(m, p, v) == v \in Mapped(m, p) /\ pd_get_mapping(m, p, v).start

(* What new_pages gave: the pages v to w. *)
Stretch(m, p, v, w) ==
  \A u \in v .. w :
    /\ u \in Mapped(m, p)
    /\ pd_get_mapping(m, p, u).end <=> u = w
    /\ pd_get_mapping(m, p, u).start <=> u = v

(* Every page that is flagged as a start has its end. *)
RegionsOf(m, p) ==
  \A v \in Page : Begins(m, p, v) => \E w \in Page : w >= v /\ Stretch(m, p, v, w)

(* The same flags on the same pages. *)
SameFlags(m, p, c, q) ==
  \A v \in Page :
    /\ v \in Mapped(c, q) <=> v \in Mapped(m, p)
    /\ v \in Mapped(m, p) =>
         /\ pd_get_mapping(c, q, v).start = pd_get_mapping(m, p, v).start
         /\ pd_get_mapping(c, q, v).end = pd_get_mapping(m, p, v).end

(* It takes no more. *)
LEMMA RegionsSame ==
  ASSUME NEW m, NEW p, NEW c, NEW q, SameFlags(m, p, c, q), RegionsOf(m, p)
  PROVE  /\ RegionsOf(c, q)
         /\ \A v, w \in Page : Stretch(m, p, v, w) => Stretch(c, q, v, w)
<1>1. \A v, w \in Page : \A u \in v .. w : u \in Page
  BY Sizes
<1>2. \A v, w \in Page : Stretch(m, p, v, w) => Stretch(c, q, v, w)
  <2>1. SUFFICES ASSUME NEW v \in Page, NEW w \in Page, Stretch(m, p, v, w), NEW u \in v .. w
                 PROVE  /\ u \in Mapped(c, q)
                        /\ pd_get_mapping(c, q, u).end <=> u = w
                        /\ pd_get_mapping(c, q, u).start <=> u = v
    BY DEF Stretch
  <2>2. u \in Page
    BY <1>1
  <2>. QED
    BY <2>1, <2>2 DEF Stretch, SameFlags
<1>3. \A v \in Page : Begins(c, q, v) => Begins(m, p, v)
  BY DEF Begins, SameFlags
<1>. QED
  BY <1>2, <1>3 DEF RegionsOf

(* Pages that are the same have the same flags. *)
LEMMA SameMappings ==
  ASSUME NEW m, NEW p, NEW c, NEW q,
         \A v \in Page : pd_get_mapping(c, q, v) = pd_get_mapping(m, p, v)
  PROVE  SameFlags(m, p, c, q) /\ Mapped(c, q) = Mapped(m, p)
BY DEF SameFlags, Mapped

(* remove_pages goes from a start to its end. *)
LEMMA FlaggedIs ==
  ASSUME NEW m, NEW p, NEW v \in Page, NEW w \in Page, w >= v, Stretch(m, p, v, w)
  PROVE  Flagged(m, p, v) = v .. w /\ v .. w \subseteq Mapped(m, p)
<1> DEFINE ends == {u \in Mapped(m, p) : u >= v /\ pd_get_mapping(m, p, u).end}
<1>1. v \in Nat /\ w \in Nat /\ Mapped(m, p) \in SUBSET Nat
  BY Sizes DEF Mapped
<1>2. ends \in SUBSET Nat /\ w \in ends
  BY <1>1 DEF Stretch
<1>3. ASSUME NEW u \in ends PROVE w <= u
  <2>1. u \in Nat /\ u >= v /\ pd_get_mapping(m, p, u).end
    BY <1>2
  <2>2. u \in v .. w => u = w
    BY <2>1 DEF Stretch
  <2>. QED
    BY <1>1, <2>1, <2>2
<1>4. Lowest(ends) \in ends /\ \A u \in ends : Lowest(ends) <= u
  BY <1>2, LowestIs
<1> HIDE DEF ends
<1>5. Lowest(ends) = w
  <2>1. Lowest(ends) <= w /\ Lowest(ends) \in Nat
    BY <1>2, <1>4
  <2>2. w <= Lowest(ends)
    BY <1>3, <1>4
  <2>. QED
    BY <1>1, <2>1, <2>2
<1>6. Flagged(m, p, v) = Region(v, Lowest(ends) - v + 1)
  BY DEF Flagged, ends
<1>7. Region(v, w - v + 1) = v .. w
  BY <1>1 DEF Region
<1>. QED
  BY <1>1, <1>5, <1>6, <1>7 DEF Stretch

-----------------------------------------------------------------------------
(* The operations. *)

(* A frame that is free. *)
LEMMA NextFrameIs ==
  ASSUME NEW m, FreeFrames(m) # {}
  PROVE  NextFrame(m) \in Frame /\ m.alloc[NextFrame(m)] = 0
BY DEF NextFrame, FreeFrames

(* What entry maps: n pages of the frame f, from base on, with the flags   *)
(* new_pages gives them.                                                   *)
NewEntries(entry, f, base, n) ==
  /\ DOMAIN entry = Region(base, n)
  /\ entry \in [DOMAIN entry -> Entry \cup {NULL}]
  /\ \A v \in Region(base, n) :
       /\ entry[v] \in Entry
       /\ entry[v].page = <<f, v - base>> /\ entry[v].rw
       /\ entry[v].start <=> v = base
       /\ entry[v].end <=> v = base + n - 1

(* The first n pages of the frame f are clear. *)
Clear(c, f, n) == \A o \in Page : o < n => c.data[f][o] = Zero

(* new_pages, and the heap has what it takes. *)
LEMMA NewPagesIs ==
  ASSUME NEW m, Good(m), NEW p \in Proc, Whole(m, p), NEW base \in Nat, NEW n \in Nat \ {0},
         NewPagesAllowed(m, p, base, n),
         HeapHas(m, Cardinality(Missing(m, p, Region(base, n))))
  PROVE  LET c == vmm_new_user_page(m, p, base, n)
         IN  \E entry : /\ NewEntries(entry, NextFrame(m), base, n)
                        /\ Placed(c, m, p, NextFrame(m), n, entry) /\ Clear(c, NextFrame(m), n)
<1> DEFINE f == NextFrame(m)
           vs == Region(base, n)
           entry == [v \in vs |-> Pte(f, v - base, TRUE, v = base, v = base + n - 1)]
           g == Commit(GiveFrame(m, p, f, n), p, entry)
           x == [o \in DOMAIN g.data[f] |-> IF o < n THEN Zero ELSE g.data[f][o]]
<1>1. f \in Frame
  BY NextFrameIs DEF NewPagesAllowed
<1>2. vs \in SUBSET Page /\ \A v \in vs : v - base \in Nat
  BY Sizes DEF NewPagesAllowed, Region
<1>3. NewEntries(entry, f, base, n)
  <2>1. \A v \in vs : entry[v] = Pte(f, v - base, TRUE, v = base, v = base + n - 1)
    OBVIOUS
  <2>2. DOMAIN entry = vs
    OBVIOUS
  <2> HIDE DEF entry, f
  <2>3. ASSUME NEW v \in vs
        PROVE  /\ entry[v] \in Entry
               /\ entry[v].page = <<f, v - base>> /\ entry[v].rw
               /\ entry[v].start <=> v = base
               /\ entry[v].end <=> v = base + n - 1
    <3> DEFINE b == v = base
               d == v = base + n - 1
    <3>1. b \in BOOLEAN /\ d \in BOOLEAN
      OBVIOUS
    <3>2. entry[v] = Pte(f, v - base, TRUE, b, d)
      BY <2>1
    <3>3. v - base \in Nat
      BY <1>2
    <3> HIDE DEF b, d
    <3>4. /\ entry[v] \in Entry /\ entry[v].page = <<f, v - base>> /\ entry[v].rw = TRUE
          /\ entry[v].start = b /\ entry[v].end = d
      BY <1>1, <3>1, <3>2, <3>3 DEF Pte, Entry
    <3>. QED
      BY <3>4 DEF b, d
  <2>4. entry \in [DOMAIN entry -> Entry \cup {NULL}]
    <3>1. entry = [v \in vs |-> entry[v]]
      BY DEF entry
    <3>. QED
      BY <2>2, <2>3, <3>1
  <2>. QED
    BY <2>2, <2>3, <2>4 DEF NewEntries
<1>4. DOMAIN entry = vs /\ entry \in [DOMAIN entry -> Entry \cup {NULL}]
  BY <1>3 DEF NewEntries
<1>5. vmm_new_user_page(m, p, base, n) = [g EXCEPT !.data[f] = x]
  BY DEF vmm_new_user_page, Fill
<1>6. x = [o \in DOMAIN g.data[f] |-> x[o]]
  OBVIOUS
<1> DEFINE c == [g EXCEPT !.data[f] = x]
<1> HIDE DEF entry, f, x
<1>7. Placed(c, m, p, f, n, entry) /\ g.data = m.data /\ c.data[f] = x
  <2>1. DOMAIN entry \in SUBSET Page /\ HeapHas(m, Cardinality(Missing(m, p, DOMAIN entry)))
    BY <1>2, <1>4
  <2>. QED
    BY <1>1, <1>4, <1>6, <2>1, PlaceIs
<1> HIDE DEF c, g
<1>8. Clear(c, f, n)
  <2>1. DOMAIN g.data[f] = Page
    BY <1>1, <1>7, Contents
  <2>2. x = [o \in DOMAIN g.data[f] |-> IF o < n THEN Zero ELSE g.data[f][o]]
    BY DEF x
  <2>. QED
    BY <1>7, <2>1, <2>2 DEF Clear
<1>. QED
  BY <1>3, <1>5, <1>7, <1>8 DEF f, c

(* The pages of vs, in their order, are those of f; no flags. *)
ImageEntries(entry, f, vs) ==
  /\ DOMAIN entry = vs
  /\ entry \in [DOMAIN entry -> Entry \cup {NULL}]
  /\ \A v \in vs :
       entry[v] \in Entry /\ entry[v].page = <<f, v - Lowest(vs)>> /\ ~entry[v].start

(* How vmm_map_sections maps a page. *)
SectionRw(secs, v) ==
  LET b == ms_get_bounding_section(secs, v) IN b # {} /\ secs[Lowest(b)].rw

(* The sections are mapped. *)
LEMMA MapSectionsIs ==
  ASSUME NEW m, Good(m), NEW p \in Proc, Whole(m, p), NEW secs, FreeFrames(m) # {},
         HeapHas(m, Cardinality(Missing(m, p, Bounded(secs))))
  PROVE  \E entry :
           /\ ImageEntries(entry, NextFrame(m), Bounded(secs))
           /\ \A v \in Bounded(secs) : entry[v].rw <=> SectionRw(secs, v)
           /\ Placed(vmm_map_sections(m, p, secs), m, p, NextFrame(m),
                     Cardinality(Bounded(secs)), entry)
<1> DEFINE f == NextFrame(m)
           vs == Bounded(secs)
           n == Cardinality(vs)
           Rw(v) == LET b == ms_get_bounding_section(secs, v)
                    IN  b # {} /\ secs[Lowest(b)].rw
           entry == [v \in vs |-> Pte(f, v - Lowest(vs), Rw(v), FALSE, FALSE)]
           g == Commit(GiveFrame(m, p, f, n), p, entry)
           x == [o \in DOMAIN g.data[f] |-> IF o < n THEN Old ELSE g.data[f][o]]
<1>1. f \in Frame
  BY NextFrameIs
<1>2. vs \in SUBSET Page /\ vs \in SUBSET Nat
  BY Sizes DEF Bounded
<1>3. n \in Nat
  BY <1>2, Sizes, FS_Subset, FS_CardinalityType
<1>4. vmm_map_sections(m, p, secs) = [g EXCEPT !.data[f] = x]
  BY DEF vmm_map_sections, Fill
<1>5. \A v : Rw(v) \in BOOLEAN /\ (Rw(v) <=> SectionRw(secs, v))
  BY DEF SectionRw
<1>6. ImageEntries(entry, f, vs) /\ \A v \in vs : entry[v].rw <=> SectionRw(secs, v)
  <2>1. \A v \in vs : entry[v] = Pte(f, v - Lowest(vs), Rw(v), FALSE, FALSE)
    OBVIOUS
  <2>2. DOMAIN entry = vs /\ entry = [v \in vs |-> entry[v]]
    OBVIOUS
  <2> HIDE DEF entry, f, vs, Rw
  <2>3. ASSUME NEW v \in vs
        PROVE  /\ entry[v] \in Entry /\ entry[v].page = <<f, v - Lowest(vs)>> /\ ~entry[v].start
               /\ entry[v].rw <=> SectionRw(secs, v)
    <3>1. Lowest(vs) \in Nat /\ Lowest(vs) <= v /\ v \in Nat
      BY <1>2, LowestIs
    <3>2. v - Lowest(vs) \in Nat
      BY <3>1
    <3>3. entry[v] = Pte(f, v - Lowest(vs), Rw(v), FALSE, FALSE) /\ Rw(v) \in BOOLEAN
      BY <1>5, <2>1
    <3>4. /\ entry[v] \in Entry /\ entry[v].page = <<f, v - Lowest(vs)>> /\ entry[v].start = FALSE
          /\ entry[v].rw = Rw(v)
      BY <1>1, <3>2, <3>3 DEF Pte, Entry
    <3>. QED
      BY <1>5, <3>4
  <2>4. entry \in [DOMAIN entry -> Entry \cup {NULL}]
    BY <2>2, <2>3
  <2>. QED
    BY <2>2, <2>3, <2>4 DEF ImageEntries
<1>7. DOMAIN entry = vs /\ entry \in [DOMAIN entry -> Entry \cup {NULL}]
  BY <1>6 DEF ImageEntries
<1>8. x = [o \in DOMAIN g.data[f] |-> x[o]]
  OBVIOUS
<1> HIDE DEF entry, f, x, n
<1>9. Placed([g EXCEPT !.data[f] = x], m, p, f, n, entry)
  <2>1. DOMAIN entry \in SUBSET Page /\ HeapHas(m, Cardinality(Missing(m, p, DOMAIN entry)))
    BY <1>2, <1>7
  <2>. QED
    BY <1>1, <1>3, <1>7, <1>8, <2>1, PlaceIs
<1>. QED
  BY <1>4, <1>6, <1>9 DEF f, n

(* The flags of the pages of p, on the pages of f. *)
CopyEntries(entry, m, p, f) ==
  /\ DOMAIN entry = Mapped(m, p)
  /\ entry \in [DOMAIN entry -> Entry \cup {NULL}]
  /\ \A v \in Mapped(m, p) :
       /\ entry[v] \in Entry
       /\ entry[v].page = <<f, Cardinality({w \in Mapped(m, p) : w < v})>>
       /\ entry[v].rw = pd_get_mapping(m, p, v).rw
       /\ entry[v].start = pd_get_mapping(m, p, v).start
       /\ entry[v].end = pd_get_mapping(m, p, v).end

(* The n-th page that is mapped has been copied to the n-th page of f. *)
Copies(c, m, p, f) ==
  \A o \in Page : o < Cardinality(Mapped(m, p)) => c.data[f][o] = p_copy(m, p, o)

(* fork. *)
LEMMA DeepCopyIs ==
  ASSUME NEW m, Good(m), NEW p \in Proc, NEW q \in Proc, FreeFrames(m) # {},
         \A d \in Dir : m.dir[q][d] = NULL,
         HeapHas(m, Cardinality({d \in 0 .. NumPDE - 1 : m.dir[p][d] # NULL}))
  PROVE  LET c == vmm_deep_copy(m, p, q)
         IN  \E entry : /\ CopyEntries(entry, m, p, NextFrame(m))
                        /\ Placed(c, m, q, NextFrame(m), m.num[p], entry)
                        /\ Copies(c, m, p, NextFrame(m))
<1> DEFINE f == NextFrame(m)
           n == m.num[p]
           h == GiveFrame(m, q, f, n)
           entry == [v \in Mapped(h, p) |-> pt_copy(h, p, f, v)]
           g == Commit(h, q, entry)
           k == Cardinality(Mapped(h, p))
           x == [o \in DOMAIN g.data[f] |-> IF o < k THEN p_copy(h, p, o) ELSE g.data[f][o]]
           ds == {d \in 0 .. NumPDE - 1 : m.dir[p][d] # NULL}
<1>1. f \in Frame
  BY NextFrameIs
<1>2. n \in Int
  BY GoodFields
<1>3. vmm_deep_copy(m, p, q) = [g EXCEPT !.data[f] = x]
  BY DEF vmm_deep_copy, pd_deep_copy
<1>4. Given(h, m, q, f, n)
  BY <1>1, <1>2, GiveFrameIs
<1> HIDE DEF h
<1>5. Mapped(h, p) = Mapped(m, p) /\ \A v : pd_get_mapping(h, p, v) = pd_get_mapping(m, p, v)
  BY <1>4, SameTables DEF Given
<1>6. CopyEntries(entry, m, p, f)
  <2>1. DOMAIN entry = Mapped(m, p) /\ entry = [v \in Mapped(m, p) |-> entry[v]]
    BY <1>5
  <2>2. \A v \in Mapped(m, p) : entry[v] = pt_copy(h, p, f, v)
    BY <1>5
  <2> HIDE DEF entry, f
  <2>3. ASSUME NEW v \in Mapped(m, p)
        PROVE  /\ entry[v] \in Entry
               /\ entry[v].page = <<f, Cardinality({w \in Mapped(m, p) : w < v})>>
               /\ entry[v].rw = pd_get_mapping(m, p, v).rw
               /\ entry[v].start = pd_get_mapping(m, p, v).start
               /\ entry[v].end = pd_get_mapping(m, p, v).end
    <3> DEFINE o == Cardinality({w \in Mapped(m, p) : w < v})
               e == pd_get_mapping(m, p, v)
    <3>1. v \in Page /\ {w \in Mapped(m, p) : w < v} \in SUBSET Page
      BY DEF Mapped
    <3>2. o \in Nat
      BY <3>1, Sizes, FS_Subset, FS_CardinalityType
    <3>3. e \in Entry
      BY <3>1, MappingType
    <3>4. entry[v] = [e EXCEPT !.page = <<f, o>>]
      BY <1>5, <2>2 DEF pt_copy
    <3> HIDE DEF o, e
    <3>5. entry[v] \in Entry /\ entry[v].page = <<f, o>> /\ entry[v].rw = e.rw
          /\ entry[v].start = e.start /\ entry[v].end = e.end
      BY <1>1, <3>2, <3>3, <3>4 DEF Entry
    <3>. QED
      BY <3>5 DEF o, e
  <2>4. entry \in [DOMAIN entry -> Entry \cup {NULL}]
    BY <2>1, <2>3
  <2>. QED
    BY <2>1, <2>3, <2>4 DEF CopyEntries
<1>7. DOMAIN entry = Mapped(m, p) /\ entry \in [DOMAIN entry -> Entry \cup {NULL}]
  BY <1>6 DEF CopyEntries
<1>8. HeapHas(m, Cardinality(Missing(m, q, Mapped(m, p)))) /\ Mapped(m, p) \in SUBSET Page
  <2>1. Mapped(m, p) \in SUBSET Page
    BY DEF Mapped
  <2>2. Missing(m, q, Mapped(m, p)) \in SUBSET ds
    <3>1. SUFFICES ASSUME NEW v \in Mapped(m, p) PROVE pde_i(v) \in ds
      BY DEF Missing
    <3>2. v \in Page /\ m.dir[p][pde_i(v)] \in Table
      BY <2>1, MappingType
    <3>. QED
      BY <3>2, PageSplit, Kinds DEF Dir
  <2>3. IsFiniteSet(ds)
    <3>1. ds \in SUBSET Dir
      BY DEF Dir
    <3>. QED
      BY <3>1, Sizes, FS_Subset
  <2>4. /\ Cardinality(Missing(m, q, Mapped(m, p))) <= Cardinality(ds)
        /\ Cardinality(Missing(m, q, Mapped(m, p))) \in Nat /\ Cardinality(ds) \in Nat
    BY <2>2, <2>3, FS_Subset, FS_CardinalityType
  <2>5. Cardinality(Table \ m.live) \in Nat
    BY GoodFields, FS_CardinalityType
  <2> HIDE DEF ds
  <2>. QED
    BY <2>1, <2>4, <2>5 DEF HeapHas, ds
<1>9. Whole(m, q)
  BY Kinds DEF Whole
<1>10. x = [o \in DOMAIN g.data[f] |-> x[o]]
  OBVIOUS
<1>11. \A o : p_copy(h, p, o) = p_copy(m, p, o)
  <2>1. \A o : Nth(h, p, o) = Nth(m, p, o)
    BY <1>5 DEF Nth
  <2>. QED
    BY <1>4, <1>5, <2>1 DEF p_copy, Given
<1> DEFINE c == [g EXCEPT !.data[f] = x]
<1> HIDE DEF entry, f, x, n
<1>12. Placed(c, m, q, f, n, entry) /\ g.data = m.data /\ c.data[f] = x
  <2>1. DOMAIN entry \in SUBSET Page /\ HeapHas(m, Cardinality(Missing(m, q, DOMAIN entry)))
    BY <1>7, <1>8
  <2>. QED
    BY <1>1, <1>2, <1>7, <1>9, <1>10, <2>1, PlaceIs DEF h
<1> HIDE DEF c, g
<1>13. Copies(c, m, p, f)
  <2>1. DOMAIN g.data[f] = Page
    BY <1>1, <1>12, Contents
  <2>2. x = [o \in DOMAIN g.data[f] |-> IF o < k THEN p_copy(h, p, o) ELSE g.data[f][o]]
    BY DEF x
  <2>3. k = Cardinality(Mapped(m, p))
    BY <1>5
  <2> HIDE DEF k
  <2>. QED
    BY <1>12, <1>11, <2>1, <2>2, <2>3 DEF Copies
<1>. QED
  BY <1>3, <1>6, <1>12, <1>13 DEF f, n, c

(* Multiples of d are in the order of what they are multiples of. *)
LEMMA Multiples ==
  ASSUME NEW d \in Nat \ {0}, NEW a \in Int, NEW b \in Int
  PROVE  /\ d * a \in Int /\ d * b \in Int /\ a * d = d * a
         /\ a <= b <=> d * a <= d * b
         /\ a < b <=> d * a <= d * b - d
<1>1. d * (b - a) = d * b - d * a /\ d * a \in Int /\ d * b \in Int /\ a * d = d * a
  OBVIOUS
<1>2. b - a >= 0 => d * (b - a) >= 0
  OBVIOUS
<1>3. b - a >= 1 => d * (b - a) >= d
  OBVIOUS
<1>4. b - a <= 0 => d * (b - a) <= 0
  OBVIOUS
<1>5. b - a <= -1 => d * (b - a) <= -d
  OBVIOUS
<1> DEFINE x == d * a
           y == d * b
           z == d * (b - a)
<1>6. z = y - x /\ x \in Int /\ y \in Int
  BY <1>1
<1>7. (b - a >= 0 => z >= 0) /\ (b - a >= 1 => z >= d) /\ (b - a <= 0 => z <= 0)
      /\ (b - a <= -1 => z <= -d)
  BY <1>2, <1>3, <1>4, <1>5
<1> HIDE DEF x, y, z
<1>8. (a <= b <=> x <= y) /\ (a < b <=> x <= y - d)
  BY <1>6, <1>7
<1>. QED
  BY <1>1, <1>8 DEF x, y

(* The stack that a program starts with is one page, which is writable. *)
LEMMA StackBounded ==
  Bounded(StackSections) = {StackLow} /\ SectionRw(StackSections, StackLow)
<1> DEFINE d == PAGE_SIZE
           L == StackLow
           s == StackSections[1]
           h == d * L + (d - 1)
           B == ms_get_bounding_addr(StackSections)
<1>1. d \in Nat \ {0} /\ d >= 2 /\ L \in Page /\ L \in Nat /\ Page \subseteq Nat
  BY Sizes
<1>2. d * L \in Nat /\ h \in Nat /\ L * d = d * L
  BY <1>1
<1>3. Word \in Nat \ {0} /\ h < Word
  <2>1. Word \in Nat /\ Word > NumPages * d /\ NumPages \in Nat /\ L < NumPages
    BY VirtualMemAssumption, Sizes
  <2>2. d * L <= d * NumPages - d /\ NumPages * d = d * NumPages /\ d * NumPages \in Int
    BY <1>1, <2>1, Multiples
  <2>. QED
    BY <1>1, <1>2, <2>1, <2>2
<1>4. s = [addr |-> L * d, len |-> d, rw |-> TRUE] /\ DOMAIN StackSections = {1}
  BY DEF StackSections
<1>5. High(s) = h
  <2>1. High(s) = h % Word
    BY <1>1, <1>2, <1>4 DEF High
  <2> HIDE DEF h
  <2>2. (Word * 0 + h) \div Word = 0
    BY <1>2, <1>3, Quotient
  <2>3. h \div Word = 0
    BY <1>2, <1>3, <2>2
  <2>4. h = Word * (h \div Word) + (h % Word) /\ h % Word \in Int
    BY <1>2, <1>3, Division
  <2>. QED
    BY <1>3, <2>1, <2>3, <2>4
<1>6. B.low = d * L /\ B.high = h
  <2> DEFINE used == {i \in DOMAIN StackSections : StackSections[i].len > 0}
  <2>1. used = {1}
    BY <1>1, <1>4
  <2>2. {StackSections[i].addr : i \in used} = {d * L}
    BY <1>2, <1>4, <2>1
  <2>3. {High(StackSections[i]) : i \in used} = {h}
    BY <1>5, <2>1
  <2>4. B = [low |-> Lowest({StackSections[i].addr : i \in used}),
             high |-> CHOOSE x \in {High(StackSections[i]) : i \in used} :
                        \A i \in used : High(StackSections[i]) <= x]
    BY DEF ms_get_bounding_addr
  <2> HIDE DEF h, s
  <2>5. \A i \in used : High(StackSections[i]) <= h
    BY <1>2, <1>5, <2>1 DEF s
  <2> HIDE DEF used
  <2>6. B.high = h
    BY <2>3, <2>4, <2>5
  <2>7. Lowest({d * L}) = d * L
    BY <1>2, LowestIs
  <2>. QED
    BY <2>2, <2>4, <2>6, <2>7
<1> HIDE DEF B
<1>7. SectionRw(StackSections, L)
  <2> DEFINE b == ms_get_bounding_section(StackSections, L)
  <2>1. Bounds(s, L * PAGE_SIZE)
    BY <1>1, <1>2, <1>4, <1>5 DEF Bounds
  <2>2. b = {1}
    BY <1>4, <2>1 DEF ms_get_bounding_section
  <2>3. Lowest({1}) = 1
    BY LowestIs
  <2>4. b # {} /\ StackSections[Lowest(b)].rw
    BY <1>4, <2>2, <2>3
  <2>. QED
    BY <2>4 DEF SectionRw
<1>8. PAGE_ALIGN_DOWN(B.low) = d * L
  <2>1. (d * L + 0) \div d = L
    BY <1>1, Quotient
  <2>. QED
    BY <1>2, <1>6, <2>1 DEF PAGE_ALIGN_DOWN
<1>9. PAGE_ALIGN_UP(B.high) = d * (L + 1)
  <2>1. (d * (L + 1) + (d - 2)) \div d = L + 1
    BY <1>1, Quotient
  <2>2. d * (L + 1) = d * L + d
    BY <1>1
  <2>3. (h + d) - 1 = d * (L + 1) + (d - 2)
    BY <1>1, <1>2, <2>2
  <2> HIDE DEF h
  <2>4. (B.high + PAGE_SIZE - 1) = d * (L + 1) + (d - 2)
    BY <1>1, <1>2, <1>6, <2>3
  <2>. QED
    BY <2>1, <2>4 DEF PAGE_ALIGN_UP
<1>10. Bounded(StackSections) =
        {v \in Page : PAGE_ALIGN_DOWN(B.low) <= v * d /\ v * d <= PAGE_ALIGN_UP(B.high) - 1}
  BY DEF Bounded, B
<1> HIDE DEF d, L, h
<1>11. ASSUME NEW v \in Page
       PROVE  d * L <= v * d /\ v * d <= d * (L + 1) - 1 <=> v = L
  <2>1. v \in Int /\ v * d = d * v /\ d * v \in Int /\ d * (L + 1) \in Int
    BY <1>1, Multiples
  <2>2. L <= v <=> d * L <= d * v
    BY <1>1, <2>1, Multiples
  <2>3. L + 1 <= v <=> d * (L + 1) <= d * v
    BY <1>1, <2>1, Multiples
  <2>. QED
    BY <1>1, <2>1, <2>2, <2>3
<1>12. Bounded(StackSections) = {v \in Page : v = L}
  BY <1>8, <1>9, <1>10, <1>11
<1>. QED
  BY <1>1, <1>12, <1>7 DEF L

(* The image of a program is loaded: its sections, then its stack. *)
Loaded(c, m, p) ==
  \E k, e, s :
    /\ FreeFrames(m) # {}
    /\ ImageEntries(e, NextFrame(m), Bounded(Sections))
    /\ \A v \in Bounded(Sections) : e[v].rw <=> SectionRw(Sections, v)
    /\ Placed(k, m, p, NextFrame(m), Cardinality(Bounded(Sections)), e)
    /\ FreeFrames(k) # {}
    /\ ImageEntries(s, NextFrame(k), {StackLow}) /\ s[StackLow].rw
    /\ Placed(c, k, p, NextFrame(k), 1, s)

(* pcb_load_prog in an empty user space. *)
LEMMA LoadIs ==
  ASSUME NEW m, Good(m), NEW p \in Proc, \A d \in Dir : m.dir[p][d] = NULL, LoadFits(m, p)
  PROVE  Loaded(pcb_load_prog(m, p), m, p)
<1> DEFINE vs == Bounded(Sections)
           f == NextFrame(m)
           k == vmm_map_sections(m, p, Sections)
           X == {pde_i(v) : v \in vs}
           Y == {pde_i(StackLow)}
           Z == Missing(k, p, {StackLow})
<1>1. Whole(m, p)
  BY Kinds DEF Whole
<1>2. Cardinality(FreeFrames(m)) >= 2 /\ HeapHas(m, Cardinality(Missing(m, p, Image)))
  BY DEF LoadFits
<1>3. IsFiniteSet(FreeFrames(m)) /\ FreeFrames(m) # {}
  <2>1. FreeFrames(m) \in SUBSET Frame
    BY DEF FreeFrames
  <2>. QED
    BY <1>2, <2>1, Kinds, FS_Subset, FS_EmptySet
<1>4. vs \in SUBSET Page /\ StackLow \in Page
  BY Sizes DEF Bounded
<1>5. X \in SUBSET Dir /\ pde_i(StackLow) \in Dir
  BY <1>4, PageSplit
<1>6. Missing(m, p, vs) = X /\ Missing(m, p, Image) = X \cup Y
  <2>1. {pde_i(v) : v \in Image} = X \cup Y
    BY DEF Image
  <2>. QED
    BY <1>5, <2>1 DEF Missing
<1>7. IsFiniteSet(X) /\ IsFiniteSet(Y)
  BY <1>5, Sizes, FS_Subset, FS_Singleton
<1>8. /\ Cardinality(X) \in Nat /\ Cardinality(X \cup Y) \in Nat
      /\ Cardinality(Table \ m.live) \in Nat /\ Cardinality(X) <= Cardinality(X \cup Y)
      /\ Cardinality(X \cup Y) <= Cardinality(Table \ m.live)
  <2>1. IsFiniteSet(X \cup Y)
    BY <1>7, FS_Union
  <2>2. X \in SUBSET (X \cup Y)
    OBVIOUS
  <2>3. Cardinality(X) <= Cardinality(X \cup Y)
    BY <2>1, <2>2, FS_Subset
  <2> HIDE DEF X, Y
  <2>. QED
    BY <1>2, <1>6, <1>7, <2>1, <2>3, GoodFields, FS_CardinalityType DEF HeapHas
<1>9. HeapHas(m, Cardinality(Missing(m, p, vs)))
  <2> HIDE DEF X, Y, vs
  <2>. QED
    BY <1>6, <1>8 DEF HeapHas
<1>10. PICK e : /\ ImageEntries(e, f, vs)
                /\ \A v \in vs : e[v].rw <=> SectionRw(Sections, v)
                /\ Placed(k, m, p, f, Cardinality(vs), e)
  BY <1>1, <1>3, <1>9, MapSectionsIs
<1> HIDE DEF k
<1>11. /\ Good(k) /\ Whole(k, p) /\ DOMAIN e = vs
       /\ Cardinality(Table \ k.live) = Cardinality(Table \ m.live) - Cardinality(Missing(m, p, vs))
       /\ \A d \in Dir : k.dir[p][d] = NULL <=> m.dir[p][d] = NULL /\ d \notin {pde_i(v) : v \in vs}
       /\ k.alloc = [m.alloc EXCEPT ![f] = Cardinality(vs)]
  BY <1>10, Zenon DEF Placed, ImageEntries
<1>12. FreeFrames(k) # {}
  <2>1. Cardinality(FreeFrames(m) \ {f}) # 0
    <3> HIDE DEF f
    <3>1. Cardinality(FreeFrames(m)) \in Nat
      BY <1>3, FS_CardinalityType
    <3>2. \/ Cardinality(FreeFrames(m) \ {f}) = Cardinality(FreeFrames(m))
          \/ Cardinality(FreeFrames(m) \ {f}) = Cardinality(FreeFrames(m)) - 1
      BY <1>3, FS_RemoveElement
    <3>. QED
      BY <1>2, <3>1, <3>2
  <2>2. FreeFrames(m) \ {f} # {}
    BY <2>1, FS_EmptySet
  <2>3. PICK g \in Frame : g # f /\ m.alloc[g] = 0
    BY <2>2 DEF FreeFrames
  <2>4. k.alloc[g] = 0
    <3>1. m.alloc \in [Frame -> Int]
      BY GoodFields
    <3>2. k.alloc = [m.alloc EXCEPT ![f] = Cardinality(vs)]
      BY <1>11
    <3> HIDE DEF f, vs
    <3>. QED
      BY <2>3, <3>1, <3>2
  <2>. QED
    BY <2>4 DEF FreeFrames
<1>13. HeapHas(k, Cardinality(Z))
  <2>1. Z = (X \cup Y) \ X
    <3>1. {pde_i(v) : v \in {StackLow}} = Y
      OBVIOUS
    <3>2. Z = {d \in Y : k.dir[p][d] = NULL}
      BY <3>1 DEF Missing
    <3>3. \A d \in Dir : k.dir[p][d] = NULL <=> d \notin X
      BY <1>11
    <3> HIDE DEF X, Z
    <3>. QED
      BY <1>5, <3>2, <3>3
  <2>2. (X \cup Y) \cap X = X
    OBVIOUS
  <2>3. IsFiniteSet(X \cup Y)
    BY <1>7, FS_Union
  <2> HIDE DEF X, Y, Z, vs
  <2>4. Cardinality(Z) = Cardinality(X \cup Y) - Cardinality(X)
    BY <2>1, <2>2, <2>3, FS_Difference
  <2>5. Cardinality(Table \ k.live) = Cardinality(Table \ m.live) - Cardinality(X)
    BY <1>6, <1>11
  <2>. QED
    BY <1>8, <2>4, <2>5 DEF HeapHas
<1>14. Bounded(StackSections) = {StackLow} /\ Cardinality({StackLow}) = 1
  BY StackBounded, FS_Singleton
<1>15. PICK s : /\ ImageEntries(s, NextFrame(k), {StackLow})
                /\ \A v \in {StackLow} : s[v].rw <=> SectionRw(StackSections, v)
                /\ Placed(vmm_map_sections(k, p, StackSections), k, p, NextFrame(k), 1, s)
  <2>1. HeapHas(k, Cardinality(Missing(k, p, Bounded(StackSections))))
    BY <1>13, <1>14
  <2>2. Good(k) /\ Whole(k, p)
    BY <1>11
  <2>3. PICK s : /\ ImageEntries(s, NextFrame(k), Bounded(StackSections))
                 /\ \A v \in Bounded(StackSections) : s[v].rw <=> SectionRw(StackSections, v)
                 /\ Placed(vmm_map_sections(k, p, StackSections), k, p, NextFrame(k),
                           Cardinality(Bounded(StackSections)), s)
    BY <1>12, <2>1, <2>2, MapSectionsIs
  <2>4. /\ ImageEntries(s, NextFrame(k), {StackLow})
        /\ \A v \in {StackLow} : s[v].rw <=> SectionRw(StackSections, v)
        /\ Placed(vmm_map_sections(k, p, StackSections), k, p, NextFrame(k), 1, s)
    BY <1>14, <2>3
  <2>. QED
    BY <2>4
<1>16. s[StackLow].rw
  BY <1>15, StackBounded
<1>17. pcb_load_prog(m, p) = vmm_map_sections(k, p, StackSections)
  BY DEF pcb_load_prog, load_user_stack, load_elf_sections, k
<1>. QED
  BY <1>3, <1>10, <1>12, <1>15, <1>17, <1>16 DEF Loaded

(* The pages from base to w are unmapped, and the frame of base, the k-th  *)
(* of the list, is taken from p.                                           *)
Removed(c, m, p, base, w, k) ==
  LET f == pd_get_mapping(m, p, base).page[1]
  IN  /\ Good(c) /\ Whole(c, p)
      /\ \A q \in Proc : q # p => c.dir[q] = m.dir[q]
      /\ \A v \in Page : pd_get_mapping(c, p, v) =
           IF v \in base .. w THEN NULL ELSE pd_get_mapping(m, p, v)
      /\ \A q \in Proc, v \in Page : q # p => pd_get_mapping(c, q, v) = pd_get_mapping(m, q, v)
      /\ k \in DOMAIN m.list[p] /\ m.list[p][k].f = f
      /\ c.list = [m.list EXCEPT ![p] = SubSeq(@, 1, k - 1) \o SubSeq(@, k + 1, Len(@))]
      /\ c.num = [m.num EXCEPT ![p] = @ - m.list[p][k].n]
      /\ c.alloc = [m.alloc EXCEPT ![f] = 0]
      /\ Kept(c, m, {f})

(* remove_pages. *)
LEMMA RemoveIs ==
  ASSUME NEW m, Good(m), NEW p \in Proc, Whole(m, p), NEW base, RemoveAllowed(m, p, base),
         NEW w \in Page, w >= base, Stretch(m, p, base, w)
  PROVE  \E k \in DOMAIN m.list[p] :
           Removed(vmm_remove_user_page(m, p, base), m, p, base, w, k)
<1> DEFINE f == pd_get_mapping(m, p, base).page[1]
           vs == base .. w
           entry == [v \in vs |-> NULL]
           g == Commit(m, p, entry)
           c == TakeFrame(g, p, f)
<1>1. base \in Mapped(m, p) /\ Listed(m, p, f) /\ base \in Page
  BY DEF RemoveAllowed, Mapped
<1>2. Flagged(m, p, base) = vs /\ vs \subseteq Mapped(m, p)
  BY <1>1, FlaggedIs
<1>3. f \in Frame
  <2>1. pd_get_mapping(m, p, base) \in Entry
    BY <1>1, MappingType
  <2>. QED
    BY <2>1 DEF Entry
<1>4. vmm_remove_user_page(m, p, base) = c
  BY <1>2 DEF vmm_remove_user_page, pd_remove_mapping
<1>5. DOMAIN entry = vs /\ vs \in SUBSET Page /\ entry \in [DOMAIN entry -> Entry \cup {NULL}]
      /\ \A v \in vs : entry[v] = NULL
  BY <1>2 DEF Mapped
<1>6. Missing(m, p, vs) = {}
  <2>1. \A v \in vs : m.dir[p][pde_i(v)] \in Table
    BY <1>2, <1>5, MappingType
  <2>. QED
    BY <2>1, Kinds DEF Missing
<1>7. HeapHas(m, Cardinality(Missing(m, p, vs)))
  <2>1. Cardinality(Missing(m, p, vs)) = 0
    BY <1>6, FS_EmptySet
  <2>2. Cardinality(Table \ m.live) \in Nat
    BY GoodFields, FS_CardinalityType
  <2>. QED
    BY <2>1, <2>2 DEF HeapHas
<1> HIDE DEF entry
<1>8. Committed(g, m, p, entry)
  <2>1. DOMAIN entry \in SUBSET Page /\ HeapHas(m, Cardinality(Missing(m, p, DOMAIN entry)))
    BY <1>5, <1>7
  <2>. QED
    BY <1>5, <2>1, CommitIs
<1> HIDE DEF g, f
<1>9. Good(g) /\ g.list = m.list
  BY <1>8 DEF Committed
<1>10. Listed(g, p, f)
  BY <1>1, <1>9 DEF Listed
<1>11. PICK k \in DOMAIN g.list[p] : Taken(c, g, p, f, k)
  BY <1>3, <1>9, <1>10, TakeFrameIs
<1> HIDE DEF c
<1>12. Good(c) /\ \A q, v : pd_get_mapping(c, q, v) = pd_get_mapping(g, q, v)
  BY <1>9, <1>11, SameTables DEF Taken
<1>13. Whole(c, p)
  BY <1>8, <1>11 DEF Committed, Taken, Whole
<1>14. \A q \in Proc : q # p => c.dir[q] = m.dir[q]
  BY <1>8, <1>11 DEF Committed, Taken
<1>15. \A v \in Page : pd_get_mapping(c, p, v) =
         IF v \in vs THEN NULL ELSE pd_get_mapping(m, p, v)
  BY <1>5, <1>8, <1>12 DEF Committed
<1>16. \A q \in Proc, v \in Page : q # p => pd_get_mapping(c, q, v) = pd_get_mapping(m, q, v)
  BY <1>8, <1>12 DEF Committed
<1>17. /\ k \in DOMAIN m.list[p] /\ m.list[p][k].f = f
       /\ c.list = [m.list EXCEPT ![p] = SubSeq(@, 1, k - 1) \o SubSeq(@, k + 1, Len(@))]
       /\ c.num = [m.num EXCEPT ![p] = @ - m.list[p][k].n]
       /\ c.alloc = [m.alloc EXCEPT ![f] = 0]
  BY <1>8, <1>11 DEF Committed, Taken
<1>18. Kept(c, m, {f})
  BY <1>8, <1>11 DEF Committed, Taken, Kept
<1>19. Removed(c, m, p, base, w, k)
  BY <1>12, <1>13, <1>14, <1>15, <1>16, <1>17, <1>18 DEF Removed, f
<1>. QED
  BY <1>4, <1>17, <1>19

-----------------------------------------------------------------------------
(* What a step makes of the memory. *)

(* At most the contents of the frames differ. *)
Same(c, m) ==
  /\ IsMemory(c) /\ c.dir = m.dir /\ c.pt = m.pt /\ c.live = m.live
  /\ c.list = m.list /\ c.num = m.num /\ c.alloc = m.alloc

(* An instruction of p has written a page. *)
Wrote(c, m, p) ==
  \E v \in Page :
    /\ Writable(m, p, v)
    /\ LET page == pd_get_mapping(m, p, v).page
       IN  /\ Kept(c, m, {page[1]})
           /\ \A o \in Page : o # page[2] => c.data[page[1]][o] = m.data[page[1]][o]

(* new_pages. *)
Grown(c, m, p) ==
  \E base \in Nat, n \in Nat \ {0} : \E entry :
    /\ NewPagesAllowed(m, p, base, n)
    /\ NewEntries(entry, NextFrame(m), base, n)
    /\ Placed(c, m, p, NextFrame(m), n, entry)
    /\ Clear(c, NextFrame(m), n)

(* The same, out of memory. *)
Aborted(c, m, p) ==
  /\ Good(c) /\ c.live = m.live /\ c.list = m.list /\ c.num = m.num /\ c.alloc = m.alloc
  /\ c.data = m.data
  /\ \A q \in Proc : q # p => c.dir[q] = m.dir[q]
  /\ \A q \in Proc, v \in Page : pd_get_mapping(c, q, v) = pd_get_mapping(m, q, v)

(* remove_pages. *)
Shrunk(c, m, p) ==
  \E base \in Page, w \in Page : \E k \in DOMAIN m.list[p] :
    /\ w >= base /\ RemoveAllowed(m, p, base) /\ Stretch(m, p, base, w)
    /\ Removed(c, m, p, base, w, k)

(* fork. *)
Forked(c, m, p, q) ==
  \E entry : /\ FreeFrames(m) # {}
             /\ CopyEntries(entry, m, p, NextFrame(m))
             /\ Placed(c, m, q, NextFrame(m), m.num[p], entry)
             /\ Copies(c, m, p, NextFrame(m))

(* exec. *)
Reloaded(c, m, p) == \E k : Cleared(k, m, p) /\ Loaded(c, k, p)

StepKind ==
  \/ /\ Same(mm', mm) /\ procs' = procs
     /\ mm' = mm \/ \E p \in procs : Wrote(mm', mm, p)
  \/ \E p \in procs :
       /\ Whole(mm, p)
       /\ \/ Grown(mm', mm, p) /\ procs' = procs
          \/ Aborted(mm', mm, p) /\ procs' = procs
          \/ Shrunk(mm', mm, p) /\ procs' = procs
          \/ Reloaded(mm', mm, p) /\ procs' = procs
          \/ \E q \in Proc \ procs : Forked(mm', mm, p, q) /\ procs' = procs \cup {q}
          \/ Cleared(mm', mm, p) /\ procs' = procs \ {p}

(* The page tables, and the flags in them; a process that is not there has *)
(* none.                                                                   *)
TableInv ==
  /\ Good(mm) /\ procs \subseteq Proc
  /\ \A p \in Proc : RegionsOf(mm, p)
  /\ \A p \in Proc \ procs : \A d \in Dir : mm.dir[p][d] = NULL

(* new_pages does one or the other. *)
LEMMA NewGrows ==
  ASSUME NEW m, Good(m), NEW p \in Proc, Whole(m, p), NEW base \in Nat, NEW n \in Nat \ {0},
         NewPagesAllowed(m, p, base, n)
  PROVE  LET c == vmm_new_user_page(m, p, base, n) IN Grown(c, m, p) \/ Aborted(c, m, p)
<1> DEFINE vs == Region(base, n)
           c == vmm_new_user_page(m, p, base, n)
<1>1. CASE HeapHas(m, Cardinality(Missing(m, p, vs)))
  <2>1. PICK entry : /\ NewEntries(entry, NextFrame(m), base, n)
                     /\ Placed(c, m, p, NextFrame(m), n, entry) /\ Clear(c, NextFrame(m), n)
    BY <1>1, NewPagesIs
  <2> HIDE DEF c
  <2>2. Grown(c, m, p)
    BY <2>1 DEF Grown
  <2>. QED
    BY <2>2 DEF c
<1>2. CASE ~HeapHas(m, Cardinality(Missing(m, p, vs)))
  <2>1. c = Abort(m, p, vs)
    BY <1>2 DEF vmm_new_user_page
  <2>2. vs \in SUBSET Page
    BY Sizes DEF NewPagesAllowed, Region
  <2> HIDE DEF vs, c
  <2>3. Aborted(c, m, p)
    BY <2>1, <2>2, AbortIs DEF Aborted
  <2>. QED
    BY <2>3 DEF c
<1>. QED
  BY <1>1, <1>2

(* Every step is one of these. *)
LEMMA Steps ==
  ASSUME TableInv, [Next]_vars
  PROVE  StepKind
<1>1. Good(mm) /\ procs \subseteq Proc
  BY DEF TableInv
<1>2. Same(mm, mm)
  BY <1>1 DEF Same, Good
<1>3. ASSUME NEW p \in Proc, Runs(p) PROVE p \in procs /\ Whole(mm, p)
  BY <1>3 DEF Runs, Torn, Whole, Dir
<1>4. CASE UNCHANGED vars
  BY <1>2, <1>4 DEF vars, StepKind
<1>5. ASSUME NEW p \in Proc, Write(p) PROVE StepKind
  <2>1. PICK v \in Page : /\ Writable(mm, p, v)
                          /\ LET page == pd_get_mapping(mm, p, v).page
                             IN  mm' = [mm EXCEPT !.data[page[1]][page[2]] = p]
    BY <1>5 DEF Write
  <2> DEFINE e == pd_get_mapping(mm, p, v)
             f == e.page[1]
             o == e.page[2]
  <2>2. e \in Entry
    BY <1>1, <2>1, MappingType DEF Writable
  <2>3. f \in Frame
    BY <2>2 DEF Entry
  <2>4. mm' = [mm EXCEPT !.data[f] = [mm.data[f] EXCEPT ![o] = p]]
    BY <2>1
  <2> HIDE DEF f, o
  <2> DEFINE x == [mm.data[f] EXCEPT ![o] = p]
  <2>5. x = [i \in Page |-> x[i]] /\ \A i \in Page : i # o => x[i] = mm.data[f][i]
    <3> DEFINE y == mm.data[f]
    <3>1. y = [i \in Page |-> y[i]] /\ DOMAIN y = Page
      BY <1>1, <2>3, Contents
    <3> HIDE DEF y
    <3>2. [y EXCEPT ![o] = p] = [i \in Page |-> [y EXCEPT ![o] = p][i]]
      BY <3>1
    <3>3. \A i \in Page : i # o => [y EXCEPT ![o] = p][i] = y[i]
      BY <3>1
    <3>. QED
      BY <3>2, <3>3 DEF y
  <2> HIDE DEF x
  <2>6. Same(mm', mm) /\ Kept(mm', mm, {f}) /\ mm'.data[f] = x
    <3>1. mm' = [mm EXCEPT !.data[f] = x]
      BY <2>4 DEF x
    <3>. QED
      BY <1>1, <2>3, <2>5, <3>1, DataIs DEF Same
  <2>7. Wrote(mm', mm, p)
    BY <2>1, <2>5, <2>6 DEF Wrote, f, o
  <2>8. p \in procs /\ procs' = procs
    BY <1>5 DEF Write, Trying, Runs
  <2>. QED
    BY <2>6, <2>7, <2>8 DEF StepKind
<1>6. ASSUME NEW p \in Proc, Runs(p), Destroy(p) PROVE StepKind
  <2>1. mm' = vmm_clear_user_space(mm, p) /\ procs' = procs \ {p}
    BY <1>6 DEF Destroy
  <2>2. Cleared(mm', mm, p)
    BY <1>1, <2>1, ClearIs
  <2>. QED
    BY <1>3, <1>6, <2>1, <2>2 DEF StepKind
<1>7. ASSUME NEW p \in Proc, page_fault_handler(p) PROVE StepKind
  <2> DEFINE low == bottom[p] - 1
  <2>1. Runs(p) /\ procs' = procs
        /\ \/ mm' = mm
           \/ /\ low \in Page /\ NewPagesAllowed(mm, p, low, 1)
              /\ mm' = vmm_new_user_page(mm, p, low, 1)
    BY <1>7 DEF page_fault_handler
  <2>2. CASE mm' = mm
    BY <1>2, <2>1, <2>2 DEF StepKind
  <2>3. CASE /\ low \in Page /\ NewPagesAllowed(mm, p, low, 1)
             /\ mm' = vmm_new_user_page(mm, p, low, 1)
    <3>1. low \in Nat /\ 1 \in Nat \ {0} /\ p \in procs /\ Whole(mm, p)
      BY <1>3, <2>1, <2>3, Sizes
    <3> HIDE DEF low
    <3>2. Grown(mm', mm, p) \/ Aborted(mm', mm, p)
      BY <1>1, <2>3, <3>1, NewGrows
    <3>. QED
      BY <2>1, <3>1, <3>2 DEF StepKind
  <2>. QED
    BY <2>1, <2>2, <2>3
<1>8. ASSUME NEW p \in Proc, Resolve(p) PROVE StepKind
  <2>1. CASE swexn_execute(p)
    BY <1>2, <2>1 DEF swexn_execute, StepKind
  <2>2. CASE page_fault_c_handler(p) \/ gp_fault_c_handler(p) \/ invalid_tss_c_handler(p)
    <3>1. Runs(p) /\ Destroy(p)
      BY <2>2 DEF page_fault_c_handler, gp_fault_c_handler, invalid_tss_c_handler, Faults, Trying
    <3>. QED
      BY <1>6, <3>1
  <2>. QED
    BY <1>5, <1>7, <1>8, <2>1, <2>2 DEF Resolve
<1>9. ASSUME NEW p \in Proc, syscall_exec(p) PROVE StepKind
  <2> DEFINE k == vmm_clear_user_space(mm, p)
  <2>1. Runs(p) /\ procs' = procs
        /\ \/ mm' = mm
           \/ LoadFits(k, p) /\ mm' = pcb_load_prog(k, p)
    BY <1>9 DEF syscall_exec, Idle
  <2>2. CASE mm' = mm
    BY <1>2, <2>1, <2>2 DEF StepKind
  <2>3. CASE LoadFits(k, p) /\ mm' = pcb_load_prog(k, p)
    <3>1. Cleared(k, mm, p)
      BY <1>1, ClearIs
    <3> HIDE DEF k
    <3>2. Good(k) /\ \A d \in Dir : k.dir[p][d] = NULL
      BY <3>1 DEF Cleared
    <3>3. Loaded(mm', k, p)
      BY <2>3, <3>2, LoadIs
    <3>4. Reloaded(mm', mm, p)
      BY <3>1, <3>3 DEF Reloaded
    <3>. QED
      BY <1>3, <2>1, <3>4 DEF StepKind
  <2>. QED
    BY <2>1, <2>2, <2>3
<1>10. ASSUME NEW p \in Proc, Exit(p) PROVE StepKind
  BY <1>6, <1>10 DEF Exit, Idle
<1>11. ASSUME NEW p \in Proc, ForkFails(p) PROVE StepKind
  BY <1>2, <1>11 DEF ForkFails, StepKind
<1>12. ASSUME NEW p \in Proc, NEW q \in Proc, syscall_fork(p, q) PROVE StepKind
  <2>1. /\ Runs(p) /\ q \notin procs /\ FreeFrames(mm) # {} /\ procs' = procs \cup {q}
        /\ HeapHas(mm, Cardinality({d \in 0 .. NumPDE - 1 : mm.dir[p][d] # NULL}))
        /\ mm' = vmm_deep_copy(mm, p, q)
    BY <1>12 DEF syscall_fork, Idle
  <2>2. \A d \in Dir : mm.dir[q][d] = NULL
    BY <2>1 DEF TableInv
  <2>3. PICK entry : /\ CopyEntries(entry, mm, p, NextFrame(mm))
                     /\ Placed(vmm_deep_copy(mm, p, q), mm, q, NextFrame(mm), mm.num[p], entry)
                     /\ Copies(vmm_deep_copy(mm, p, q), mm, p, NextFrame(mm))
    BY <1>1, <2>1, <2>2, DeepCopyIs
  <2>4. Forked(mm', mm, p, q)
    BY <2>1, <2>3 DEF Forked
  <2>. QED
    BY <1>3, <2>1, <2>4 DEF StepKind
<1>13. ASSUME NEW p \in Proc, NEW a, NEW b, NEW c, syscall_swexn(p, a, b, c) PROVE StepKind
  BY <1>2, <1>13 DEF syscall_swexn, StepKind
<1>14. ASSUME NEW p \in Proc, NEW b \in Bases, NEW n \in 1 .. MaxNew, syscall_new_pages(p, b, n)
       PROVE  StepKind
  <2>1. /\ Runs(p) /\ NewPagesAllowed(mm, p, b, n) /\ procs' = procs
        /\ mm' = vmm_new_user_page(mm, p, b, n)
    BY <1>14 DEF syscall_new_pages, Idle
  <2>2. b \in Nat /\ n \in Nat \ {0} /\ p \in procs /\ Whole(mm, p)
    BY <1>3, <2>1, VirtualMemAssumption
  <2>3. Grown(mm', mm, p) \/ Aborted(mm', mm, p)
    BY <1>1, <2>1, <2>2, NewGrows
  <2>. QED
    BY <2>1, <2>2, <2>3 DEF StepKind
<1>15. ASSUME NEW p \in Proc, NEW b, syscall_remove_pages(p, b) PROVE StepKind
  <2>1. /\ Runs(p) /\ RemoveAllowed(mm, p, b) /\ procs' = procs
        /\ mm' = vmm_remove_user_page(mm, p, b)
    BY <1>15 DEF syscall_remove_pages, Idle
  <2>2. p \in procs /\ Whole(mm, p)
    BY <1>3, <2>1
  <2>3. b \in Page /\ Begins(mm, p, b)
    BY <2>1 DEF RemoveAllowed, Begins, Mapped
  <2>4. PICK w \in Page : w >= b /\ Stretch(mm, p, b, w)
    BY <2>3 DEF TableInv, RegionsOf
  <2>5. PICK k \in DOMAIN mm.list[p] : Removed(mm', mm, p, b, w, k)
    BY <1>1, <2>1, <2>2, <2>4, RemoveIs
  <2>6. Shrunk(mm', mm, p)
    BY <2>1, <2>3, <2>4, <2>5 DEF Shrunk
  <2>. QED
    BY <2>1, <2>2, <2>6 DEF StepKind
<1>16. ASSUME NEW p \in Proc, NEW x, Begin(p, x) PROVE StepKind
  BY <1>2, <1>16 DEF Begin, StepKind
<1>17. CASE Next
  BY <1>8, <1>9, <1>10, <1>11, <1>12, <1>13, <1>14, <1>15, <1>16, <1>17 DEF Next, install_autostack
<1>. QED
  BY <1>4, <1>17

(* The regions are what they were but in p. *)
LEMMA RegionsOthers ==
  ASSUME NEW m, NEW c, NEW p, \A q \in Proc : RegionsOf(m, q), RegionsOf(c, p),
         \A q \in Proc, v \in Page : q # p => pd_get_mapping(c, q, v) = pd_get_mapping(m, q, v)
  PROVE  \A q \in Proc : RegionsOf(c, q)
<1>1. SUFFICES ASSUME NEW q \in Proc, q # p PROVE RegionsOf(c, q)
  OBVIOUS
<1>2. SameFlags(m, q, c, q)
  BY <1>1, SameMappings
<1>. QED
  BY <1>2, RegionsSame

(* A page that entry maps, and one it does not. *)
LEMMA PlacedMaps ==
  ASSUME NEW m, Good(m), NEW c, NEW p \in Proc, NEW f, NEW n, NEW entry, Placed(c, m, p, f, n, entry),
         NEW vs, DOMAIN entry = vs, vs \in SUBSET Page, \A v \in vs : entry[v] \in Entry
  PROVE  /\ Mapped(c, p) = Mapped(m, p) \cup vs
         /\ \A v \in vs : pd_get_mapping(c, p, v) = entry[v]
         /\ \A v \in Page : v \notin vs => pd_get_mapping(c, p, v) = pd_get_mapping(m, p, v)
         /\ \A q \in Proc : q # p => Mapped(c, q) = Mapped(m, q)
<1>1. /\ \A v \in Page : pd_get_mapping(c, p, v) =
           IF v \in DOMAIN entry THEN entry[v] ELSE pd_get_mapping(m, p, v)
      /\ \A q \in Proc, v \in Page : q # p => pd_get_mapping(c, q, v) = pd_get_mapping(m, q, v)
  BY DEF Placed
<1>2. \A v \in vs : pd_get_mapping(c, p, v) = entry[v] /\ entry[v] # NULL
  BY <1>1, Kinds
<1>3. \A v \in Page : v \notin vs => pd_get_mapping(c, p, v) = pd_get_mapping(m, p, v)
  BY <1>1
<1>. QED
  BY <1>1, <1>2, <1>3 DEF Mapped

(* new_pages adds a region. *)
LEMMA RegionsGrown ==
  ASSUME NEW m, Good(m), NEW c, NEW p \in Proc, RegionsOf(m, p), NEW base \in Nat,
         NEW n \in Nat \ {0}, NEW entry, NewPagesAllowed(m, p, base, n),
         NEW f, NewEntries(entry, f, base, n), Placed(c, m, p, f, n, entry)
  PROVE  /\ RegionsOf(c, p)
         /\ base + n - 1 \in Page /\ Stretch(c, p, base, base + n - 1)
         /\ \A v, w \in Page : v <= w /\ Stretch(m, p, v, w) => Stretch(c, p, v, w)
<1> DEFINE vs == Region(base, n)
           e == base + n - 1
<1>1. vs = base .. e /\ e \in Page /\ base \in Page /\ vs \in SUBSET Page /\ base <= e
  BY Sizes DEF NewPagesAllowed, Region
<1>2. vs \cap Mapped(m, p) = {} /\ DOMAIN entry = vs /\ \A v \in vs : entry[v] \in Entry
  BY DEF NewPagesAllowed, NewEntries
<1>3. /\ Mapped(c, p) = Mapped(m, p) \cup vs
      /\ \A v \in vs : pd_get_mapping(c, p, v) = entry[v]
      /\ \A v \in Page : v \notin vs => pd_get_mapping(c, p, v) = pd_get_mapping(m, p, v)
  <2>1. \A v \in vs : entry[v] \in Entry
    BY <1>2
  <2>2. DOMAIN entry = vs /\ vs \in SUBSET Page
    BY <1>1, <1>2
  <2>3. PICK k : Placed(c, m, p, f, k, entry)
    OBVIOUS
  <2> HIDE DEF vs
  <2>. QED
    BY <2>1, <2>2, <2>3, PlacedMaps
<1>4. \A v \in vs : (entry[v].start <=> v = base) /\ (entry[v].end <=> v = e)
  BY DEF NewEntries
<1>5. Stretch(c, p, base, e)
  BY <1>1, <1>3, <1>4 DEF Stretch
<1> HIDE DEF vs, e
<1>6. ASSUME NEW v \in Page, NEW w \in Page, v <= w, Stretch(m, p, v, w) PROVE Stretch(c, p, v, w)
  <2>1. SUFFICES ASSUME NEW u \in v .. w
                 PROVE  u \in Mapped(c, p) /\ pd_get_mapping(c, p, u) = pd_get_mapping(m, p, u)
    BY <1>6 DEF Stretch
  <2>2. u \in Mapped(m, p)
    BY <1>6 DEF Stretch
  <2>3. u \in Page /\ u \notin vs
    BY <1>2, <2>2 DEF Mapped
  <2>. QED
    BY <1>3, <2>2, <2>3
<1>7. ASSUME NEW v \in Page, Begins(c, p, v)
      PROVE  \E w \in Page : w >= v /\ Stretch(c, p, v, w)
  <2>1. CASE v \in vs
    <3>1. v = base
      BY <1>3, <1>4, <1>7, <2>1 DEF Begins
    <3>2. e >= v
      BY <1>1, <3>1, Sizes
    <3>. QED
      BY <1>1, <1>5, <3>1, <3>2
  <2>2. CASE v \notin vs
    <3>1. Begins(m, p, v)
      BY <1>3, <1>7, <2>2 DEF Begins
    <3>2. PICK w \in Page : w >= v /\ Stretch(m, p, v, w)
      BY <3>1 DEF RegionsOf
    <3>3. v <= w
      BY <3>2, Sizes
    <3>. QED
      BY <1>6, <3>2, <3>3
  <2>. QED
    BY <2>1, <2>2
<1>. QED
  BY <1>1, <1>5, <1>6, <1>7 DEF RegionsOf, e

(* Two regions have no page in common. *)
LEMMA Apart ==
  ASSUME NEW m, NEW p, NEW a \in Page, NEW b \in Page, a <= b, Stretch(m, p, a, b),
         NEW v \in Page, NEW w \in Page, v <= w, Stretch(m, p, v, w), v # a
  PROVE  \A u \in v .. w : u \notin a .. b
<1>1. SUFFICES ASSUME NEW u \in v .. w, u \in a .. b PROVE FALSE
  OBVIOUS
<1>2. a \in Nat /\ b \in Nat /\ v \in Nat /\ w \in Nat
  BY Sizes
<1>3. CASE v <= a
  <2>1. a \in v .. w /\ a \in a .. b
    BY <1>1, <1>2, <1>3
  <2>. QED
    BY <2>1 DEF Stretch
<1>4. CASE a <= v
  <2>1. v \in a .. b /\ v \in v .. w
    BY <1>1, <1>2, <1>4
  <2>. QED
    BY <2>1 DEF Stretch
<1>. QED
  BY <1>2, <1>3, <1>4

(* remove_pages takes a region. *)
LEMMA RegionsShrunk ==
  ASSUME NEW m, Good(m), NEW c, NEW p \in Proc, RegionsOf(m, p), NEW base \in Page, NEW e \in Page,
         e >= base, Begins(m, p, base), Stretch(m, p, base, e),
         NEW k, Removed(c, m, p, base, e, k)
  PROVE  /\ RegionsOf(c, p) /\ Mapped(c, p) = Mapped(m, p) \ (base .. e)
         /\ \A v \in Mapped(c, p) : pd_get_mapping(c, p, v) = pd_get_mapping(m, p, v)
         /\ \A v, w \in Page : v <= w /\ v # base /\ Stretch(m, p, v, w) => Stretch(c, p, v, w)
<1>1. \A v \in Page : pd_get_mapping(c, p, v) =
        IF v \in base .. e THEN NULL ELSE pd_get_mapping(m, p, v)
  BY DEF Removed
<1>2. Mapped(c, p) = Mapped(m, p) \ (base .. e)
  BY <1>1 DEF Mapped
<1>3. \A v \in Mapped(c, p) : pd_get_mapping(c, p, v) = pd_get_mapping(m, p, v)
  BY <1>1, <1>2 DEF Mapped
<1>4. base <= e /\ base \in base .. e
  BY Sizes
<1>5. ASSUME NEW v \in Page, NEW w \in Page, v <= w, v # base, Stretch(m, p, v, w)
      PROVE  Stretch(c, p, v, w)
  <2>1. \A u \in v .. w : u \notin base .. e
    BY <1>4, <1>5, Apart
  <2>2. \A u \in v .. w : u \in Mapped(c, p)
    BY <1>2, <1>5, <2>1 DEF Stretch
  <2>. QED
    BY <1>3, <1>5, <2>2 DEF Stretch
<1>6. ASSUME NEW v \in Page, Begins(c, p, v)
      PROVE  \E w \in Page : w >= v /\ Stretch(c, p, v, w)
  <2>1. v # base /\ Begins(m, p, v)
    BY <1>2, <1>3, <1>4, <1>6 DEF Begins
  <2>2. PICK w \in Page : w >= v /\ Stretch(m, p, v, w)
    BY <2>1 DEF RegionsOf
  <2>3. v <= w
    BY <2>2, Sizes
  <2>. QED
    BY <1>5, <2>1, <2>2, <2>3
<1>. QED
  BY <1>2, <1>3, <1>5, <1>6 DEF RegionsOf

(* An image that has been loaded: what is mapped, and where. *)
LEMMA LoadedMaps ==
  ASSUME NEW m, Good(m), NEW c, NEW p \in Proc, \A v \in Page : pd_get_mapping(m, p, v) = NULL,
         Loaded(c, m, p)
  PROVE  /\ Good(c) /\ Mapped(c, p) = Image
         /\ \A v \in Page : ~Begins(c, p, v)
         /\ \A q \in Proc : q # p => c.dir[q] = m.dir[q]
         /\ \A q \in Proc, v \in Page : q # p => pd_get_mapping(c, q, v) = pd_get_mapping(m, q, v)
<1>1. PICK k, e, s :
        /\ FreeFrames(m) # {}
        /\ ImageEntries(e, NextFrame(m), Bounded(Sections))
        /\ Placed(k, m, p, NextFrame(m), Cardinality(Bounded(Sections)), e)
        /\ FreeFrames(k) # {}
        /\ ImageEntries(s, NextFrame(k), {StackLow})
        /\ Placed(c, k, p, NextFrame(k), 1, s)
  BY DEF Loaded
<1>2. Good(k) /\ Good(c)
  BY <1>1 DEF Placed
<1> DEFINE vs == Bounded(Sections)
<1>3. vs \in SUBSET Page /\ {StackLow} \in SUBSET Page
  BY Sizes DEF Bounded
<1>4. DOMAIN e = vs /\ \A v \in vs : e[v] \in Entry /\ ~e[v].start
  BY <1>1 DEF ImageEntries
<1>5. DOMAIN s = {StackLow} /\ \A v \in {StackLow} : s[v] \in Entry /\ ~s[v].start
  BY <1>1 DEF ImageEntries
<1> HIDE DEF vs
<1>6. /\ Mapped(k, p) = Mapped(m, p) \cup vs
      /\ \A v \in vs : pd_get_mapping(k, p, v) = e[v]
  <2>1. \A v \in vs : e[v] \in Entry
    BY <1>4
  <2>2. DOMAIN e = vs /\ vs \in SUBSET Page
    BY <1>3, <1>4
  <2> DEFINE f == NextFrame(m)
             n == Cardinality(Bounded(Sections))
  <2>3. Placed(k, m, p, f, n, e)
    BY <1>1
  <2> HIDE DEF f, n
  <2>. QED
    BY <2>1, <2>2, <2>3, PlacedMaps
<1>7. /\ Mapped(c, p) = Mapped(k, p) \cup {StackLow}
      /\ \A v \in {StackLow} : pd_get_mapping(c, p, v) = s[v]
      /\ \A v \in Page : v \notin {StackLow} => pd_get_mapping(c, p, v) = pd_get_mapping(k, p, v)
  BY <1>1, <1>2, <1>3, <1>5, PlacedMaps
<1>8. Mapped(m, p) = {}
  BY DEF Mapped
<1>9. Mapped(c, p) = Image
  BY <1>6, <1>7, <1>8 DEF Image, vs
<1>10. \A v \in Page : ~Begins(c, p, v)
  BY <1>4, <1>5, <1>6, <1>7, <1>8 DEF Begins
<1>11. /\ \A q \in Proc : q # p => c.dir[q] = m.dir[q]
       /\ \A q \in Proc, v \in Page : q # p => pd_get_mapping(c, q, v) = pd_get_mapping(m, q, v)
  BY <1>1 DEF Placed
<1>. QED
  BY <1>2, <1>9, <1>10, <1>11

(* TableInv is inductive. *)
LEMMA TableStep ==
  ASSUME TableInv, [Next]_vars
  PROVE  TableInv'
<1>1. /\ Good(mm) /\ procs \subseteq Proc
      /\ \A p \in Proc : RegionsOf(mm, p)
      /\ \A p \in Proc \ procs : \A d \in Dir : mm.dir[p][d] = NULL
  BY DEF TableInv
<1>2. StepKind
  BY Steps
<1>3. CASE Same(mm', mm) /\ procs' = procs
  <2>1. Good(mm') /\ \A p, v : pd_get_mapping(mm', p, v) = pd_get_mapping(mm, p, v)
    BY <1>1, <1>3, SameTables DEF Same
  <2>2. ASSUME NEW p \in Proc PROVE RegionsOf(mm', p)
    <3>1. SameFlags(mm, p, mm', p)
      BY <2>1, SameMappings
    <3>. QED
      BY <1>1, <3>1, RegionsSame
  <2>3. \A p \in Proc \ procs' : \A d \in Dir : mm'.dir[p][d] = NULL
    BY <1>1, <1>3 DEF Same
  <2>. QED
    BY <1>1, <1>3, <2>1, <2>2, <2>3 DEF TableInv
<1>4. ASSUME NEW p \in procs, Whole(mm, p), Grown(mm', mm, p), procs' = procs PROVE TableInv'
  <2>1. PICK base \in Nat, n \in Nat \ {0} : \E entry :
          /\ NewPagesAllowed(mm, p, base, n)
          /\ NewEntries(entry, NextFrame(mm), base, n)
          /\ Placed(mm', mm, p, NextFrame(mm), n, entry)
    BY <1>4 DEF Grown
  <2>2. PICK entry :
          /\ NewPagesAllowed(mm, p, base, n)
          /\ NewEntries(entry, NextFrame(mm), base, n)
          /\ Placed(mm', mm, p, NextFrame(mm), n, entry)
    BY <2>1
  <2>3. p \in Proc /\ RegionsOf(mm, p)
    BY <1>1
  <2>4. RegionsOf(mm', p)
    BY <1>1, <2>2, <2>3, RegionsGrown
  <2>5. /\ Good(mm') /\ \A q \in Proc : q # p => mm'.dir[q] = mm.dir[q]
        /\ \A q \in Proc, v \in Page : q # p => pd_get_mapping(mm', q, v) = pd_get_mapping(mm, q, v)
    BY <2>2 DEF Placed
  <2>6. \A q \in Proc : RegionsOf(mm', q)
    BY <1>1, <2>4, <2>5, RegionsOthers
  <2>7. \A q \in Proc \ procs : \A d \in Dir : mm'.dir[q][d] = NULL
    BY <1>1, <2>5
  <2>. QED
    BY <1>1, <1>4, <2>5, <2>6, <2>7 DEF TableInv
<1>5. ASSUME NEW p \in procs, Aborted(mm', mm, p), procs' = procs PROVE TableInv'
  <2>1. /\ Good(mm') /\ \A q \in Proc : q # p => mm'.dir[q] = mm.dir[q]
        /\ \A q \in Proc, v \in Page : pd_get_mapping(mm', q, v) = pd_get_mapping(mm, q, v)
    BY <1>5 DEF Aborted
  <2>2. p \in Proc /\ RegionsOf(mm, p) /\ SameFlags(mm, p, mm', p)
    BY <1>1, <2>1, SameMappings
  <2>3. RegionsOf(mm', p)
    BY <2>2, RegionsSame
  <2>4. \A q \in Proc : RegionsOf(mm', q)
    BY <1>1, <2>1, <2>3, RegionsOthers
  <2>5. \A q \in Proc \ procs : \A d \in Dir : mm'.dir[q][d] = NULL
    BY <1>1, <2>1
  <2>. QED
    BY <1>1, <1>5, <2>1, <2>4, <2>5 DEF TableInv
<1>6. ASSUME NEW p \in procs, Shrunk(mm', mm, p), procs' = procs PROVE TableInv'
  <2>1. PICK base \in Page, w \in Page : \E k \in DOMAIN mm.list[p] :
          /\ w >= base /\ RemoveAllowed(mm, p, base) /\ Stretch(mm, p, base, w)
          /\ Removed(mm', mm, p, base, w, k)
    BY <1>6 DEF Shrunk
  <2>2. PICK k \in DOMAIN mm.list[p] :
          /\ w >= base /\ RemoveAllowed(mm, p, base) /\ Stretch(mm, p, base, w)
          /\ Removed(mm', mm, p, base, w, k)
    BY <2>1
  <2>3. p \in Proc /\ RegionsOf(mm, p) /\ Begins(mm, p, base)
    BY <1>1, <2>2 DEF RemoveAllowed, Begins
  <2>4. RegionsOf(mm', p)
    BY <1>1, <2>2, <2>3, RegionsShrunk
  <2>5. /\ Good(mm') /\ \A q \in Proc : q # p => mm'.dir[q] = mm.dir[q]
        /\ \A q \in Proc, v \in Page : q # p => pd_get_mapping(mm', q, v) = pd_get_mapping(mm, q, v)
    BY <2>2 DEF Removed
  <2>6. \A q \in Proc : RegionsOf(mm', q)
    BY <1>1, <2>4, <2>5, RegionsOthers
  <2>7. \A q \in Proc \ procs : \A d \in Dir : mm'.dir[q][d] = NULL
    BY <1>1, <2>5
  <2>. QED
    BY <1>1, <1>6, <2>5, <2>6, <2>7 DEF TableInv
<1>7. ASSUME NEW p \in procs, Reloaded(mm', mm, p), procs' = procs PROVE TableInv'
  <2>1. PICK k : Cleared(k, mm, p) /\ Loaded(mm', k, p)
    BY <1>7 DEF Reloaded
  <2>2. /\ Good(k) /\ \A v \in Page : pd_get_mapping(k, p, v) = NULL
        /\ \A q \in Proc : q # p => k.dir[q] = mm.dir[q]
        /\ \A q \in Proc, v \in Page : q # p => pd_get_mapping(k, q, v) = pd_get_mapping(mm, q, v)
    BY <2>1 DEF Cleared
  <2>3. p \in Proc
    BY <1>1
  <2>4. /\ Good(mm') /\ \A v \in Page : ~Begins(mm', p, v)
        /\ \A q \in Proc : q # p => mm'.dir[q] = k.dir[q]
        /\ \A q \in Proc, v \in Page : q # p => pd_get_mapping(mm', q, v) = pd_get_mapping(k, q, v)
    BY <2>1, <2>2, <2>3, LoadedMaps
  <2>5. RegionsOf(mm', p)
    BY <2>4 DEF RegionsOf
  <2>6. \A q \in Proc, v \in Page : q # p => pd_get_mapping(mm', q, v) = pd_get_mapping(mm, q, v)
    BY <2>2, <2>4
  <2>7. \A q \in Proc : RegionsOf(mm', q)
    BY <1>1, <2>5, <2>6, RegionsOthers
  <2>8. \A q \in Proc \ procs : \A d \in Dir : mm'.dir[q][d] = NULL
    BY <1>1, <2>2, <2>4
  <2>. QED
    BY <1>1, <1>7, <2>4, <2>7, <2>8 DEF TableInv
<1>8. ASSUME NEW p \in procs, NEW q \in Proc \ procs, Forked(mm', mm, p, q), procs' = procs \cup {q}
      PROVE  TableInv'
  <2>1. PICK entry : /\ CopyEntries(entry, mm, p, NextFrame(mm))
                     /\ Placed(mm', mm, q, NextFrame(mm), mm.num[p], entry)
    BY <1>8 DEF Forked
  <2>2. SameFlags(mm, p, mm', q)
    <3>1. Mapped(mm, p) \in SUBSET Page
      BY DEF Mapped
    <3>2. DOMAIN entry = Mapped(mm, p) /\ \A v \in Mapped(mm, p) : entry[v] \in Entry
      BY <2>1 DEF CopyEntries
    <3>3. /\ Mapped(mm', q) = Mapped(mm, q) \cup Mapped(mm, p)
          /\ \A v \in Mapped(mm, p) : pd_get_mapping(mm', q, v) = entry[v]
      BY <1>1, <2>1, <3>1, <3>2, PlacedMaps
    <3>4. Mapped(mm, q) = {}
      <4>1. \A v \in Page : pde_i(v) \in Dir
        BY PageSplit
      <4>2. \A v \in Page : mm.dir[q][pde_i(v)] = NULL
        BY <1>1, <4>1
      <4>. QED
        BY <4>2, Kinds DEF Mapped, pd_get_mapping
    <3>. QED
      BY <2>1, <3>3, <3>4 DEF SameFlags, CopyEntries
  <2>3. RegionsOf(mm', q)
    BY <1>1, <2>2, RegionsSame
  <2>4. /\ Good(mm') /\ \A r \in Proc : r # q => mm'.dir[r] = mm.dir[r]
        /\ \A r \in Proc, v \in Page : r # q => pd_get_mapping(mm', r, v) = pd_get_mapping(mm, r, v)
    BY <2>1 DEF Placed
  <2>5. \A r \in Proc : RegionsOf(mm', r)
    BY <1>1, <2>3, <2>4, RegionsOthers
  <2>6. \A r \in Proc \ (procs \cup {q}) : \A d \in Dir : mm'.dir[r][d] = NULL
    BY <1>1, <2>4
  <2>. QED
    BY <1>1, <1>8, <2>4, <2>5, <2>6 DEF TableInv
<1>9. ASSUME NEW p \in procs, Cleared(mm', mm, p), procs' = procs \ {p} PROVE TableInv'
  <2>1. /\ Good(mm') /\ \A v \in Page : pd_get_mapping(mm', p, v) = NULL
        /\ \A d \in Dir : mm'.dir[p][d] = NULL
        /\ \A q \in Proc : q # p => mm'.dir[q] = mm.dir[q]
        /\ \A q \in Proc, v \in Page : q # p => pd_get_mapping(mm', q, v) = pd_get_mapping(mm, q, v)
    BY <1>9 DEF Cleared
  <2>2. RegionsOf(mm', p)
    BY <2>1 DEF RegionsOf, Begins, Mapped
  <2>3. \A q \in Proc : RegionsOf(mm', q)
    BY <1>1, <2>1, <2>2, RegionsOthers
  <2>4. \A q \in Proc \ (procs \ {p}) : \A d \in Dir : mm'.dir[q][d] = NULL
    BY <1>1, <2>1
  <2>. QED
    BY <1>1, <1>9, <2>1, <2>3, <2>4 DEF TableInv
<1>. QED
  BY <1>2, <1>3, <1>4, <1>5, <1>6, <1>7, <1>8, <1>9 DEF StepKind

(* The memory there is before the first program. *)
LEMMA BlankIs ==
  /\ Good(Blank)
  /\ \A p \in Proc : \A d \in Dir : Blank.dir[p][d] = NULL
  /\ \A p \in Proc, v \in Page : pd_get_mapping(Blank, p, v) = NULL
  /\ \A p \in Proc : Blank.list[p] = <<>> /\ Blank.num[p] = 0
  /\ \A f \in Frame : Blank.alloc[f] = 0
<1> DEFINE b == Blank
           D == [p \in Proc |-> [d \in 0 .. NumPDE - 1 |-> NULL]]
           T == [t \in Table |-> EmptyTable]
           L == [p \in Proc |-> <<>>]
           N == [p \in Proc |-> 0]
           A == [f \in Frame |-> 0]
           G == [f \in Frame |-> Garbage]
<1>1. b = [dir |-> D, pt |-> T, live |-> {}, list |-> L, num |-> N, alloc |-> A, data |-> G]
  BY DEF Blank
<1>2. /\ D \in [Proc -> [Dir -> Table \cup {NULL, Dangling}]]
      /\ \A p \in Proc : \A d \in Dir : D[p][d] = NULL
  BY DEF Dir
<1>3. T \in [Table -> [Slot -> Entry \cup {NULL}]]
  BY DEF EmptyTable, Slot
<1>4. L \in [Proc -> Seq(Slip)] /\ \A p \in Proc : L[p] = <<>>
  OBVIOUS
<1>5. N \in [Proc -> Int] /\ A \in [Frame -> Int]
      /\ (\A p \in Proc : N[p] = 0) /\ (\A f \in Frame : A[f] = 0)
  OBVIOUS
<1>6. IsContents(G)
  <2>1. Garbage = [o \in Page |-> Garbage[o]]
    BY DEF Garbage
  <2>2. \A f \in Frame : G[f] = Garbage
    OBVIOUS
  <2>. QED
    BY <2>1, <2>2 DEF IsContents
<1> HIDE DEF b, D, T, L, N, A, G
<1>7. b.dir = D /\ b.pt = T /\ b.live = {} /\ b.list = L /\ b.num = N /\ b.alloc = A /\ b.data = G
  BY <1>1
<1>8. b = [dir |-> b.dir, pt |-> b.pt, live |-> b.live, list |-> b.list, num |-> b.num,
           alloc |-> b.alloc, data |-> b.data]
  BY <1>1, <1>7
<1>9. IsMemory(b)
  BY <1>2, <1>3, <1>4, <1>5, <1>7, <1>8, <1>6 DEF IsMemory
<1>10. \A p \in Proc : \A d \in Dir : b.dir[p][d] = NULL
  BY <1>2, <1>7
<1>11. Owned(b)
  BY <1>7, <1>10, Kinds DEF Owned
<1>12. \A p \in Proc, v \in Page : pd_get_mapping(b, p, v) = NULL
  BY <1>10, Kinds, PageSplit DEF pd_get_mapping
<1>. QED
  BY <1>4, <1>5, <1>7, <1>9, <1>10, <1>11, <1>12 DEF Good, b

(* The first program. *)
LEMMA InitIs ==
  ASSUME Init
  PROVE  Loaded(mm, Blank, Init0) /\ procs = {Init0}
<1>1. Init0 \in Proc
  BY Kinds
<1>2. LoadFits(Blank, Init0)
  BY LoadAssumption
<1>3. Good(Blank) /\ \A d \in Dir : Blank.dir[Init0][d] = NULL
  BY <1>1, BlankIs
<1>4. Loaded(pcb_load_prog(Blank, Init0), Blank, Init0)
  BY <1>1, <1>2, <1>3, LoadIs
<1>. QED
  BY <1>4 DEF Init

(* It has no flags. *)
LEMMA TableInit ==
  ASSUME Init
  PROVE  TableInv
<1> DEFINE b == Blank
<1>1. Loaded(mm, b, Init0) /\ procs = {Init0}
  BY InitIs
<1>2. /\ Good(b)
      /\ \A p \in Proc : \A d \in Dir : b.dir[p][d] = NULL
      /\ \A p \in Proc, v \in Page : pd_get_mapping(b, p, v) = NULL
  BY BlankIs
<1> HIDE DEF b
<1>3. Init0 \in Proc
  BY Kinds
<1>4. /\ Good(mm) /\ \A v \in Page : ~Begins(mm, Init0, v)
      /\ \A q \in Proc : q # Init0 => mm.dir[q] = b.dir[q]
      /\ \A q \in Proc, v \in Page : q # Init0 => pd_get_mapping(mm, q, v) = pd_get_mapping(b, q, v)
  BY <1>1, <1>2, <1>3, LoadedMaps
<1>5. \A p \in Proc : RegionsOf(mm, p)
  BY <1>2, <1>4 DEF RegionsOf, Begins, Mapped
<1>. QED
  BY <1>1, <1>2, <1>3, <1>4, <1>5 DEF TableInv

(* What the invariant says of page tables, counted. *)
LEMMA OwnedCounted ==
  ASSUME Good(mm)
  PROVE  TablesOwned
<1> DEFINE places == {x \in Proc \X (0 .. NumPDE - 1) : mm.dir[x[1]][x[2]] \in Table}
           h == [t \in mm.live |-> CHOOSE x \in places : mm.dir[x[1]][x[2]] = t]
<1>1. Owned(mm) /\ mm.live \in SUBSET Table /\ IsFiniteSet(mm.live)
  BY GoodFields, Kinds, FS_Subset
<1>2. \A x \in places : x[1] \in Proc /\ x[2] \in Dir /\ x = <<x[1], x[2]>>
                        /\ mm.dir[x[1]][x[2]] \in Table /\ mm.dir[x[1]][x[2]] \in mm.live
  BY <1>1 DEF Owned, Dir
<1>3. ASSUME NEW t \in mm.live PROVE \E x \in places : mm.dir[x[1]][x[2]] = t
  <2>1. PICK p \in Proc, d \in Dir : mm.dir[p][d] = t
    BY <1>1 DEF Owned
  <2>2. <<p, d>> \in places
    BY <1>1, <2>1 DEF Dir
  <2>. QED
    BY <2>1, <2>2
<1>4. \A x, y \in places : mm.dir[x[1]][x[2]] = mm.dir[y[1]][y[2]] => x = y
  <2>1. SUFFICES ASSUME NEW x \in places, NEW y \in places, mm.dir[x[1]][x[2]] = mm.dir[y[1]][y[2]]
                 PROVE  x = y
    OBVIOUS
  <2>2. x[1] = y[1] /\ x[2] = y[2]
    BY <1>1, <1>2, <2>1 DEF Owned
  <2>3. x = <<x[1], x[2]>> /\ y = <<y[1], y[2]>>
    BY <1>2
  <2>. QED
    BY <2>2, <2>3
<1> HIDE DEF places
<1>5. \A t \in mm.live : h[t] \in places /\ mm.dir[h[t][1]][h[t][2]] = t
  BY <1>3
<1>6. h \in [mm.live -> places]
  BY <1>5
<1> HIDE DEF h
<1>7. \A t, u \in mm.live : h[t] = h[u] => t = u
  BY <1>5
<1>8. \A x \in places : \E t \in mm.live : h[t] = x
  BY <1>2, <1>4, <1>5
<1>9. Cardinality(places) = Cardinality(mm.live)
  BY <1>1, <1>6, <1>7, <1>8, OneToOne
<1>10. mm.live = {mm.dir[x[1]][x[2]] : x \in places}
  BY <1>2, <1>3
<1>. QED
  BY <1>9, <1>10 DEF TablesOwned, places

(* Page tables are neither leaked nor shared: fork, exec, new_pages,       *)
(* remove_pages, a stack that grows and the end of a process leave every   *)
(* table that is allocated in one directory, once, whatever fails.         *)
THEOREM TablesOwnedCorrect == Spec => []TablesOwned
<1>1. Init => TableInv
  BY TableInit
<1>2. TableInv /\ [Next]_vars => TableInv'
  BY TableStep
<1>3. TableInv => TablesOwned
  BY OwnedCounted DEF TableInv
<1>. QED
  BY <1>1, <1>2, <1>3, PTL DEF Spec

-----------------------------------------------------------------------------
(* The lists of frames. *)

Elems(s) == {s[i] : i \in DOMAIN s}

(* No frame is in a list twice. *)
NoneTwice(s) == \A i, j \in DOMAIN s : s[i].f = s[j].f => i = j

(* A list with one more element at its front. *)
LEMMA Prepend ==
  ASSUME NEW s \in Seq(Slip), NEW x \in Slip
  PROVE  LET t == <<x>> \o s
         IN  /\ Elems(t) = Elems(s) \cup {x}
             /\ NoneTwice(s) /\ (\A y \in Elems(s) : y.f # x.f) => NoneTwice(t)
<1> DEFINE t == <<x>> \o s
           n == Len(s)
<1>1. n \in Nat /\ DOMAIN s = 1 .. n
  OBVIOUS
<1>2. Len(t) = n + 1 /\ DOMAIN t = 1 .. n + 1 /\ t[1] = x /\ \A i \in 2 .. n + 1 : t[i] = s[i - 1]
  <2>1. t \in Seq(Slip) /\ Len(t) = 1 + n
    BY ConcatProperties
  <2>2. t[1] = x
    BY <1>1
  <2>3. \A i \in 2 .. n + 1 : t[i] = s[i - 1]
    BY <1>1
  <2>. QED
    BY <1>1, <2>1, <2>2, <2>3
<1> HIDE DEF t, n
<1>3. \A i \in 1 .. n : i + 1 \in 2 .. n + 1 /\ t[i + 1] = s[i]
  BY <1>1, <1>2
<1>4. \A i \in 2 .. n + 1 : i - 1 \in 1 .. n /\ i \in 1 .. n + 1
  BY <1>1
<1>5. \A i \in 1 .. n + 1 : i = 1 \/ i \in 2 .. n + 1
  BY <1>1
<1>6. Elems(t) = Elems(s) \cup {x}
  <2>1. ASSUME NEW y \in Elems(t) PROVE y \in Elems(s) \cup {x}
    <3>1. PICK i \in 1 .. n + 1 : t[i] = y
      BY <1>2 DEF Elems
    <3>2. CASE i \in 2 .. n + 1
      BY <1>1, <1>2, <1>4, <3>1, <3>2 DEF Elems
    <3>. QED
      BY <1>2, <1>5, <3>1, <3>2
  <2>2. ASSUME NEW y \in Elems(s) PROVE y \in Elems(t)
    <3>1. PICK i \in 1 .. n : s[i] = y
      BY <1>1 DEF Elems
    <3>2. i + 1 \in DOMAIN t /\ t[i + 1] = y
      BY <1>2, <1>3, <1>4, <3>1
    <3>. QED
      BY <3>2 DEF Elems
  <2>3. x \in Elems(t)
    BY <1>1, <1>2 DEF Elems
  <2>. QED
    BY <2>1, <2>2, <2>3
<1>7. ASSUME NoneTwice(s), \A y \in Elems(s) : y.f # x.f PROVE NoneTwice(t)
  <2>1. SUFFICES ASSUME NEW i \in 1 .. n + 1, NEW j \in 1 .. n + 1, t[i].f = t[j].f
                 PROVE  i = j
    BY <1>2 DEF NoneTwice
  <2>2. \A k \in 2 .. n + 1 : t[k] \in Elems(s)
    BY <1>1, <1>2, <1>4 DEF Elems
  <2>3. CASE i = 1 \/ j = 1
    BY <1>2, <1>5, <1>7, <2>1, <2>2, <2>3
  <2>4. CASE i \in 2 .. n + 1 /\ j \in 2 .. n + 1
    <3>1. s[i - 1].f = s[j - 1].f
      BY <1>2, <2>1, <2>4
    <3>2. i - 1 \in DOMAIN s /\ j - 1 \in DOMAIN s
      BY <1>1, <1>4, <2>4
    <3>3. i - 1 = j - 1
      BY <1>7, <3>1, <3>2 DEF NoneTwice
    <3>. QED
      BY <1>1, <3>3
  <2>. QED
    BY <1>5, <2>3, <2>4
<1>. QED
  BY <1>6, <1>7 DEF t

(* A list without its k-th element. *)
LEMMA Without ==
  ASSUME NEW s \in Seq(Slip), NEW k \in DOMAIN s, NoneTwice(s)
  PROVE  LET t == SubSeq(s, 1, k - 1) \o SubSeq(s, k + 1, Len(s))
         IN  Elems(t) = Elems(s) \ {s[k]} /\ NoneTwice(t)
<1> DEFINE n == Len(s)
           a == SubSeq(s, 1, k - 1)
           b == SubSeq(s, k + 1, n)
           t == a \o b
<1>1. n \in Nat /\ DOMAIN s = 1 .. n /\ k \in 1 .. n
  OBVIOUS
<1>2. /\ a \in Seq(Slip) /\ Len(a) = k - 1 /\ \A i \in 1 .. k - 1 : a[i] = s[i]
  <2>1. \A i \in 1 .. k - 1 : s[i] \in Slip
    BY <1>1
  <2>. QED
    BY <1>1, <2>1, SubSeqProperties
<1>3. /\ b \in Seq(Slip) /\ Len(b) = n - k /\ \A i \in 1 .. n - k : b[i] = s[k + i]
  <2>1. \A i \in k + 1 .. n : s[i] \in Slip
    BY <1>1
  <2>. QED
    BY <1>1, <2>1, SubSeqProperties
<1> HIDE DEF a, b
<1>4. t \in Seq(Slip) /\ Len(t) = (k - 1) + (n - k)
      /\ \A i \in 1 .. (k - 1) + (n - k) : t[i] = IF i <= k - 1 THEN a[i] ELSE b[i - (k - 1)]
  <2>1. t \in Seq(Slip) /\ Len(t) = Len(a) + Len(b)
        /\ \A i \in 1 .. Len(a) + Len(b) : t[i] = IF i <= Len(a) THEN a[i] ELSE b[i - Len(a)]
    BY <1>2, <1>3, ConcatProperties
  <2> HIDE DEF t
  <2>. QED
    BY <1>2, <1>3, <2>1
<1> HIDE DEF t
<1> DEFINE at0(i) == IF i < k THEN i ELSE i + 1
<1>5. DOMAIN t = 1 .. n - 1
  BY <1>1, <1>4
<1>6. ASSUME NEW i \in 1 .. n - 1 PROVE at0(i) \in 1 .. n /\ at0(i) # k /\ t[i] = s[at0(i)]
  <2>1. CASE i < k
    BY <1>1, <1>2, <1>4, <2>1
  <2>2. CASE ~(i < k)
    <3>1. i - (k - 1) \in 1 .. n - k /\ k + (i - (k - 1)) = i + 1 /\ ~(i <= k - 1)
      BY <1>1, <2>2
    <3>2. t[i] = b[i - (k - 1)]
      BY <1>1, <1>4, <3>1
    <3>3. b[i - (k - 1)] = s[k + (i - (k - 1))]
      BY <1>3, <3>1
    <3>4. t[i] = s[i + 1]
      BY <3>1, <3>2, <3>3
    <3>. QED
      BY <1>1, <2>2, <3>4
  <2>. QED
    BY <2>1, <2>2
<1>7. ASSUME NEW j \in 1 .. n, j # k PROVE \E i \in 1 .. n - 1 : at0(i) = j
  <2> DEFINE i == IF j < k THEN j ELSE j - 1
  <2>1. i \in 1 .. n - 1 /\ at0(i) = j
    BY <1>1, <1>7
  <2>. QED
    BY <2>1
<1>8. \A i, j \in 1 .. n - 1 : at0(i) = at0(j) => i = j
  BY <1>1
<1> HIDE DEF at0
<1>9. Elems(t) \subseteq Elems(s) \ {s[k]}
  <2>1. SUFFICES ASSUME NEW i \in 1 .. n - 1 PROVE t[i] \in Elems(s) /\ t[i] # s[k]
    BY <1>5 DEF Elems
  <2>2. t[i] \in Elems(s)
    BY <1>1, <1>6 DEF Elems
  <2>3. s[at0(i)].f # s[k].f
    BY <1>1, <1>6 DEF NoneTwice
  <2>. QED
    BY <1>6, <2>2, <2>3
<1>10. Elems(s) \ {s[k]} \subseteq Elems(t)
  <2>1. SUFFICES ASSUME NEW j \in 1 .. n, s[j] # s[k] PROVE s[j] \in Elems(t)
    BY <1>1 DEF Elems
  <2>2. PICK i \in 1 .. n - 1 : at0(i) = j
    BY <1>7, <2>1
  <2>3. t[i] = s[j] /\ i \in DOMAIN t
    BY <1>5, <1>6, <2>2
  <2>. QED
    BY <2>3 DEF Elems
<1>11. NoneTwice(t)
  <2>1. SUFFICES ASSUME NEW i \in 1 .. n - 1, NEW j \in 1 .. n - 1, t[i].f = t[j].f PROVE i = j
    BY <1>5 DEF NoneTwice
  <2>2. s[at0(i)].f = s[at0(j)].f /\ at0(i) \in DOMAIN s /\ at0(j) \in DOMAIN s
    BY <1>1, <1>6, <2>1
  <2>3. at0(i) = at0(j)
    BY <2>2 DEF NoneTwice
  <2>. QED
    BY <1>8, <2>3
<1>. QED
  BY <1>9, <1>10, <1>11 DEF t, a, b

-----------------------------------------------------------------------------
(* Who has which frame. *)

PageOf(m, p, v) == pd_get_mapping(m, p, v).page

(* The frames that are given out are those in the lists, each in one. *)
FrameLists(m) ==
  /\ \A p \in Proc : NoneTwice(m.list[p])
  /\ \A p \in Proc : \A x \in Elems(m.list[p]) : x.n > 0 /\ m.alloc[x.f] = x.n
  /\ \A p, q \in Proc : \A x \in Elems(m.list[p]), y \in Elems(m.list[q]) : x.f = y.f => p = q
  /\ \A f \in Frame : m.alloc[f] # 0 => \E p \in Proc : \E x \in Elems(m.list[p]) : x.f = f

(* A process maps pages of its own frames, no page twice, and num_pages    *)
(* of them.                                                                *)
FramePages(m, p) ==
  /\ \A v \in Mapped(m, p) : \E x \in Elems(m.list[p]) :
       PageOf(m, p, v)[1] = x.f /\ PageOf(m, p, v)[2] < x.n
  /\ \A u, v \in Mapped(m, p) : PageOf(m, p, u) = PageOf(m, p, v) => u = v
  /\ m.num[p] = Cardinality(Mapped(m, p))

(* The elements of the lists. *)
LEMMA ElemsType ==
  ASSUME NEW m, Good(m), NEW p \in Proc
  PROVE  /\ m.list[p] \in Seq(Slip) /\ Elems(m.list[p]) \subseteq Slip
         /\ \A x \in Elems(m.list[p]) : x.f \in Frame /\ x.n \in Int
<1>1. m.list[p] \in Seq(Slip)
  BY GoodFields
<1>2. Elems(m.list[p]) \subseteq Slip
  BY <1>1 DEF Elems
<1>. QED
  BY <1>1, <1>2 DEF Slip

(* The pages of a process are not disturbed by what happens to others. *)
LEMMA PagesSame ==
  ASSUME NEW m, NEW c, NEW p, FramePages(m, p),
         \A v \in Page : pd_get_mapping(c, p, v) = pd_get_mapping(m, p, v),
         c.list[p] = m.list[p], c.num[p] = m.num[p]
  PROVE  FramePages(c, p)
<1>1. Mapped(c, p) = Mapped(m, p) /\ Mapped(m, p) \subseteq Page
  BY DEF Mapped
<1>2. \A v \in Mapped(m, p) : PageOf(c, p, v) = PageOf(m, p, v)
  BY <1>1 DEF PageOf
<1>. QED
  BY <1>1, <1>2 DEF FramePages

(* p has the frame f as well, and nobody else had it. *)
FrameAdded(c, m, p, f, n) ==
  /\ FrameLists(c)
  /\ Elems(c.list[p]) = Elems(m.list[p]) \cup {[f |-> f, n |-> n]}
  /\ \A q \in Proc : q # p => c.list[q] = m.list[q] /\ c.num[q] = m.num[q]
  /\ \A q \in Proc : \A x \in Elems(m.list[q]) : x.f # f
  /\ c.num[p] = m.num[p] + n

(* A free frame is given to p. *)
LEMMA PlacedFrames ==
  ASSUME NEW m, Good(m), FrameLists(m), NEW c, NEW p \in Proc, NEW f \in Frame, m.alloc[f] = 0,
         NEW n \in Int, n > 0, NEW entry, Placed(c, m, p, f, n, entry)
  PROVE  FrameAdded(c, m, p, f, n)
<1> DEFINE y == [f |-> f, n |-> n]
<1>1. /\ c.list = [m.list EXCEPT ![p] = <<y>> \o @]
      /\ c.num = [m.num EXCEPT ![p] = @ + n]
      /\ c.alloc = [m.alloc EXCEPT ![f] = n]
  BY DEF Placed
<1>2. m.list \in [Proc -> Seq(Slip)] /\ m.num \in [Proc -> Int] /\ m.alloc \in [Frame -> Int]
  BY GoodFields
<1>3. y \in Slip /\ y.f = f /\ y.n = n
  BY DEF Slip
<1> HIDE DEF y
<1>4. c.list[p] = <<y>> \o m.list[p] /\ \A q \in Proc : q # p => c.list[q] = m.list[q]
  BY <1>1, <1>2
<1>5. c.num[p] = m.num[p] + n /\ \A q \in Proc : q # p => c.num[q] = m.num[q]
  BY <1>1, <1>2
<1>6. c.alloc[f] = n /\ \A g \in Frame : g # f => c.alloc[g] = m.alloc[g]
  BY <1>1, <1>2
<1>7. ASSUME NEW q \in Proc, NEW x \in Elems(m.list[q]) PROVE x.f # f /\ x.f \in Frame
  <2>1. x.n > 0 /\ m.alloc[x.f] = x.n /\ x.f \in Frame /\ x.n \in Int
    BY ElemsType DEF FrameLists
  <2>. QED
    BY <2>1
<1>8. m.list[p] \in Seq(Slip)
  BY <1>2
<1>9. Elems(c.list[p]) = Elems(m.list[p]) \cup {y}
  BY <1>3, <1>4, <1>8, Prepend
<1>10. NoneTwice(c.list[p])
  <2>1. NoneTwice(m.list[p]) /\ \A x \in Elems(m.list[p]) : x.f # y.f
    BY <1>3, <1>7 DEF FrameLists
  <2>. QED
    BY <1>3, <1>4, <1>8, <2>1, Prepend
<1>11. \A q \in Proc : NoneTwice(c.list[q])
  BY <1>4, <1>10 DEF FrameLists
<1>12. \A q \in Proc : \A x \in Elems(c.list[q]) :
         \/ x \in Elems(m.list[q])
         \/ q = p /\ x = y
  BY <1>4, <1>9
<1>13. ASSUME NEW q \in Proc, NEW x \in Elems(c.list[q]) PROVE x.n > 0 /\ c.alloc[x.f] = x.n
  <2>1. CASE x = y
    BY <1>3, <1>6, <2>1
  <2>2. CASE x \in Elems(m.list[q])
    BY <1>6, <1>7, <2>2 DEF FrameLists
  <2>. QED
    BY <1>12, <2>1, <2>2
<1>14. ASSUME NEW q \in Proc, NEW r \in Proc, NEW x \in Elems(c.list[q]), NEW z \in Elems(c.list[r]),
              x.f = z.f
       PROVE  q = r
  <2>1. CASE x \in Elems(m.list[q]) /\ z \in Elems(m.list[r])
    BY <1>14, <2>1 DEF FrameLists
  <2>2. CASE x = y /\ q = p /\ z \in Elems(m.list[r])
    BY <1>3, <1>7, <1>14, <2>2
  <2>3. CASE z = y /\ r = p /\ x \in Elems(m.list[q])
    BY <1>3, <1>7, <1>14, <2>3
  <2>. QED
    BY <1>12, <2>1, <2>2, <2>3
<1>15. ASSUME NEW g \in Frame, c.alloc[g] # 0
       PROVE  \E q \in Proc : \E x \in Elems(c.list[q]) : x.f = g
  <2>1. CASE g = f
    BY <1>3, <1>9, <2>1
  <2>2. CASE g # f
    <3>1. PICK q \in Proc : \E x \in Elems(m.list[q]) : x.f = g
      BY <1>6, <1>15, <2>2 DEF FrameLists
    <3>. QED
      BY <1>4, <1>9, <3>1
  <2>. QED
    BY <2>1, <2>2
<1>16. FrameLists(c)
  BY <1>11, <1>13, <1>14, <1>15 DEF FrameLists
<1>. QED
  BY <1>4, <1>5, <1>7, <1>9, <1>16 DEF FrameAdded, y

(* entry has n pages of the frame f, none of them twice. *)
FrameEntries(entry, f, n) ==
  /\ DOMAIN entry \in SUBSET Page /\ n = Cardinality(DOMAIN entry)
  /\ \A v \in DOMAIN entry :
       entry[v] \in Entry /\ entry[v].page[1] = f /\ entry[v].page[2] < n
  /\ \A u, v \in DOMAIN entry : entry[u].page = entry[v].page => u = v

(* p's pages are those of entry and what it had, in other frames. *)
PagesAdded(c, m, p, f, entry) ==
  /\ FramePages(c, p)
  /\ Mapped(c, p) = Mapped(m, p) \cup DOMAIN entry
  /\ \A v \in DOMAIN entry : pd_get_mapping(c, p, v) = entry[v]
  /\ \A v \in DOMAIN entry : PageOf(c, p, v) = entry[v].page
  /\ \A v \in Mapped(m, p) : /\ pd_get_mapping(c, p, v) = pd_get_mapping(m, p, v)
                             /\ PageOf(c, p, v) = PageOf(m, p, v) /\ PageOf(m, p, v)[1] # f

(* The pages of the frame that is given to p are mapped, all of them. *)
LEMMA PlacedPages ==
  ASSUME NEW m, Good(m), FrameLists(m), NEW p \in Proc, FramePages(m, p), NEW c, NEW f \in Frame,
         m.alloc[f] = 0, NEW n \in Int, n > 0, NEW entry, Placed(c, m, p, f, n, entry),
         FrameEntries(entry, f, n), DOMAIN entry \cap Mapped(m, p) = {}
  PROVE  PagesAdded(c, m, p, f, entry)
<1> DEFINE vs == DOMAIN entry
<1>0. /\ vs \in SUBSET Page /\ n = Cardinality(vs) /\ vs \cap Mapped(m, p) = {}
      /\ \A v \in vs : entry[v] \in Entry /\ entry[v].page[1] = f /\ entry[v].page[2] < n
      /\ \A u, v \in vs : entry[u].page = entry[v].page => u = v
  BY DEF FrameEntries
<1>1. /\ Elems(c.list[p]) = Elems(m.list[p]) \cup {[f |-> f, n |-> n]}
      /\ \A q \in Proc : \A x \in Elems(m.list[q]) : x.f # f
      /\ c.num[p] = m.num[p] + n
  BY PlacedFrames DEF FrameAdded
<1>2. /\ Mapped(c, p) = Mapped(m, p) \cup vs
      /\ \A v \in vs : pd_get_mapping(c, p, v) = entry[v]
      /\ \A v \in Page : v \notin vs => pd_get_mapping(c, p, v) = pd_get_mapping(m, p, v)
  <2>1. \A v \in vs : entry[v] \in Entry
    BY <1>0
  <2>2. PICK k : Placed(c, m, p, f, k, entry)
    OBVIOUS
  <2>3. vs \in SUBSET Page /\ DOMAIN entry = vs
    BY <1>0
  <2> HIDE DEF vs
  <2>. QED
    BY <2>1, <2>2, <2>3, PlacedMaps
<1> HIDE DEF vs
<1>3. \A v \in vs : PageOf(c, p, v) = entry[v].page
  BY <1>2 DEF PageOf
<1>4. Mapped(m, p) \in SUBSET Page
  BY DEF Mapped
<1>5. \A v \in Mapped(m, p) : PageOf(c, p, v) = PageOf(m, p, v)
  BY <1>0, <1>2, <1>4 DEF PageOf
<1>6. \A v \in Mapped(m, p) : PageOf(m, p, v)[1] # f
  BY <1>1 DEF FramePages
<1>7. ASSUME NEW v \in Mapped(c, p)
      PROVE  \E x \in Elems(c.list[p]) : PageOf(c, p, v)[1] = x.f /\ PageOf(c, p, v)[2] < x.n
  <2>1. CASE v \in vs
    <3> DEFINE y == [f |-> f, n |-> n]
    <3>1. y \in Elems(c.list[p]) /\ y.f = f /\ y.n = n
      BY <1>1
    <3>2. PageOf(c, p, v)[1] = f /\ PageOf(c, p, v)[2] < n
      BY <1>0, <1>3, <2>1
    <3>. QED
      BY <3>1, <3>2
  <2>2. CASE v \in Mapped(m, p)
    <3>1. PICK x \in Elems(m.list[p]) : PageOf(m, p, v)[1] = x.f /\ PageOf(m, p, v)[2] < x.n
      BY <2>2 DEF FramePages
    <3>. QED
      BY <1>1, <1>5, <2>2, <3>1
  <2>. QED
    BY <1>2, <2>1, <2>2
<1>8. ASSUME NEW u \in Mapped(c, p), NEW v \in Mapped(c, p), PageOf(c, p, u) = PageOf(c, p, v)
      PROVE  u = v
  <2>1. \A w \in vs : PageOf(c, p, w)[1] = f
    BY <1>0, <1>3
  <2>2. CASE u \in vs /\ v \in vs
    BY <1>0, <1>3, <1>8, <2>2
  <2>3. CASE u \in Mapped(m, p) /\ v \in Mapped(m, p)
    BY <1>5, <1>8, <2>3 DEF FramePages
  <2>4. CASE u \in vs /\ v \in Mapped(m, p)
    BY <1>5, <1>6, <1>8, <2>1, <2>4
  <2>5. CASE v \in vs /\ u \in Mapped(m, p)
    BY <1>5, <1>6, <1>8, <2>1, <2>5
  <2>. QED
    BY <1>2, <2>2, <2>3, <2>4, <2>5
<1>9. c.num[p] = Cardinality(Mapped(c, p))
  <2>1. IsFiniteSet(vs) /\ IsFiniteSet(Mapped(m, p))
    BY <1>0, <1>4, Sizes, FS_Subset
  <2>2. Cardinality(Mapped(m, p)) \in Nat /\ Cardinality(vs) \in Nat
    BY <2>1, FS_CardinalityType
  <2>3. Cardinality(Mapped(m, p) \cup vs) =
          Cardinality(Mapped(m, p)) + Cardinality(vs) - Cardinality(Mapped(m, p) \cap vs)
    BY <2>1, FS_Union
  <2>4. Cardinality(Mapped(m, p) \cap vs) = 0
    <3>1. Mapped(m, p) \cap vs = {}
      BY <1>0
    <3>. QED
      BY <3>1, FS_EmptySet
  <2>5. m.num[p] = Cardinality(Mapped(m, p))
    BY DEF FramePages
  <2>. QED
    BY <1>0, <1>1, <1>2, <2>2, <2>3, <2>4, <2>5
<1>10. FramePages(c, p)
  BY <1>7, <1>8, <1>9 DEF FramePages
<1>. QED
  <2>1. \A v \in Mapped(m, p) : pd_get_mapping(c, p, v) = pd_get_mapping(m, p, v)
    BY <1>0, <1>2, <1>4
  <2>. QED
    BY <1>2, <1>3, <1>5, <1>6, <1>10, <2>1 DEF PagesAdded, vs

(* The frames of a process are given back, all of them. *)
LEMMA ClearedFrames ==
  ASSUME NEW m, Good(m), FrameLists(m), \A q \in Proc : FramePages(m, q),
         NEW c, NEW p \in Proc, Cleared(c, m, p)
  PROVE  FrameLists(c) /\ \A q \in Proc : FramePages(c, q)
<1> DEFINE mine == {m.list[p][i].f : i \in DOMAIN m.list[p]}
<1>1. /\ \A q \in Proc : q # p =>
           /\ c.list[q] = m.list[q] /\ c.num[q] = m.num[q]
           /\ \A v \in Page : pd_get_mapping(c, q, v) = pd_get_mapping(m, q, v)
      /\ \A v \in Page : pd_get_mapping(c, p, v) = NULL
      /\ c.list[p] = <<>> /\ c.num[p] = 0
      /\ \A f \in Frame : c.alloc[f] = IF f \in mine THEN 0 ELSE m.alloc[f]
  BY DEF Cleared
<1>2. \A f : f \in mine <=> \E x \in Elems(m.list[p]) : x.f = f
  BY DEF Elems
<1> HIDE DEF mine
<1>3. Elems(c.list[p]) = {} /\ NoneTwice(c.list[p])
  BY <1>1 DEF Elems, NoneTwice
<1>4. \A q \in Proc : \A x \in Elems(c.list[q]) : q # p /\ x \in Elems(m.list[q])
  BY <1>1, <1>3
<1>5. \A q \in Proc : NoneTwice(c.list[q])
  BY <1>1, <1>3 DEF FrameLists
<1>6. ASSUME NEW q \in Proc, NEW x \in Elems(c.list[q]) PROVE x.n > 0 /\ c.alloc[x.f] = x.n
  <2>1. q # p /\ x \in Elems(m.list[q]) /\ x.f \in Frame
    BY <1>4, ElemsType
  <2>2. x.f \notin mine
    BY <1>2, <2>1 DEF FrameLists
  <2>. QED
    BY <1>1, <2>1, <2>2 DEF FrameLists
<1>7. \A q, r \in Proc : \A x \in Elems(c.list[q]), y \in Elems(c.list[r]) : x.f = y.f => q = r
  BY <1>4 DEF FrameLists
<1>8. ASSUME NEW f \in Frame, c.alloc[f] # 0
      PROVE  \E q \in Proc : \E x \in Elems(c.list[q]) : x.f = f
  <2>1. f \notin mine /\ m.alloc[f] # 0
    BY <1>1, <1>8
  <2>2. PICK q \in Proc : \E x \in Elems(m.list[q]) : x.f = f
    BY <2>1 DEF FrameLists
  <2>3. q # p
    BY <1>2, <2>1, <2>2
  <2>. QED
    BY <1>1, <2>2, <2>3
<1>9. FrameLists(c)
  BY <1>5, <1>6, <1>7, <1>8 DEF FrameLists
<1>10. FramePages(c, p)
  <2>1. Mapped(c, p) = {}
    BY <1>1 DEF Mapped
  <2>2. Cardinality(Mapped(c, p)) = 0
    BY <2>1, FS_EmptySet
  <2>. QED
    BY <1>1, <2>1, <2>2 DEF FramePages
<1>11. ASSUME NEW q \in Proc, q # p PROVE FramePages(c, q)
  BY <1>1, <1>11, PagesSame
<1>. QED
  BY <1>9, <1>10, <1>11

(* What new_pages gave and can be removed: the pages from v to w are the   *)
(* pages of the frame, all of them.                                        *)
WholeFrame(m, p, v, w) ==
  /\ Stretch(m, p, v, w)
  /\ \A u \in Mapped(m, p) : PageOf(m, p, u)[1] = PageOf(m, p, v)[1] <=> u \in v .. w
  /\ \A x \in Elems(m.list[p]) : x.f = PageOf(m, p, v)[1] => x.n = w - v + 1

(* A region that starts with the first page of a frame is that frame. *)
WholeFrames(m, p) ==
  \A v \in Page : Begins(m, p, v) /\ PageOf(m, p, v)[2] = 0
    => \E w \in Page : w >= v /\ WholeFrame(m, p, v, w)

(* It takes the mappings and the list. *)
LEMMA WholeFramesSame ==
  ASSUME NEW m, NEW c, NEW p, WholeFrames(m, p), c.list[p] = m.list[p],
         \A v \in Page : pd_get_mapping(c, p, v) = pd_get_mapping(m, p, v)
  PROVE  WholeFrames(c, p)
<1>1. Mapped(c, p) = Mapped(m, p) /\ Mapped(m, p) \subseteq Page
  BY DEF Mapped
<1>2. \A v \in Page : PageOf(c, p, v) = PageOf(m, p, v)
  BY DEF PageOf
<1>3. \A v \in Page : Begins(c, p, v) => Begins(m, p, v)
  BY <1>1 DEF Begins
<1>4. \A v, w \in Page : Stretch(m, p, v, w) => Stretch(c, p, v, w)
  BY <1>1 DEF Stretch
<1>5. ASSUME NEW v \in Page, NEW w \in Page, WholeFrame(m, p, v, w) PROVE WholeFrame(c, p, v, w)
  BY <1>1, <1>2, <1>4, <1>5 DEF WholeFrame
<1>. QED
  BY <1>2, <1>3, <1>5 DEF WholeFrames

(* A region has one end. *)
LEMMA OneEnd ==
  ASSUME NEW m, NEW p, NEW v \in Page, NEW w \in Page, NEW e \in Page, w >= v, e >= v,
         Stretch(m, p, v, w), Stretch(m, p, v, e)
  PROVE  w = e
<1>1. v \in Nat /\ w \in Nat /\ e \in Nat
  BY Sizes
<1>2. CASE w <= e
  <2>1. w \in v .. w /\ w \in v .. e
    BY <1>1, <1>2
  <2>. QED
    BY <2>1 DEF Stretch
<1>3. CASE e <= w
  <2>1. e \in v .. w /\ e \in v .. e
    BY <1>1, <1>3
  <2>. QED
    BY <2>1 DEF Stretch
<1>. QED
  BY <1>1, <1>2, <1>3

(* remove_pages gives back a frame and no page of it stays mapped. *)
LEMMA RemovedFrames ==
  ASSUME NEW m, Good(m), FrameLists(m), NEW p \in Proc, FramePages(m, p), WholeFrames(m, p),
         RegionsOf(m, p), NEW base \in Page, NEW w \in Page, w >= base, RemoveAllowed(m, p, base),
         Stretch(m, p, base, w), NEW c, NEW k, Removed(c, m, p, base, w, k)
  PROVE  /\ FrameLists(c) /\ FramePages(c, p) /\ WholeFrames(c, p)
         /\ \A q \in Proc : q # p => c.list[q] = m.list[q] /\ c.num[q] = m.num[q]
<1> DEFINE f == pd_get_mapping(m, p, base).page[1]
           s == m.list[p]
           t == SubSeq(s, 1, k - 1) \o SubSeq(s, k + 1, Len(s))
<1>1. /\ k \in DOMAIN s /\ s[k].f = f
      /\ c.list = [m.list EXCEPT ![p] = SubSeq(@, 1, k - 1) \o SubSeq(@, k + 1, Len(@))]
      /\ c.num = [m.num EXCEPT ![p] = @ - m.list[p][k].n]
      /\ c.alloc = [m.alloc EXCEPT ![f] = 0]
  BY DEF Removed
<1>2. m.list \in [Proc -> Seq(Slip)] /\ m.num \in [Proc -> Int] /\ m.alloc \in [Frame -> Int]
  BY GoodFields
<1>3. Begins(m, p, base) /\ PageOf(m, p, base)[2] = 0 /\ PageOf(m, p, base)[1] = f
  BY DEF RemoveAllowed, Begins, PageOf
<1>4. WholeFrame(m, p, base, w)
  <2>1. PICK e \in Page : e >= base /\ WholeFrame(m, p, base, e)
    BY <1>3 DEF WholeFrames
  <2>2. e = w
    BY <2>1, OneEnd DEF WholeFrame
  <2>. QED
    BY <2>1, <2>2
<1>5. f \in Frame
  <2>1. pd_get_mapping(m, p, base) \in Entry
    BY <1>3, MappingType DEF Begins
  <2>. QED
    BY <2>1 DEF Entry
<1> HIDE DEF f
<1>6. c.list[p] = t /\ \A q \in Proc : q # p => c.list[q] = m.list[q]
  BY <1>1, <1>2
<1>7. c.num[p] = m.num[p] - s[k].n /\ \A q \in Proc : q # p => c.num[q] = m.num[q]
  BY <1>1, <1>2
<1>8. c.alloc[f] = 0 /\ \A g \in Frame : g # f => c.alloc[g] = m.alloc[g]
  BY <1>1, <1>2, <1>5
<1>9. Elems(t) = Elems(s) \ {s[k]} /\ NoneTwice(t)
  <2>1. s \in Seq(Slip) /\ NoneTwice(s)
    BY <1>2 DEF FrameLists
  <2> HIDE DEF s
  <2>. QED
    BY <1>1, <2>1, Without
<1>10. s[k] \in Elems(s) /\ s[k].n = w - base + 1
  <2>1. s[k] \in Elems(s)
    BY <1>1 DEF Elems
  <2>. QED
    BY <1>1, <1>3, <1>4, <2>1 DEF WholeFrame
<1>11. \A x \in Elems(t) : x.f # f
  <2>1. SUFFICES ASSUME NEW x \in Elems(s), x # s[k], x.f = f PROVE FALSE
    BY <1>9
  <2>2. PICK i \in DOMAIN s : s[i] = x
    BY DEF Elems
  <2>3. i = k
    BY <1>1, <2>1, <2>2 DEF FrameLists, NoneTwice
  <2>. QED
    BY <2>1, <2>2, <2>3
<1>12. ASSUME NEW q \in Proc, NEW x \in Elems(c.list[q])
       PROVE  x \in Elems(m.list[q]) /\ x.f # f /\ x.f \in Frame
  <2>1. x \in Elems(m.list[q])
    BY <1>6, <1>9
  <2>2. CASE q = p
    BY <1>6, <1>11, <2>1, <2>2, ElemsType
  <2>3. CASE q # p
    <3>1. x.f # s[k].f
      BY <1>10, <2>1, <2>3 DEF FrameLists
    <3>. QED
      BY <1>1, <2>1, <3>1, ElemsType
  <2>. QED
    BY <2>2, <2>3, <2>1
<1>13. FrameLists(c)
  <2>1. \A q \in Proc : NoneTwice(c.list[q])
    BY <1>6, <1>9 DEF FrameLists
  <2>2. ASSUME NEW q \in Proc, NEW x \in Elems(c.list[q]) PROVE x.n > 0 /\ c.alloc[x.f] = x.n
    <3>1. x \in Elems(m.list[q]) /\ x.f # f /\ x.f \in Frame
      BY <1>12
    <3>. QED
      BY <1>8, <3>1 DEF FrameLists
  <2>3. ASSUME NEW q \in Proc, NEW r \in Proc, NEW x \in Elems(c.list[q]), NEW y \in Elems(c.list[r]),
               x.f = y.f
        PROVE  q = r
    <3>1. x \in Elems(m.list[q]) /\ y \in Elems(m.list[r])
      BY <1>12
    <3>. QED
      BY <2>3, <3>1 DEF FrameLists
  <2>4. ASSUME NEW g \in Frame, c.alloc[g] # 0
        PROVE  \E q \in Proc : \E x \in Elems(c.list[q]) : x.f = g
    <3>1. g # f /\ m.alloc[g] # 0
      BY <1>8, <2>4
    <3>2. PICK q \in Proc : \E x \in Elems(m.list[q]) : x.f = g
      BY <3>1 DEF FrameLists
    <3>3. PICK x \in Elems(m.list[q]) : x.f = g
      BY <3>2
    <3>4. x \in Elems(c.list[q])
      BY <1>1, <1>6, <1>9, <3>1, <3>3
    <3>. QED
      BY <3>3, <3>4
  <2>. QED
    BY <2>1, <2>2, <2>3, <2>4 DEF FrameLists
<1>14. /\ RegionsOf(c, p) /\ Mapped(c, p) = Mapped(m, p) \ (base .. w)
       /\ \A v \in Mapped(c, p) : pd_get_mapping(c, p, v) = pd_get_mapping(m, p, v)
       /\ \A v, e \in Page : v <= e /\ v # base /\ Stretch(m, p, v, e) => Stretch(c, p, v, e)
  BY <1>3, RegionsShrunk
<1>15. \A v \in Mapped(c, p) : /\ PageOf(c, p, v) = PageOf(m, p, v) /\ v \in Mapped(m, p)
                               /\ PageOf(m, p, v)[1] # f
  BY <1>3, <1>4, <1>14 DEF PageOf, WholeFrame
<1>16. FramePages(c, p)
  <2>1. ASSUME NEW v \in Mapped(c, p)
        PROVE  \E x \in Elems(c.list[p]) : PageOf(c, p, v)[1] = x.f /\ PageOf(c, p, v)[2] < x.n
    <3>1. PICK x \in Elems(s) : PageOf(m, p, v)[1] = x.f /\ PageOf(m, p, v)[2] < x.n
      BY <1>15 DEF FramePages
    <3>2. x \in Elems(c.list[p])
      BY <1>1, <1>6, <1>9, <1>15, <3>1
    <3>. QED
      BY <1>15, <3>1, <3>2
  <2>2. \A u, v \in Mapped(c, p) : PageOf(c, p, u) = PageOf(c, p, v) => u = v
    BY <1>15 DEF FramePages
  <2>3. c.num[p] = Cardinality(Mapped(c, p))
    <3>1. IsFiniteSet(Mapped(m, p))
      <4>1. Mapped(m, p) \in SUBSET Page
        BY DEF Mapped
      <4>. QED
        BY <4>1, Sizes, FS_Subset
    <3>2. Cardinality(Mapped(c, p)) = Cardinality(Mapped(m, p)) - Cardinality(Mapped(m, p) \cap (base .. w))
      BY <1>14, <3>1, FS_Difference
    <3>3. Mapped(m, p) \cap (base .. w) = base .. w
      BY <1>4 DEF WholeFrame, Stretch
    <3>4. Cardinality(base .. w) = w - base + 1
      <4>1. base \in Int /\ w \in Int /\ ~(base > w)
        BY Sizes
      <4>. QED
        BY <4>1, FS_Interval
    <3>5. m.num[p] = Cardinality(Mapped(m, p))
      BY DEF FramePages
    <3>. QED
      BY <1>7, <1>10, <3>2, <3>3, <3>4, <3>5
  <2>. QED
    BY <2>1, <2>2, <2>3 DEF FramePages
<1>17. WholeFrames(c, p)
  <2>1. SUFFICES ASSUME NEW v \in Page, Begins(c, p, v), PageOf(c, p, v)[2] = 0
                 PROVE  \E e \in Page : e >= v /\ WholeFrame(c, p, v, e)
    BY DEF WholeFrames
  <2>2. v \in Mapped(c, p) /\ v \in Mapped(m, p) /\ PageOf(c, p, v) = PageOf(m, p, v)
    BY <1>15, <2>1 DEF Begins
  <2>3. Begins(m, p, v)
    BY <1>14, <2>1, <2>2 DEF Begins
  <2>4. PICK e \in Page : e >= v /\ WholeFrame(m, p, v, e)
    BY <2>1, <2>2, <2>3 DEF WholeFrames
  <2>5. v # base
    BY <1>3, <1>15, <2>2
  <2>6. Stretch(c, p, v, e)
    <3>1. v <= e
      BY <2>4, Sizes
    <3>. QED
      BY <1>14, <2>4, <2>5, <3>1 DEF WholeFrame
  <2>7. \A u \in Mapped(c, p) : PageOf(c, p, u)[1] = PageOf(c, p, v)[1] <=> u \in v .. e
    BY <1>15, <2>2, <2>4 DEF WholeFrame
  <2>8. \A x \in Elems(c.list[p]) : x.f = PageOf(c, p, v)[1] => x.n = e - v + 1
    BY <1>12, <2>2, <2>4 DEF WholeFrame
  <2>. QED
    BY <2>4, <2>6, <2>7, <2>8 DEF WholeFrame
<1>. QED
  BY <1>6, <1>7, <1>13, <1>16, <1>17

(* The new region is the new frame. *)
LEMMA GrownFrames ==
  ASSUME NEW m, Good(m), FrameLists(m), NEW p \in Proc, FramePages(m, p), WholeFrames(m, p),
         RegionsOf(m, p), NEW base \in Nat, NEW n \in Nat \ {0}, NEW entry, NEW c, NEW f \in Frame,
         m.alloc[f] = 0, NewPagesAllowed(m, p, base, n), NewEntries(entry, f, base, n),
         Placed(c, m, p, f, n, entry)
  PROVE  /\ FrameLists(c) /\ FramePages(c, p) /\ WholeFrames(c, p)
         /\ \A q \in Proc : q # p => c.list[q] = m.list[q] /\ c.num[q] = m.num[q]
         /\ Mapped(m, p) \subseteq Mapped(c, p)
         /\ \A v \in Mapped(m, p) : pd_get_mapping(c, p, v) = pd_get_mapping(m, p, v)
<1> DEFINE vs == Region(base, n)
           e == base + n - 1
<1>1. /\ vs = base .. e /\ e \in Page /\ base \in Page /\ vs \in SUBSET Page /\ base <= e
      /\ n \in Int /\ n > 0 /\ e - base + 1 = n
  <2>1. base + n <= NumPages
    BY DEF NewPagesAllowed
  <2>2. vs = base .. e
    BY DEF Region
  <2>3. NumPages \in Nat /\ Page = 0 .. NumPages - 1
    BY Sizes
  <2> HIDE DEF vs
  <2>4. n \in Int /\ n > 0 /\ e \in Int /\ base <= e /\ e - base + 1 = n
    OBVIOUS
  <2>5. e \in Page /\ base \in Page
    BY <2>1, <2>3, <2>4
  <2>6. vs \in SUBSET Page
    BY <2>2, <2>3, <2>4, <2>5
  <2>. QED
    BY <2>2, <2>4, <2>5, <2>6
<1>2. /\ vs \cap Mapped(m, p) = {} /\ DOMAIN entry = vs
      /\ \A v \in vs : entry[v] \in Entry /\ entry[v].page = <<f, v - base>>
  BY DEF NewPagesAllowed, NewEntries
<1>3. n = Cardinality(vs)
  <2>1. base \in Int /\ e \in Int /\ ~(base > e)
    BY <1>1, Sizes
  <2> HIDE DEF e
  <2>2. Cardinality(base .. e) = e - base + 1
    BY <2>1, FS_Interval
  <2>. QED
    BY <1>1, <2>2
<1>4. \A v \in vs : entry[v].page[1] = f /\ entry[v].page[2] = v - base /\ v - base < n
  BY <1>1, <1>2
<1>5. \A u, v \in vs : entry[u].page = entry[v].page => u = v
  <2>1. \A u, v \in vs : u - base = v - base => u = v
    BY <1>1
  <2>. QED
    BY <1>4, <2>1
<1>6. \A v \in vs : entry[v] \in Entry /\ entry[v].page[1] = f /\ entry[v].page[2] < n
  BY <1>2, <1>4
<1>7. base + n - 1 \in Page /\ Stretch(c, p, base, e)
      /\ \A v, w \in Page : v <= w /\ Stretch(m, p, v, w) => Stretch(c, p, v, w)
  BY RegionsGrown
<1> HIDE DEF vs, e
<1>8. FrameAdded(c, m, p, f, n)
  BY <1>1, PlacedFrames
<1>9. PagesAdded(c, m, p, f, entry)
  <2>1. FrameEntries(entry, f, n) /\ DOMAIN entry \cap Mapped(m, p) = {}
    BY <1>1, <1>2, <1>3, <1>5, <1>6 DEF FrameEntries
  <2>. QED
    BY <1>1, <2>1, PlacedPages
<1>10. /\ FramePages(c, p) /\ Mapped(c, p) = Mapped(m, p) \cup vs
       /\ \A v \in vs : pd_get_mapping(c, p, v) = entry[v]
       /\ \A v \in vs : PageOf(c, p, v) = entry[v].page
       /\ \A v \in Mapped(m, p) : PageOf(c, p, v) = PageOf(m, p, v) /\ PageOf(m, p, v)[1] # f
  BY <1>2, <1>9 DEF PagesAdded
<1>11. \A v \in Mapped(m, p) : v \in Page /\ pd_get_mapping(c, p, v) = pd_get_mapping(m, p, v)
  BY <1>9 DEF PagesAdded, Mapped
<1>12. \A v \in vs : PageOf(c, p, v)[1] = f
  BY <1>4, <1>10
<1> DEFINE y == [f |-> f, n |-> n]
<1>13. y.f = f /\ y.n = n /\ Elems(c.list[p]) = Elems(m.list[p]) \cup {y}
  BY <1>8 DEF FrameAdded
<1> HIDE DEF y
<1>14. ASSUME NEW v \in Page, Begins(c, p, v), PageOf(c, p, v)[2] = 0
       PROVE  \E w \in Page : w >= v /\ WholeFrame(c, p, v, w)
  <2>1. CASE v \in vs
    <3>1. v = base
      BY <1>10, <1>14, <2>1 DEF Begins, NewEntries, vs
    <3>2. \A u \in Mapped(c, p) : PageOf(c, p, u)[1] = f <=> u \in vs
      BY <1>10, <1>12
    <3>3. \A x \in Elems(c.list[p]) : x.f = f => x.n = n
      BY <1>8, <1>13 DEF FrameAdded
    <3>4. PageOf(c, p, base)[1] = f
      BY <1>12, <2>1, <3>1
    <3>5. WholeFrame(c, p, base, e)
      BY <1>1, <1>7, <3>2, <3>3, <3>4 DEF WholeFrame
    <3>6. e >= base
      BY <1>1, Sizes
    <3>. QED
      BY <1>1, <3>1, <3>5, <3>6
  <2>2. CASE v \notin vs
    <3>1. v \in Mapped(m, p) /\ Begins(m, p, v) /\ PageOf(c, p, v) = PageOf(m, p, v)
          /\ PageOf(m, p, v)[1] # f
      BY <1>10, <1>11, <1>14, <2>2 DEF Begins
    <3>2. PICK w \in Page : w >= v /\ WholeFrame(m, p, v, w)
      BY <1>14, <3>1 DEF WholeFrames
    <3>3. v <= w
      BY <3>2, Sizes
    <3>4. Stretch(c, p, v, w)
      BY <1>7, <3>2, <3>3 DEF WholeFrame
    <3>5. ASSUME NEW u \in Mapped(c, p)
          PROVE  PageOf(c, p, u)[1] = PageOf(c, p, v)[1] <=> u \in v .. w
      <4>1. CASE u \in Mapped(m, p)
        BY <1>10, <3>1, <3>2, <4>1 DEF WholeFrame
      <4>2. CASE u \in vs
        <5>1. u \notin v .. w
          BY <1>2, <3>2, <4>2 DEF WholeFrame, Stretch
        <5>. QED
          BY <1>12, <3>1, <4>2, <5>1
      <4>. QED
        BY <1>10, <4>1, <4>2
    <3>6. \A x \in Elems(c.list[p]) : x.f = PageOf(c, p, v)[1] => x.n = w - v + 1
      BY <1>13, <3>1, <3>2 DEF WholeFrame
    <3>. QED
      BY <3>2, <3>4, <3>5, <3>6 DEF WholeFrame
  <2>. QED
    BY <2>1, <2>2
<1>15. WholeFrames(c, p)
  BY <1>14 DEF WholeFrames
<1>. QED
  BY <1>8, <1>10, <1>11, <1>15 DEF FrameAdded

(* The place of an element of a finite set, in the order of the naturals. *)
LEMMA Rank ==
  ASSUME NEW S \in SUBSET Nat, IsFiniteSet(S)
  PROVE  /\ \A v \in S : Cardinality({w \in S : w < v}) < Cardinality(S)
         /\ \A u, v \in S :
              Cardinality({w \in S : w < u}) = Cardinality({w \in S : w < v}) => u = v
         /\ \A v \in S : Cardinality({w \in S : w < v}) = 0 => \A u \in S : u >= v
<1> DEFINE B(v) == {w \in S : w < v}
<1>1. \A v : IsFiniteSet(B(v)) /\ Cardinality(B(v)) \in Nat /\ Cardinality(B(v)) <= Cardinality(S)
  BY FS_Subset, FS_CardinalityType
<1>2. Cardinality(S) \in Nat
  BY FS_CardinalityType
<1>3. ASSUME NEW v \in S PROVE Cardinality(B(v)) < Cardinality(S)
  <2>1. B(v) \in SUBSET S /\ B(v) # S
    OBVIOUS
  <2>2. Cardinality(B(v)) # Cardinality(S)
    BY <2>1, FS_Subset
  <2> HIDE DEF B
  <2>. QED
    BY <1>1, <1>2, <2>2
<1>4. ASSUME NEW u \in S, NEW v \in S, u < v PROVE Cardinality(B(u)) # Cardinality(B(v))
  <2>1. B(u) \in SUBSET B(v) /\ u \in B(v) /\ u \notin B(u)
    <3>1. u \in Nat /\ v \in Nat /\ S \subseteq Nat
      OBVIOUS
    <3>2. \A w \in Nat : w < u => w < v
      BY <1>4, <3>1
    <3>3. \A w \in S : w < u => w < v
      BY <3>1, <3>2
    <3>4. B(u) \in SUBSET B(v)
      BY <3>3
    <3>5. ~(u < u)
      BY <3>1
    <3>. QED
      BY <1>4, <3>4, <3>5
  <2>2. IsFiniteSet(B(v))
    BY <1>1
  <2> HIDE DEF B
  <2>. QED
    BY <2>1, <2>2, FS_Subset
<1>5. \A u, v \in S : Cardinality(B(u)) = Cardinality(B(v)) => u = v
  <2> HIDE DEF B
  <2>1. SUFFICES ASSUME NEW u \in S, NEW v \in S, Cardinality(B(u)) = Cardinality(B(v)), u # v
                 PROVE  FALSE
    OBVIOUS
  <2>2. u < v \/ v < u
    BY <2>1
  <2>. QED
    BY <1>4, <2>1, <2>2
<1>6. ASSUME NEW v \in S, Cardinality(B(v)) = 0, NEW u \in S PROVE u >= v
  <2>1. B(v) = {}
    BY <1>1, <1>6, FS_EmptySet
  <2>. QED
    BY <2>1
<1>. QED
  BY <1>3, <1>5, <1>6

(* The child of a fork has one frame, whose pages are those it maps; none  *)
(* of them can be removed, as the first one is no start.                   *)
LEMMA ForkedFrames ==
  ASSUME NEW m, Good(m), FrameLists(m), NEW p \in Proc, FramePages(m, p), 0 \in Mapped(m, p),
         ~Begins(m, p, 0), NEW q \in Proc, FramePages(m, q), Mapped(m, q) = {}, NEW c, NEW entry,
         NEW f \in Frame, m.alloc[f] = 0, CopyEntries(entry, m, p, f),
         Placed(c, m, q, f, m.num[p], entry)
  PROVE  /\ FrameLists(c) /\ FramePages(c, q) /\ WholeFrames(c, q)
         /\ \A r \in Proc : r # q => c.list[r] = m.list[r] /\ c.num[r] = m.num[r]
         /\ 0 \in Mapped(c, q) /\ ~Begins(c, q, 0)
<1> DEFINE S == Mapped(m, p)
           n == m.num[p]
           R(v) == Cardinality({w \in S : w < v})
<1>1. S \in SUBSET Page /\ S \in SUBSET Nat /\ IsFiniteSet(S)
  <2>1. S \in SUBSET Page
    BY DEF Mapped
  <2>. QED
    BY <2>1, Sizes, FS_Subset
<1>2. n = Cardinality(S) /\ n \in Int /\ n > 0
  <2>1. n = Cardinality(S)
    BY DEF FramePages
  <2>2. Cardinality(S) \in Nat /\ Cardinality(S) # 0
    BY <1>1, FS_CardinalityType, FS_EmptySet
  <2>. QED
    BY <2>1, <2>2
<1>3. /\ DOMAIN entry = S
      /\ \A v \in S : entry[v] \in Entry /\ entry[v].page = <<f, R(v)>>
                      /\ entry[v].start = pd_get_mapping(m, p, v).start
  BY DEF CopyEntries
<1>4. /\ \A v \in S : R(v) < Cardinality(S)
      /\ \A u, v \in S : R(u) = R(v) => u = v
      /\ \A v \in S : R(v) = 0 => \A u \in S : u >= v
  BY <1>1, Rank
<1> HIDE DEF R
<1>5. \A v \in S : entry[v] \in Entry /\ entry[v].page[1] = f /\ entry[v].page[2] = R(v)
                   /\ entry[v].page[2] < n
  BY <1>2, <1>3, <1>4
<1>6. \A u, v \in S : entry[u].page = entry[v].page => u = v
  BY <1>4, <1>5
<1> HIDE DEF S, n
<1>7. Placed(c, m, q, f, n, entry)
  BY DEF n
<1>8. FrameAdded(c, m, q, f, n)
  BY <1>2, <1>7, PlacedFrames
<1>9. PagesAdded(c, m, q, f, entry)
  <2>1. FrameEntries(entry, f, n) /\ DOMAIN entry \cap Mapped(m, q) = {}
    BY <1>1, <1>2, <1>3, <1>5, <1>6 DEF FrameEntries
  <2>. QED
    BY <1>2, <1>7, <2>1, PlacedPages
<1>10. /\ FramePages(c, q) /\ Mapped(c, q) = S
       /\ \A v \in S : pd_get_mapping(c, q, v) = entry[v]
       /\ \A v \in S : PageOf(c, q, v) = entry[v].page
  BY <1>3, <1>9 DEF PagesAdded
<1>11. 0 \in S
  BY DEF S
<1>12. \A v \in S : Begins(c, q, v) => Begins(m, p, v)
  BY <1>3, <1>10 DEF Begins, S
<1>13. ASSUME NEW v \in Page, Begins(c, q, v), PageOf(c, q, v)[2] = 0 PROVE FALSE
  <2>1. v \in S /\ v \in Nat
    BY <1>1, <1>10, <1>13 DEF Begins
  <2>2. R(v) = 0
    BY <1>5, <1>10, <1>13, <2>1
  <2>3. v = 0
    BY <1>4, <1>11, <2>1, <2>2
  <2>. QED
    BY <1>12, <1>13, <2>1, <2>3
<1>14. WholeFrames(c, q)
  BY <1>13 DEF WholeFrames
<1>. QED
  BY <1>8, <1>10, <1>11, <1>12, <1>14 DEF FrameAdded

-----------------------------------------------------------------------------
(* The program's own frames. *)

(* The pages of the sections are one after the other, so that the offsets  *)
(* into their frame are less than its size.                                *)
LEMMA BoundedInterval ==
  ASSUME NEW low \in Int, NEW high \in Int, NEW vs \in SUBSET Page, vs # {},
         vs = {v \in Page : low <= v * PAGE_SIZE /\ v * PAGE_SIZE <= high}
  PROVE  /\ Lowest(vs) \in vs /\ Cardinality(vs) \in Nat /\ Cardinality(vs) > 0
         /\ \A v \in vs : v - Lowest(vs) < Cardinality(vs)
<1> DEFINE l == Lowest(vs)
<1>1. vs \in SUBSET Nat /\ IsFiniteSet(vs)
  BY Sizes, FS_Subset
<1>2. l \in vs /\ \A v \in vs : l <= v
  BY <1>1, LowestIs
<1> HIDE DEF l
<1>3. ASSUME NEW v \in vs PROVE l .. v \subseteq vs
  <2>1. SUFFICES ASSUME NEW u \in l .. v PROVE u \in vs
    OBVIOUS
  <2>2. l \in Nat /\ v \in Nat /\ l \in Page /\ v \in Page /\ u \in Int /\ l <= u /\ u <= v
    BY <1>1, <1>2
  <2>3. u \in Page
    BY <2>2, Sizes
  <2>4. /\ l * PAGE_SIZE \in Int /\ u * PAGE_SIZE \in Int /\ v * PAGE_SIZE \in Int
        /\ l * PAGE_SIZE <= u * PAGE_SIZE /\ u * PAGE_SIZE <= v * PAGE_SIZE
    <3>1. PAGE_SIZE \in Nat \ {0}
      BY Sizes
    <3>2. PAGE_SIZE * l <= PAGE_SIZE * u /\ l * PAGE_SIZE = PAGE_SIZE * l
          /\ PAGE_SIZE * l \in Int /\ PAGE_SIZE * u \in Int
      BY <2>2, <3>1, Multiples
    <3>3. PAGE_SIZE * u <= PAGE_SIZE * v /\ u * PAGE_SIZE = PAGE_SIZE * u
          /\ PAGE_SIZE * v \in Int
      BY <2>2, <3>1, Multiples
    <3>4. v * PAGE_SIZE = PAGE_SIZE * v
      BY <2>2, <3>1, Multiples
    <3>. QED
      BY <3>2, <3>3, <3>4
  <2>5. low <= l * PAGE_SIZE /\ v * PAGE_SIZE <= high
    BY <1>2
  <2>6. low <= u * PAGE_SIZE /\ u * PAGE_SIZE <= high
    BY <2>4, <2>5
  <2>. QED
    BY <2>3, <2>6
<1>4. ASSUME NEW v \in vs PROVE v - l < Cardinality(vs) /\ Cardinality(vs) \in Nat
  <2>1. v \in Int /\ l \in Int /\ l <= v
    BY <1>1, <1>2
  <2>2. IsFiniteSet(l .. v) /\ Cardinality(l .. v) = v - l + 1
    BY <2>1, FS_Interval
  <2>3. Cardinality(l .. v) <= Cardinality(vs)
    BY <1>1, <1>3, FS_Subset
  <2>4. Cardinality(vs) \in Nat
    BY <1>1, FS_CardinalityType
  <2>. QED
    BY <2>1, <2>2, <2>3, <2>4
<1>5. Cardinality(vs) \in Nat /\ Cardinality(vs) > 0
  BY <1>1, <1>2, <1>4
<1>. QED
  BY <1>2, <1>4, <1>5 DEF l

(* The bounds of the sections. *)
LEMMA BoundingAddr ==
  ASSUME Linked
  PROVE  LET b == ms_get_bounding_addr(Sections)
         IN  /\ b.low \in Int /\ b.high \in Int
             /\ \A i \in DOMAIN Sections : Sections[i].len > 0 =>
                  /\ Sections[i].addr \in Int /\ High(Sections[i]) \in Int
                  /\ b.low <= Sections[i].addr /\ High(Sections[i]) <= b.high
<1> DEFINE used == {i \in DOMAIN Sections : Sections[i].len > 0}
           L == {Sections[i].addr : i \in used}
           H == {High(Sections[i]) : i \in used}
           B == {Word - h : h \in H}
           b == ms_get_bounding_addr(Sections)
<1>1. used # {}
  BY DEF Linked
<1>2. \A i \in used : Sections[i].addr \in Nat /\ Sections[i].len \in Nat
  <2> DEFINE S == [addr : Nat, len : Nat, rw : BOOLEAN]
             secs == Sections
  <2>1. secs \in Seq(S)
    BY VirtualMemAssumption
  <2> HIDE DEF S, secs
  <2>2. \A i \in DOMAIN secs : secs[i] \in S
    BY <2>1
  <2> USE DEF S, secs
  <2>. QED
    BY <2>2
<1>3. Word \in Nat \ {0}
  <2>1. NumPDE \in Nat /\ PTSize \in Nat /\ PAGE_SIZE \in Nat /\ Word \in Nat
        /\ Word > NumPDE * PTSize * PAGE_SIZE
    BY VirtualMemAssumption
  <2>2. StackLow \in 0 .. NumPDE * PTSize - 1
    BY VirtualMemAssumption
  <2>3. NumPages \in Nat /\ NumPDE * PTSize = NumPages
    BY Sizes
  <2>4. NumPages * PAGE_SIZE \in Nat
    BY <2>1, <2>3
  <2>. QED
    BY <2>1, <2>3, <2>4
<1>4. \A i \in used : High(Sections[i]) \in Nat /\ High(Sections[i]) < Word
  <2>1. ASSUME NEW i \in used PROVE High(Sections[i]) \in Nat /\ High(Sections[i]) < Word
    <3>1. PICK x \in Int : x = Sections[i].addr + Sections[i].len - 1
      BY <1>2
    <3>2. x % Word \in 0 .. Word - 1
      BY <1>3, Division
    <3>3. High(Sections[i]) = x % Word
      BY <3>1 DEF High
    <3>. QED
      BY <1>3, <3>2, <3>3
  <2>. QED
    BY <2>1
<1> HIDE DEF used
<1>5. L \in SUBSET Nat /\ L # {}
  BY <1>1, <1>2
<1>6. Lowest(L) \in Nat /\ \A x \in L : Lowest(L) <= x
  BY <1>5, LowestIs
<1>7. \E h \in H : \A i \in used : High(Sections[i]) <= h
  <2>1. \A h \in H : h \in Nat /\ h < Word
    BY <1>4
  <2>2. B \in SUBSET Nat /\ B # {}
    BY <1>1, <1>3, <2>1
  <2>3. Lowest(B) \in B /\ \A x \in B : Lowest(B) <= x
    BY <2>2, LowestIs
  <2>4. PICK h \in H : Lowest(B) = Word - h
    BY <2>3
  <2>5. ASSUME NEW i \in used PROVE High(Sections[i]) <= h
    <3>1. Word - High(Sections[i]) \in B /\ High(Sections[i]) \in H
      OBVIOUS
    <3>2. Word - h <= Word - High(Sections[i])
      BY <2>3, <2>4, <3>1
    <3>3. h \in Nat /\ High(Sections[i]) \in Nat
      BY <2>1, <3>1
    <3>. QED
      BY <1>3, <3>2, <3>3
  <2>. QED
    BY <2>5
<1>8. LET k == CHOOSE h \in H : \A i \in used : High(Sections[i]) <= h
      IN  k \in H /\ \A i \in used : High(Sections[i]) <= k
  BY <1>7
<1>9. H \subseteq Nat
  BY <1>4
<1>10. b = [low |-> Lowest(L),
            high |-> CHOOSE h \in H : \A i \in used : High(Sections[i]) <= h]
  BY DEF ms_get_bounding_addr, used
<1>11. \A i \in used : Sections[i].addr \in L
  OBVIOUS
<1> HIDE DEF L, H, b
<1>12. b.low = Lowest(L) /\ b.high = CHOOSE h \in H : \A i \in used : High(Sections[i]) <= h
  BY <1>10
<1>13. b.high \in H /\ \A i \in used : High(Sections[i]) <= b.high
  BY <1>8, <1>12
<1>14. b.high \in Int
  <2>1. b.high \in Nat
    BY <1>9, <1>13, Zenon
  <2>. QED
    BY <2>1
<1>15. b.low \in Int /\ \A i \in used : b.low <= Sections[i].addr
  BY <1>6, <1>12, <1>11
<1>. QED
  BY <1>2, <1>4, <1>13, <1>14, <1>15 DEF b, used

(* The same of the pages that the sections of a program are on. *)
LEMMA LinkedPages ==
  ASSUME Linked
  PROVE  LET vs == Bounded(Sections)
         IN  /\ vs \in SUBSET Page /\ 0 \in vs /\ StackLow \notin vs
             /\ Cardinality(vs) \in Nat /\ Cardinality(vs) > 0 /\ Lowest(vs) \in vs
             /\ \A v \in vs : v - Lowest(vs) < Cardinality(vs)
<1> DEFINE vs == Bounded(Sections)
           b == ms_get_bounding_addr(Sections)
           low == PAGE_ALIGN_DOWN(b.low)
           high == PAGE_ALIGN_UP(b.high) - 1
<1>1. vs = {v \in Page : low <= v * PAGE_SIZE /\ v * PAGE_SIZE <= high}
  BY DEF Bounded
<1>2. 0 \in vs /\ StackLow \notin vs
  BY DEF Linked
<1>3. b.low \in Int /\ b.high \in Int
  BY BoundingAddr
<1> HIDE DEF b, vs
<1>4. PAGE_SIZE \in Nat \ {0}
  BY Sizes
<1>5. low \in Int
  <2>1. b.low \div PAGE_SIZE \in Int
    BY <1>3, <1>4, Division
  <2>. QED
    BY <1>4, <2>1 DEF PAGE_ALIGN_DOWN
<1>6. high \in Int
  <2>1. PICK x \in Int : x = b.high + PAGE_SIZE - 1
    BY <1>3, <1>4
  <2>2. x \div PAGE_SIZE \in Int
    BY <1>4, Division
  <2>3. high = PAGE_SIZE * (x \div PAGE_SIZE) - 1
    BY <2>1 DEF PAGE_ALIGN_UP
  <2>4. PAGE_SIZE * (x \div PAGE_SIZE) \in Int
    BY <1>4, <2>2
  <2>. QED
    BY <2>3, <2>4
<1> HIDE DEF low, high
<1>7. vs \in SUBSET Page /\ vs # {}
  BY <1>1, <1>2
<1>8. /\ Lowest(vs) \in vs /\ Cardinality(vs) \in Nat /\ Cardinality(vs) > 0
      /\ \A v \in vs : v - Lowest(vs) < Cardinality(vs)
  BY <1>1, <1>5, <1>6, <1>7, BoundedInterval
<1>. QED
  BY <1>2, <1>7, <1>8 DEF vs

(* The frame of the sections or of the stack. *)
LEMMA ImageFrame ==
  ASSUME NEW m, Good(m), FrameLists(m), NEW p \in Proc, FramePages(m, p), NEW c, FreeFrames(m) # {},
         NEW vs \in SUBSET Page, NEW n \in Int, n = Cardinality(vs), n > 0,
         \A v \in vs : v - Lowest(vs) < n, Lowest(vs) \in vs, vs \cap Mapped(m, p) = {},
         NEW entry, ImageEntries(entry, NextFrame(m), vs), Placed(c, m, p, NextFrame(m), n, entry)
  PROVE  /\ FrameLists(c) /\ FramePages(c, p) /\ Mapped(c, p) = Mapped(m, p) \cup vs
         /\ \A q \in Proc : q # p => c.list[q] = m.list[q] /\ c.num[q] = m.num[q]
<1> DEFINE f == NextFrame(m)
<1>1. f \in Frame /\ m.alloc[f] = 0
  BY NextFrameIs
<1>2. ImageEntries(entry, f, vs) /\ Placed(c, m, p, f, n, entry)
  OBVIOUS
<1> HIDE DEF f
<1>3. \A v \in vs : v \in Nat /\ Lowest(vs) \in Nat
  BY Sizes
<1>4. DOMAIN entry = vs /\ \A v \in vs : entry[v] \in Entry /\ entry[v].page = <<f, v - Lowest(vs)>>
  BY <1>2 DEF ImageEntries
<1>5. FrameEntries(entry, f, n)
  <2>1. \A v \in vs : entry[v].page[1] = f /\ entry[v].page[2] = v - Lowest(vs)
    BY <1>4
  <2>2. \A v \in vs : entry[v].page[2] < n
    BY <2>1
  <2>3. ASSUME NEW u \in vs, NEW v \in vs, entry[u].page = entry[v].page PROVE u = v
    <3>1. u - Lowest(vs) = v - Lowest(vs)
      BY <2>1, <2>3
    <3>. QED
      BY <1>3, <3>1
  <2>. QED
    BY <1>4, <2>1, <2>2, <2>3 DEF FrameEntries
<1>6. DOMAIN entry \cap Mapped(m, p) = {}
  BY <1>4
<1>7. FrameAdded(c, m, p, f, n)
  BY <1>1, <1>2, PlacedFrames
<1>8. PagesAdded(c, m, p, f, entry)
  BY <1>1, <1>2, <1>5, <1>6, PlacedPages
<1>. QED
  BY <1>4, <1>7, <1>8 DEF FrameAdded, PagesAdded

(* A program that has just been loaded. *)
LEMMA LoadedFrames ==
  ASSUME Linked, NEW m, Good(m), FrameLists(m), NEW p \in Proc, FramePages(m, p), Mapped(m, p) = {},
         NEW c, Loaded(c, m, p)
  PROVE  /\ FrameLists(c) /\ FramePages(c, p) /\ WholeFrames(c, p)
         /\ \A q \in Proc : q # p => c.list[q] = m.list[q] /\ c.num[q] = m.num[q]
         /\ 0 \in Mapped(c, p) /\ ~Begins(c, p, 0)
<1> DEFINE vs == Bounded(Sections)
           n == Cardinality(vs)
<1>1. /\ vs \in SUBSET Page /\ 0 \in vs /\ StackLow \notin vs
      /\ n \in Int /\ n > 0 /\ Lowest(vs) \in vs
      /\ \A v \in vs : v - Lowest(vs) < n
  BY LinkedPages
<1>2. PICK k, e, s :
        /\ FreeFrames(m) # {}
        /\ ImageEntries(e, NextFrame(m), vs)
        /\ Placed(k, m, p, NextFrame(m), n, e)
        /\ FreeFrames(k) # {}
        /\ ImageEntries(s, NextFrame(k), {StackLow})
        /\ Placed(c, k, p, NextFrame(k), 1, s)
  BY DEF Loaded
<1>3. n = Cardinality(vs) /\ vs \cap Mapped(m, p) = {}
  OBVIOUS
<1> HIDE DEF vs, n
<1>4. /\ FrameLists(k) /\ FramePages(k, p) /\ Mapped(k, p) = vs
      /\ \A q \in Proc : q # p => k.list[q] = m.list[q] /\ k.num[q] = m.num[q]
  <2>1. PICK j \in Int : j = n
    BY <1>1
  <2>2. FreeFrames(m) # {} /\ ImageEntries(e, NextFrame(m), vs)
        /\ Placed(k, m, p, NextFrame(m), j, e)
    BY <1>2, <2>1
  <2>3. vs \in SUBSET Page /\ j = Cardinality(vs) /\ j > 0 /\ vs \cap Mapped(m, p) = {}
    BY <1>1, <1>3, <2>1
  <2>4. Lowest(vs) \in vs /\ \A v \in vs : v - Lowest(vs) < j
    BY <1>1, <2>1
  <2>5. /\ FrameLists(k) /\ FramePages(k, p) /\ Mapped(k, p) = Mapped(m, p) \cup vs
        /\ \A q \in Proc : q # p => k.list[q] = m.list[q] /\ k.num[q] = m.num[q]
    BY <2>2, <2>3, <2>4, ImageFrame
  <2>. QED
    BY <2>5
<1>5. Good(k)
  BY <1>2 DEF Placed
<1>6. /\ FrameLists(c) /\ FramePages(c, p) /\ Mapped(c, p) = vs \cup {StackLow}
      /\ \A q \in Proc : q # p => c.list[q] = k.list[q] /\ c.num[q] = k.num[q]
  <2> DEFINE ss == {StackLow}
  <2>1. StackLow \in Nat /\ ss \in SUBSET Page
    BY Sizes
  <2>2. Lowest(ss) = StackLow
    BY <2>1, LowestIs
  <2>3. 1 = Cardinality(ss)
    BY FS_Singleton
  <2>4. /\ \A v \in ss : v - Lowest(ss) < 1
        /\ Lowest(ss) \in ss
    BY <2>1, <2>2
  <2>5. ss \cap Mapped(k, p) = {}
    BY <1>1, <1>4
  <2>6. ImageEntries(s, NextFrame(k), ss)
    BY <1>2
  <2> HIDE DEF ss
  <2>7. PICK j \in Int : j = 1
    OBVIOUS
  <2>8. j = Cardinality(ss) /\ j > 0 /\ \A v \in ss : v - Lowest(ss) < j
    BY <2>3, <2>4, <2>7
  <2>9. Placed(c, k, p, NextFrame(k), j, s) /\ FreeFrames(k) # {}
    BY <1>2, <2>7
  <2>10. /\ FrameLists(c) /\ FramePages(c, p) /\ Mapped(c, p) = Mapped(k, p) \cup ss
         /\ \A q \in Proc : q # p => c.list[q] = k.list[q] /\ c.num[q] = k.num[q]
    BY <1>4, <1>5, <2>1, <2>4, <2>5, <2>6, <2>8, <2>9, ImageFrame
  <2>. QED
    BY <1>4, <2>10 DEF ss
<1>7. \A v \in Page : ~Begins(c, p, v)
  <2>1. \A v \in Page : pd_get_mapping(m, p, v) = NULL
    BY DEF Mapped
  <2>. QED
    BY <2>1, LoadedMaps
<1>8. WholeFrames(c, p)
  BY <1>7 DEF WholeFrames
<1>. QED
  BY <1>1, <1>4, <1>6, <1>7, <1>8, Sizes

-----------------------------------------------------------------------------
(* The invariant. *)

(* What holds of p's frames, and, if it is there, of its first page. *)
FramesOf(m, ps, p) ==
  /\ FramePages(m, p) /\ WholeFrames(m, p)
  /\ p \in ps => 0 \in Mapped(m, p) /\ ~Begins(m, p, 0)

FrameInv ==
  /\ FrameLists(mm)
  /\ \A p \in Proc : FramesOf(mm, procs, p)

(* A process that a step does nothing to. *)
LEMMA FramesOfSame ==
  ASSUME NEW m, NEW c, NEW ps, NEW qs, NEW p, FramesOf(m, ps, p), p \in qs => p \in ps,
         \A v \in Page : pd_get_mapping(c, p, v) = pd_get_mapping(m, p, v),
         c.list[p] = m.list[p], c.num[p] = m.num[p]
  PROVE  FramesOf(c, qs, p)
<1>1. FramePages(c, p)
  BY PagesSame DEF FramesOf
<1>2. WholeFrames(c, p)
  BY WholeFramesSame DEF FramesOf
<1>3. Mapped(c, p) = Mapped(m, p) /\ (Begins(c, p, 0) <=> Begins(m, p, 0))
  <2>1. 0 \in Page
    BY Sizes
  <2>. QED
    BY <2>1 DEF Mapped, Begins
<1>. QED
  BY <1>1, <1>2, <1>3 DEF FramesOf

(* A step that only p's frames are in. *)
LEMMA FramesOthers ==
  ASSUME NEW m, NEW c, NEW ps, NEW qs, NEW p, \A q \in Proc : FramesOf(m, ps, q), FramesOf(c, qs, p),
         \A q \in Proc : q # p => (q \in qs => q \in ps),
         \A q \in Proc, v \in Page : q # p => pd_get_mapping(c, q, v) = pd_get_mapping(m, q, v),
         \A q \in Proc : q # p => c.list[q] = m.list[q] /\ c.num[q] = m.num[q]
  PROVE  \A q \in Proc : FramesOf(c, qs, q)
<1>1. SUFFICES ASSUME NEW q \in Proc, q # p PROVE FramesOf(c, qs, q)
  OBVIOUS
<1>2. FramesOf(m, ps, q) /\ (q \in qs => q \in ps)
  BY <1>1
<1>3. \A v \in Page : pd_get_mapping(c, q, v) = pd_get_mapping(m, q, v)
  BY <1>1
<1>4. c.list[q] = m.list[q] /\ c.num[q] = m.num[q]
  BY <1>1
<1>. QED
  BY <1>2, <1>3, <1>4, FramesOfSame

(* A user space that is empty. *)
LEMMA ClearedOf ==
  ASSUME NEW m, Good(m), FrameLists(m), NEW ps, \A q \in Proc : FramesOf(m, ps, q), NEW c,
         NEW p \in Proc, Cleared(c, m, p)
  PROVE  /\ FrameLists(c) /\ Good(c) /\ Mapped(c, p) = {}
         /\ \A q \in Proc : FramesOf(c, ps \ {p}, q)
<1>1. \A q \in Proc : FramePages(m, q)
  BY DEF FramesOf
<1>2. FrameLists(c) /\ \A q \in Proc : FramePages(c, q)
  BY <1>1, ClearedFrames
<1>3. Good(c) /\ Mapped(c, p) = {}
  BY DEF Cleared, Mapped
<1>4. WholeFrames(c, p)
  BY <1>3 DEF WholeFrames, Begins
<1>5. FramesOf(c, ps \ {p}, p)
  BY <1>2, <1>4 DEF FramesOf
<1>6. \A q \in Proc, v \in Page : q # p => pd_get_mapping(c, q, v) = pd_get_mapping(m, q, v)
  BY DEF Cleared
<1>7. \A q \in Proc : q # p => c.list[q] = m.list[q] /\ c.num[q] = m.num[q]
  BY DEF Cleared
<1>8. PICK qs : qs = ps \ {p}
  OBVIOUS
<1>9. \A q \in Proc : q # p => (q \in qs => q \in ps)
  BY <1>8
<1>10. FramesOf(c, qs, p)
  BY <1>5, <1>8
<1>11. ASSUME NEW q \in Proc PROVE FramesOf(c, qs, q)
  <2>1. CASE q # p
    <3>1. FramesOf(m, ps, q) /\ (q \in qs => q \in ps)
      BY <1>9, <2>1
    <3>2. \A v \in Page : pd_get_mapping(c, q, v) = pd_get_mapping(m, q, v)
      BY <1>6, <2>1
    <3>3. c.list[q] = m.list[q] /\ c.num[q] = m.num[q]
      BY <1>7, <2>1
    <3>. QED
      BY <3>1, <3>2, <3>3, FramesOfSame
  <2>. QED
    BY <1>10, <2>1
<1>. QED
  BY <1>2, <1>3, <1>8, <1>11

(* A program in place of what was there. *)
LEMMA LoadedOf ==
  ASSUME Linked, NEW m, Good(m), FrameLists(m), NEW ps, \A q \in Proc : FramesOf(m, ps, q), NEW c,
         NEW p \in Proc, Mapped(m, p) = {}, Loaded(c, m, p), NEW qs,
         \A q \in Proc : q # p => (q \in qs => q \in ps)
  PROVE  FrameLists(c) /\ \A q \in Proc : FramesOf(c, qs, q)
<1>1. FramePages(m, p)
  BY DEF FramesOf
<1>2. /\ FrameLists(c) /\ FramePages(c, p) /\ WholeFrames(c, p)
      /\ \A q \in Proc : q # p => c.list[q] = m.list[q] /\ c.num[q] = m.num[q]
      /\ 0 \in Mapped(c, p) /\ ~Begins(c, p, 0)
  BY <1>1, LoadedFrames
<1>3. FramesOf(c, qs, p)
  BY <1>2 DEF FramesOf
<1>4. \A v \in Page : pd_get_mapping(m, p, v) = NULL
  BY DEF Mapped
<1>5. \A q \in Proc, v \in Page : q # p => pd_get_mapping(c, q, v) = pd_get_mapping(m, q, v)
  BY <1>4, LoadedMaps
<1>6. \A q \in Proc : q # p => c.list[q] = m.list[q] /\ c.num[q] = m.num[q]
  BY <1>2
<1>7. ASSUME NEW q \in Proc PROVE FramesOf(c, qs, q)
  <2>1. CASE q # p
    <3>1. FramesOf(m, ps, q) /\ (q \in qs => q \in ps)
      BY <2>1
    <3>2. \A v \in Page : pd_get_mapping(c, q, v) = pd_get_mapping(m, q, v)
      BY <1>5, <2>1
    <3>3. c.list[q] = m.list[q] /\ c.num[q] = m.num[q]
      BY <1>6, <2>1
    <3>. QED
      BY <3>1, <3>2, <3>3, FramesOfSame
  <2>. QED
    BY <1>3, <2>1
<1>. QED
  BY <1>2, <1>7

(* The first program is all there is. *)
LEMMA FrameInit ==
  ASSUME Linked, Init
  PROVE  FrameInv
<1> DEFINE b == Blank
<1>1. Loaded(mm, b, Init0) /\ procs = {Init0} /\ Init0 \in Proc
  BY InitIs, Kinds
<1>2. /\ Good(b)
      /\ \A p \in Proc, v \in Page : pd_get_mapping(b, p, v) = NULL
      /\ \A p \in Proc : b.list[p] = <<>> /\ b.num[p] = 0
      /\ \A f \in Frame : b.alloc[f] = 0
  BY BlankIs
<1> HIDE DEF b
<1>3. \A p \in Proc : Mapped(b, p) = {} /\ Elems(b.list[p]) = {} /\ NoneTwice(b.list[p])
  BY <1>2 DEF Mapped, Elems, NoneTwice
<1>4. FrameLists(b)
  BY <1>2, <1>3 DEF FrameLists
<1>5. \A p \in Proc : FramePages(b, p)
  BY <1>2, <1>3, FS_EmptySet DEF FramePages
<1>6. \A p \in Proc : WholeFrames(b, p)
  BY <1>3 DEF WholeFrames, Begins
<1>7. PICK ps : ps = {}
  OBVIOUS
<1>8. \A p \in Proc : FramesOf(b, ps, p)
  BY <1>5, <1>6, <1>7 DEF FramesOf
<1>9. Mapped(b, Init0) = {} /\ \A q \in Proc : q # Init0 => (q \in procs => q \in ps)
  BY <1>1, <1>3
<1>10. FrameLists(mm) /\ \A q \in Proc : FramesOf(mm, procs, q)
  BY <1>1, <1>2, <1>4, <1>8, <1>9, LoadedOf
<1>. QED
  BY <1>10 DEF FrameInv

(* The kinds of steps. *)
LEMMA FrameStep ==
  ASSUME Linked, TableInv, FrameInv, [Next]_vars
  PROVE  FrameInv'
<1> DEFINE m == mm
           c == mm'
           ps == procs
           qs == procs'
<1>1. /\ Good(m) /\ ps \subseteq Proc
      /\ \A p \in Proc : RegionsOf(m, p)
      /\ \A p \in Proc \ ps : \A d \in Dir : m.dir[p][d] = NULL
  BY DEF TableInv
<1>2. FrameLists(m) /\ \A p \in Proc : FramesOf(m, ps, p)
  BY DEF FrameInv
<1>3. StepKind
  BY Steps
<1>4. SUFFICES FrameLists(c) /\ \A p \in Proc : FramesOf(c, qs, p)
  BY DEF FrameInv, FramesOf, FrameLists, FramePages, WholeFrames, WholeFrame, Stretch, Mapped, Begins,
         pd_get_mapping, PageOf
<1>5. CASE Same(c, m) /\ qs = ps
  <2>1. /\ c.list = m.list /\ c.num = m.num /\ c.alloc = m.alloc
    BY <1>5 DEF Same
  <2>2. \A p \in Proc, v \in Page : pd_get_mapping(c, p, v) = pd_get_mapping(m, p, v)
    BY <1>1, <1>5, SameTables DEF Same
  <2> HIDE DEF m, c, ps, qs
  <2>3. FrameLists(c)
    BY <1>2, <2>1 DEF FrameLists
  <2>4. ASSUME NEW p \in Proc PROVE FramesOf(c, qs, p)
    <3>1. c.list[p] = m.list[p] /\ c.num[p] = m.num[p] /\ (p \in qs => p \in ps)
      BY <1>5, <2>1
    <3>2. \A v \in Page : pd_get_mapping(c, p, v) = pd_get_mapping(m, p, v)
      BY <2>2
    <3>3. FramesOf(m, ps, p)
      BY <1>2
    <3>. QED
      BY <3>1, <3>2, <3>3, FramesOfSame
  <2>. QED
    BY <2>3, <2>4
<1>6. ASSUME NEW p \in ps, Whole(m, p),
             \/ Grown(c, m, p) /\ qs = ps
             \/ Aborted(c, m, p) /\ qs = ps
             \/ Shrunk(c, m, p) /\ qs = ps
             \/ Reloaded(c, m, p) /\ qs = ps
             \/ \E q \in Proc \ ps : Forked(c, m, p, q) /\ qs = ps \cup {q}
             \/ Cleared(c, m, p) /\ qs = ps \ {p}
      PROVE  FrameLists(c) /\ \A q \in Proc : FramesOf(c, qs, q)
  <2> HIDE DEF m, c, ps, qs
  <2>1. p \in Proc /\ RegionsOf(m, p)
    BY <1>1
  <2>2. FramePages(m, p) /\ WholeFrames(m, p) /\ 0 \in Mapped(m, p) /\ ~Begins(m, p, 0)
    BY <1>2, <2>1 DEF FramesOf
  <2>3. 0 \in Page
    BY Sizes
  <2>4. CASE Grown(c, m, p) /\ qs = ps
    <3>1. PICK base \in Nat, n \in Nat \ {0} : \E entry :
            /\ NewPagesAllowed(m, p, base, n)
            /\ NewEntries(entry, NextFrame(m), base, n)
            /\ Placed(c, m, p, NextFrame(m), n, entry)
      BY <2>4 DEF Grown
    <3>2. PICK entry :
            /\ NewPagesAllowed(m, p, base, n)
            /\ NewEntries(entry, NextFrame(m), base, n)
            /\ Placed(c, m, p, NextFrame(m), n, entry)
      BY <3>1
    <3>3. NextFrame(m) \in Frame /\ m.alloc[NextFrame(m)] = 0
      BY <3>2, NextFrameIs DEF NewPagesAllowed
    <3>4. /\ FrameLists(c) /\ FramePages(c, p) /\ WholeFrames(c, p)
          /\ \A q \in Proc : q # p => c.list[q] = m.list[q] /\ c.num[q] = m.num[q]
          /\ Mapped(m, p) \subseteq Mapped(c, p)
          /\ \A v \in Mapped(m, p) : pd_get_mapping(c, p, v) = pd_get_mapping(m, p, v)
      BY <1>1, <1>2, <2>1, <2>2, <3>2, <3>3, GrownFrames
    <3>5. FramesOf(c, qs, p)
      BY <2>2, <3>4 DEF FramesOf, Begins
    <3>6. \A q \in Proc, v \in Page : q # p => pd_get_mapping(c, q, v) = pd_get_mapping(m, q, v)
      BY <3>2 DEF Placed
    <3>7. \A q \in Proc : q # p => (q \in qs => q \in ps)
      BY <2>4
    <3>8. \A q \in Proc : q # p => c.list[q] = m.list[q] /\ c.num[q] = m.num[q]
      BY <3>4
    <3>9. \A q \in Proc : FramesOf(c, qs, q)
      BY <1>2, <3>5, <3>6, <3>7, <3>8, FramesOthers
    <3>. QED
      BY <3>4, <3>9
  <2>5. CASE Aborted(c, m, p) /\ qs = ps
    <3>1. c.list = m.list /\ c.num = m.num /\ c.alloc = m.alloc
      BY <2>5 DEF Aborted
    <3>2. FrameLists(c)
      BY <1>2, <3>1 DEF FrameLists
    <3>3. ASSUME NEW q \in Proc PROVE FramesOf(c, qs, q)
      <4>1. c.list[q] = m.list[q] /\ c.num[q] = m.num[q] /\ (q \in qs => q \in ps)
        BY <2>5, <3>1
      <4>2. \A v \in Page : pd_get_mapping(c, q, v) = pd_get_mapping(m, q, v)
        BY <2>5 DEF Aborted
      <4>3. FramesOf(m, ps, q)
        BY <1>2
      <4>. QED
        BY <4>1, <4>2, <4>3, FramesOfSame
    <3>. QED
      BY <3>2, <3>3
  <2>6. CASE Shrunk(c, m, p) /\ qs = ps
    <3>1. PICK base \in Page, w \in Page : \E k \in DOMAIN m.list[p] :
            /\ w >= base /\ RemoveAllowed(m, p, base) /\ Stretch(m, p, base, w)
            /\ Removed(c, m, p, base, w, k)
      BY <2>6 DEF Shrunk
    <3>2. PICK k : Removed(c, m, p, base, w, k)
      BY <3>1
    <3>3. w >= base /\ RemoveAllowed(m, p, base) /\ Stretch(m, p, base, w)
      BY <3>1
    <3>4. /\ FrameLists(c) /\ FramePages(c, p) /\ WholeFrames(c, p)
          /\ \A q \in Proc : q # p => c.list[q] = m.list[q] /\ c.num[q] = m.num[q]
      BY <1>1, <1>2, <2>1, <2>2, <3>2, <3>3, RemovedFrames
    <3>5. pd_get_mapping(c, p, 0) = pd_get_mapping(m, p, 0)
      <4>1. Begins(m, p, base)
        BY <3>3 DEF RemoveAllowed, Begins
      <4>2. base # 0 /\ base \in Nat
        BY <2>2, <4>1, Sizes
      <4>3. 0 \notin base .. w
        BY <4>2
      <4>. QED
        BY <2>3, <3>2, <4>3 DEF Removed
    <3>6. FramesOf(c, qs, p)
      BY <2>2, <2>3, <3>4, <3>5 DEF FramesOf, Begins, Mapped
    <3>7. \A q \in Proc, v \in Page : q # p => pd_get_mapping(c, q, v) = pd_get_mapping(m, q, v)
      BY <3>2 DEF Removed
    <3>8. \A q \in Proc : q # p => (q \in qs => q \in ps)
      BY <2>6
    <3>9. \A q \in Proc : q # p => c.list[q] = m.list[q] /\ c.num[q] = m.num[q]
      BY <3>4
    <3>10. \A q \in Proc : FramesOf(c, qs, q)
      BY <1>2, <3>6, <3>7, <3>8, <3>9, FramesOthers
    <3>. QED
      BY <3>4, <3>10
  <2>7. CASE Reloaded(c, m, p) /\ qs = ps
    <3>1. PICK k : Cleared(k, m, p) /\ Loaded(c, k, p)
      BY <2>7 DEF Reloaded
    <3>2. /\ FrameLists(k) /\ Good(k) /\ Mapped(k, p) = {}
          /\ \A q \in Proc : FramesOf(k, ps \ {p}, q)
      BY <1>1, <1>2, <2>1, <3>1, ClearedOf
    <3>3. PICK rs : rs = ps \ {p}
      OBVIOUS
    <3>4. \A q \in Proc : FramesOf(k, rs, q)
      BY <3>2, <3>3
    <3>5. \A q \in Proc : q # p => (q \in qs => q \in rs)
      BY <2>7, <3>3
    <3>. QED
      BY <2>1, <3>1, <3>2, <3>4, <3>5, LoadedOf
  <2>8. ASSUME NEW q \in Proc \ ps, Forked(c, m, p, q), qs = ps \cup {q}
        PROVE  FrameLists(c) /\ \A r \in Proc : FramesOf(c, qs, r)
    <3>1. PICK entry : /\ FreeFrames(m) # {}
                       /\ CopyEntries(entry, m, p, NextFrame(m))
                       /\ Placed(c, m, q, NextFrame(m), m.num[p], entry)
      BY <2>8 DEF Forked
    <3>2. NextFrame(m) \in Frame /\ m.alloc[NextFrame(m)] = 0
      BY <3>1, NextFrameIs
    <3>3. FramePages(m, q)
      BY <1>2 DEF FramesOf
    <3>4. Mapped(m, q) = {}
      BY <1>1, Kinds, PageSplit DEF Mapped, pd_get_mapping
    <3>5. /\ FrameLists(c) /\ FramePages(c, q) /\ WholeFrames(c, q)
          /\ \A r \in Proc : r # q => c.list[r] = m.list[r] /\ c.num[r] = m.num[r]
          /\ 0 \in Mapped(c, q) /\ ~Begins(c, q, 0)
      BY <1>1, <1>2, <2>1, <2>2, <3>1, <3>2, <3>3, <3>4, ForkedFrames
    <3>6. FramesOf(c, qs, q)
      BY <3>5 DEF FramesOf
    <3>7. \A r \in Proc, v \in Page : r # q => pd_get_mapping(c, r, v) = pd_get_mapping(m, r, v)
      BY <3>1 DEF Placed
    <3>8. \A r \in Proc : r # q => (r \in qs => r \in ps)
      BY <2>8
    <3>9. \A r \in Proc : r # q => c.list[r] = m.list[r] /\ c.num[r] = m.num[r]
      BY <3>5
    <3>10. \A r \in Proc : FramesOf(c, qs, r)
      BY <1>2, <3>6, <3>7, <3>8, <3>9, FramesOthers
    <3>. QED
      BY <3>5, <3>10
  <2>9. CASE Cleared(c, m, p) /\ qs = ps \ {p}
    <3>1. FrameLists(c) /\ \A q \in Proc : FramesOf(c, ps \ {p}, q)
      BY <1>1, <1>2, <2>1, <2>9, ClearedOf
    <3>. QED
      BY <2>9, <3>1
  <2>. QED
    BY <1>6, <2>4, <2>5, <2>6, <2>7, <2>8, <2>9
<1>. QED
  BY <1>3, <1>5, <1>6 DEF StepKind

-----------------------------------------------------------------------------
(* What the invariant says, counted. *)

(* A list is no longer than there are frames. *)
LEMMA ListLength ==
  ASSUME NEW s \in Seq(Slip), NoneTwice(s)
  PROVE  \A i \in DOMAIN s : i \in 1 .. Cardinality(Frame)
<1> DEFINE n == Len(s)
           h == [i \in 1 .. n |-> s[i].f]
<1>1. n \in Nat /\ DOMAIN s = 1 .. n /\ \A i \in 1 .. n : s[i] \in Slip
  OBVIOUS
<1>2. \A i \in 1 .. n : s[i].f \in Frame
  BY <1>1 DEF Slip
<1>3. h \in [1 .. n -> Frame] /\ \A i \in 1 .. n : h[i] = s[i].f
  BY <1>2
<1> HIDE DEF h, n
<1>4. h \in Injection(1 .. n, Frame)
  BY <1>1, <1>3 DEF Injection, IsInjective, NoneTwice
<1>5. IsFiniteSet(Frame) /\ IsFiniteSet(1 .. n) /\ Cardinality(1 .. n) = n
  <2>1. IsFiniteSet(1 .. n) /\ Cardinality(1 .. n) = IF 1 > n THEN 0 ELSE n - 1 + 1
    BY <1>1, FS_Interval
  <2>. QED
    BY <1>1, <2>1, Kinds
<1>6. Cardinality(1 .. n) <= Cardinality(Frame)
  BY <1>4, <1>5, FS_Injection
<1>7. Cardinality(Frame) \in Nat
  BY <1>5, FS_CardinalityType
<1>. QED
  BY <1>1, <1>5, <1>6, <1>7

(* One list has it, once, or none. *)
LEMMA OwnersCounted ==
  ASSUME Good(mm), FrameLists(mm), NEW f \in Frame
  PROVE  LET owners == {x \in Proc \X (1 .. Cardinality(Frame)) :
                          x[2] \in DOMAIN mm.list[x[1]] /\ mm.list[x[1]][x[2]].f = f}
         IN  Cardinality(owners) = IF mm.alloc[f] > 0 THEN 1 ELSE 0
<1> DEFINE owners == {x \in Proc \X (1 .. Cardinality(Frame)) :
                        x[2] \in DOMAIN mm.list[x[1]] /\ mm.list[x[1]][x[2]].f = f}
<1>1. \A p \in Proc : mm.list[p] \in Seq(Slip) /\ NoneTwice(mm.list[p])
  <2>1. \A p \in Proc : mm.list[p] \in Seq(Slip)
    BY ElemsType
  <2>2. \A p \in Proc : NoneTwice(mm.list[p])
    BY DEF FrameLists
  <2>. QED
    BY <2>1, <2>2
<1>2. \A x \in owners : /\ x[1] \in Proc /\ x = <<x[1], x[2]>>
                        /\ x[2] \in DOMAIN mm.list[x[1]] /\ mm.list[x[1]][x[2]].f = f
  OBVIOUS
<1>3. ASSUME NEW p \in Proc, NEW i \in DOMAIN mm.list[p], mm.list[p][i].f = f
      PROVE  <<p, i>> \in owners
  <2>1. i \in 1 .. Cardinality(Frame)
    BY <1>1, ListLength
  <2>. QED
    BY <1>3, <2>1
<1> HIDE DEF owners
<1>4. ASSUME NEW x \in owners, NEW y \in owners PROVE x = y
  <2>1. /\ mm.list[x[1]][x[2]] \in Elems(mm.list[x[1]])
        /\ mm.list[y[1]][y[2]] \in Elems(mm.list[y[1]])
    BY <1>2 DEF Elems
  <2>2. x[1] = y[1]
    BY <1>2, <2>1 DEF FrameLists
  <2>3. x[2] = y[2]
    BY <1>1, <1>2, <2>2 DEF NoneTwice
  <2>4. x = <<x[1], x[2]>> /\ y = <<y[1], y[2]>>
    BY <1>2
  <2>. QED
    BY <2>2, <2>3, <2>4
<1>5. mm.alloc[f] \in Int
  BY GoodFields
<1>6. CASE mm.alloc[f] # 0
  <2>1. PICK p \in Proc : \E x \in Elems(mm.list[p]) : x.f = f
    BY <1>6 DEF FrameLists
  <2>2. PICK i \in DOMAIN mm.list[p] : mm.list[p][i].f = f
    BY <2>1 DEF Elems
  <2>3. <<p, i>> \in owners
    BY <1>3, <2>2
  <2>4. owners = {<<p, i>>}
    BY <1>4, <2>3
  <2>5. Cardinality(owners) = 1
    BY <2>4, FS_Singleton
  <2>6. mm.alloc[f] > 0
    <3>1. mm.list[p][i] \in Elems(mm.list[p])
      BY <2>2 DEF Elems
    <3>2. mm.list[p][i].n > 0 /\ mm.alloc[mm.list[p][i].f] = mm.list[p][i].n
      BY <3>1 DEF FrameLists
    <3>. QED
      BY <2>2, <3>2
  <2>. QED
    BY <2>5, <2>6 DEF owners
<1>7. CASE mm.alloc[f] = 0
  <2>1. ASSUME NEW x \in owners PROVE FALSE
    <3>1. x[1] \in Proc /\ mm.list[x[1]][x[2]] \in Elems(mm.list[x[1]]) /\ mm.list[x[1]][x[2]].f = f
      BY <1>2 DEF Elems
    <3>2. mm.list[x[1]][x[2]].n > 0 /\ mm.alloc[mm.list[x[1]][x[2]].f] = mm.list[x[1]][x[2]].n
      BY <3>1 DEF FrameLists
    <3>. QED
      BY <1>7, <3>1, <3>2
  <2>2. owners = {}
    BY <2>1
  <2>3. Cardinality(owners) = 0
    BY <2>2, FS_EmptySet
  <2>. QED
    BY <1>7, <2>3 DEF owners
<1>. QED
  BY <1>6, <1>7

(* A process maps as many pages as num_pages says, all its own. *)
LEMMA PagesCounted ==
  ASSUME Good(mm), NEW p \in Proc, FramePages(mm, p)
  PROVE  LET pages == {pd_get_mapping(mm, p, v).page : v \in Mapped(mm, p)}
         IN  /\ Cardinality(pages) = Cardinality(Mapped(mm, p))
             /\ Cardinality(pages) = mm.num[p]
             /\ \A x \in pages : \E i \in DOMAIN mm.list[p] :
                  mm.list[p][i].f = x[1] /\ x[2] < mm.list[p][i].n
<1> DEFINE S == Mapped(mm, p)
           pages == {pd_get_mapping(mm, p, v).page : v \in S}
           h == [v \in S |-> PageOf(mm, p, v)]
<1>1. pages = {PageOf(mm, p, v) : v \in S}
  BY DEF PageOf
<1>2. IsFiniteSet(S)
  <2>1. S \in SUBSET Page
    BY DEF Mapped
  <2>. QED
    BY <2>1, Sizes, FS_Subset
<1>3. /\ \A u, v \in S : PageOf(mm, p, u) = PageOf(mm, p, v) => u = v
      /\ mm.num[p] = Cardinality(S)
  BY DEF FramePages
<1>4. ASSUME NEW v \in S
      PROVE  \E i \in DOMAIN mm.list[p] :
               mm.list[p][i].f = PageOf(mm, p, v)[1] /\ PageOf(mm, p, v)[2] < mm.list[p][i].n
  <2>1. PICK x \in Elems(mm.list[p]) : PageOf(mm, p, v)[1] = x.f /\ PageOf(mm, p, v)[2] < x.n
    BY DEF FramePages
  <2>2. PICK i \in DOMAIN mm.list[p] : mm.list[p][i] = x
    BY DEF Elems
  <2>. QED
    BY <2>1, <2>2
<1> HIDE DEF S, pages
<1>5. h \in [S -> pages] /\ \A v \in S : h[v] = PageOf(mm, p, v)
  BY <1>1
<1> HIDE DEF h
<1>6. \A u, v \in S : h[u] = h[v] => u = v
  BY <1>3, <1>5
<1>7. \A x \in pages : \E v \in S : h[v] = x
  BY <1>1, <1>5
<1>8. Cardinality(pages) = Cardinality(S)
  BY <1>2, <1>5, <1>6, <1>7, OneToOne
<1>9. \A x \in pages : \E i \in DOMAIN mm.list[p] :
        mm.list[p][i].f = x[1] /\ x[2] < mm.list[p][i].n
  BY <1>1, <1>4
<1>. QED
  BY <1>3, <1>8, <1>9 DEF S, pages

(* The frames that are given out are those in the processes' lists, each   *)
(* in one; a process maps pages of its own frames, none of them twice, and *)
(* as many as num_pages says: whatever the programs do with fork, exec,    *)
(* new_pages and remove_pages, and whatever the allocators refuse.  The    *)
(* program's sections must start with the first page of the user's: it is  *)
(* what keeps a region of new_pages from being first in the one frame that *)
(* a fork copies everything to, which remove_pages would then free.        *)
THEOREM FramesOwnedCorrect == ASSUME Linked PROVE Spec => []FramesOwned
<1>1. Init => TableInv /\ FrameInv
  BY TableInit, FrameInit
<1>2. TableInv /\ FrameInv /\ [Next]_vars => (TableInv /\ FrameInv)'
  <2>1. SUFFICES ASSUME TableInv, FrameInv, [Next]_vars PROVE TableInv' /\ FrameInv'
    OBVIOUS
  <2>2. TableInv'
    BY <2>1, TableStep
  <2>3. FrameInv'
    BY <2>1, FrameStep
  <2>. QED
    BY <2>2, <2>3
<1>3. TableInv /\ FrameInv => FramesOwned
  <2>1. SUFFICES ASSUME TableInv, FrameInv PROVE FramesOwned
    OBVIOUS
  <2>2. Good(mm) /\ FrameLists(mm) /\ \A p \in Proc : FramePages(mm, p)
    BY <2>1 DEF TableInv, FrameInv, FramesOf
  <2>. QED
    BY <2>2, OwnersCounted, PagesCounted DEF FramesOwned
<1>. QED
  BY <1>1, <1>2, <1>3, PTL DEF Spec

-----------------------------------------------------------------------------
(* What a process sees of it. *)

Held(m, p, v) == m.data[PageOf(m, p, v)[1]][PageOf(m, p, v)[2]]

Space(m, p) ==
  [v \in Mapped(m, p) |->
     LET e == pd_get_mapping(m, p, v) IN [val |-> m.data[e.page[1]][e.page[2]], rw |-> e.rw]]

(* The pages that are mapped, what they hold, and whether they can be      *)
(* written.                                                                *)
LEMMA SpaceIs ==
  ASSUME NEW m, NEW p
  PROVE  /\ Space(m, p) = [v \in Mapped(m, p) |-> Space(m, p)[v]]
         /\ DOMAIN Space(m, p) = Mapped(m, p)
         /\ \A v \in Mapped(m, p) :
              Space(m, p)[v] = [val |-> Held(m, p, v), rw |-> pd_get_mapping(m, p, v).rw]
BY DEF Space, Held, PageOf

(* Two that are alike. *)
LEMMA SpaceAlike ==
  ASSUME NEW m, NEW p, NEW c, NEW q, Mapped(c, q) = Mapped(m, p),
         \A v \in Mapped(m, p) : /\ Held(c, q, v) = Held(m, p, v)
                                 /\ pd_get_mapping(c, q, v).rw = pd_get_mapping(m, p, v).rw
  PROVE  Space(c, q) = Space(m, p)
<1>1. ASSUME NEW v \in Mapped(m, p) PROVE Space(c, q)[v] = Space(m, p)[v]
  <2>1. Space(c, q)[v] = [val |-> Held(c, q, v), rw |-> pd_get_mapping(c, q, v).rw]
    BY SpaceIs
  <2>2. Space(m, p)[v] = [val |-> Held(m, p, v), rw |-> pd_get_mapping(m, p, v).rw]
    BY SpaceIs
  <2>. QED
    BY <2>1, <2>2
<1>. QED
  BY <1>1, SpaceIs

(* A page of a frame that is as it was. *)
LEMMA HeldSame ==
  ASSUME NEW m, Good(m), NEW p \in Proc, NEW v \in Mapped(m, p), NEW c, NEW F, Kept(c, m, F),
         pd_get_mapping(c, p, v) = pd_get_mapping(m, p, v), PageOf(m, p, v)[1] \notin F
  PROVE  Held(c, p, v) = Held(m, p, v)
<1>1. v \in Page
  BY DEF Mapped
<1>2. pd_get_mapping(m, p, v) \in Entry
  BY <1>1, MappingType
<1>3. PageOf(m, p, v)[1] \in Frame
  BY <1>2 DEF PageOf, Entry
<1>4. PageOf(c, p, v) = PageOf(m, p, v)
  BY DEF PageOf
<1>. QED
  BY <1>3, <1>4 DEF Held, Kept

(* A process whose frames are as they were. *)
LEMMA SpaceSame ==
  ASSUME NEW m, Good(m), NEW q \in Proc, FramePages(m, q), NEW c, NEW F, Kept(c, m, F),
         \A x \in Elems(m.list[q]) : x.f \notin F,
         \A v \in Page : pd_get_mapping(c, q, v) = pd_get_mapping(m, q, v)
  PROVE  Space(c, q) = Space(m, q)
<1>1. Mapped(c, q) = Mapped(m, q) /\ Mapped(m, q) \subseteq Page
  BY DEF Mapped
<1>2. ASSUME NEW v \in Mapped(m, q)
      PROVE  /\ Held(c, q, v) = Held(m, q, v)
             /\ pd_get_mapping(c, q, v).rw = pd_get_mapping(m, q, v).rw
  <2>1. pd_get_mapping(c, q, v) = pd_get_mapping(m, q, v)
    BY <1>1
  <2>2. PICK x \in Elems(m.list[q]) : PageOf(m, q, v)[1] = x.f
    BY DEF FramePages
  <2>3. PageOf(m, q, v)[1] \notin F
    BY <2>2
  <2>4. Held(c, q, v) = Held(m, q, v)
    BY <2>1, <2>3, HeldSame
  <2>. QED
    BY <2>1, <2>4
<1>. QED
  BY <1>1, <1>2, SpaceAlike

(* No process but p sees a difference. *)
SpacesKept(c, m, p) == \A q \in Proc : q # p => Space(c, q) = Space(m, q)

(* A frame that was free. *)
LEMMA PlacedKept ==
  ASSUME NEW m, Good(m), FrameLists(m), \A q \in Proc : FramePages(m, q), NEW c, NEW p \in Proc,
         NEW f \in Frame, m.alloc[f] = 0, NEW n, NEW entry, Placed(c, m, p, f, n, entry)
  PROVE  SpacesKept(c, m, p)
<1>1. SUFFICES ASSUME NEW q \in Proc, q # p PROVE Space(c, q) = Space(m, q)
  BY DEF SpacesKept
<1>2. \A x \in Elems(m.list[q]) : x.f \notin {f}
  <2>1. \A x \in Elems(m.list[q]) : x.n > 0 /\ m.alloc[x.f] = x.n
    BY DEF FrameLists
  <2>. QED
    BY <2>1
<1>3. Kept(c, m, {f}) /\ \A v \in Page : pd_get_mapping(c, q, v) = pd_get_mapping(m, q, v)
  BY <1>1 DEF Placed
<1>. QED
  BY <1>2, <1>3, SpaceSame

(* Frames of p. *)
LEMMA MineKept ==
  ASSUME NEW m, Good(m), FrameLists(m), \A q \in Proc : FramePages(m, q), NEW c, NEW p \in Proc,
         NEW F, \A f \in F : \E x \in Elems(m.list[p]) : x.f = f, Kept(c, m, F),
         \A q \in Proc, v \in Page : q # p => pd_get_mapping(c, q, v) = pd_get_mapping(m, q, v)
  PROVE  SpacesKept(c, m, p)
<1>1. SUFFICES ASSUME NEW q \in Proc, q # p PROVE Space(c, q) = Space(m, q)
  BY DEF SpacesKept
<1>2. \A x \in Elems(m.list[q]) : x.f \notin F
  <2>1. \A x \in Elems(m.list[p]), y \in Elems(m.list[q]) : x.f # y.f
    BY <1>1 DEF FrameLists
  <2>. QED
    BY <2>1
<1>3. \A v \in Page : pd_get_mapping(c, q, v) = pd_get_mapping(m, q, v)
  BY <1>1
<1>. QED
  BY <1>2, <1>3, SpaceSame

(* A user space that is cleared. *)
LEMMA ClearedKept ==
  ASSUME NEW m, Good(m), FrameLists(m), \A q \in Proc : FramePages(m, q), NEW c, NEW p \in Proc,
         Cleared(c, m, p)
  PROVE  SpacesKept(c, m, p) /\ DOMAIN Space(c, p) = {}
<1> DEFINE F == {m.list[p][i].f : i \in DOMAIN m.list[p]}
<1>1. Kept(c, m, F)
  BY DEF Cleared
<1>2. \A f \in F : \E x \in Elems(m.list[p]) : x.f = f
  BY DEF Elems
<1>3. \A q \in Proc, v \in Page : q # p => pd_get_mapping(c, q, v) = pd_get_mapping(m, q, v)
  BY DEF Cleared
<1>4. Mapped(c, p) = {}
  BY DEF Cleared, Mapped
<1> HIDE DEF F
<1>5. SpacesKept(c, m, p)
  BY <1>1, <1>2, <1>3, MineKept
<1>. QED
  BY <1>4, <1>5, SpaceIs

(* The quotients of what is in order are. *)
LEMMA QuotientOrder ==
  ASSUME NEW d \in Nat \ {0}, NEW a \in Int, NEW b \in Int, a <= b
  PROVE  /\ a \div d \in Int /\ b \div d \in Int /\ a \div d <= b \div d
         /\ d * (a \div d) <= a /\ (a % d # 0 => d * (a \div d) < a)
<1> DEFINE x == a \div d
           y == b \div d
           r == a % d
           s == b % d
<1>1. /\ x \in Int /\ r \in 0 .. d - 1 /\ a = d * x + r
      /\ y \in Int /\ s \in 0 .. d - 1 /\ b = d * y + s
  BY Division
<1> HIDE DEF x, y, r, s
<1>2. d * x \in Int /\ d * y \in Int /\ (y < x <=> d * y <= d * x - d)
  BY <1>1, Multiples
<1>3. ~(y < x)
  <2> DEFINE dx == d * x
             dy == d * y
  <2>1. /\ dx \in Int /\ dy \in Int /\ a = dx + r /\ b = dy + s
        /\ (y < x => dy <= dx - d)
    BY <1>1, <1>2
  <2> HIDE DEF dx, dy
  <2>. QED
    BY <1>1, <2>1
<1>4. d * x <= a /\ (r # 0 => d * x < a)
  <2> DEFINE dx == d * x
  <2>1. dx \in Int /\ a = dx + r
    BY <1>1, <1>2
  <2> HIDE DEF dx
  <2>2. dx <= a /\ (r # 0 => dx < a)
    BY <1>1, <2>1
  <2>. QED
    BY <2>2 DEF dx
<1>. QED
  BY <1>1, <1>3, <1>4 DEF x, y, r, s

(* The writable sections of a program that shares no page between them and *)
(* read-only ones are mapped, and can be written.                          *)
LEMMA WritableMapped ==
  ASSUME Linked, Separate, NEW v \in WritableData, v # StackLow
  PROVE  v \in Bounded(Sections) /\ SectionRw(Sections, v)
<1> DEFINE b == ms_get_bounding_addr(Sections)
           D == PAGE_SIZE
<1>1. PICK i \in DOMAIN Sections : v \in Page /\ WritableOn(Sections[i], v)
  BY DEF WritableData
<1>2. /\ b.low \in Int /\ b.high \in Int
      /\ Sections[i].addr \in Int /\ High(Sections[i]) \in Int
      /\ b.low <= Sections[i].addr /\ High(Sections[i]) <= b.high
  BY <1>1, BoundingAddr DEF WritableOn
<1>3. Sections[i].addr \div D <= v /\ v <= High(Sections[i]) \div D /\ b.high % D # 0
  BY <1>1 DEF WritableOn, Separate
<1>4. D \in Nat \ {0} /\ v \in Int
  BY <1>1, Sizes
<1>5. SectionRw(Sections, v)
  <2> DEFINE S == ms_get_bounding_section(Sections, v)
  <2>1. S # {} /\ \A j \in S : Sections[j].rw
    BY <1>1 DEF Separate
  <2>2. S \in SUBSET Nat
    <3>1. DOMAIN Sections \in SUBSET Nat
      BY VirtualMemAssumption
    <3>. QED
      BY <3>1 DEF ms_get_bounding_section
  <2> HIDE DEF S
  <2>3. Lowest(S) \in S
    BY <2>1, <2>2, LowestIs
  <2>. QED
    BY <2>1, <2>3 DEF SectionRw, S
<1> DEFINE l == b.low \div D
           h == b.high \div D
           z == b.high + D - 1
<1> HIDE DEF b, D
<1>6. l \in Int /\ l <= v
  <2>1. PICK a \in Int : a = Sections[i].addr
    BY <1>2
  <2>2. a \div D \in Int /\ b.low \div D \in Int /\ b.low \div D <= a \div D
    BY <1>2, <1>4, <2>1, QuotientOrder
  <2>. QED
    BY <1>3, <1>4, <2>1, <2>2
<1>7. h \in Int /\ v <= h /\ D * h < b.high
  <2>1. PICK a \in Int : a = High(Sections[i])
    BY <1>2
  <2>2. a \div D \in Int /\ h \in Int /\ a \div D <= h
    BY <1>2, <1>4, <2>1, QuotientOrder
  <2>3. D * h < b.high
    <3>1. b.high <= b.high
      BY <1>2
    <3>. QED
      BY <1>2, <1>3, <1>4, <3>1, QuotientOrder
  <2>. QED
    BY <1>3, <1>4, <2>1, <2>2, <2>3
<1>8. z \in Int /\ D * (z \div D) >= b.high
  <2>1. z \in Int
    BY <1>2, <1>4
  <2> HIDE DEF z
  <2>2. z \div D \in Int /\ z % D \in 0 .. D - 1 /\ z = D * (z \div D) + (z % D)
    BY <1>4, <2>1, Division
  <2> DEFINE y == D * (z \div D)
             r == z % D
  <2>3. y \in Int /\ r \in 0 .. D - 1 /\ z = y + r
    BY <1>4, <2>2
  <2> HIDE DEF y, r
  <2>4. z = b.high + D - 1
    BY DEF z
  <2>5. y >= b.high
    BY <1>2, <1>4, <2>3, <2>4
  <2>. QED
    BY <2>1, <2>5 DEF y
<1> HIDE DEF l, h
<1>9. D * l <= v * D /\ v * D <= D * h /\ v * D \in Int
  <2>1. v * D = D * v /\ D * v \in Int /\ D * l <= D * v
    BY <1>4, <1>6, Multiples
  <2>2. D * v <= D * h
    BY <1>4, <1>7, Multiples
  <2>. QED
    BY <2>1, <2>2
<1>10. v * D <= D * (z \div D) - 1
  <2>1. PICK y : y = D * (z \div D)
    OBVIOUS
  <2>2. PICK x : x = D * h
    OBVIOUS
  <2>3. x \in Int /\ y \in Int
    <3>1. z \div D \in Int
      BY <1>4, <1>8, Division
    <3>. QED
      BY <1>4, <1>7, <2>1, <2>2, <3>1
  <2>4. v * D <= x /\ x < b.high /\ y >= b.high
    BY <1>7, <1>8, <1>9, <2>1, <2>2
  <2>5. v * D <= y - 1
    BY <1>2, <1>9, <2>3, <2>4
  <2>. QED
    BY <2>1, <2>5
<1>11. v \in Bounded(Sections)
  <2>1. D * l <= v * D /\ v * D <= D * (z \div D) - 1
    BY <1>9, <1>10
  <2>. QED
    BY <1>1, <2>1 DEF Bounded, PAGE_ALIGN_DOWN, PAGE_ALIGN_UP, l, z, b, D
<1>. QED
  BY <1>5, <1>11

(* The image of p's program is mapped, and is no part of what new_pages    *)
(* gave; the offsets of its pages are those of pages.                      *)
Standing(m, p) ==
  /\ Image \subseteq Mapped(m, p)
  /\ \A v \in Mapped(m, p) : PageOf(m, p, v)[2] \in Page
  /\ \A v, w \in Page : v <= w /\ Stretch(m, p, v, w) => \A u \in v .. w : u \notin Image

(* A process whose pages are as they were. *)
LEMMA StandingSame ==
  ASSUME NEW m, NEW c, NEW p, Standing(m, p),
         \A v \in Page : pd_get_mapping(c, p, v) = pd_get_mapping(m, p, v)
  PROVE  Standing(c, p)
<1>1. Mapped(c, p) = Mapped(m, p) /\ Mapped(m, p) \subseteq Page
  BY DEF Mapped
<1>2. \A v \in Mapped(m, p) : PageOf(c, p, v) = PageOf(m, p, v)
  BY <1>1 DEF PageOf
<1>3. \A v, w \in Page : Stretch(c, p, v, w) => Stretch(m, p, v, w)
  BY <1>1 DEF Stretch
<1>. QED
  BY <1>1, <1>2, <1>3 DEF Standing

(* A child whose pages have the flags of its parent's. *)
LEMMA StandingCopy ==
  ASSUME NEW m, NEW p, Standing(m, p), NEW c, NEW q, SameFlags(m, p, c, q),
         \A v \in Mapped(c, q) : PageOf(c, q, v)[2] \in Page
  PROVE  Standing(c, q)
<1>1. Mapped(c, q) = Mapped(m, p) /\ Mapped(m, p) \subseteq Page
  BY DEF SameFlags, Mapped
<1>2. \A v, w \in Page : Stretch(c, q, v, w) => Stretch(m, p, v, w)
  <2>1. SUFFICES ASSUME NEW v \in Page, NEW w \in Page, Stretch(c, q, v, w), NEW u \in v .. w
                 PROVE  /\ u \in Mapped(m, p)
                        /\ pd_get_mapping(m, p, u).end <=> u = w
                        /\ pd_get_mapping(m, p, u).start <=> u = v
    BY DEF Stretch
  <2>2. u \in Page /\ u \in Mapped(m, p)
    BY <1>1, <2>1 DEF Stretch
  <2>3. /\ pd_get_mapping(c, q, u).start = pd_get_mapping(m, p, u).start
        /\ pd_get_mapping(c, q, u).end = pd_get_mapping(m, p, u).end
    BY <2>2 DEF SameFlags
  <2>. QED
    BY <2>1, <2>2, <2>3 DEF Stretch
<1>. QED
  BY <1>1, <1>2 DEF Standing

(* What a step does for p: the memory it has is what the abstract          *)
(* specification allows, and that of the others is as it was.              *)
Stepped(c, m, p) ==
  /\ SpacesKept(c, m, p)
  /\ \/ Spaces!Loaded(Space(c, p)) \/ Spaces!New(Space(m, p), Space(c, p))
     \/ Spaces!Remove(Space(m, p), Space(c, p)) \/ Spaces!Store(Space(m, p), Space(c, p))
     \/ Spaces!Exit(Space(c, p))
     \/ Spaces!Fork(Space(m, p), Space(c, p), {Space(m, q) : q \in Proc \ {p}})

(* new_pages. *)
LEMMA GrownSpace ==
  ASSUME NEW m, Good(m), FrameLists(m), \A q \in Proc : FramePages(m, q), NEW c, NEW p \in Proc,
         RegionsOf(m, p), Mapped(m, p) # {}, Standing(m, p), Grown(c, m, p)
  PROVE  Stepped(c, m, p) /\ Standing(c, p)
<1>1. PICK base \in Nat, n \in Nat \ {0} : \E entry :
        /\ NewPagesAllowed(m, p, base, n)
        /\ NewEntries(entry, NextFrame(m), base, n)
        /\ Placed(c, m, p, NextFrame(m), n, entry)
        /\ Clear(c, NextFrame(m), n)
  BY DEF Grown
<1>2. PICK entry :
        /\ NewPagesAllowed(m, p, base, n)
        /\ NewEntries(entry, NextFrame(m), base, n)
        /\ Placed(c, m, p, NextFrame(m), n, entry)
        /\ Clear(c, NextFrame(m), n)
  BY <1>1
<1> DEFINE f == NextFrame(m)
           vs == Region(base, n)
           e == base + n - 1
<1>3. f \in Frame /\ m.alloc[f] = 0
  BY <1>2, NextFrameIs DEF NewPagesAllowed
<1>4. /\ NewEntries(entry, f, base, n) /\ Placed(c, m, p, f, n, entry) /\ Clear(c, f, n)
  BY <1>2
<1> HIDE DEF f
<1>5. /\ vs = base .. e /\ e \in Page /\ base \in Page /\ vs \in SUBSET Page /\ base <= e
      /\ vs \cap Mapped(m, p) = {}
  BY <1>2, Sizes DEF NewPagesAllowed, Region
<1>6. DOMAIN entry = vs /\ \A v \in vs : entry[v] \in Entry
  BY <1>4 DEF NewEntries
<1>7. /\ Mapped(c, p) = Mapped(m, p) \cup vs
      /\ \A v \in vs : pd_get_mapping(c, p, v) = entry[v]
      /\ \A v \in Page : v \notin vs => pd_get_mapping(c, p, v) = pd_get_mapping(m, p, v)
  <2>1. \A v \in vs : entry[v] \in Entry
    BY <1>6
  <2>2. DOMAIN entry = vs /\ vs \in SUBSET Page
    BY <1>5, <1>6
  <2> HIDE DEF vs
  <2>. QED
    BY <1>4, <2>1, <2>2, PlacedMaps
<1>8. \A v \in Mapped(m, p) : /\ pd_get_mapping(c, p, v) = pd_get_mapping(m, p, v)
                              /\ PageOf(m, p, v)[1] # f
  <2>1. ASSUME NEW v \in Mapped(m, p) PROVE PageOf(m, p, v)[1] # f
    <3>1. PICK x \in Elems(m.list[p]) : PageOf(m, p, v)[1] = x.f
      BY DEF FramePages
    <3>2. x.n > 0 /\ m.alloc[x.f] = x.n
      BY DEF FrameLists
    <3>. QED
      BY <1>3, <3>1, <3>2
  <2>2. Mapped(m, p) \subseteq Page
    BY DEF Mapped
  <2>. QED
    BY <1>5, <1>7, <2>1, <2>2
<1>9. ASSUME NEW v \in vs
      PROVE  /\ PageOf(c, p, v)[1] = f /\ PageOf(c, p, v)[2] = v - base /\ v - base \in Page
             /\ v - base < n /\ pd_get_mapping(c, p, v).rw = TRUE
  <2>1. entry[v] \in Entry /\ entry[v].page = <<f, v - base>> /\ entry[v].rw
    BY <1>4 DEF NewEntries
  <2>2. entry[v].rw = TRUE
    BY <2>1 DEF Entry
  <2>3. v \in Nat /\ base <= v /\ v <= e /\ v \in Page
    BY <1>5, Sizes
  <2>4. v - base \in Page /\ v - base < n
    BY <2>3, Sizes
  <2>. QED
    BY <1>7, <2>1, <2>2, <2>4 DEF PageOf
<1>10. Kept(c, m, {f})
  BY <1>4 DEF Placed
<1>11. ASSUME NEW v \in Mapped(m, p) PROVE Space(c, p)[v] = Space(m, p)[v]
  <2>1. Held(c, p, v) = Held(m, p, v)
    BY <1>8, <1>10, HeldSame
  <2>2. v \in Mapped(c, p)
    BY <1>7
  <2>3. Space(c, p)[v] = [val |-> Held(c, p, v), rw |-> pd_get_mapping(c, p, v).rw]
    BY <2>2, SpaceIs
  <2>4. Space(m, p)[v] = [val |-> Held(m, p, v), rw |-> pd_get_mapping(m, p, v).rw]
    BY SpaceIs
  <2>. QED
    BY <1>8, <2>1, <2>3, <2>4
<1>12. ASSUME NEW v \in vs PROVE Space(c, p)[v] = [val |-> Zero, rw |-> TRUE]
  <2>1. Held(c, p, v) = Zero
    BY <1>4, <1>9 DEF Held, Clear
  <2>2. v \in Mapped(c, p)
    BY <1>7
  <2>3. Space(c, p)[v] = [val |-> Held(c, p, v), rw |-> pd_get_mapping(c, p, v).rw]
    BY <2>2, SpaceIs
  <2>. QED
    BY <1>9, <2>1, <2>3
<1>13. Spaces!New(Space(m, p), Space(c, p))
  <2>1. DOMAIN Space(m, p) = Mapped(m, p) /\ DOMAIN Space(c, p) = Mapped(m, p) \cup vs
    BY <1>7, SpaceIs
  <2>2. ASSUME NEW v \in DOMAIN Space(c, p)
        PROVE  Space(c, p)[v] = IF v \in DOMAIN Space(m, p) THEN Space(m, p)[v]
                                ELSE [val |-> Zero, rw |-> TRUE]
    BY <1>11, <1>12, <2>1
  <2> DEFINE M == Space(m, p)
             M2 == Space(c, p)
  <2>3. DOMAIN M # {} /\ DOMAIN M \subseteq DOMAIN M2
    BY <2>1
  <2>4. \A v \in DOMAIN M2 : M2[v] = IF v \in DOMAIN M THEN M[v] ELSE [val |-> Zero, rw |-> TRUE]
    BY <2>2
  <2> HIDE DEF M, M2
  <2>5. Spaces!New(M, M2)
    BY <2>3, <2>4 DEF Spaces!New
  <2>. QED
    BY <2>5 DEF M, M2
<1>14. SpacesKept(c, m, p)
  BY <1>3, <1>4, PlacedKept
<1>15. Stretch(c, p, base, e) /\ RegionsOf(c, p)
  <2>1. NewPagesAllowed(m, p, base, n)
    BY <1>2
  <2>. QED
    BY <1>4, <2>1, RegionsGrown
<1>16. ASSUME NEW v \in Page, NEW w \in Page, v <= w, Stretch(c, p, v, w), NEW u \in v .. w
       PROVE  u \notin Image
  <2>0. v \in Nat /\ w \in Nat /\ base \in Nat /\ e \in Nat
    BY <1>5, Sizes
  <2>1. CASE v = base
    <3>1. w = e
      <4>1. w >= base /\ e >= base
        BY <1>5, <1>16, <2>0, <2>1
      <4>. QED
        BY <1>5, <1>15, <1>16, <2>1, <4>1, OneEnd
    <3>2. u \in vs
      BY <1>5, <2>1, <3>1
    <3>. QED
      BY <1>5, <3>2 DEF Standing
  <2>2. CASE v # base
    <3>1. \A x \in v .. w : x \notin base .. e
      BY <1>5, <1>15, <1>16, <2>2, Apart
    <3>2. \A x \in v .. w : x \in Mapped(m, p) /\ pd_get_mapping(c, p, x) = pd_get_mapping(m, p, x)
      BY <1>5, <1>7, <1>8, <1>16, <3>1 DEF Stretch
    <3>3. Stretch(m, p, v, w)
      BY <1>16, <3>2 DEF Stretch
    <3>. QED
      BY <1>16, <3>3 DEF Standing
  <2>. QED
    BY <2>1, <2>2
<1>17. ASSUME NEW v \in Mapped(c, p) PROVE PageOf(c, p, v)[2] \in Page
  <2>1. CASE v \in vs
    BY <1>9, <2>1
  <2>2. CASE v \in Mapped(m, p)
    BY <1>8, <2>2 DEF Standing, PageOf
  <2>. QED
    BY <1>7, <2>1, <2>2
<1>18. Standing(c, p)
  <2>1. Image \subseteq Mapped(c, p)
    BY <1>7 DEF Standing
  <2>. QED
    BY <1>16, <1>17, <2>1 DEF Standing
<1>. QED
  BY <1>13, <1>14, <1>18 DEF Stepped

(* remove_pages. *)
LEMMA ShrunkSpace ==
  ASSUME NEW m, Good(m), FrameLists(m), \A q \in Proc : FramePages(m, q), NEW c, NEW p \in Proc,
         RegionsOf(m, p), WholeFrames(m, p), Standing(m, p), Shrunk(c, m, p)
  PROVE  Stepped(c, m, p) /\ Standing(c, p)
<1>1. PICK base \in Page, w \in Page : \E k \in DOMAIN m.list[p] :
        /\ w >= base /\ RemoveAllowed(m, p, base) /\ Stretch(m, p, base, w)
        /\ Removed(c, m, p, base, w, k)
  BY DEF Shrunk
<1>2. PICK k \in DOMAIN m.list[p] : Removed(c, m, p, base, w, k)
  BY <1>1
<1>3. w >= base /\ RemoveAllowed(m, p, base) /\ Stretch(m, p, base, w)
  BY <1>1
<1>4. Begins(m, p, base) /\ PageOf(m, p, base)[2] = 0
  BY <1>3 DEF RemoveAllowed, Begins, PageOf
<1> DEFINE f == PageOf(m, p, base)[1]
<1>5. /\ Mapped(c, p) = Mapped(m, p) \ (base .. w)
      /\ \A v \in Mapped(c, p) : pd_get_mapping(c, p, v) = pd_get_mapping(m, p, v)
      /\ \A v \in Page : v \notin base .. w => pd_get_mapping(c, p, v) = pd_get_mapping(m, p, v)
  <2>1. \A v \in Page : pd_get_mapping(c, p, v) =
          IF v \in base .. w THEN NULL ELSE pd_get_mapping(m, p, v)
    BY <1>2 DEF Removed
  <2>. QED
    BY <2>1 DEF Mapped
<1>6. /\ Kept(c, m, {f}) /\ m.list[p][k].f = f
      /\ \A q \in Proc, v \in Page : q # p => pd_get_mapping(c, q, v) = pd_get_mapping(m, q, v)
  BY <1>2 DEF Removed, PageOf
<1>7. \A v \in Mapped(m, p) : PageOf(m, p, v)[1] = f <=> v \in base .. w
  <2>1. PICK e \in Page : e >= base /\ WholeFrame(m, p, base, e)
    BY <1>4 DEF WholeFrames
  <2>2. e = w
    BY <1>3, <2>1, OneEnd DEF WholeFrame
  <2>. QED
    BY <2>1, <2>2 DEF WholeFrame
<1> HIDE DEF f
<1>8. ASSUME NEW v \in Mapped(c, p) PROVE Space(c, p)[v] = Space(m, p)[v]
  <2>1. v \in Mapped(m, p) /\ PageOf(m, p, v)[1] \notin {f}
    BY <1>5, <1>7
  <2>2. Held(c, p, v) = Held(m, p, v)
    BY <1>5, <1>6, <2>1, HeldSame
  <2>3. Space(c, p)[v] = [val |-> Held(c, p, v), rw |-> pd_get_mapping(c, p, v).rw]
    BY SpaceIs
  <2>4. Space(m, p)[v] = [val |-> Held(m, p, v), rw |-> pd_get_mapping(m, p, v).rw]
    BY <2>1, SpaceIs
  <2>. QED
    BY <1>5, <2>2, <2>3, <2>4
<1>9. base <= w /\ \A u \in base .. w : u \notin Image
  <2>1. base <= w
    BY <1>3, Sizes
  <2>. QED
    BY <1>3, <2>1 DEF Standing
<1>10. Image \subseteq Mapped(c, p)
  BY <1>5, <1>9 DEF Standing
<1>11. Spaces!Remove(Space(m, p), Space(c, p))
  <2> DEFINE M == Space(m, p)
             M2 == Space(c, p)
  <2>1. DOMAIN M = Mapped(m, p) /\ DOMAIN M2 = Mapped(c, p)
    BY SpaceIs
  <2>2. \A v \in Mapped(c, p) : M2[v] = M[v]
    BY <1>8
  <2> HIDE DEF M, M2
  <2>3. Spaces!Remove(M, M2)
    BY <1>5, <1>10, <2>1, <2>2 DEF Spaces!Remove
  <2>. QED
    BY <2>3 DEF M, M2
<1>12. SpacesKept(c, m, p)
  <2>1. \A g \in {f} : \E x \in Elems(m.list[p]) : x.f = g
    BY <1>6 DEF Elems
  <2>. QED
    BY <1>6, <2>1, MineKept
<1>13. ASSUME NEW v \in Page, NEW x \in Page, v <= x, Stretch(c, p, v, x) PROVE Stretch(m, p, v, x)
  BY <1>5, <1>13 DEF Stretch
<1>14. \A v \in Mapped(c, p) : PageOf(c, p, v)[2] \in Page
  BY <1>5 DEF Standing, PageOf
<1>15. Standing(c, p)
  BY <1>10, <1>13, <1>14 DEF Standing
<1>. QED
  BY <1>11, <1>12, <1>15 DEF Stepped

(* An instruction that writes. *)
LEMMA WroteSpace ==
  ASSUME NEW m, Good(m), FrameLists(m), \A q \in Proc : FramePages(m, q), NEW c, Same(c, m),
         NEW p \in Proc, Standing(m, p), Wrote(c, m, p)
  PROVE  Stepped(c, m, p)
<1>1. PICK v \in Page :
        /\ Writable(m, p, v)
        /\ LET page == pd_get_mapping(m, p, v).page
           IN  /\ Kept(c, m, {page[1]})
               /\ \A o \in Page : o # page[2] => c.data[page[1]][o] = m.data[page[1]][o]
  BY DEF Wrote
<1> DEFINE f == PageOf(m, p, v)[1]
           o == PageOf(m, p, v)[2]
           M == Space(m, p)
           M2 == Space(c, p)
<1>2. /\ Kept(c, m, {f}) /\ \A i \in Page : i # o => c.data[f][i] = m.data[f][i]
      /\ v \in Mapped(m, p) /\ pd_get_mapping(m, p, v).rw
  BY <1>1 DEF PageOf, Writable
<1>3. /\ \A q, u : pd_get_mapping(c, q, u) = pd_get_mapping(m, q, u)
      /\ \A q : Mapped(c, q) = Mapped(m, q)
  BY SameTables DEF Same
<1>4. PICK x \in Elems(m.list[p]) : f = x.f
  BY <1>2 DEF FramePages
<1>5. SpacesKept(c, m, p)
  <2> HIDE DEF f
  <2>1. \A g \in {f} : \E y \in Elems(m.list[p]) : y.f = g
    BY <1>4
  <2>2. \A q \in Proc, u \in Page : q # p => pd_get_mapping(c, q, u) = pd_get_mapping(m, q, u)
    BY <1>3
  <2>. QED
    BY <1>2, <2>1, <2>2, MineKept
<1>6. ASSUME NEW u \in Mapped(m, p), u # v PROVE Held(c, p, u) = Held(m, p, u)
  <2>1. CASE PageOf(m, p, u)[1] # f
    <3>1. PageOf(m, p, u)[1] \notin {f} /\ pd_get_mapping(c, p, u) = pd_get_mapping(m, p, u)
      BY <1>3, <2>1
    <3>. QED
      BY <1>2, <3>1, HeldSame
  <2>2. CASE PageOf(m, p, u)[1] = f
    <3>1. PageOf(m, p, u) # PageOf(m, p, v)
      BY <1>2, <1>6 DEF FramePages
    <3>2. PageOf(m, p, u) \in Frame \X Nat /\ PageOf(m, p, v) \in Frame \X Nat
      <4>1. u \in Page /\ v \in Page
        BY DEF Mapped
      <4>2. pd_get_mapping(m, p, u) \in Entry /\ pd_get_mapping(m, p, v) \in Entry
        BY <1>2, <4>1, MappingType
      <4>. QED
        BY <4>2 DEF PageOf, Entry
    <3>3. PageOf(m, p, u)[2] # o
      BY <2>2, <3>1, <3>2
    <3>4. PageOf(m, p, u)[2] \in Page
      BY DEF Standing
    <3>5. PageOf(c, p, u) = PageOf(m, p, u)
      BY <1>3 DEF PageOf
    <3> HIDE DEF f, o
    <3>. QED
      BY <1>2, <2>2, <3>3, <3>4, <3>5 DEF Held
  <2>. QED
    BY <2>1, <2>2
<1>7. /\ M = [u \in Mapped(m, p) |-> M[u]] /\ M2 = [u \in Mapped(m, p) |-> M2[u]]
      /\ DOMAIN M = Mapped(m, p) /\ DOMAIN M2 = Mapped(m, p)
      /\ \A u \in Mapped(m, p) : M[u] = [val |-> Held(m, p, u), rw |-> pd_get_mapping(m, p, u).rw]
      /\ \A u \in Mapped(m, p) : M2[u] = [val |-> Held(c, p, u), rw |-> pd_get_mapping(m, p, u).rw]
  <2>1. /\ M = [u \in Mapped(m, p) |-> M[u]] /\ DOMAIN M = Mapped(m, p)
        /\ \A u \in Mapped(m, p) : M[u] = [val |-> Held(m, p, u), rw |-> pd_get_mapping(m, p, u).rw]
    BY SpaceIs
  <2>2. /\ M2 = [u \in Mapped(c, p) |-> M2[u]] /\ DOMAIN M2 = Mapped(c, p)
        /\ \A u \in Mapped(c, p) : M2[u] = [val |-> Held(c, p, u), rw |-> pd_get_mapping(c, p, u).rw]
    BY SpaceIs
  <2> HIDE DEF M, M2
  <2>. QED
    BY <1>3, <2>1, <2>2
<1> HIDE DEF M, M2
<1>8. \A u \in Mapped(m, p) : u # v => M2[u] = M[u]
  BY <1>6, <1>7
<1>9. M[v].rw /\ M2[v] = [M[v] EXCEPT !.val = M2[v].val]
  <2>1. M[v] = [val |-> Held(m, p, v), rw |-> pd_get_mapping(m, p, v).rw]
    BY <1>2, <1>7
  <2>2. M2[v] = [val |-> Held(c, p, v), rw |-> pd_get_mapping(m, p, v).rw]
    BY <1>2, <1>7
  <2>3. PICK h, k, b : h = Held(m, p, v) /\ k = Held(c, p, v) /\ b = pd_get_mapping(m, p, v).rw
    OBVIOUS
  <2>4. M[v] = [val |-> h, rw |-> b] /\ M2[v] = [val |-> k, rw |-> b]
    BY <2>1, <2>2, <2>3
  <2>5. M[v].rw = b /\ M2[v].val = k
    BY <2>4
  <2>6. M2[v] = [M[v] EXCEPT !.val = k]
    BY <2>4
  <2>. QED
    BY <1>2, <2>3, <2>5, <2>6
<1>10. M2 = [M EXCEPT ![v].val = M2[v].val]
  <2>1. PICK z : z = [M[v] EXCEPT !.val = M2[v].val]
    OBVIOUS
  <2>2. [M EXCEPT ![v].val = M2[v].val] = [M EXCEPT ![v] = z]
    BY <2>1
  <2>3. M2[v] = z
    BY <1>9, <2>1
  <2>4. M2 = [M EXCEPT ![v] = z]
    BY <1>2, <1>7, <1>8, <2>3
  <2>. QED
    BY <2>2, <2>4
<1>11. Spaces!Store(M, M2)
  BY <1>2, <1>7, <1>9, <1>10 DEF Spaces!Store
<1>. QED
  BY <1>5, <1>11 DEF Stepped, M, M2

(* fork. *)
LEMMA ForkedSpace ==
  ASSUME NEW m, Good(m), FrameLists(m), \A r \in Proc : FramePages(m, r), NEW c, NEW p \in Proc,
         Standing(m, p), NEW q \in Proc, q # p, Mapped(m, q) = {}, Forked(c, m, p, q)
  PROVE  Stepped(c, m, q) /\ Standing(c, q)
<1>1. PICK entry : /\ FreeFrames(m) # {}
                   /\ CopyEntries(entry, m, p, NextFrame(m))
                   /\ Placed(c, m, q, NextFrame(m), m.num[p], entry)
                   /\ Copies(c, m, p, NextFrame(m))
  BY DEF Forked
<1> DEFINE f == NextFrame(m)
           S == Mapped(m, p)
           R(v) == Cardinality({w \in S : w < v})
<1>2. f \in Frame /\ m.alloc[f] = 0
  BY <1>1, NextFrameIs
<1>3. /\ CopyEntries(entry, m, p, f) /\ Copies(c, m, p, f) /\ \E n : Placed(c, m, q, f, n, entry)
  BY <1>1
<1> HIDE DEF f
<1>4. PICK n : Placed(c, m, q, f, n, entry)
  BY <1>3
<1>5. S \in SUBSET Page /\ S \in SUBSET Nat /\ IsFiniteSet(S)
  <2>1. S \in SUBSET Page
    BY DEF Mapped
  <2>. QED
    BY <2>1, Sizes, FS_Subset
<1>6. /\ \A v \in S : R(v) < Cardinality(S)
      /\ \A u, v \in S : R(u) = R(v) => u = v
  BY <1>5, Rank
<1>7. \A v \in S : R(v) \in Page
  <2>1. \A v \in S : R(v) \in Nat
    <3>1. \A v : {w \in S : w < v} \in SUBSET S
      OBVIOUS
    <3>2. \A v : IsFiniteSet({w \in S : w < v})
      BY <1>5, <3>1, FS_Subset
    <3>. QED
      BY <3>2, FS_CardinalityType
  <2>2. Cardinality(S) \in Nat /\ Cardinality(S) <= NumPages
    <3>1. IsFiniteSet(0 .. NumPages - 1) /\ Cardinality(0 .. NumPages - 1) = NumPages
      BY Sizes, FS_Interval
    <3>2. Cardinality(S) <= Cardinality(0 .. NumPages - 1)
      BY <1>5, <3>1, Sizes, FS_Subset
    <3>3. Cardinality(S) \in Nat
      BY <1>5, FS_CardinalityType
    <3>. QED
      BY <3>1, <3>2, <3>3
  <2> HIDE DEF S, R
  <2>. QED
    BY <1>6, <2>1, <2>2, Sizes
<1>8. /\ DOMAIN entry = S
      /\ \A v \in S : /\ entry[v] \in Entry /\ entry[v].page = <<f, R(v)>>
                      /\ entry[v].rw = pd_get_mapping(m, p, v).rw
                      /\ entry[v].start = pd_get_mapping(m, p, v).start
                      /\ entry[v].end = pd_get_mapping(m, p, v).end
  BY <1>3 DEF CopyEntries
<1>9. Mapped(c, q) = S /\ \A v \in S : pd_get_mapping(c, q, v) = entry[v]
  <2>1. \A v \in S : entry[v] \in Entry
    BY <1>8
  <2>2. DOMAIN entry = S /\ S \in SUBSET Page
    BY <1>5, <1>8
  <2> HIDE DEF S
  <2>. QED
    BY <1>4, <2>1, <2>2, PlacedMaps
<1>10. ASSUME NEW v \in S PROVE Nth(m, p, R(v)) = v
  <2>1. Nth(m, p, R(v)) = CHOOSE u \in S : R(u) = R(v)
    BY DEF Nth
  <2> HIDE DEF R, S
  <2>. QED
    BY <1>6, <2>1
<1>11. ASSUME NEW v \in S
       PROVE  /\ PageOf(c, q, v)[1] = f /\ PageOf(c, q, v)[2] = R(v)
              /\ pd_get_mapping(c, q, v).rw = pd_get_mapping(m, p, v).rw
              /\ c.data[f][R(v)] = Held(m, p, v)
  <2>1. pd_get_mapping(c, q, v) = entry[v] /\ entry[v].page = <<f, R(v)>>
    BY <1>8, <1>9
  <2>2. p_copy(m, p, R(v)) = Held(m, p, v)
    BY <1>10 DEF p_copy, Held, PageOf
  <2>3. R(v) \in Page /\ R(v) < Cardinality(Mapped(m, p))
    BY <1>6, <1>7
  <2> HIDE DEF R
  <2>4. c.data[f][R(v)] = p_copy(m, p, R(v))
    BY <1>3, <2>3 DEF Copies
  <2>. QED
    BY <1>8, <2>1, <2>2, <2>4 DEF PageOf
<1>12. Space(c, q) = Space(m, p)
  <2>1. ASSUME NEW v \in S
        PROVE  /\ Held(c, q, v) = Held(m, p, v)
               /\ pd_get_mapping(c, q, v).rw = pd_get_mapping(m, p, v).rw
    BY <1>11 DEF Held
  <2>. QED
    BY <1>9, <2>1, SpaceAlike
<1>13. Spaces!Fork(Space(m, q), Space(c, q), {Space(m, r) : r \in Proc \ {q}})
  <2>1. DOMAIN Space(m, q) = {}
    BY SpaceIs
  <2>2. Space(c, q) \in {Space(m, r) : r \in Proc \ {q}}
    BY <1>12
  <2>. QED
    BY <2>1, <2>2 DEF Spaces!Fork
<1>14. SpacesKept(c, m, q)
  BY <1>2, <1>4, PlacedKept
<1>15. SameFlags(m, p, c, q)
  BY <1>8, <1>9 DEF SameFlags
<1>16. \A v \in Mapped(c, q) : PageOf(c, q, v)[2] \in Page
  BY <1>7, <1>9, <1>11
<1>17. Standing(c, q)
  BY <1>15, <1>16, StandingCopy
<1>. QED
  BY <1>13, <1>14, <1>17 DEF Stepped

(* A program that is loaded. *)
LEMMA LoadedSpace ==
  ASSUME Linked, Separate, NEW m, Good(m), FrameLists(m), \A q \in Proc : FramePages(m, q), NEW c,
         NEW p \in Proc, Mapped(m, p) = {}, Loaded(c, m, p)
  PROVE  Spaces!Loaded(Space(c, p)) /\ SpacesKept(c, m, p) /\ Standing(c, p)
<1> DEFINE vs == Bounded(Sections)
           n == Cardinality(vs)
           f == NextFrame(m)
<1>1. PICK k, e, s :
        /\ FreeFrames(m) # {}
        /\ ImageEntries(e, f, vs) /\ \A v \in vs : e[v].rw <=> SectionRw(Sections, v)
        /\ Placed(k, m, p, f, n, e)
        /\ FreeFrames(k) # {}
        /\ ImageEntries(s, NextFrame(k), {StackLow}) /\ s[StackLow].rw
        /\ Placed(c, k, p, NextFrame(k), 1, s)
  BY DEF Loaded
<1> DEFINE g == NextFrame(k)
<1>2. f \in Frame /\ m.alloc[f] = 0 /\ g \in Frame /\ k.alloc[g] = 0
  BY <1>1, NextFrameIs
<1>3. /\ vs \in SUBSET Page /\ 0 \in vs /\ StackLow \notin vs
      /\ n \in Int /\ n > 0 /\ Lowest(vs) \in vs
      /\ \A v \in vs : v - Lowest(vs) < n
  BY LinkedPages
<1>4. Placed(k, m, p, f, n, e) /\ Placed(c, k, p, g, 1, s)
  BY <1>1
<1>5. /\ DOMAIN e = vs
      /\ \A v \in vs : e[v] \in Entry /\ e[v].page = <<f, v - Lowest(vs)>>
                       /\ (e[v].rw <=> SectionRw(Sections, v))
  BY <1>1 DEF ImageEntries
<1>6. /\ DOMAIN s = {StackLow} /\ s[StackLow] \in Entry /\ s[StackLow].rw
      /\ s[StackLow].page = <<g, StackLow - Lowest({StackLow})>>
  BY <1>1 DEF ImageEntries
<1>7. /\ FrameLists(k) /\ FramePages(k, p) /\ Good(k)
      /\ \A q \in Proc : q # p => k.list[q] = m.list[q] /\ k.num[q] = m.num[q]
  <2>1. n = Cardinality(vs) /\ vs \cap Mapped(m, p) = {} /\ FramePages(m, p)
    OBVIOUS
  <2>2. FreeFrames(m) # {} /\ ImageEntries(e, NextFrame(m), vs) /\ Placed(k, m, p, NextFrame(m), n, e)
    BY <1>1
  <2>3. Good(k)
    BY <1>4 DEF Placed
  <2> HIDE DEF vs, n, f
  <2>. QED
    BY <1>3, <2>1, <2>2, <2>3, ImageFrame
<1> HIDE DEF vs, n, f, g
<1>8. /\ Mapped(k, p) = vs /\ \A v \in vs : pd_get_mapping(k, p, v) = e[v]
  <2>1. \A v \in vs : e[v] \in Entry
    BY <1>5
  <2>. QED
    BY <1>3, <1>4, <1>5, <2>1, PlacedMaps
<1>9. /\ Mapped(c, p) = vs \cup {StackLow}
      /\ pd_get_mapping(c, p, StackLow) = s[StackLow]
      /\ \A v \in vs : pd_get_mapping(c, p, v) = e[v]
  <2>1. {StackLow} \in SUBSET Page /\ \A v \in {StackLow} : s[v] \in Entry
    BY <1>6, Sizes
  <2>2. /\ Mapped(c, p) = Mapped(k, p) \cup {StackLow}
        /\ \A v \in {StackLow} : pd_get_mapping(c, p, v) = s[v]
        /\ \A v \in Page : v \notin {StackLow} => pd_get_mapping(c, p, v) = pd_get_mapping(k, p, v)
    <3>1. PICK ws : ws = {StackLow}
      OBVIOUS
    <3>2. DOMAIN s = ws /\ ws \in SUBSET Page /\ \A v \in ws : s[v] \in Entry
      BY <1>6, <2>1, <3>1
    <3>3. /\ Mapped(c, p) = Mapped(k, p) \cup ws
          /\ \A v \in ws : pd_get_mapping(c, p, v) = s[v]
          /\ \A v \in Page : v \notin ws => pd_get_mapping(c, p, v) = pd_get_mapping(k, p, v)
      BY <1>4, <1>7, <3>2, PlacedMaps
    <3>. QED
      BY <3>1, <3>3
  <2>. QED
    BY <1>3, <1>8, <2>2
<1>10. Mapped(c, p) = Image
  BY <1>9 DEF Image, vs
<1>11. \A q \in Proc : FramePages(k, q)
  <2>1. ASSUME NEW q \in Proc, q # p PROVE FramePages(k, q)
    <3>1. \A v \in Page : pd_get_mapping(k, q, v) = pd_get_mapping(m, q, v)
      BY <1>4, <2>1 DEF Placed
    <3>2. k.list[q] = m.list[q] /\ k.num[q] = m.num[q] /\ FramePages(m, q)
      BY <1>7, <2>1
    <3>. QED
      BY <3>1, <3>2, PagesSame
  <2>. QED
    BY <1>7, <2>1
<1>12. SpacesKept(k, m, p)
  BY <1>2, <1>4, PlacedKept
<1>13. SpacesKept(c, k, p)
  BY <1>2, <1>4, <1>7, <1>11, PlacedKept
<1>14. SpacesKept(c, m, p)
  BY <1>12, <1>13 DEF SpacesKept
<1>15. WritableData \subseteq Image
  BY WritableMapped DEF Image
<1>16. ASSUME NEW v \in WritableData PROVE pd_get_mapping(c, p, v).rw
  <2>1. CASE v = StackLow
    BY <1>6, <1>9, <2>1
  <2>2. CASE v # StackLow
    BY <1>5, <1>9, <2>2, WritableMapped DEF vs
  <2>. QED
    BY <2>1, <2>2
<1>17. Spaces!Loaded(Space(c, p))
  <2>1. DOMAIN Space(c, p) = Image
    BY <1>10, SpaceIs
  <2>2. ASSUME NEW v \in WritableData PROVE Space(c, p)[v].rw
    <3>1. v \in Mapped(c, p)
      BY <1>10, <1>15
    <3>2. Space(c, p)[v] = [val |-> Held(c, p, v), rw |-> pd_get_mapping(c, p, v).rw]
      BY <3>1, SpaceIs
    <3>3. Space(c, p)[v].rw = pd_get_mapping(c, p, v).rw
      BY <3>2
    <3>. QED
      BY <1>16, <3>3
  <2>. QED
    BY <1>15, <2>1, <2>2 DEF Spaces!Loaded
<1>18. ASSUME NEW v \in Mapped(c, p) PROVE PageOf(c, p, v)[2] \in Page
  <2>1. CASE v = StackLow
    <3>1. {StackLow} \in SUBSET Nat /\ StackLow \in Nat
      BY Sizes
    <3>2. Lowest({StackLow}) = StackLow
      BY <3>1, LowestIs
    <3>3. PageOf(c, p, v)[2] = StackLow - StackLow
      BY <1>6, <1>9, <2>1, <3>2 DEF PageOf
    <3>. QED
      BY <3>1, <3>3, Sizes
  <2>2. CASE v \in vs
    <3>1. vs \in SUBSET Nat
      BY <1>3, Sizes
    <3>2. Lowest(vs) <= v /\ Lowest(vs) \in Nat /\ v \in Page
      BY <1>3, <2>2, <3>1, LowestIs
    <3>3. PageOf(c, p, v)[2] = v - Lowest(vs)
      BY <1>5, <1>9, <2>2 DEF PageOf
    <3>4. v - Lowest(vs) \in Page
      BY <3>2, Sizes
    <3>. QED
      BY <3>3, <3>4
  <2>. QED
    BY <1>9, <2>1, <2>2
<1>19. ASSUME NEW v \in Page, NEW w \in Page, v <= w, Stretch(c, p, v, w) PROVE FALSE
  <2>1. v \in v .. w
    BY <1>19, Sizes
  <2>2. Begins(c, p, v)
    BY <1>19, <2>1 DEF Stretch, Begins
  <2>3. \A u \in Page : pd_get_mapping(m, p, u) = NULL
    BY DEF Mapped
  <2>. QED
    BY <2>2, <2>3, LoadedMaps
<1>20. Standing(c, p)
  BY <1>10, <1>18, <1>19 DEF Standing
<1>. QED
  BY <1>14, <1>17, <1>20

-----------------------------------------------------------------------------
(* The refinement. *)

SpaceInv == \A p \in procs : Standing(mm, p)

(* A step that no process sees, or one that the abstract specification     *)
(* has.                                                                    *)
Seen(c, m) == \/ \A p \in Proc : Space(c, p) = Space(m, p)
              \/ \E p \in Proc : Stepped(c, m, p)

(* Of the processes ps there are qs, or p as well; no page of another is   *)
(* mapped or unmapped.                                                     *)
Others(c, m, p, ps, qs) ==
  /\ ps \subseteq Proc /\ \A q \in ps : Standing(m, q)
  /\ qs \ {p} \subseteq ps /\ (p \in qs => Standing(c, p))
  /\ \A q \in Proc, v \in Page : q # p => pd_get_mapping(c, q, v) = pd_get_mapping(m, q, v)

(* The others keep what they stand on. *)
LEMMA StandingOthers ==
  ASSUME NEW m, NEW c, NEW p, NEW ps, NEW qs, Others(c, m, p, ps, qs)
  PROVE  \A q \in qs : Standing(c, q)
<1>1. SUFFICES ASSUME NEW q \in qs, q # p PROVE Standing(c, q)
  BY DEF Others
<1>2. q \in ps /\ q \in Proc
  BY <1>1 DEF Others
<1>3. Standing(m, q) /\ \A v \in Page : pd_get_mapping(c, q, v) = pd_get_mapping(m, q, v)
  BY <1>1, <1>2 DEF Others
<1>. QED
  BY <1>3, StandingSame

(* The first program. *)
LEMMA SpaceInit ==
  ASSUME Linked, Separate, Init
  PROVE  /\ \A p \in procs : Standing(mm, p)
         /\ Init0 \in Proc /\ Spaces!Loaded(Space(mm, Init0))
         /\ \A q \in Proc \ {Init0} : DOMAIN Space(mm, q) = {}
<1> DEFINE b == Blank
<1>1. Loaded(mm, b, Init0) /\ procs = {Init0} /\ Init0 \in Proc
  BY InitIs, Kinds
<1>2. /\ Good(b)
      /\ \A p \in Proc, v \in Page : pd_get_mapping(b, p, v) = NULL
      /\ \A p \in Proc : b.list[p] = <<>> /\ b.num[p] = 0
      /\ \A f \in Frame : b.alloc[f] = 0
  BY BlankIs
<1> HIDE DEF b
<1>3. \A p \in Proc : Mapped(b, p) = {} /\ Elems(b.list[p]) = {} /\ NoneTwice(b.list[p])
  BY <1>2 DEF Mapped, Elems, NoneTwice
<1>4. FrameLists(b)
  BY <1>2, <1>3 DEF FrameLists
<1>5. \A p \in Proc : FramePages(b, p)
  BY <1>2, <1>3, FS_EmptySet DEF FramePages
<1>6. Mapped(b, Init0) = {}
  BY <1>1, <1>3
<1>7. Spaces!Loaded(Space(mm, Init0)) /\ SpacesKept(mm, b, Init0) /\ Standing(mm, Init0)
  BY <1>1, <1>2, <1>4, <1>5, <1>6, LoadedSpace
<1>8. ASSUME NEW q \in Proc \ {Init0} PROVE DOMAIN Space(mm, q) = {}
  <2>1. Space(mm, q) = Space(b, q)
    BY <1>7 DEF SpacesKept
  <2>. QED
    BY <1>3, <2>1, SpaceIs
<1>. QED
  BY <1>1, <1>7, <1>8

(* Every step is one of the abstract specification. *)
LEMMA SpaceStep ==
  ASSUME Linked, Separate, TableInv, FrameInv, SpaceInv, [Next]_vars
  PROVE  Seen(mm', mm) /\ \A p \in procs' : Standing(mm', p)
<1> DEFINE m == mm
           c == mm'
           ps == procs
           qs == procs'
<1>1. /\ Good(m) /\ ps \in SUBSET Proc
      /\ \A p \in Proc : RegionsOf(m, p)
      /\ \A p \in Proc \ ps : \A d \in Dir : m.dir[p][d] = NULL
  BY DEF TableInv
<1>2. FrameLists(m) /\ \A p \in Proc : FramesOf(m, ps, p)
  BY DEF FrameInv
<1>3. StepKind
  BY Steps
<1>4. \A p \in ps : Standing(m, p)
  BY DEF SpaceInv
<1>5. \A p \in Proc : FramePages(m, p) /\ WholeFrames(m, p)
  BY <1>2 DEF FramesOf
<1>6. \A p \in ps : 0 \in Mapped(m, p)
  BY <1>1, <1>2 DEF FramesOf
<1> DEFINE Goal == Seen(c, m) /\ \A p \in qs : Standing(c, p)
<1>7. SUFFICES Goal
  OBVIOUS
<1>8. CASE Same(c, m) /\ qs = ps /\ (c = m \/ \E p \in ps : Wrote(c, m, p))
  <2>1. \A p \in Proc, v \in Page : pd_get_mapping(c, p, v) = pd_get_mapping(m, p, v)
    BY <1>1, <1>8, SameTables DEF Same
  <2> HIDE DEF m, c, ps, qs
  <2>2. \A p \in qs : Standing(c, p)
    <3>1. ASSUME NEW p \in ps PROVE Standing(c, p)
      BY <1>1, <1>4, <2>1, StandingSame
    <3>. QED
      BY <1>8, <3>1
  <2>3. CASE c = m
    BY <2>2, <2>3 DEF Seen
  <2>4. CASE \E p \in ps : Wrote(c, m, p)
    <3>1. PICK p \in ps : Wrote(c, m, p)
      BY <2>4
    <3>2. Stepped(c, m, p) /\ p \in Proc
      BY <1>1, <1>2, <1>4, <1>5, <1>8, <3>1, WroteSpace
    <3>. QED
      BY <2>2, <3>2 DEF Seen
  <2>. QED
    BY <1>8, <2>3, <2>4
<1>9. ASSUME NEW p \in ps, Whole(m, p),
             \/ Grown(c, m, p) /\ qs = ps
             \/ Aborted(c, m, p) /\ qs = ps
             \/ Shrunk(c, m, p) /\ qs = ps
             \/ Reloaded(c, m, p) /\ qs = ps
             \/ \E q \in Proc \ ps : Forked(c, m, p, q) /\ qs = ps \cup {q}
             \/ Cleared(c, m, p) /\ qs = ps \ {p}
      PROVE  Goal
  <2> HIDE DEF m, c, ps, qs
  <2>1. /\ p \in Proc /\ RegionsOf(m, p) /\ Standing(m, p) /\ Mapped(m, p) # {}
        /\ FramePages(m, p) /\ WholeFrames(m, p)
    BY <1>1, <1>4, <1>5, <1>6
  <2>2. \A q \in Proc : FramePages(m, q)
    BY <1>5
  <2>3. CASE Grown(c, m, p) /\ qs = ps
    <3>1. Stepped(c, m, p) /\ Standing(c, p)
      BY <1>1, <1>2, <2>1, <2>2, <2>3, GrownSpace
    <3>2. \A q \in Proc, v \in Page : q # p => pd_get_mapping(c, q, v) = pd_get_mapping(m, q, v)
      BY <2>3 DEF Grown, Placed
    <3>3. \A q \in qs : Standing(c, q)
      <4>1. Others(c, m, p, ps, qs)
        BY <1>1, <1>4, <2>3, <3>1, <3>2 DEF Others
      <4>. QED
        BY <4>1, StandingOthers
    <3>. QED
      BY <2>1, <3>1, <3>3 DEF Seen
  <2>4. CASE Aborted(c, m, p) /\ qs = ps
    <3>1. /\ c.data = m.data
          /\ \A q \in Proc, v \in Page : pd_get_mapping(c, q, v) = pd_get_mapping(m, q, v)
      BY <2>4 DEF Aborted
    <3>2. ASSUME NEW q \in Proc PROVE Space(c, q) = Space(m, q)
      <4>1. PICK F : F = {}
        OBVIOUS
      <4>2. Kept(c, m, F) /\ \A x \in Elems(m.list[q]) : x.f \notin F
        BY <3>1, <4>1 DEF Kept
      <4>3. \A v \in Page : pd_get_mapping(c, q, v) = pd_get_mapping(m, q, v)
        BY <3>1
      <4>. QED
        BY <1>1, <2>2, <4>2, <4>3, SpaceSame
    <3>3. ASSUME NEW q \in ps PROVE Standing(c, q)
      BY <1>1, <1>4, <3>1, StandingSame
    <3>. QED
      BY <2>4, <3>2, <3>3 DEF Seen
  <2>5. CASE Shrunk(c, m, p) /\ qs = ps
    <3>1. Stepped(c, m, p) /\ Standing(c, p)
      BY <1>1, <1>2, <2>1, <2>2, <2>5, ShrunkSpace
    <3>2. \A q \in Proc, v \in Page : q # p => pd_get_mapping(c, q, v) = pd_get_mapping(m, q, v)
      BY <2>5 DEF Shrunk, Removed
    <3>3. \A q \in qs : Standing(c, q)
      <4>1. Others(c, m, p, ps, qs)
        BY <1>1, <1>4, <2>5, <3>1, <3>2 DEF Others
      <4>. QED
        BY <4>1, StandingOthers
    <3>. QED
      BY <2>1, <3>1, <3>3 DEF Seen
  <2>6. CASE Reloaded(c, m, p) /\ qs = ps
    <3>1. PICK k : Cleared(k, m, p) /\ Loaded(c, k, p)
      BY <2>6 DEF Reloaded
    <3>2. /\ FrameLists(k) /\ Good(k) /\ Mapped(k, p) = {}
          /\ \A q \in Proc : FramesOf(k, ps \ {p}, q)
      BY <1>1, <1>2, <2>1, <3>1, ClearedOf
    <3>3. \A q \in Proc : FramePages(k, q)
      BY <3>2 DEF FramesOf
    <3>4. SpacesKept(k, m, p)
      BY <1>1, <1>2, <2>1, <2>2, <3>1, ClearedKept
    <3>5. Spaces!Loaded(Space(c, p)) /\ SpacesKept(c, k, p) /\ Standing(c, p)
      BY <2>1, <3>1, <3>2, <3>3, LoadedSpace
    <3>6. Stepped(c, m, p)
      BY <3>4, <3>5 DEF Stepped, SpacesKept
    <3>7. \A q \in Proc, v \in Page : q # p => pd_get_mapping(c, q, v) = pd_get_mapping(m, q, v)
      <4>1. \A v \in Page : pd_get_mapping(k, p, v) = NULL
        BY <3>1 DEF Cleared
      <4>2. \A q \in Proc, v \in Page : q # p => pd_get_mapping(c, q, v) = pd_get_mapping(k, q, v)
        BY <2>1, <3>1, <3>2, <4>1, LoadedMaps
      <4>3. \A q \in Proc, v \in Page : q # p => pd_get_mapping(k, q, v) = pd_get_mapping(m, q, v)
        BY <3>1 DEF Cleared
      <4>. QED
        BY <4>2, <4>3
    <3>8. \A q \in qs : Standing(c, q)
      <4>1. Others(c, m, p, ps, qs)
        BY <1>1, <1>4, <2>6, <3>5, <3>7 DEF Others
      <4>. QED
        BY <4>1, StandingOthers
    <3>. QED
      BY <2>1, <3>6, <3>8 DEF Seen
  <2>7. ASSUME NEW q \in Proc \ ps, Forked(c, m, p, q), qs = ps \cup {q} PROVE Goal
    <3>1. Mapped(m, q) = {} /\ q # p /\ q \in Proc
      BY <1>1, Kinds, PageSplit DEF Mapped, pd_get_mapping
    <3>2. Stepped(c, m, q) /\ Standing(c, q)
      BY <1>1, <1>2, <2>1, <2>2, <2>7, <3>1, ForkedSpace
    <3>3. \A r \in Proc, v \in Page : r # q => pd_get_mapping(c, r, v) = pd_get_mapping(m, r, v)
      BY <2>7 DEF Forked, Placed
    <3>4. Others(c, m, q, ps, qs)
      BY <1>1, <1>4, <2>7, <3>2, <3>3 DEF Others
    <3>5. \A r \in qs : Standing(c, r)
      BY <3>4, StandingOthers
    <3>. QED
      BY <3>1, <3>2, <3>5 DEF Seen
  <2>8. CASE Cleared(c, m, p) /\ qs = ps \ {p}
    <3>1. SpacesKept(c, m, p) /\ DOMAIN Space(c, p) = {}
      BY <1>1, <1>2, <2>1, <2>2, <2>8, ClearedKept
    <3>2. Stepped(c, m, p)
      BY <3>1 DEF Stepped, Spaces!Exit
    <3>3. \A q \in Proc, v \in Page : q # p => pd_get_mapping(c, q, v) = pd_get_mapping(m, q, v)
      BY <2>8 DEF Cleared
    <3>4. Others(c, m, p, ps, qs)
      BY <1>1, <1>4, <2>8, <3>3 DEF Others
    <3>5. \A q \in qs : Standing(c, q)
      BY <3>4, StandingOthers
    <3>. QED
      BY <2>1, <3>2, <3>5 DEF Seen
  <2>. QED
    BY <1>9, <2>3, <2>4, <2>5, <2>6, <2>7, <2>8
<1>. QED
  BY <1>3, <1>8, <1>9 DEF StepKind

(* What Stepped says, of the memories of all. *)
LEMMA SteppedNext ==
  ASSUME NEW m, NEW c, NEW p \in Proc, Stepped(c, m, p), NEW S, S = [q \in Proc |-> Space(m, q)],
         NEW S2, S2 = [q \in Proc |-> Space(c, q)]
  PROVE  /\ \/ Spaces!Loaded(S2[p]) \/ Spaces!New(S[p], S2[p]) \/ Spaces!Remove(S[p], S2[p])
            \/ Spaces!Store(S[p], S2[p]) \/ Spaces!Exit(S2[p])
            \/ Spaces!Fork(S[p], S2[p], {S[q] : q \in Proc \ {p}})
         /\ \A q \in Proc \ {p} : S2[q] = S[q]
<1>1. \A q \in Proc : S[q] = Space(m, q) /\ S2[q] = Space(c, q)
  OBVIOUS
<1>2. {S[q] : q \in Proc \ {p}} = {Space(m, q) : q \in Proc \ {p}}
  BY <1>1
<1>3. \A q \in Proc \ {p} : S2[q] = S[q]
  BY <1>1 DEF Stepped, SpacesKept
<1>4. S[p] = Space(m, p) /\ S2[p] = Space(c, p)
  BY <1>1
<1>. QED
  BY <1>2, <1>3, <1>4 DEF Stepped

(* The memories. *)
All == [p \in Proc |-> [v \in Mapped(mm, p) |->
         LET e == pd_get_mapping(mm, p, v)
         IN  [val |-> mm.data[e.page[1]][e.page[2]], rw |-> e.rw]]]

(* They are the spaces of the processes, before and after a step. *)
LEMMA AllIs ==
  All = [p \in Proc |-> Space(mm, p)] /\ All' = [p \in Proc |-> Space(mm', p)]
<1>1. All = [p \in Proc |-> Space(mm, p)]
  BY DEF All, Space
<1>2. All' = [p \in Proc |-> Space(mm', p)]
  BY DEF All, Space, Mapped, pd_get_mapping
<1>. QED
  BY <1>1, <1>2

(* Two directories, shared frames and copied tables or not, each process   *)
(* has a memory of its own: fork gives the child a copy of its parent's,   *)
(* new_pages gives clear pages, remove_pages takes only those, a write is  *)
(* seen by its process alone, and what exec loads can be written where a   *)
(* section says so.  The last needs Separate, the kernel looking only at   *)
(* the ends of a page for the section it is of.                            *)
THEOREM SpacesImplemented == ASSUME Linked, Separate PROVE Spec => ImplementsSpaces
<1> DEFINE I == TableInv /\ FrameInv /\ SpaceInv
<1>1. Init => I /\ Spaces!Init
  <2>1. SUFFICES ASSUME Init PROVE I /\ Spaces!Init
    OBVIOUS
  <2>2. /\ \A p \in procs : Standing(mm, p)
        /\ Init0 \in Proc /\ Spaces!Loaded(Space(mm, Init0))
        /\ \A q \in Proc \ {Init0} : DOMAIN Space(mm, q) = {}
    BY <2>1, SpaceInit
  <2>3. \A p \in Proc : All[p] = Space(mm, p)
    BY AllIs
  <2>4. \E p \in Proc : /\ Spaces!Loaded(All[p])
                        /\ \A q \in Proc \ {p} : DOMAIN All[q] = {}
    BY <2>2, <2>3
  <2>5. Spaces!Init
    BY <2>4 DEF Spaces!Init, All
  <2>. QED
    BY <2>1, <2>2, <2>5, TableInit, FrameInit DEF SpaceInv
<1>2. I /\ [Next]_vars => I' /\ [Spaces!Next]_All
  <2>1. SUFFICES ASSUME TableInv, FrameInv, SpaceInv, [Next]_vars
                 PROVE  TableInv' /\ FrameInv' /\ SpaceInv' /\ [Spaces!Next]_All
    OBVIOUS
  <2>2. Seen(mm', mm) /\ \A p \in procs' : Standing(mm', p)
    BY <2>1, SpaceStep
  <2>3. SpaceInv'
    BY <2>2 DEF SpaceInv, Standing, Stretch, Mapped, pd_get_mapping, PageOf
  <2>4. TableInv' /\ FrameInv'
    BY <2>1, TableStep, FrameStep
  <2>5. CASE \A p \in Proc : Space(mm', p) = Space(mm, p)
    <3>1. All' = All
      BY <2>5, AllIs
    <3>. QED
      BY <2>3, <2>4, <3>1
  <2>6. CASE \E p \in Proc : Stepped(mm', mm, p)
    <3>1. PICK p \in Proc : Stepped(mm', mm, p)
      BY <2>6
    <3>2. PICK S, S2 : S = All /\ S2 = All'
      OBVIOUS
    <3>3. S = [q \in Proc |-> Space(mm, q)] /\ S2 = [q \in Proc |-> Space(mm', q)]
      BY <3>2, AllIs
    <3>4. /\ \/ Spaces!Loaded(S2[p]) \/ Spaces!New(S[p], S2[p]) \/ Spaces!Remove(S[p], S2[p])
             \/ Spaces!Store(S[p], S2[p]) \/ Spaces!Exit(S2[p])
             \/ Spaces!Fork(S[p], S2[p], {S[q] : q \in Proc \ {p}})
          /\ \A q \in Proc \ {p} : S2[q] = S[q]
      BY <3>1, <3>3, SteppedNext
    <3>5. S \in {All} /\ S2 \in {All'}
      BY <3>2
    <3>6. Spaces!Next
      BY <3>4, <3>5 DEF Spaces!Next, All
    <3>. QED
      BY <2>3, <2>4, <3>6
  <2>. QED
    BY <2>2, <2>5, <2>6 DEF Seen
<1>3. I /\ [Next]_vars
        => I' /\ [Spaces!Next]_[p \in Proc |-> [v \in Mapped(mm, p) |->
                   LET e == pd_get_mapping(mm, p, v)
                   IN  [val |-> mm.data[e.page[1]][e.page[2]], rw |-> e.rw]]]
  BY <1>2 DEF All
<1> HIDE DEF I
<1>. QED
  BY <1>1, <1>3, PTL DEF Spec, ImplementsSpaces, Spaces!Spec
=============================================================================
