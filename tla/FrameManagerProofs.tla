-------------------------- MODULE FrameManagerProofs --------------------------
(***************************************************************************)
(* The buddy allocator, for any number of bins and pages: its tables agree *)
(* with the frames, buddies are paired, memory is not fragmented more than *)
(* it must be, and it gives out disjoint runs of pages.                    *)
(***************************************************************************)
EXTENDS FrameManager, SequenceTheorems, WellFoundedInduction, TLAPS

(* A nonempty set of naturals has a least element. *)
LEMMA Least ==
  ASSUME NEW S \in SUBSET Nat, S # {}
  PROVE  \E a \in S : \A x \in S : a <= x
<1>1. PICK a \in S : \A x \in S : ~(<<x, a>> \in OpToRel(<, Nat))
  BY NatLessThanWellFounded, WFMin
<1>2. ASSUME NEW x \in S PROVE a <= x
  <2>1. <<x, a>> \in Nat \X Nat
    OBVIOUS
  <2>2. ~(<<x, a>>[1] < <<x, a>>[2])
    BY <1>1, <2>1 DEF OpToRel
  <2>3. x \in Nat /\ a \in Nat
    OBVIOUS
  <2>. QED
    BY <2>2, <2>3
<1>. QED
  BY <1>2

(* What holds at 0 and goes from one to the next holds up to n. *)
LEMMA UpTo ==
  ASSUME NEW n \in Nat, NEW G \in SUBSET (0 .. n), 0 \in G,
         \A k \in 1 .. n : k - 1 \in G => k \in G
  PROVE  \A k \in 0 .. n : k \in G
<1> DEFINE Bad == (0 .. n) \ G
<1>1. SUFFICES ASSUME Bad # {} PROVE FALSE
  OBVIOUS
<1>2. PICK a \in Bad : \A x \in Bad : a <= x
  <2>1. Bad \in SUBSET Nat
    OBVIOUS
  <2> HIDE DEF Bad
  <2>. QED
    BY <1>1, <2>1, Least
<1>3. a \in 1 .. n /\ a - 1 \in 0 .. n /\ ~(a <= a - 1)
  BY <1>2
<1>4. a - 1 \in G
  BY <1>2, <1>3
<1>. QED
  BY <1>2, <1>3, <1>4

-----------------------------------------------------------------------------
(* Powers of two. *)

(* The recursion that defines the powers has a solution, so that Doubled   *)
(* satisfies it.                                                           *)
LEMMA DoubledIs ==
  Doubled = [i \in 0 .. NumBins |-> IF i = 0 THEN 1 ELSE 2 * Doubled[i - 1]]
<1> DEFINE Rec(d) == d = [i \in 0 .. NumBins |-> IF i = 0 THEN 1 ELSE 2 * d[i - 1]]
           Part(d, n) == d = [i \in 0 .. n |-> IF i = 0 THEN 1 ELSE 2 * d[i - 1]]
           G == {n \in 0 .. NumBins : \E d : Part(d, n)}
<1>1. NumBins \in Nat
  BY FrameAssumption
<1>2. 0 \in G
  <2> DEFINE d == [i \in 0 .. 0 |-> 1]
  <2>1. Part(d, 0)
    OBVIOUS
  <2> HIDE DEF d, Part
  <2>. QED
    BY <1>1, <2>1
<1>3. ASSUME NEW n \in 1 .. NumBins, n - 1 \in G PROVE n \in G
  <2>1. PICK d : Part(d, n - 1)
    BY <1>3
  <2> DEFINE e == [i \in 0 .. n |-> IF i = n THEN 2 * d[n - 1] ELSE d[i]]
  <2>2. \A i \in 0 .. n - 1 : d[i] = IF i = 0 THEN 1 ELSE 2 * d[i - 1]
    BY <2>1
  <2>3. \A i \in 0 .. n : e[i] = IF i = 0 THEN 1 ELSE 2 * e[i - 1]
    BY <1>1, <2>2
  <2>4. Part(e, n)
    BY <2>3
  <2> HIDE DEF e, Part
  <2>. QED
    BY <1>1, <2>4
<1>4. NumBins \in G
  <2>1. G \in SUBSET (0 .. NumBins)
    OBVIOUS
  <2> HIDE DEF G
  <2>2. \A k \in 0 .. NumBins : k \in G
    BY <1>1, <1>2, <1>3, <2>1, UpTo
  <2>. QED
    BY <1>1, <2>2
<1>5. PICK d : Rec(d)
  BY <1>4
<1>6. Doubled = CHOOSE e : Rec(e)
  BY DEF Doubled
<1> HIDE DEF Rec
<1>7. Rec(Doubled)
  BY <1>5, <1>6
<1> USE DEF Rec
<1>. QED
  BY <1>7

(* TWO_POW starts at one and doubles: the sizes of the bins. *)
LEMMA Powers ==
  /\ TWO_POW(0) = 1
  /\ \A i \in 0 .. NumBins : TWO_POW(i) \in Nat \ {0}
  /\ \A i \in 0 .. NumBins - 1 : TWO_POW(i + 1) = 2 * TWO_POW(i)
<1> DEFINE G == {i \in 0 .. NumBins : Doubled[i] \in Nat \ {0}}
<1>1. NumBins \in Nat
  BY FrameAssumption
<1>2. \A i \in 0 .. NumBins : Doubled[i] = IF i = 0 THEN 1 ELSE 2 * Doubled[i - 1]
  BY DoubledIs
<1>3. 0 \in G
  BY <1>1, <1>2
<1>4. \A k \in 1 .. NumBins : k - 1 \in G => k \in G
  BY <1>1, <1>2
<1>5. G \in SUBSET (0 .. NumBins)
  OBVIOUS
<1>6. \A i \in 0 .. NumBins : i \in G
  <2> HIDE DEF G
  <2>. QED
    BY <1>1, <1>3, <1>4, <1>5, UpTo
<1>7. \A i \in 0 .. NumBins - 1 : i + 1 \in 0 .. NumBins /\ i + 1 # 0 /\ (i + 1) - 1 = i
  BY <1>1
<1>. QED
  BY <1>1, <1>2, <1>6, <1>7 DEF TWO_POW

(* Sums and products of integers, by which the provers go astray. *)
LEMMA Product ==
  ASSUME NEW a \in Int, NEW b \in Int, NEW c \in Int
  PROVE  /\ a * b \in Int /\ a * b = b * a /\ (a * b) * c = a * (b * c)
         /\ (a + b) * c = a * c + b * c /\ (a - b) * c = a * c - b * c
         /\ 1 * a = a /\ 2 * a = a + a
  OBVIOUS

(* The larger is a multiple of the smaller. *)
LEMMA PowerDivides ==
  ASSUME NEW i \in 0 .. NumBins, NEW j \in 0 .. NumBins, i <= j
  PROVE  \E c \in Nat \ {0} : TWO_POW(j) = c * TWO_POW(i)
<1> DEFINE G == {k \in 0 .. NumBins - i : \E c \in Nat \ {0} : TWO_POW(i + k) = c * TWO_POW(i)}
           n == NumBins - i
<1>1. n \in Nat /\ NumBins \in Nat
  BY FrameAssumption
<1>2. 0 \in G
  <2>1. TWO_POW(i + 0) = 1 * TWO_POW(i)
    BY Powers
  <2>. QED
    BY <1>1, <2>1
<1>3. ASSUME NEW k \in 1 .. n, k - 1 \in G PROVE k \in G
  <2>1. PICK c \in Nat \ {0} : TWO_POW(i + (k - 1)) = c * TWO_POW(i)
    BY <1>3
  <2>2. i + (k - 1) \in 0 .. NumBins - 1 /\ i + (k - 1) + 1 = i + k
    BY <1>1
  <2>3. TWO_POW(i + k) = 2 * TWO_POW(i + (k - 1))
    BY <2>2, Powers
  <2>4. TWO_POW(i) \in Nat
    BY Powers
  <2>5. TWO_POW(i + k) = (2 * c) * TWO_POW(i)
    BY <2>1, <2>3, <2>4, Product
  <2>. QED
    BY <1>1, <2>5
<1>4. G \in SUBSET (0 .. n)
  OBVIOUS
<1>5. \A k \in 0 .. n : k \in G
  <2> HIDE DEF G, n
  <2>. QED
    BY <1>1, <1>2, <1>3, <1>4, UpTo
<1>6. j - i \in 0 .. n /\ i + (j - i) = j
  BY <1>1
<1>7. j - i \in G
  BY <1>5, <1>6
<1>. QED
  BY <1>6, <1>7

(* Frames of a larger bin are larger. *)
LEMMA PowerGrows ==
  ASSUME NEW i \in 0 .. NumBins, NEW j \in 0 .. NumBins
  PROVE  /\ i <= j => TWO_POW(i) <= TWO_POW(j)
         /\ i < j => TWO_POW(i) < TWO_POW(j)
<1>1. NumBins \in Nat /\ TWO_POW(i) \in Nat \ {0} /\ TWO_POW(j) \in Nat \ {0}
  BY FrameAssumption, Powers
<1>2. ASSUME NEW x \in 0 .. NumBins, NEW y \in 0 .. NumBins, x <= y PROVE TWO_POW(x) <= TWO_POW(y)
  <2>1. PICK c \in Nat \ {0} : TWO_POW(y) = c * TWO_POW(x)
    BY <1>2, PowerDivides
  <2>2. TWO_POW(x) \in Nat /\ TWO_POW(y) \in Nat
    BY Powers
  <2>3. c * TWO_POW(x) = TWO_POW(x) + (c - 1) * TWO_POW(x) /\ (c - 1) * TWO_POW(x) \in Nat
    BY <2>2
  <2>. QED
    BY <2>1, <2>2, <2>3
<1>3. ASSUME i < j PROVE TWO_POW(i) < TWO_POW(j)
  <2>1. i + 1 \in 0 .. NumBins /\ i \in 0 .. NumBins - 1 /\ i + 1 <= j
    BY <1>1, <1>3
  <2>2. TWO_POW(i + 1) = 2 * TWO_POW(i)
    BY <2>1, Powers
  <2>3. TWO_POW(i + 1) <= TWO_POW(j)
    BY <1>2, <2>1
  <2>. QED
    BY <1>1, <2>2, <2>3
<1>. QED
  BY <1>2, <1>3

-----------------------------------------------------------------------------
(* The lists of the bins. *)

Elems(s) == {s[k] : k \in DOMAIN s}
NoneTwice(s) == \A j, k \in DOMAIN s : s[j] = s[k] => j = k

(* A list without its first element. *)
LEMMA TailElems ==
  ASSUME NEW X, NEW s \in Seq(X), s # <<>>, NoneTwice(s)
  PROVE  /\ Head(s) \in Elems(s) /\ Tail(s) \in Seq(X)
         /\ Elems(Tail(s)) = Elems(s) \ {Head(s)} /\ NoneTwice(Tail(s))
<1> DEFINE n == Len(s)
           t == Tail(s)
<1>1. n \in Nat \ {0} /\ DOMAIN s = 1 .. n /\ Head(s) = s[1]
  OBVIOUS
<1>2. t \in Seq(X) /\ Len(t) = n - 1 /\ \A k \in 1 .. n - 1 : t[k] = s[k + 1]
  OBVIOUS
<1>3. DOMAIN t = 1 .. n - 1
  BY <1>1, <1>2
<1> HIDE DEF n, t
<1>4. \A k \in 1 .. n - 1 : k + 1 \in 1 .. n /\ k + 1 # 1
  BY <1>1
<1>5. ASSUME NEW x \in Elems(t) PROVE x \in Elems(s) \ {Head(s)}
  <2>1. PICK k \in 1 .. n - 1 : x = t[k]
    BY <1>3 DEF Elems
  <2>2. x = s[k + 1] /\ k + 1 \in DOMAIN s /\ 1 \in DOMAIN s /\ k + 1 # 1
    BY <1>1, <1>2, <1>4, <2>1
  <2>. QED
    BY <1>1, <2>2 DEF Elems, NoneTwice
<1>6. ASSUME NEW x \in Elems(s) \ {Head(s)} PROVE x \in Elems(t)
  <2>1. PICK k \in 1 .. n : x = s[k]
    BY <1>1 DEF Elems
  <2>2. k - 1 \in 1 .. n - 1 /\ (k - 1) + 1 = k
    BY <1>1, <2>1
  <2>3. x = t[k - 1]
    BY <1>2, <2>1, <2>2
  <2>. QED
    BY <1>3, <2>2, <2>3 DEF Elems
<1>7. NoneTwice(t)
  <2>1. SUFFICES ASSUME NEW j \in 1 .. n - 1, NEW k \in 1 .. n - 1, t[j] = t[k] PROVE j = k
    BY <1>3 DEF NoneTwice
  <2>2. s[j + 1] = s[k + 1] /\ j + 1 \in DOMAIN s /\ k + 1 \in DOMAIN s
    BY <1>1, <1>2, <1>4, <2>1
  <2>3. j + 1 = k + 1
    BY <2>2 DEF NoneTwice
  <2>. QED
    BY <2>3
<1>8. Head(s) \in Elems(s)
  BY <1>1 DEF Elems
<1>. QED
  BY <1>2, <1>5, <1>6, <1>7, <1>8 DEF t

(* A list with one more element at its end. *)
LEMMA AppendElems ==
  ASSUME NEW X, NEW s \in Seq(X), NEW x \in X
  PROVE  /\ Append(s, x) \in Seq(X) /\ Append(s, x) # <<>>
         /\ Elems(Append(s, x)) = Elems(s) \cup {x}
         /\ NoneTwice(s) /\ x \notin Elems(s) => NoneTwice(Append(s, x))
         /\ s # <<>> => Head(Append(s, x)) = Head(s)
         /\ s = <<>> => Head(Append(s, x)) = x
<1> DEFINE n == Len(s)
           t == Append(s, x)
<1>1. n \in Nat /\ DOMAIN s = 1 .. n
  OBVIOUS
<1>2. t \in Seq(X) /\ Len(t) = n + 1 /\ t[n + 1] = x /\ \A k \in 1 .. n : t[k] = s[k]
  OBVIOUS
<1>3. DOMAIN t = 1 .. n + 1
  BY <1>1, <1>2
<1>4. t # <<>> /\ (s # <<>> => Head(t) = Head(s)) /\ (s = <<>> => Head(t) = x)
  OBVIOUS
<1> HIDE DEF n, t
<1>5. \A k \in 1 .. n + 1 : k \in 1 .. n \/ k = n + 1
  BY <1>1
<1>6. 1 .. n \subseteq 1 .. n + 1 /\ n + 1 \in 1 .. n + 1 /\ n + 1 \notin 1 .. n
  BY <1>1
<1>7. Elems(t) = Elems(s) \cup {x}
  <2>1. ASSUME NEW y \in Elems(t) PROVE y \in Elems(s) \cup {x}
    BY <1>1, <1>2, <1>3, <1>5 DEF Elems
  <2>2. ASSUME NEW y \in Elems(s) PROVE y \in Elems(t)
    BY <1>1, <1>2, <1>3, <1>6 DEF Elems
  <2>3. x \in Elems(t)
    BY <1>2, <1>3, <1>6 DEF Elems
  <2>. QED
    BY <2>1, <2>2, <2>3
<1>8. ASSUME NoneTwice(s), x \notin Elems(s) PROVE NoneTwice(t)
  <2>1. SUFFICES ASSUME NEW j \in 1 .. n + 1, NEW k \in 1 .. n + 1, t[j] = t[k] PROVE j = k
    BY <1>3 DEF NoneTwice
  <2>2. \A i \in 1 .. n : s[i] # x
    BY <1>1, <1>8 DEF Elems
  <2>3. CASE j \in 1 .. n /\ k \in 1 .. n
    BY <1>1, <1>2, <1>8, <2>1, <2>3 DEF NoneTwice
  <2>. QED
    BY <1>2, <1>5, <2>1, <2>2, <2>3
<1>. QED
  BY <1>2, <1>4, <1>7, <1>8 DEF t

(* Two more elements at the end. *)
LEMMA ConcatTwo ==
  ASSUME NEW X, NEW s \in Seq(X), NEW x \in X, NEW y \in X
  PROVE  s \o <<x, y>> = Append(Append(s, x), y)
<1> DEFINE a == s \o <<x, y>>
           b == Append(Append(s, x), y)
           n == Len(s)
<1>1. n \in Nat
  OBVIOUS
<1>2. <<x, y>> \in Seq(X) /\ Len(<<x, y>>) = 2
  OBVIOUS
<1>3. a \in Seq(X) /\ Len(a) = n + 2
  BY <1>2, ConcatProperties
<1>4. b \in Seq(X) /\ Len(b) = n + 2
  OBVIOUS
<1>5. ASSUME NEW k \in 1 .. n + 2 PROVE a[k] = b[k]
  <2>1. CASE k \in 1 .. n
    BY <1>1, <2>1
  <2>2. CASE k = n + 1
    BY <1>1, <2>2
  <2>3. CASE k = n + 2
    BY <1>1, <2>3
  <2>. QED
    BY <1>1, <2>1, <2>2, <2>3
<1> HIDE DEF a, b
<1>6. a = b
  BY <1>3, <1>4, <1>5, SeqEqual
<1>. QED
  BY <1>6 DEF a, b

(* A list without one of its elements. *)
LEMMA UnlinkedElems ==
  ASSUME NEW X, NEW s \in Seq(X), NoneTwice(s), NEW f \in Elems(s)
  PROVE  /\ Unlinked(s, f) \in Seq(X)
         /\ Elems(Unlinked(s, f)) = Elems(s) \ {f} /\ NoneTwice(Unlinked(s, f))
<1> DEFINE n == Len(s)
<1>0. PICK k \in 1 .. n : s[k] = f /\ Unlinked(s, f) = SubSeq(s, 1, k - 1) \o SubSeq(s, k + 1, n)
  <2> DEFINE k == CHOOSE i \in DOMAIN s : s[i] = f
  <2>1. k \in DOMAIN s /\ s[k] = f
    BY DEF Elems
  <2>2. Unlinked(s, f) = SubSeq(s, 1, k - 1) \o SubSeq(s, k + 1, n)
    BY DEF Unlinked
  <2> HIDE DEF k
  <2>3. k \in 1 .. n
    BY <2>1
  <2>. QED
    BY <2>1, <2>2, <2>3
<1> DEFINE a == SubSeq(s, 1, k - 1)
           b == SubSeq(s, k + 1, n)
           t == a \o b
<1>x. Unlinked(s, f) = t
  BY <1>0
<1>1. n \in Nat /\ DOMAIN s = 1 .. n /\ k \in 1 .. n
  BY <1>0
<1>2. a \in Seq(X) /\ Len(a) = k - 1 /\ \A i \in 1 .. k - 1 : a[i] = s[i]
  <2>1. \A i \in 1 .. k - 1 : s[i] \in X
    BY <1>1
  <2>. QED
    BY <1>1, <2>1, SubSeqProperties
<1>3. b \in Seq(X) /\ Len(b) = n - k /\ \A i \in 1 .. n - k : b[i] = s[k + i]
  <2> DEFINE j == k + 1
  <2>1. \A i \in j .. n : s[i] \in X
    BY <1>1
  <2>2. j \in 1 .. n + 1 /\ n \in (j - 1) .. n /\ j \in Int /\ n \in Int
    BY <1>1
  <2>3. /\ SubSeq(s, j, n) \in Seq(X)
        /\ Len(SubSeq(s, j, n)) = IF j <= n THEN n-j+1 ELSE 0
        /\ \A i \in 1 .. n-j+1 : SubSeq(s, j, n)[i] = s[j+i-1]
    <3> HIDE DEF n, j
    <3>1. j \in Int /\ n \in Int /\ \A i \in j .. n : s[i] \in X
      BY <2>1, <2>2
    <3>. QED
      BY ONLY <3>1, SubSeqProperties
  <2>4. /\ j <= n => n-j+1 = n - k
        /\ ~(j <= n) => n - k = 0
        /\ 1 .. n-j+1 = 1 .. n - k
        /\ \A i \in 1 .. n - k : j+i-1 = k + i
    <3>1. n-j+1 = n - k
      BY <1>1
    <3>2. ~(j <= n) => n - k = 0
      <4>1. n \in Nat /\ k \in 1 .. n
        BY <1>1
      <4> HIDE DEF n
      <4>. QED
        BY ONLY <4>1
    <3>3. \A i \in 1 .. n - k : j+i-1 = k + i
      BY <1>1
    <3>. QED
      BY <3>1, <3>2, <3>3
  <2> HIDE DEF j, n
  <2>5. /\ SubSeq(s, j, n) \in Seq(X) /\ Len(SubSeq(s, j, n)) = n - k
        /\ \A i \in 1 .. n - k : SubSeq(s, j, n)[i] = s[k + i]
    BY <2>3, <2>4
  <2>. QED
    BY <2>5 DEF j
<1> HIDE DEF a, b
<1>4. /\ t \in Seq(X) /\ Len(t) = (k - 1) + (n - k)
      /\ \A i \in 1 .. (k - 1) + (n - k) : t[i] = IF i <= k - 1 THEN a[i] ELSE b[i - (k - 1)]
  <2>1. /\ t \in Seq(X) /\ Len(t) = Len(a) + Len(b)
        /\ \A i \in 1 .. Len(a) + Len(b) : t[i] = IF i <= Len(a) THEN a[i] ELSE b[i - Len(a)]
    BY <1>2, <1>3, ConcatProperties
  <2> HIDE DEF t
  <2>. QED
    BY <1>2, <1>3, <2>1
<1> HIDE DEF t
<1> DEFINE from(i) == IF i < k THEN i ELSE i + 1
<1>5. DOMAIN t = 1 .. n - 1
  BY <1>1, <1>4
<1>6. ASSUME NEW i \in 1 .. n - 1 PROVE from(i) \in 1 .. n /\ from(i) # k /\ t[i] = s[from(i)]
  <2>1. CASE i < k
    <3>1. i \in 1 .. k - 1 /\ i <= k - 1 /\ i \in 1 .. (k - 1) + (n - k)
      BY <1>1, <2>1
    <3>2. t[i] = a[i]
      BY <1>4, <3>1
    <3>3. a[i] = s[i]
      BY <1>2, <3>1
    <3>. QED
      BY <1>1, <2>1, <3>2, <3>3
  <2>2. CASE ~(i < k)
    <3>1. i - (k - 1) \in 1 .. n - k /\ k + (i - (k - 1)) = i + 1 /\ ~(i <= k - 1)
      BY <1>1, <2>2
    <3>2. t[i] = b[i - (k - 1)]
      BY <1>1, <1>4, <3>1
    <3>3. b[i - (k - 1)] = s[k + (i - (k - 1))]
      BY <1>3, <3>1
    <3>4. t[i] = s[i + 1]
      BY <3>1, <3>2, <3>3
    <3>. QED
      BY <1>1, <2>2, <3>4
  <2>. QED
    BY <2>1, <2>2
<1>7. ASSUME NEW j \in 1 .. n, j # k PROVE \E i \in 1 .. n - 1 : from(i) = j
  <2> DEFINE i == IF j < k THEN j ELSE j - 1
  <2>1. i \in 1 .. n - 1 /\ from(i) = j
    BY <1>1, <1>7
  <2>. QED
    BY <2>1
<1>8. \A i, j \in 1 .. n - 1 : from(i) = from(j) => i = j
  BY <1>1
<1> HIDE DEF from
<1>9. ASSUME NEW x \in Elems(t) PROVE x \in Elems(s) /\ x # f
  <2>1. PICK i \in 1 .. n - 1 : x = t[i]
    BY <1>5 DEF Elems
  <2>2. x = s[from(i)] /\ from(i) \in DOMAIN s /\ from(i) # k
    BY <1>1, <1>6, <2>1
  <2>. QED
    BY <1>0, <2>2 DEF Elems, NoneTwice
<1>10. ASSUME NEW x \in Elems(s), x # f PROVE x \in Elems(t)
  <2>1. PICK j \in 1 .. n : x = s[j]
    BY <1>1 DEF Elems
  <2>2. PICK i \in 1 .. n - 1 : from(i) = j
    BY <1>0, <1>7, <1>10, <2>1
  <2>3. t[i] = x /\ i \in DOMAIN t
    BY <1>5, <1>6, <2>1, <2>2
  <2>. QED
    BY <2>3 DEF Elems
<1>11. NoneTwice(t)
  <2>1. SUFFICES ASSUME NEW i \in 1 .. n - 1, NEW j \in 1 .. n - 1, t[i] = t[j] PROVE i = j
    BY <1>5 DEF NoneTwice
  <2>2. s[from(i)] = s[from(j)] /\ from(i) \in DOMAIN s /\ from(j) \in DOMAIN s
    BY <1>1, <1>6, <2>1
  <2>3. from(i) = from(j)
    BY <2>2 DEF NoneTwice
  <2>. QED
    BY <1>8, <2>3
<1>. QED
  BY <1>x, <1>4, <1>9, <1>10, <1>11

-----------------------------------------------------------------------------
(***************************************************************************)
(* The inductive invariant.  t is the function from the frames that exist  *)
(* to their records, and H holds the frame that is being freed, if there   *)
(* is one: it is neither free nor the parent of any frame.                 *)
(***************************************************************************)

FrameName == (0 .. NumBins - 1) \X Nat

FrameRec == [status : {"DEALLOC", "ALLOC", "PARENT"},
             buddy : FrameName \cup {NULL}, parent : FrameName \cup {NULL}]

Left(p) == <<BinOf(p) - 1, Addr(p)>>
Right(p) == <<BinOf(p) - 1, Addr(p) + TWO_POW(BinOf(p) - 1)>>

(* f and b are the halves of p. *)
Halves(p, f, b) == (f = Left(p) /\ b = Right(p)) \/ (f = Right(p) /\ b = Left(p))

Apart(f, g) == Addr(f) + Size(f) <= Addr(g) \/ Addr(g) + Size(g) <= Addr(f)

Aligned(f) == \E d \in Nat : Addr(f) = d * Size(f)

Typed(t) == DOMAIN t \subseteq FrameName /\ t \in [DOMAIN t -> FrameRec]

First(t, f) == f \in FirstSet /\ t[f].buddy = NULL /\ t[f].parent = NULL

Half(t, H, f) ==
  LET b == t[f].buddy
      p == t[f].parent
  IN  /\ f \notin FirstSet
      /\ p \in DOMAIN t \ H /\ t[p].status = "PARENT" /\ BinOf(p) > 0
      /\ b \in DOMAIN t /\ t[b].buddy = f /\ t[b].parent = p
      /\ Halves(p, f, b)

(* Every frame is of the first ones or half of another, and a frame that   *)
(* was split has its halves.                                               *)
Links(t, H) ==
  /\ FirstSet \subseteq DOMAIN t
  /\ \A f \in DOMAIN t : First(t, f) \/ Half(t, H, f)
  /\ \A p \in DOMAIN t \ H : t[p].status = "PARENT" =>
       /\ BinOf(p) > 0 /\ Left(p) \in DOMAIN t /\ Right(p) \in DOMAIN t
       /\ t[Left(p)].parent = p /\ t[Right(p)].parent = p

(* Only a frame that was split shares pages with a smaller one. *)
Above(t, H, f, g) == BinOf(f) < BinOf(g) /\ g \notin H /\ t[g].status = "PARENT"

Laminar(t, H) ==
  \A f, g \in DOMAIN t : f # g => Apart(f, g) \/ Above(t, H, f, g) \/ Above(t, H, g, f)

Rooted(t) == \A f \in DOMAIN t : Addr(f) + Size(f) <= Pages /\ Aligned(f)

Holed(t, H) == H \subseteq DOMAIN t /\ \A f \in H : t[f].status # "DEALLOC"

Struct(t, H) == Typed(t) /\ Links(t, H) /\ Laminar(t, H) /\ Rooted(t) /\ Holed(t, H)

Having(t, s) == {f \in DOMAIN t : t[f].status = s}

(* table has the frames of S by their addresses, or by parent key. *)
Pool(table, S) ==
  /\ table = [a \in {Addr(f) : f \in S} |-> table[a]]
  /\ \A f \in S : table[Addr(f)] = f

ParentPool(table, S) ==
  /\ table = [k \in {ParentKey(f) : f \in S} |-> table[k]]
  /\ \A f \in S : table[ParentKey(f)] = f

Binned(bins, t) ==
  /\ bins \in [0 .. NumBins - 1 -> Seq(FrameName)]
  /\ \A i \in 0 .. NumBins - 1 :
       NoneTwice(bins[i]) /\ Elems(bins[i]) = {f \in Having(t, "DEALLOC") : BinOf(f) = i}

(* A free frame whose buddy is free too: only f's pair, while f is split. *)
Coalesced(t, F) ==
  \A f \in Having(t, "DEALLOC") \ F :
    t[f].buddy # NULL /\ t[f].buddy \notin F => t[t[f].buddy].status # "DEALLOC"

IsManager(m) ==
  m = [frame |-> m.frame, bins |-> m.bins, deallocated |-> m.deallocated,
       allocated |-> m.allocated, parents |-> m.parents]

Sound(m, H) ==
  /\ IsManager(m)
  /\ Struct(m.frame, H)
  /\ Binned(m.bins, m.frame)
  /\ Pool(m.deallocated, Having(m.frame, "DEALLOC"))
  /\ Pool(m.allocated, Having(m.frame, "ALLOC") \ H)
  /\ ParentPool(m.parents, Having(m.frame, "PARENT"))

Inv == Sound(fm, {}) /\ Coalesced(fm.frame, {})

-----------------------------------------------------------------------------
(* Names of frames. *)

(* A frame has a bin, an address and a size, by the first two of which it  *)
(* is known.                                                               *)
LEMMA Named ==
  ASSUME NEW f \in FrameName
  PROVE  /\ BinOf(f) \in 0 .. NumBins - 1 /\ Addr(f) \in Nat /\ Size(f) \in Nat \ {0}
         /\ f = <<BinOf(f), Addr(f)>> /\ f # NULL
<1>1. NumBins \in Nat \ {0}
  BY FrameAssumption
<1>2. /\ BinOf(f) \in 0 .. NumBins - 1 /\ Addr(f) \in Nat /\ f = <<BinOf(f), Addr(f)>>
  BY DEF FrameName, BinOf, Addr
<1>3. BinOf(f) \in 0 .. NumBins
  BY <1>1, <1>2
<1>4. Size(f) \in Nat \ {0}
  BY <1>3, Powers DEF Size
<1>5. f # NULL
  <2>1. DOMAIN f = 1 .. 2
    BY DEF FrameName
  <2>2. DOMAIN <<>> = {} /\ 1 \in 1 .. 2
    OBVIOUS
  <2>. QED
    BY <2>1, <2>2 DEF NULL
<1>. QED
  BY <1>2, <1>4, <1>5

(* The halves of a frame are adjacent and of half its size. *)
LEMMA HalvesAre ==
  ASSUME NEW p \in FrameName, BinOf(p) > 0
  PROVE  /\ Left(p) \in FrameName /\ Right(p) \in FrameName /\ Left(p) # Right(p)
         /\ Left(p) # p /\ Right(p) # p
         /\ BinOf(Left(p)) = BinOf(p) - 1 /\ BinOf(Right(p)) = BinOf(p) - 1
         /\ Addr(Left(p)) = Addr(p) /\ Addr(Right(p)) = Addr(p) + Size(Left(p))
         /\ Size(Right(p)) = Size(Left(p)) /\ Size(p) = Size(Left(p)) + Size(Left(p))
         /\ Size(Left(p)) \in Nat \ {0}
<1> DEFINE i == BinOf(p) - 1
<1>1. NumBins \in Nat \ {0} /\ BinOf(p) \in 0 .. NumBins - 1 /\ Addr(p) \in Nat
  BY FrameAssumption, Named
<1>2. i \in 0 .. NumBins - 1 /\ i + 1 = BinOf(p) /\ i \in 0 .. NumBins /\ i # BinOf(p)
  BY <1>1
<1>3. TWO_POW(i) \in Nat \ {0} /\ TWO_POW(BinOf(p)) = 2 * TWO_POW(i)
  BY <1>2, Powers
<1>4. TWO_POW(BinOf(p)) = TWO_POW(i) + TWO_POW(i)
  BY <1>3
<1> HIDE DEF i
<1>5. /\ Left(p) = <<i, Addr(p)>> /\ Right(p) = <<i, Addr(p) + TWO_POW(i)>>
  BY DEF Left, Right, i
<1>6. BinOf(Left(p)) = i /\ Addr(Left(p)) = Addr(p) /\ Size(Left(p)) = TWO_POW(i)
  BY <1>5 DEF BinOf, Addr, Size
<1>7. BinOf(Right(p)) = i /\ Addr(Right(p)) = Addr(p) + TWO_POW(i) /\ Size(Right(p)) = TWO_POW(i)
  BY <1>5 DEF BinOf, Addr, Size
<1>8. Left(p) \in FrameName /\ Right(p) \in FrameName
  BY <1>1, <1>2, <1>3, <1>5 DEF FrameName
<1>9. Addr(p) # Addr(p) + TWO_POW(i)
  BY <1>1, <1>3
<1>10. Left(p) # Right(p) /\ Left(p) # p /\ Right(p) # p
  BY <1>2, <1>6, <1>7, <1>9
<1>. QED
  BY <1>3, <1>4, <1>6, <1>7, <1>8, <1>10 DEF i, Size

(* A frame that is apart from another is apart from its halves. *)
LEMMA HalfApart ==
  ASSUME NEW p \in FrameName, BinOf(p) > 0, NEW g \in FrameName
  PROVE  /\ Apart(p, g) => Apart(Left(p), g) /\ Apart(Right(p), g)
         /\ Apart(Left(p), g) /\ Apart(Right(p), g) => Apart(p, g)
         /\ Apart(Left(p), Right(p))
         /\ Apart(p, g) <=> Apart(g, p)
<1>1. Addr(p) \in Nat /\ Addr(g) \in Nat /\ Size(g) \in Nat \ {0}
  BY Named
<1> DEFINE z == Size(Left(p))
<1>2. z \in Nat \ {0} /\ Size(p) = z + z /\ Size(Right(p)) = z
      /\ Addr(Left(p)) = Addr(p) /\ Addr(Right(p)) = Addr(p) + z
  BY HalvesAre
<1>3. Apart(Left(p), g) <=> (Addr(p) + z <= Addr(g) \/ Addr(g) + Size(g) <= Addr(p))
  BY <1>2 DEF Apart
<1>4. Apart(Right(p), g) <=> ((Addr(p) + z) + z <= Addr(g) \/ Addr(g) + Size(g) <= Addr(p) + z)
  BY <1>2 DEF Apart
<1>5. Apart(p, g) <=> (Addr(p) + (z + z) <= Addr(g) \/ Addr(g) + Size(g) <= Addr(p))
  BY <1>2 DEF Apart
<1>6. Apart(Left(p), Right(p))
  BY <1>1, <1>2 DEF Apart
<1>7. Apart(p, g) <=> Apart(g, p)
  BY DEF Apart
<1> HIDE DEF z
<1>8. z \in Nat \ {0}
  BY <1>2
<1>. QED
  BY <1>1, <1>8, <1>3, <1>4, <1>5, <1>6, <1>7

(* The halves of an aligned frame are aligned and within it. *)
LEMMA HalfAligned ==
  ASSUME NEW p \in FrameName, BinOf(p) > 0, Aligned(p), Addr(p) + Size(p) <= Pages
  PROVE  \A f \in {Left(p), Right(p)} : Aligned(f) /\ Addr(f) + Size(f) <= Pages
<1> DEFINE z == Size(Left(p))
<1>1. Addr(p) \in Nat /\ Pages \in Nat
  BY FrameAssumption, Named
<1>2. z \in Nat \ {0} /\ Size(p) = z + z /\ Size(Right(p)) = z
      /\ Addr(Left(p)) = Addr(p) /\ Addr(Right(p)) = Addr(p) + z
  BY HalvesAre
<1>3. PICK d \in Nat : Addr(p) = d * Size(p)
  BY DEF Aligned
<1>4. Addr(p) = (2 * d) * z /\ Addr(p) + z = (2 * d + 1) * z
  <2> HIDE DEF z
  <2>1. Addr(p) = d * (z + z) /\ z \in Nat
    BY <1>2, <1>3
  <2>2. d * (z + z) = (2 * d) * z /\ (2 * d) * z + z = (2 * d + 1) * z
    BY <2>1, Product
  <2>. QED
    BY <2>1, <2>2
<1>5. Aligned(Left(p)) /\ Aligned(Right(p))
  <2>1. 2 * d \in Nat /\ 2 * d + 1 \in Nat
    OBVIOUS
  <2>. QED
    BY <1>2, <1>4, <2>1 DEF Aligned
<1>6. Addr(Left(p)) + Size(Left(p)) <= Pages /\ Addr(Right(p)) + Size(Right(p)) <= Pages
  BY <1>1, <1>2
<1>. QED
  BY <1>5, <1>6

(* Two frames that were not split, or are being freed, are apart, and have *)
(* different addresses.                                                    *)
LEMMA LeavesApart ==
  ASSUME NEW t, NEW H, Struct(t, H), NEW f \in DOMAIN t, NEW g \in DOMAIN t, f # g,
         t[f].status # "PARENT" \/ f \in H, t[g].status # "PARENT" \/ g \in H
  PROVE  Apart(f, g) /\ Addr(f) # Addr(g)
<1>1. Apart(f, g)
  BY DEF Struct, Laminar, Above
<1>2. f \in FrameName /\ g \in FrameName
  BY DEF Struct, Typed
<1>3. Addr(f) \in Nat /\ Addr(g) \in Nat /\ Size(f) \in Nat \ {0} /\ Size(g) \in Nat \ {0}
  BY <1>2, Named
<1>. QED
  BY <1>1, <1>3 DEF Apart

-----------------------------------------------------------------------------
(* What a split, a change of status and a join do to the frames. *)

SplitTo(t, u, p) ==
  /\ DOMAIN u = DOMAIN t \cup {Left(p), Right(p)}
  /\ u[Left(p)] = frame_init("DEALLOC", Right(p), p)
  /\ u[Right(p)] = frame_init("DEALLOC", Left(p), p)
  /\ u[p] = frame_init("PARENT", t[p].buddy, t[p].parent)
  /\ \A f \in DOMAIN t \ {p, Left(p), Right(p)} : u[f] = t[f]

StatusTo(t, u, x, s) ==
  /\ DOMAIN u = DOMAIN t
  /\ u[x] = frame_init(s, t[x].buddy, t[x].parent)
  /\ \A f \in DOMAIN t \ {x} : u[f] = t[f]

DroppedTo(t, u, f, b) ==
  /\ DOMAIN u = DOMAIN t \ {f, b}
  /\ \A g \in DOMAIN u : u[g] = t[g]

IsFunction(u) == u = [f \in DOMAIN u |-> u[f]]

(* The parts of a new record. *)
LEMMA RecordIs ==
  ASSUME NEW s, NEW b, NEW p
  PROVE  /\ frame_init(s, b, p).status = s /\ frame_init(s, b, p).buddy = b
         /\ frame_init(s, b, p).parent = p
         /\ s \in {"DEALLOC", "ALLOC", "PARENT"} /\ b \in FrameName \cup {NULL}
              /\ p \in FrameName \cup {NULL} => frame_init(s, b, p) \in FrameRec
  BY DEF frame_init, FrameRec

(* The parts of the record of a frame that exists. *)
LEMMA RecordOf ==
  ASSUME NEW t, Typed(t), NEW f \in DOMAIN t
  PROVE  /\ f \in FrameName /\ t[f] \in FrameRec
         /\ t[f].status \in {"DEALLOC", "ALLOC", "PARENT"}
         /\ t[f].buddy \in FrameName \cup {NULL} /\ t[f].parent \in FrameName \cup {NULL}
<1>1. f \in FrameName /\ t[f] \in FrameRec
  BY DEF Typed
<1>. QED
  BY <1>1 DEF FrameRec

(* The halves of a free frame do not exist yet. *)
LEMMA NewHalves ==
  ASSUME NEW t, NEW H, Struct(t, H), NEW p \in DOMAIN t, t[p].status = "DEALLOC", BinOf(p) > 0
  PROVE  /\ p \in FrameName /\ Left(p) \notin DOMAIN t /\ Right(p) \notin DOMAIN t
<1>1. p \in FrameName
  BY DEF Struct, Typed
<1>2. ASSUME NEW f \in {Left(p), Right(p)}, f \in DOMAIN t PROVE FALSE
  <2>1. f # p /\ BinOf(f) = BinOf(p) - 1 /\ BinOf(p) \in Nat
    BY <1>1, HalvesAre, Named
  <2>2. ~(BinOf(p) < BinOf(f))
    BY <2>1
  <2>3. Apart(f, p)
    BY <1>2, <2>1, <2>2 DEF Struct, Laminar, Above
  <2> DEFINE z == Size(Left(p))
  <2>4. /\ Addr(p) \in Nat /\ z \in Nat \ {0} /\ Size(p) = z + z /\ Size(f) = z
        /\ Addr(f) = Addr(p) \/ Addr(f) = Addr(p) + z
    BY <1>1, HalvesAre, Named
  <2> HIDE DEF z
  <2>. QED
    BY <2>3, <2>4 DEF Apart
<1>. QED
  BY <1>1, <1>2

(* A split keeps the structure of the frames. *)
LEMMA SplitStruct ==
  ASSUME NEW t, Struct(t, {}), NEW p \in DOMAIN t, t[p].status = "DEALLOC", BinOf(p) > 0,
         NEW u, IsFunction(u), SplitTo(t, u, p)
  PROVE  Struct(u, {})
<1> DEFINE l == Left(p)
           r == Right(p)
<1>1. p \in FrameName /\ l \notin DOMAIN t /\ r \notin DOMAIN t
  BY NewHalves
<1>2. /\ l \in FrameName /\ r \in FrameName /\ l # r /\ l # p /\ r # p
      /\ BinOf(l) = BinOf(p) - 1 /\ BinOf(r) = BinOf(p) - 1 /\ BinOf(p) \in Nat
      /\ Halves(p, l, r) /\ Halves(p, r, l)
  BY <1>1, HalvesAre, Named DEF Halves
<1>3. /\ Apart(l, r) /\ Apart(r, l)
      /\ \A g \in FrameName : Apart(p, g) => Apart(l, g) /\ Apart(r, g) /\ Apart(g, l) /\ Apart(g, r)
  <2>1. Apart(l, r)
    BY <1>1, HalfApart
  <2>2. Apart(r, l)
    BY <2>1 DEF Apart
  <2>3. ASSUME NEW g \in FrameName, Apart(p, g) PROVE Apart(l, g) /\ Apart(r, g)
    BY <1>1, <2>3, HalfApart
  <2>. QED
    BY <2>1, <2>2, <2>3 DEF Apart
<1> HIDE DEF l, r
<1>4. /\ DOMAIN u = DOMAIN t \cup {l, r}
      /\ u[l] = frame_init("DEALLOC", r, p) /\ u[r] = frame_init("DEALLOC", l, p)
      /\ u[p] = frame_init("PARENT", t[p].buddy, t[p].parent)
      /\ \A f \in DOMAIN t \ {p} : u[f] = t[f]
  BY <1>1 DEF SplitTo, l, r
<1>5. /\ u[l].status = "DEALLOC" /\ u[l].buddy = r /\ u[l].parent = p
      /\ u[r].status = "DEALLOC" /\ u[r].buddy = l /\ u[r].parent = p
      /\ u[p].status = "PARENT" /\ u[p].buddy = t[p].buddy /\ u[p].parent = t[p].parent
  BY <1>4, RecordIs
<1>6. Typed(t) /\ Links(t, {}) /\ Laminar(t, {}) /\ Rooted(t)
  BY DEF Struct
<1>7. /\ \A f \in DOMAIN t : u[f].buddy = t[f].buddy /\ u[f].parent = t[f].parent
      /\ \A f \in DOMAIN t : t[f].status = "PARENT" => u[f].status = "PARENT" /\ f # p
  BY <1>4, <1>5
<1>8. Typed(u)
  <2>1. DOMAIN u \subseteq FrameName
    BY <1>2, <1>4, <1>6 DEF Typed
  <2>2. ASSUME NEW f \in DOMAIN u PROVE u[f] \in FrameRec
    <3>1. CASE f \in {l, r}
      BY <1>1, <1>2, <1>4, <3>1, RecordIs
    <3>2. CASE f = p
      BY <1>4, <1>6, <3>2, RecordIs, RecordOf
    <3>. QED
      BY <1>4, <1>6, <3>1, <3>2 DEF Typed
  <2>. QED
    BY <2>1, <2>2 DEF Typed, IsFunction
<1>9. Links(u, {})
  <2>1. FirstSet \subseteq DOMAIN t /\ FirstSet \subseteq DOMAIN u /\ l \notin FirstSet /\ r \notin FirstSet
    BY <1>1, <1>4, <1>6 DEF Links
  <2>2. ASSUME NEW f \in DOMAIN t, First(t, f) PROVE First(u, f)
    BY <1>7, <2>2 DEF First
  <2>3. ASSUME NEW f \in DOMAIN t, Half(t, {}, f) PROVE Half(u, {}, f)
    BY <1>4, <1>7, <2>3 DEF Half
  <2>4. Half(u, {}, l) /\ Half(u, {}, r)
    BY <1>2, <1>4, <1>5, <2>1 DEF Half
  <2>5. ASSUME NEW q \in DOMAIN t, t[q].status = "PARENT"
        PROVE  /\ BinOf(q) > 0 /\ Left(q) \in DOMAIN u /\ Right(q) \in DOMAIN u
               /\ u[Left(q)].parent = q /\ u[Right(q)].parent = q
    BY <1>4, <1>6, <1>7, <2>5 DEF Links
  <2>6. /\ BinOf(p) > 0 /\ Left(p) \in DOMAIN u /\ Right(p) \in DOMAIN u
        /\ u[Left(p)].parent = p /\ u[Right(p)].parent = p
    BY <1>4, <1>5 DEF l, r
  <2>7. \A f \in DOMAIN u : First(u, f) \/ Half(u, {}, f)
    BY <1>4, <1>6, <2>2, <2>3, <2>4 DEF Links
  <2>8. \A q \in DOMAIN u : u[q].status = "PARENT" =>
          q = p \/ (q \in DOMAIN t /\ t[q].status = "PARENT")
    BY <1>4, <1>5
  <2>. QED
    BY <2>1, <2>5, <2>6, <2>7, <2>8 DEF Links
<1>10. Laminar(u, {})
  <2>1. ASSUME NEW f \in DOMAIN t, NEW g \in DOMAIN t, f # g
        PROVE  Apart(f, g) \/ Above(u, {}, f, g) \/ Above(u, {}, g, f)
    <3>1. Apart(f, g) \/ Above(t, {}, f, g) \/ Above(t, {}, g, f)
      BY <1>6, <2>1 DEF Laminar
    <3>. QED
      BY <1>7, <3>1 DEF Above
  <2>2. ASSUME NEW h \in {l, r}, NEW g \in DOMAIN t
        PROVE  (Apart(h, g) /\ Apart(g, h)) \/ Above(u, {}, h, g)
    <3>1. CASE g = p
      BY <1>2, <1>5, <3>1 DEF Above
    <3>2. CASE g # p
      <4>1. Apart(p, g) \/ Above(t, {}, p, g)
        <5>1. ~Above(t, {}, g, p)
          BY DEF Above
        <5>. QED
          BY <1>6, <3>2, <5>1 DEF Laminar
      <4>2. g \in FrameName /\ BinOf(g) \in Nat
        BY <1>6, Named DEF Typed
      <4>3. CASE Apart(p, g)
        BY <1>3, <4>2, <4>3
      <4>4. CASE Above(t, {}, p, g)
        <5>1. BinOf(h) < BinOf(g)
          BY <1>2, <4>2, <4>4 DEF Above
        <5>. QED
          BY <1>7, <4>4, <5>1 DEF Above
      <4>. QED
        BY <4>1, <4>3, <4>4
    <3>. QED
      BY <3>1, <3>2
  <2>3. SUFFICES ASSUME NEW f \in DOMAIN u, NEW g \in DOMAIN u, f # g
                 PROVE  Apart(f, g) \/ Above(u, {}, f, g) \/ Above(u, {}, g, f)
    BY DEF Laminar
  <2>4. CASE f \in DOMAIN t /\ g \in DOMAIN t
    BY <2>1, <2>3, <2>4
  <2>5. CASE f \in {l, r} /\ g \in DOMAIN t
    BY <2>2, <2>5
  <2>6. CASE g \in {l, r} /\ f \in DOMAIN t
    BY <2>2, <2>6
  <2>7. CASE f \in {l, r} /\ g \in {l, r}
    BY <1>3, <2>3, <2>7
  <2>. QED
    BY <1>4, <2>4, <2>5, <2>6, <2>7
<1>11. Rooted(u)
  <2>1. Addr(p) + Size(p) <= Pages /\ Aligned(p)
    BY <1>6 DEF Rooted
  <2>2. \A f \in {l, r} : Aligned(f) /\ Addr(f) + Size(f) <= Pages
    BY <1>1, <2>1, HalfAligned DEF l, r
  <2>. QED
    BY <1>4, <1>6, <2>2 DEF Rooted
<1>. QED
  BY <1>8, <1>9, <1>10, <1>11 DEF Struct, Holed

(* A frame that is not split changes its status. *)
LEMMA StatusTyped ==
  ASSUME NEW t, Typed(t), NEW x \in DOMAIN t, NEW s \in {"DEALLOC", "ALLOC", "PARENT"},
         NEW u, IsFunction(u), StatusTo(t, u, x, s)
  PROVE  /\ Typed(u) /\ DOMAIN u = DOMAIN t /\ u[x].status = s
         /\ \A f \in DOMAIN t : u[f].buddy = t[f].buddy /\ u[f].parent = t[f].parent
         /\ \A f \in DOMAIN t \ {x} : u[f].status = t[f].status
<1>1. u[x].status = s /\ u[x].buddy = t[x].buddy /\ u[x].parent = t[x].parent
  BY RecordIs DEF StatusTo
<1>2. u[x] \in FrameRec
  BY RecordOf, RecordIs DEF StatusTo
<1>3. DOMAIN u = DOMAIN t /\ \A f \in DOMAIN t \ {x} : u[f] = t[f]
  BY DEF StatusTo
<1>4. Typed(u)
  <2>1. \A f \in DOMAIN u : u[f] \in FrameRec
    BY <1>2, <1>3 DEF Typed
  <2>. QED
    BY <1>3, <2>1 DEF Typed, IsFunction
<1>. QED
  BY <1>1, <1>3, <1>4

(* A free frame is taken. *)
LEMMA TakeStruct ==
  ASSUME NEW t, Struct(t, {}), NEW x \in DOMAIN t, t[x].status = "DEALLOC",
         NEW u, IsFunction(u), StatusTo(t, u, x, "ALLOC")
  PROVE  Struct(u, {})
<1>1. Typed(t) /\ Links(t, {}) /\ Laminar(t, {}) /\ Rooted(t)
  BY DEF Struct
<1>2. /\ Typed(u) /\ DOMAIN u = DOMAIN t /\ u[x].status = "ALLOC"
      /\ \A f \in DOMAIN t : u[f].buddy = t[f].buddy /\ u[f].parent = t[f].parent
      /\ \A f \in DOMAIN t \ {x} : u[f].status = t[f].status
  BY <1>1, StatusTyped
<1>3. \A f \in DOMAIN t : u[f].status = "PARENT" <=> t[f].status = "PARENT"
  BY <1>2
<1>4. Links(u, {})
  <2>1. ASSUME NEW f \in DOMAIN t, First(t, f) PROVE First(u, f)
    BY <1>2, <2>1 DEF First
  <2>2. ASSUME NEW f \in DOMAIN t, Half(t, {}, f) PROVE Half(u, {}, f)
    BY <1>2, <1>3, <2>2 DEF Half
  <2>. QED
    BY <1>1, <1>2, <1>3, <2>1, <2>2 DEF Links
<1>5. Laminar(u, {})
  BY <1>1, <1>2, <1>3 DEF Laminar, Above
<1>6. Rooted(u)
  BY <1>1, <1>2 DEF Rooted
<1>. QED
  BY <1>2, <1>4, <1>5, <1>6 DEF Struct, Holed

(* An allocated frame is about to be freed. *)
LEMMA HoleStruct ==
  ASSUME NEW t, Struct(t, {}), NEW x \in DOMAIN t, t[x].status = "ALLOC"
  PROVE  Struct(t, {x})
<1>1. Typed(t) /\ Links(t, {}) /\ Laminar(t, {}) /\ Rooted(t)
  BY DEF Struct
<1>2. \A f \in DOMAIN t : t[f].status = "PARENT" => f \notin {x}
  OBVIOUS
<1>3. Links(t, {x})
  <2>1. ASSUME NEW f \in DOMAIN t, Half(t, {}, f) PROVE Half(t, {x}, f)
    BY <1>2, <2>1 DEF Half
  <2>. QED
    BY <1>1, <2>1 DEF Links
<1>4. Laminar(t, {x})
  BY <1>1, <1>2 DEF Laminar, Above
<1>. QED
  BY <1>1, <1>3, <1>4 DEF Struct, Holed

(* The frame that was being freed is free. *)
LEMMA FreeStruct ==
  ASSUME NEW t, NEW x \in DOMAIN t, Struct(t, {x}),
         NEW u, IsFunction(u), StatusTo(t, u, x, "DEALLOC")
  PROVE  Struct(u, {})
<1>1. Typed(t) /\ Links(t, {x}) /\ Laminar(t, {x}) /\ Rooted(t)
  BY DEF Struct
<1>2. /\ Typed(u) /\ DOMAIN u = DOMAIN t /\ u[x].status = "DEALLOC"
      /\ \A f \in DOMAIN t : u[f].buddy = t[f].buddy /\ u[f].parent = t[f].parent
      /\ \A f \in DOMAIN t \ {x} : u[f].status = t[f].status
  BY <1>1, StatusTyped
<1>3. \A f \in DOMAIN t : u[f].status = "PARENT" <=> t[f].status = "PARENT" /\ f \notin {x}
  BY <1>2
<1>4. Links(u, {})
  <2>1. ASSUME NEW f \in DOMAIN t, First(t, f) PROVE First(u, f)
    BY <1>2, <2>1 DEF First
  <2>2. ASSUME NEW f \in DOMAIN t, Half(t, {x}, f) PROVE Half(u, {}, f)
    BY <1>2, <1>3, <2>2 DEF Half
  <2>. QED
    BY <1>1, <1>2, <1>3, <2>1, <2>2 DEF Links
<1>5. Laminar(u, {})
  BY <1>1, <1>2, <1>3 DEF Laminar, Above
<1>6. Rooted(u)
  BY <1>1, <1>2 DEF Rooted
<1>. QED
  BY <1>2, <1>4, <1>5, <1>6 DEF Struct, Holed

(* A frame with a buddy: its parent and its buddy. *)
LEMMA BuddyOf ==
  ASSUME NEW t, NEW H, Struct(t, H), NEW f \in DOMAIN t, t[f].buddy # NULL
  PROVE  /\ Half(t, H, f) /\ f \notin FirstSet
         /\ t[f].parent \in DOMAIN t \ H /\ t[t[f].parent].status = "PARENT"
         /\ BinOf(t[f].parent) > 0 /\ t[f].buddy \in DOMAIN t
         /\ t[t[f].buddy].buddy = f /\ t[t[f].buddy].parent = t[f].parent
         /\ Halves(t[f].parent, f, t[f].buddy) /\ f # t[f].buddy
         /\ f # t[f].parent /\ t[f].buddy # t[f].parent
         /\ BinOf(f) = BinOf(t[f].parent) - 1 /\ BinOf(t[f].buddy) = BinOf(f)
         /\ t[f].buddy \notin FirstSet
<1>1. Half(t, H, f)
  BY DEF Struct, Links, First
<1>2. t[f].parent \in FrameName /\ BinOf(t[f].parent) > 0 /\ Halves(t[f].parent, f, t[f].buddy)
  BY <1>1 DEF Half, Struct, Typed
<1>3. /\ f # t[f].buddy /\ f # t[f].parent /\ t[f].buddy # t[f].parent
      /\ BinOf(f) = BinOf(t[f].parent) - 1 /\ BinOf(t[f].buddy) = BinOf(f)
  BY <1>2, HalvesAre DEF Halves
<1>4. t[f].buddy \notin FirstSet
  <2>1. t[f].buddy \in DOMAIN t /\ t[t[f].buddy].buddy = f /\ f \in FrameName
    BY <1>1 DEF Half, Struct, Typed
  <2>2. t[t[f].buddy].buddy # NULL
    BY <2>1, Named
  <2>. QED
    BY <2>1, <2>2 DEF Struct, Links, First, Half
<1>. QED
  BY <1>1, <1>3, <1>4 DEF Half

(* A frame being freed and its free buddy are gone: their parent is next. *)
LEMMA DropStruct ==
  ASSUME NEW t, NEW x \in DOMAIN t, Struct(t, {x}), t[x].buddy # NULL,
         t[t[x].buddy].status = "DEALLOC",
         NEW u, IsFunction(u), DroppedTo(t, u, x, t[x].buddy)
  PROVE  Struct(u, {t[x].parent})
<1> DEFINE b == t[x].buddy
           p == t[x].parent
<1>1. Typed(t) /\ Links(t, {x}) /\ Laminar(t, {x}) /\ Rooted(t)
  BY DEF Struct
<1>2. /\ x \notin FirstSet /\ b \notin FirstSet /\ p \in DOMAIN t /\ t[p].status = "PARENT"
      /\ BinOf(p) > 0 /\ b \in DOMAIN t /\ t[b].buddy = x /\ t[b].parent = p
      /\ Halves(p, x, b) /\ x # b /\ x # p /\ b # p
      /\ BinOf(x) = BinOf(p) - 1 /\ BinOf(b) = BinOf(x)
  BY BuddyOf
<1>3. t[b].status = "DEALLOC"
  OBVIOUS
<1>4. DOMAIN u = DOMAIN t \ {x, b} /\ \A g \in DOMAIN u : u[g] = t[g]
  BY DEF DroppedTo
<1> HIDE DEF b, p
<1>5. Typed(u)
  <2>1. \A f \in DOMAIN u : u[f] \in FrameRec
    BY <1>1, <1>4 DEF Typed
  <2>. QED
    BY <1>1, <1>4, <2>1 DEF Typed, IsFunction
<1>6. ASSUME NEW f \in DOMAIN u, Half(t, {x}, f) PROVE Half(u, {p}, f)
  <2> DEFINE c == t[f].buddy
             q == t[f].parent
  <2>1. /\ f \in DOMAIN t /\ f \notin FirstSet /\ q \in DOMAIN t /\ q # x /\ t[q].status = "PARENT"
        /\ BinOf(q) > 0 /\ c \in DOMAIN t /\ t[c].buddy = f /\ t[c].parent = q /\ Halves(q, f, c)
    BY <1>4, <1>6 DEF Half
  <2>2. u[f].buddy = c /\ u[f].parent = q
    BY <1>4
  <2> HIDE DEF c, q
  <2>3. q # b
    BY <1>3, <2>1
  <2>4. c # x /\ c # b
    <3>1. t[x].buddy = b
      BY DEF b
    <3>. QED
      BY <1>2, <1>4, <2>1, <3>1
  <2>5. q # p
    <3>1. Halves(p, x, b) /\ Halves(q, f, c) /\ f # x /\ f # b
      BY <1>2, <1>4, <2>1
    <3>. QED
      BY <3>1 DEF Halves
  <2>6. q \in DOMAIN u /\ c \in DOMAIN u /\ u[q] = t[q] /\ u[c] = t[c]
    BY <1>4, <2>1, <2>3, <2>4
  <2>. QED
    BY <2>1, <2>2, <2>5, <2>6 DEF Half
<1>7. ASSUME NEW q \in DOMAIN u \ {p}, u[q].status = "PARENT"
      PROVE  /\ BinOf(q) > 0 /\ Left(q) \in DOMAIN u /\ Right(q) \in DOMAIN u
             /\ u[Left(q)].parent = q /\ u[Right(q)].parent = q
  <2>1. /\ BinOf(q) > 0 /\ Left(q) \in DOMAIN t /\ Right(q) \in DOMAIN t
        /\ t[Left(q)].parent = q /\ t[Right(q)].parent = q
    BY <1>1, <1>4, <1>7 DEF Links
  <2>2. t[x].parent = p
    BY DEF p
  <2>3. Left(q) \notin {x, b} /\ Right(q) \notin {x, b}
    BY <1>2, <1>7, <2>1, <2>2
  <2>. QED
    BY <1>4, <2>1, <2>3
<1>8. Links(u, {p})
  <2>1. FirstSet \subseteq DOMAIN u
    BY <1>1, <1>2, <1>4 DEF Links
  <2>2. \A f \in DOMAIN u : First(t, f) => First(u, f)
    BY <1>4 DEF First
  <2>3. \A f \in DOMAIN u : First(u, f) \/ Half(u, {p}, f)
    BY <1>1, <1>4, <1>6, <2>2 DEF Links
  <2>. QED
    BY <1>7, <2>1, <2>3 DEF Links
<1>9. ASSUME NEW g \in DOMAIN u, g # p PROVE (Apart(p, g) /\ Apart(g, p)) \/ Above(u, {p}, p, g)
  <2>1. g \in DOMAIN t /\ g # x /\ g # b /\ u[g] = t[g] /\ g \in FrameName /\ p \in FrameName
    BY <1>1, <1>2, <1>4 DEF Typed
  <2>2. BinOf(g) \in Nat /\ BinOf(p) \in Nat
    BY <2>1, Named
  <2>3. ASSUME NEW h \in {x, b} PROVE Apart(h, g) \/ Above(t, {x}, h, g)
    <3>1. h \in DOMAIN t /\ g # h
      BY <1>2, <2>1
    <3>2. ~Above(t, {x}, g, h)
      BY <1>3 DEF Above
    <3>. QED
      BY <1>1, <2>1, <3>1, <3>2 DEF Laminar
  <2>4. CASE BinOf(g) < BinOf(p)
    <3>1. Apart(x, g) /\ Apart(b, g)
      BY <1>2, <2>2, <2>3, <2>4 DEF Above
    <3>2. Apart(Left(p), g) /\ Apart(Right(p), g)
      BY <1>2, <3>1 DEF Halves
    <3>3. Apart(p, g)
      BY <1>2, <2>1, <3>2, HalfApart
    <3>. QED
      BY <3>3 DEF Apart
  <2>5. CASE ~(BinOf(g) < BinOf(p))
    <3>1. Apart(p, g) \/ Above(t, {x}, p, g)
      BY <1>1, <1>2, <1>9, <2>1, <2>5 DEF Laminar, Above
    <3>2. CASE Apart(p, g)
      BY <3>2 DEF Apart
    <3>3. CASE Above(t, {x}, p, g)
      BY <1>9, <2>1, <3>3 DEF Above
    <3>. QED
      BY <3>1, <3>2, <3>3
  <2>. QED
    BY <2>4, <2>5
<1>10. Laminar(u, {p})
  <2>1. SUFFICES ASSUME NEW f \in DOMAIN u, NEW g \in DOMAIN u, f # g
                 PROVE  Apart(f, g) \/ Above(u, {p}, f, g) \/ Above(u, {p}, g, f)
    BY DEF Laminar
  <2>2. CASE f = p \/ g = p
    BY <1>9, <2>1, <2>2
  <2>3. CASE f # p /\ g # p
    <3>1. f \in DOMAIN t /\ g \in DOMAIN t /\ u[f] = t[f] /\ u[g] = t[g]
      BY <1>4
    <3>2. Apart(f, g) \/ Above(t, {x}, f, g) \/ Above(t, {x}, g, f)
      BY <1>1, <2>1, <3>1 DEF Laminar
    <3>. QED
      BY <2>3, <3>1, <3>2 DEF Above
  <2>. QED
    BY <2>2, <2>3
<1>11. Rooted(u)
  BY <1>1, <1>4 DEF Rooted
<1>12. Holed(u, {p})
  BY <1>2, <1>4 DEF Holed
<1>. QED
  BY <1>5, <1>8, <1>10, <1>11, <1>12 DEF Struct, p

-----------------------------------------------------------------------------
(* The tables. *)

(* A table without some of its keys. *)
LEMMA WithoutIs ==
  ASSUME NEW t, NEW K
  PROVE  /\ IsFunction(Without(t, K)) /\ DOMAIN Without(t, K) = DOMAIN t \ K
         /\ \A x \in DOMAIN t \ K : Without(t, K)[x] = t[x]
  BY DEF Without, IsFunction

(* A table, by its domain and its values. *)
LEMMA PoolIs ==
  ASSUME NEW T, NEW S
  PROVE  /\ Pool(T, S) <=> /\ IsFunction(T) /\ DOMAIN T = {Addr(f) : f \in S}
                           /\ \A f \in S : T[Addr(f)] = f
         /\ ParentPool(T, S) <=> /\ IsFunction(T) /\ DOMAIN T = {ParentKey(f) : f \in S}
                                 /\ \A f \in S : T[ParentKey(f)] = f
<1>1. ASSUME NEW D PROVE T = [a \in D |-> T[a]] <=> IsFunction(T) /\ DOMAIN T = D
  BY DEF IsFunction
<1>. QED
  BY <1>1 DEF Pool, ParentPool

(* A frame goes into a table under an address no other frame has there. *)
LEMMA PoolPut ==
  ASSUME NEW T, NEW S, Pool(T, S), NEW f, \A g \in S : Addr(g) # Addr(f)
  PROVE  Pool(ht_put(T, Addr(f), f), S \cup {f}) /\ ht_put(T, Addr(f), f) = With(T, Addr(f), f)
<1> DEFINE U == With(T, Addr(f), f)
<1>1. IsFunction(T) /\ DOMAIN T = {Addr(g) : g \in S} /\ \A g \in S : T[Addr(g)] = g
  BY PoolIs
<1>2. Addr(f) \notin DOMAIN T
  BY <1>1
<1>3. ht_put(T, Addr(f), f) = U
  BY <1>2 DEF ht_put
<1>4. /\ IsFunction(U) /\ DOMAIN U = DOMAIN T \cup {Addr(f)} /\ U[Addr(f)] = f
      /\ \A x \in DOMAIN T \ {Addr(f)} : U[x] = T[x]
  <2> DEFINE k == Addr(f)
  <2> HIDE DEF k
  <2>1. /\ IsFunction(With(T, k, f)) /\ DOMAIN With(T, k, f) = DOMAIN T \cup {k}
        /\ With(T, k, f)[k] = f
        /\ \A x \in DOMAIN T \ {k} : With(T, k, f)[x] = T[x]
    BY DEF With, IsFunction
  <2>. QED
    BY <2>1 DEF k
<1> HIDE DEF U
<1>5. DOMAIN U = {Addr(g) : g \in S \cup {f}}
  BY <1>1, <1>4
<1>6. \A g \in S \cup {f} : U[Addr(g)] = g
  BY <1>1, <1>4
<1>7. Pool(U, S \cup {f})
  BY <1>4, <1>5, <1>6, PoolIs
<1>. QED
  BY <1>3, <1>7 DEF U

(* A frame is taken out of the table. *)
LEMMA PoolRemove ==
  ASSUME NEW T, NEW S, Pool(T, S), NEW f \in S
  PROVE  Pool(ht_remove(T, Addr(f)), S \ {f})
<1> DEFINE U == Without(T, {Addr(f)})
<1>1. IsFunction(T) /\ DOMAIN T = {Addr(g) : g \in S} /\ \A g \in S : T[Addr(g)] = g
  BY PoolIs
<1>2. \A g \in S : Addr(g) = Addr(f) => g = f
  BY <1>1
<1>3. /\ IsFunction(U) /\ DOMAIN U = DOMAIN T \ {Addr(f)}
      /\ \A x \in DOMAIN T \ {Addr(f)} : U[x] = T[x]
  BY WithoutIs
<1> HIDE DEF U
<1>4. DOMAIN U = {Addr(g) : g \in S \ {f}}
  BY <1>1, <1>2, <1>3
<1>5. \A g \in S \ {f} : U[Addr(g)] = g
  BY <1>1, <1>2, <1>3
<1>6. Pool(U, S \ {f})
  BY <1>3, <1>4, <1>5, PoolIs
<1>. QED
  BY <1>6 DEF U, ht_remove

(* Two frames have two parent keys. *)
LEMMA KeysDiffer ==
  ASSUME NEW f \in FrameName, NEW g \in FrameName, ParentKey(f) = ParentKey(g)
  PROVE  f = g
  BY Named DEF ParentKey

(* A frame goes into the parent pool. *)
LEMMA ParentPut ==
  ASSUME NEW T, NEW S \in SUBSET FrameName, ParentPool(T, S), NEW f \in FrameName \ S
  PROVE  ParentPool(ht_put(T, ParentKey(f), f), S \cup {f})
<1> DEFINE U == With(T, ParentKey(f), f)
<1>1. IsFunction(T) /\ DOMAIN T = {ParentKey(g) : g \in S} /\ \A g \in S : T[ParentKey(g)] = g
  BY PoolIs
<1>2. \A g \in S : ParentKey(g) # ParentKey(f)
  BY KeysDiffer
<1>3. ParentKey(f) \notin DOMAIN T
  BY <1>1, <1>2
<1>4. ht_put(T, ParentKey(f), f) = U
  BY <1>3 DEF ht_put
<1>5. /\ IsFunction(U) /\ DOMAIN U = DOMAIN T \cup {ParentKey(f)} /\ U[ParentKey(f)] = f
      /\ \A x \in DOMAIN T \ {ParentKey(f)} : U[x] = T[x]
  <2> DEFINE k == ParentKey(f)
  <2> HIDE DEF k
  <2>1. /\ IsFunction(With(T, k, f)) /\ DOMAIN With(T, k, f) = DOMAIN T \cup {k}
        /\ With(T, k, f)[k] = f
        /\ \A x \in DOMAIN T \ {k} : With(T, k, f)[x] = T[x]
    BY DEF With, IsFunction
  <2>. QED
    BY <2>1 DEF k
<1> HIDE DEF U
<1>6. DOMAIN U = {ParentKey(g) : g \in S \cup {f}}
  BY <1>1, <1>5
<1>7. \A g \in S \cup {f} : U[ParentKey(g)] = g
  BY <1>1, <1>2, <1>5
<1>8. ParentPool(U, S \cup {f})
  BY <1>5, <1>6, <1>7, PoolIs
<1>. QED
  BY <1>4, <1>8 DEF U

(* A frame is taken out of the parent pool, if it is there. *)
LEMMA ParentRemove ==
  ASSUME NEW T, NEW S \in SUBSET FrameName, ParentPool(T, S), NEW f \in FrameName
  PROVE  ParentPool(ht_remove(T, ParentKey(f)), S \ {f})
<1> DEFINE U == Without(T, {ParentKey(f)})
<1>1. IsFunction(T) /\ DOMAIN T = {ParentKey(g) : g \in S} /\ \A g \in S : T[ParentKey(g)] = g
  BY PoolIs
<1>2. \A g \in S : ParentKey(g) = ParentKey(f) => g = f
  BY KeysDiffer
<1>3. /\ IsFunction(U) /\ DOMAIN U = DOMAIN T \ {ParentKey(f)}
      /\ \A x \in DOMAIN T \ {ParentKey(f)} : U[x] = T[x]
  BY WithoutIs
<1> HIDE DEF U
<1>4. DOMAIN U = {ParentKey(g) : g \in S \ {f}}
  BY <1>1, <1>2, <1>3
<1>5. \A g \in S \ {f} : U[ParentKey(g)] = g
  BY <1>1, <1>2, <1>3
<1>6. ParentPool(U, S \ {f})
  BY <1>3, <1>4, <1>5, PoolIs
<1>. QED
  BY <1>6 DEF U, ht_remove

(* The head of a bin that is not empty. *)
LEMMA HeadOf ==
  ASSUME NEW m, Sound(m, {}), NEW i \in 0 .. NumBins - 1, m.bins[i] # <<>>
  PROVE  /\ Head(m.bins[i]) \in DOMAIN m.frame /\ Head(m.bins[i]) \in FrameName
         /\ m.frame[Head(m.bins[i])].status = "DEALLOC" /\ BinOf(Head(m.bins[i])) = i
         /\ Head(m.bins[i]) \in Having(m.frame, "DEALLOC")
<1> DEFINE s == m.bins[i]
<1>1. s \in Seq(FrameName) /\ NoneTwice(s)
      /\ Elems(s) = {f \in Having(m.frame, "DEALLOC") : BinOf(f) = i}
  BY DEF Sound, Binned
<1>2. Head(s) \in Elems(s)
  <2> HIDE DEF s
  <2>0. s # <<>>
    BY DEF s
  <2>. QED
    BY <1>1, <2>0, TailElems
<1>. QED
  BY <1>1, <1>2 DEF Having, Sound, Struct, Typed

-----------------------------------------------------------------------------
(* Splitting. *)

SplitList(bins, B, i, p) ==
  B = [bins EXCEPT ![i] = Tail(@), ![i - 1] = @ \o <<Left(p), Right(p)>>]

SplitFrom(m, c, i, p) ==
  /\ IsManager(c) /\ IsFunction(c.frame) /\ SplitTo(m.frame, c.frame, p)
  /\ SplitList(m.bins, c.bins, i, p)
  /\ c.deallocated = ht_put(ht_put(ht_remove(m.deallocated, Addr(p)), Addr(Left(p)), Left(p)),
                            Addr(Right(p)), Right(p))
  /\ c.allocated = m.allocated /\ c.parents = ht_put(m.parents, ParentKey(p), p)

(* What Split does to each part of the manager. *)
LEMMA SplitIs ==
  ASSUME NEW m, Sound(m, {}), NEW i \in 1 .. NumBins - 1, m.bins[i] # <<>>,
         NEW p, p = Head(m.bins[i])
  PROVE  SplitFrom(m, Split(m, i), i, p)
<1> DEFINE l == Left(p)
           r == Right(p)
           F0 == [m.frame EXCEPT ![p].status = "PARENT"]
           F == With(With(F0, l, frame_init("DEALLOC", r, p)), r, frame_init("DEALLOC", l, p))
           B == [m.bins EXCEPT ![i] = Tail(@), ![i - 1] = @ \o <<l, r>>]
           A == ht_put(ht_put(ht_remove(m.deallocated, Addr(p)), Addr(l), l), Addr(r), r)
           P == ht_put(m.parents, ParentKey(p), p)
           c == Split(m, i)
<1>0. NumBins \in Nat \ {0}
  BY FrameAssumption
<1>1. /\ p \in DOMAIN m.frame /\ p \in FrameName /\ m.frame[p].status = "DEALLOC" /\ BinOf(p) = i
      /\ i \in 0 .. NumBins - 1 /\ i > 0
  <2>1. i \in 0 .. NumBins - 1 /\ i > 0
    BY <1>0
  <2>. QED
    BY <2>1, HeadOf
<1>2. /\ m = [frame |-> m.frame, bins |-> m.bins, deallocated |-> m.deallocated,
              allocated |-> m.allocated, parents |-> m.parents]
      /\ Struct(m.frame, {}) /\ Typed(m.frame)
      /\ m.bins \in [0 .. NumBins - 1 -> Seq(FrameName)]
  BY DEF Sound, IsManager, Binned, Struct
<1>3. l = <<i - 1, Addr(p)>> /\ r = <<i - 1, Addr(p) + TWO_POW(i - 1)>>
  BY <1>1 DEF Left, Right
<1>4. c = [m EXCEPT !.bins[i] = Tail(@), !.bins[i - 1] = @ \o <<l, r>>,
                    !.deallocated = ht_put(ht_put(ht_remove(@, Addr(p)), Addr(l), l), Addr(r), r),
                    !.parents = ht_put(@, ParentKey(p), p),
                    !.frame = With(With([@ EXCEPT ![p].status = "PARENT"],
                                        l, frame_init("DEALLOC", r, p)),
                                   r, frame_init("DEALLOC", l, p))]
  <2> HIDE DEF l, r
  <2>. QED
    BY <1>3 DEF Split
<1>5. c = [frame |-> F, bins |-> B, deallocated |-> A, allocated |-> m.allocated, parents |-> P]
  <2> HIDE DEF l, r, c
  <2>. QED
    BY <1>2, <1>4
<1>6. IsFunction(F) /\ SplitTo(m.frame, F, p)
  <2>1. l \notin DOMAIN m.frame /\ r \notin DOMAIN m.frame /\ l # r /\ l # p /\ r # p
    BY <1>1, <1>2, NewHalves, HalvesAre
  <2>2. /\ DOMAIN F0 = DOMAIN m.frame /\ \A f \in DOMAIN m.frame \ {p} : F0[f] = m.frame[f]
        /\ F0[p] = [m.frame[p] EXCEPT !.status = "PARENT"]
    BY <1>1, <1>2 DEF Typed
  <2>3. F0[p] = frame_init("PARENT", m.frame[p].buddy, m.frame[p].parent)
    <3>1. m.frame[p] \in FrameRec
      BY <1>1, <1>2, RecordOf
    <3>. QED
      BY <2>2, <3>1 DEF FrameRec, frame_init
  <2> DEFINE vl == frame_init("DEALLOC", r, p)
             vr == frame_init("DEALLOC", l, p)
             F1 == With(F0, l, vl)
  <2> HIDE DEF F0, l, r, vl, vr
  <2>4. DOMAIN F1 = DOMAIN m.frame \cup {l} /\ F1[l] = vl /\ \A f \in DOMAIN m.frame : F1[f] = F0[f]
    BY <2>1, <2>2 DEF With
  <2> HIDE DEF F1
  <2>5. /\ IsFunction(With(F1, r, vr)) /\ DOMAIN With(F1, r, vr) = DOMAIN F1 \cup {r}
        /\ With(F1, r, vr)[r] = vr /\ \A f \in DOMAIN F1 \ {r} : With(F1, r, vr)[f] = F1[f]
    BY DEF With, IsFunction
  <2>6. F = With(F1, r, vr)
    BY DEF F1, vl, vr
  <2> HIDE DEF F
  <2>7. DOMAIN F = DOMAIN m.frame \cup {l, r} /\ F[l] = vl /\ F[r] = vr
        /\ \A f \in DOMAIN m.frame : F[f] = F0[f]
    BY <2>1, <2>4, <2>5, <2>6
  <2>8. /\ DOMAIN F = DOMAIN m.frame \cup {l, r} /\ F[l] = vl /\ F[r] = vr
        /\ F[p] = frame_init("PARENT", m.frame[p].buddy, m.frame[p].parent)
        /\ \A f \in DOMAIN m.frame \ {p, l, r} : F[f] = m.frame[f]
    BY <1>1, <2>2, <2>3, <2>7
  <2>. QED
    BY <2>5, <2>6, <2>8 DEF SplitTo, l, r, vl, vr
<1> HIDE DEF F, B, A, P, c
<1>7. /\ c.frame = F /\ c.bins = B /\ c.deallocated = A /\ c.allocated = m.allocated
      /\ c.parents = P
  BY <1>5
<1>8. IsManager(c)
  BY <1>5, <1>7 DEF IsManager
<1>9. /\ IsManager(c) /\ IsFunction(c.frame) /\ SplitTo(m.frame, c.frame, p)
      /\ c.bins = B /\ c.deallocated = A /\ c.allocated = m.allocated /\ c.parents = P
  BY <1>6, <1>7, <1>8
<1>. QED
  BY <1>9 DEF c, A, B, P, SplitFrom, SplitList

SplitSets(t, u, p) ==
  /\ Having(u, "DEALLOC") = ((Having(t, "DEALLOC") \ {p}) \cup {Left(p)}) \cup {Right(p)}
  /\ Having(u, "ALLOC") = Having(t, "ALLOC")
  /\ Having(u, "PARENT") = Having(t, "PARENT") \cup {p}

(* The frames of each status after a split. *)
LEMMA SplitHaving ==
  ASSUME NEW t, Struct(t, {}), NEW p \in DOMAIN t, t[p].status = "DEALLOC", BinOf(p) > 0,
         NEW u, SplitTo(t, u, p)
  PROVE  /\ SplitSets(t, u, p)
         /\ Coalesced(t, {p}) => Coalesced(u, {Left(p)})
<1> DEFINE l == Left(p)
           r == Right(p)
<1>1. p \in FrameName /\ l \notin DOMAIN t /\ r \notin DOMAIN t
  BY NewHalves
<1>2. l # r /\ l # p /\ r # p
  BY <1>1, HalvesAre
<1> HIDE DEF l, r
<1>3. /\ DOMAIN u = DOMAIN t \cup {l, r}
      /\ u[l] = frame_init("DEALLOC", r, p) /\ u[r] = frame_init("DEALLOC", l, p)
      /\ u[p] = frame_init("PARENT", t[p].buddy, t[p].parent)
      /\ \A f \in DOMAIN t \ {p} : u[f] = t[f]
  BY <1>1 DEF SplitTo, l, r
<1>4. /\ u[l].status = "DEALLOC" /\ u[l].buddy = r /\ u[r].status = "DEALLOC" /\ u[r].buddy = l
      /\ u[p].status = "PARENT"
  BY <1>3, RecordIs
<1>5. /\ Having(u, "DEALLOC") = ((Having(t, "DEALLOC") \ {p}) \cup {l}) \cup {r}
      /\ Having(u, "ALLOC") = Having(t, "ALLOC")
      /\ Having(u, "PARENT") = Having(t, "PARENT") \cup {p}
  BY <1>1, <1>2, <1>3, <1>4 DEF Having
<1>6. ASSUME Coalesced(t, {p}) PROVE Coalesced(u, {l})
  <2>1. SUFFICES ASSUME NEW f \in Having(u, "DEALLOC") \ {l}, u[f].buddy # NULL, u[f].buddy \notin {l}
                 PROVE  u[u[f].buddy].status # "DEALLOC"
    BY DEF Coalesced
  <2>2. f # r /\ f # p /\ f \in DOMAIN t /\ u[f] = t[f] /\ f \in Having(t, "DEALLOC") \ {p}
    BY <1>3, <1>4, <1>5, <2>1 DEF Having
  <2>3. t[f].buddy \in DOMAIN t
    BY <2>1, <2>2, BuddyOf
  <2>4. CASE t[f].buddy = p
    BY <1>4, <2>2, <2>4
  <2>5. CASE t[f].buddy # p
    <3>1. t[t[f].buddy].status # "DEALLOC"
      BY <1>6, <2>1, <2>2, <2>5 DEF Coalesced
    <3>. QED
      BY <1>3, <2>2, <2>3, <2>5, <3>1
  <2>. QED
    BY <2>4, <2>5
<1>. QED
  BY <1>5, <1>6 DEF l, r, SplitSets

BinsAfter(bins, B, u, i, p) ==
  /\ Binned(B, u) /\ B[i - 1] # <<>>
  /\ bins[i - 1] = <<>> => Head(B[i - 1]) = Left(p)
  /\ \A x \in 0 .. NumBins - 1 : x # i /\ x # i - 1 => B[x] = bins[x]

(* The lists after a split. *)
LEMMA SplitBins ==
  ASSUME NEW t, Struct(t, {}), NEW p \in DOMAIN t, t[p].status = "DEALLOC",
         NEW i \in 1 .. NumBins - 1, BinOf(p) = i,
         NEW u, SplitTo(t, u, p), NEW bins, Binned(bins, t), bins[i] # <<>>, p = Head(bins[i]),
         NEW B, SplitList(bins, B, i, p)
  PROVE  BinsAfter(bins, B, u, i, p)
<1> DEFINE l == Left(p)
           r == Right(p)
           s == bins[i - 1]
           s1 == Append(s, l)
           s2 == Append(s1, r)
           top == bins[i]
<1>0. NumBins \in Nat \ {0}
  BY FrameAssumption
<1>1. i \in 0 .. NumBins - 1 /\ i - 1 \in 0 .. NumBins - 1 /\ i # i - 1 /\ BinOf(p) > 0
  BY <1>0
<1>2. p \in FrameName /\ l \notin DOMAIN t /\ r \notin DOMAIN t
  BY <1>1, NewHalves
<1>3. l \in FrameName /\ r \in FrameName /\ l # r /\ BinOf(l) = i - 1 /\ BinOf(r) = i - 1
  BY <1>1, <1>2, HalvesAre
<1>4. Having(u, "DEALLOC") = ((Having(t, "DEALLOC") \ {p}) \cup {l}) \cup {r}
  <2>1. /\ Struct(t, {}) /\ p \in DOMAIN t /\ t[p].status = "DEALLOC" /\ BinOf(p) > 0
        /\ SplitTo(t, u, p)
    BY <1>1
  <2>2. SplitSets(t, u, p)
    BY ONLY <2>1, SplitHaving
  <2>. QED
    BY <2>2 DEF SplitSets
<1>5. /\ bins \in [0 .. NumBins - 1 -> Seq(FrameName)]
      /\ \A x \in 0 .. NumBins - 1 :
           NoneTwice(bins[x]) /\ Elems(bins[x]) = {f \in Having(t, "DEALLOC") : BinOf(f) = x}
  BY DEF Binned
<1>6. /\ s \in Seq(FrameName) /\ NoneTwice(s)
      /\ Elems(s) = {f \in Having(t, "DEALLOC") : BinOf(f) = i - 1}
      /\ top \in Seq(FrameName) /\ NoneTwice(top) /\ top # <<>> /\ p = Head(top)
      /\ Elems(top) = {f \in Having(t, "DEALLOC") : BinOf(f) = i}
  BY <1>1, <1>5
<1>7. /\ B \in [0 .. NumBins - 1 -> Seq(FrameName)] /\ B[i] = Tail(top) /\ B[i - 1] = s2
      /\ \A x \in 0 .. NumBins - 1 : x # i /\ x # i - 1 => B[x] = bins[x]
  <2> HIDE DEF l, r
  <2>1. s \o <<l, r>> = s2
    <3> HIDE DEF s
    <3>. QED
      BY <1>3, <1>6, ConcatTwo
  <2>2. s2 \in Seq(FrameName) /\ Tail(top) \in Seq(FrameName)
    <3> HIDE DEF s, top
    <3>. QED
      BY <1>3, <1>6
  <2>3. B = [bins EXCEPT ![i] = Tail(top), ![i - 1] = s2]
    <3>1. B = [bins EXCEPT ![i] = Tail(top), ![i - 1] = s \o <<l, r>>]
      BY <1>1, <1>5 DEF l, r, SplitList
    <3>. QED
      BY <2>1, <3>1
  <2> DEFINE Q == Seq(FrameName)
             I == 0 .. NumBins - 1
             v == Tail(top)
  <2>4. /\ bins \in [I -> Q] /\ i \in I /\ i - 1 \in I /\ i # i - 1 /\ s2 \in Q /\ v \in Q
        /\ B = [bins EXCEPT ![i] = v, ![i - 1] = s2]
    BY <1>1, <1>5, <2>2, <2>3
  <2> HIDE DEF s2, top, Q, I, v
  <2>5. /\ B \in [I -> Q] /\ B[i] = v /\ B[i - 1] = s2
        /\ \A x \in I : x # i /\ x # i - 1 => B[x] = bins[x]
    BY ONLY <2>4
  <2>. QED
    BY <2>5 DEF Q, I, v
<1> HIDE DEF l, r, s, s1, s2, top
<1>8. l \notin Having(t, "DEALLOC") /\ r \notin Having(t, "DEALLOC")
  BY <1>2 DEF Having
<1>9. s1 \in Seq(FrameName) /\ s1 # <<>> /\ Elems(s1) = Elems(s) \cup {l} /\ NoneTwice(s1)
      /\ (s = <<>> => Head(s1) = l)
  BY <1>3, <1>6, <1>8, AppendElems DEF s1
<1>10. s2 \in Seq(FrameName) /\ s2 # <<>> /\ Elems(s2) = Elems(s1) \cup {r} /\ NoneTwice(s2)
       /\ Head(s2) = Head(s1)
  BY <1>3, <1>6, <1>8, <1>9, AppendElems DEF s2
<1>11. Elems(Tail(top)) = Elems(top) \ {p} /\ NoneTwice(Tail(top))
  BY <1>6, TailElems
<1>12. ASSUME NEW x \in 0 .. NumBins - 1
       PROVE  NoneTwice(B[x]) /\ Elems(B[x]) = {f \in Having(u, "DEALLOC") : BinOf(f) = x}
  <2>1. CASE x = i
    BY <1>1, <1>3, <1>4, <1>6, <1>7, <1>11, <2>1
  <2>2. CASE x = i - 1
    <3>1. BinOf(p) # i - 1
      BY <1>1
    <3>. QED
      BY <1>3, <1>4, <1>6, <1>7, <1>9, <1>10, <2>2, <3>1
  <2>3. CASE x # i /\ x # i - 1
    BY <1>3, <1>4, <1>5, <1>7, <2>3
  <2>. QED
    BY <2>1, <2>2, <2>3
<1>13. Binned(B, u)
  BY <1>7, <1>12 DEF Binned
<1>. QED
  BY <1>7, <1>9, <1>10, <1>13 DEF l, s, BinsAfter

(* A step of the way down: the first frame of bin i is split, the bin      *)
(* below is empty, and its two halves are the only free buddies there are. *)
Going(m, i, A) ==
  /\ Sound(m, {}) /\ m.bins[i] # <<>> /\ Coalesced(m.frame, {Head(m.bins[i])})
  /\ m.allocated = A

(* One split keeps the manager sound, and passes the exception from the   *)
(* frame to its left half, which is now first in the bin below.            *)
LEMMA SplitSound ==
  ASSUME NEW m, NEW A, NEW i \in 1 .. NumBins - 1, Going(m, i, A), m.bins[i - 1] = <<>>
  PROVE  /\ Going(Split(m, i), i - 1, A)
         /\ \A x \in 0 .. NumBins - 1 : x # i /\ x # i - 1 => Split(m, i).bins[x] = m.bins[x]
<1> DEFINE p == Head(m.bins[i])
           l == Left(p)
           r == Right(p)
           c == Split(m, i)
           t == m.frame
           u == c.frame
           S == Having(t, "DEALLOC")
<1>0. Sound(m, {}) /\ m.bins[i] # <<>> /\ Coalesced(t, {p}) /\ m.allocated = A
  BY DEF Going
<1>1. i \in 0 .. NumBins - 1 /\ i - 1 \in 0 .. NumBins - 1 /\ i > 0
  BY FrameAssumption
<1>2. /\ p \in DOMAIN t /\ p \in FrameName /\ t[p].status = "DEALLOC" /\ BinOf(p) = i
      /\ p \in S /\ BinOf(p) > 0
  BY <1>0, <1>1, HeadOf
<1>x. SplitFrom(m, c, i, p)
  BY <1>0, SplitIs
<1>3. /\ IsManager(c) /\ IsFunction(u) /\ SplitTo(t, u, p) /\ SplitList(m.bins, c.bins, i, p)
      /\ c.deallocated = ht_put(ht_put(ht_remove(m.deallocated, Addr(p)), Addr(l), l), Addr(r), r)
      /\ c.allocated = m.allocated /\ c.parents = ht_put(m.parents, ParentKey(p), p)
  BY <1>x DEF SplitFrom
<1>4. /\ Struct(t, {}) /\ Binned(m.bins, t) /\ Pool(m.deallocated, S)
      /\ Pool(m.allocated, Having(t, "ALLOC") \ {}) /\ ParentPool(m.parents, Having(t, "PARENT"))
  BY <1>0 DEF Sound
<1> HIDE DEF c
<1>5. Struct(u, {})
  BY <1>2, <1>3, <1>4, SplitStruct
<1>6. SplitSets(t, u, p) /\ Coalesced(u, {l})
  BY <1>0, <1>2, <1>3, <1>4, SplitHaving
<1>7. /\ Binned(c.bins, u) /\ c.bins[i - 1] # <<>> /\ Head(c.bins[i - 1]) = l
      /\ \A x \in 0 .. NumBins - 1 : x # i /\ x # i - 1 => c.bins[x] = m.bins[x]
  <2> DEFINE bins == m.bins
             B == c.bins
  <2>1. /\ Struct(t, {}) /\ p \in DOMAIN t /\ t[p].status = "DEALLOC" /\ BinOf(p) = i
        /\ SplitTo(t, u, p) /\ Binned(bins, t) /\ bins[i] # <<>> /\ p = Head(bins[i])
        /\ SplitList(bins, B, i, p) /\ bins[i - 1] = <<>>
    BY <1>0, <1>2, <1>3, <1>4
  <2> HIDE DEF bins, B, t, u, p
  <2>2. BinsAfter(bins, B, u, i, p)
    BY ONLY <2>1, SplitBins, i \in 1 .. NumBins - 1
  <2>. QED
    BY <2>1, <2>2 DEF bins, B, BinsAfter
<1>8. Pool(c.deallocated, Having(u, "DEALLOC"))
  <2> DEFINE S0 == S \ {p}
             S1 == S0 \cup {l}
             T0 == ht_remove(m.deallocated, Addr(p))
             T1 == ht_put(T0, Addr(l), l)
  <2>1. Having(u, "DEALLOC") = S1 \cup {r}
    BY <1>6 DEF SplitSets
  <2>2. l # r /\ l \notin S0 /\ r \notin S0
    <3>1. l \notin DOMAIN t /\ r \notin DOMAIN t
      BY <1>2, <1>4, NewHalves
    <3>. QED
      BY <1>2, <3>1, HalvesAre DEF Having
  <2>3. Pool(T0, S0)
    BY <1>2, <1>4, PoolRemove
  <2> HIDE DEF t, u, p, l, r, S, T0
  <2>4. \A f, g \in Having(u, "DEALLOC") : f # g => Addr(f) # Addr(g)
    BY <1>5, LeavesApart DEF Having
  <2>5. \A g \in S0 : Addr(g) # Addr(l)
    BY <2>1, <2>2, <2>4
  <2>6. \A g \in S1 : Addr(g) # Addr(r)
    BY <2>1, <2>2, <2>4
  <2> HIDE DEF S0
  <2>7. Pool(T1, S1)
    BY <2>3, <2>5, PoolPut
  <2> HIDE DEF T1, S1
  <2>8. Pool(ht_put(T1, Addr(r), r), S1 \cup {r})
    BY <2>6, <2>7, PoolPut
  <2>. QED
    BY <1>3, <2>1, <2>8 DEF T1, T0
<1>9. Pool(c.allocated, Having(u, "ALLOC") \ {})
  BY <1>3, <1>4, <1>6 DEF SplitSets
<1>10. ParentPool(c.parents, Having(u, "PARENT"))
  <2>1. Having(t, "PARENT") \in SUBSET FrameName /\ p \in FrameName \ Having(t, "PARENT")
    BY <1>2, <1>4 DEF Having, Struct, Typed
  <2>2. ParentPool(ht_put(m.parents, ParentKey(p), p), Having(t, "PARENT") \cup {p})
    BY <1>4, <2>1, ParentPut
  <2>. QED
    BY <1>3, <1>6, <2>2 DEF SplitSets
<1>11. Sound(c, {})
  BY <1>3, <1>5, <1>7, <1>8, <1>9, <1>10 DEF Sound
<1>12. Going(c, i - 1, A)
  BY <1>0, <1>3, <1>6, <1>7, <1>11 DEF Going
<1>. QED
  BY <1>7, <1>12 DEF c

(* All the way down from the nearest bin with a frame to bin j. *)
LEMMA SplitChain ==
  ASSUME NEW m, NEW A, NEW j \in 0 .. NumBins - 1, NEW top \in 0 .. NumBins - 1, j < top,
         top = NearestBin(m, j + 1), Going(m, top, A),
         \A x \in j .. top - 1 : m.bins[x] = <<>>
  PROVE  Going(request_split(m, j + 1), j, A)
<1> DEFINE n == top - (j + 1) + 1
           Rec(s) == s = [k \in 0 .. n |-> IF k = 0 THEN m ELSE Split(s[k - 1], top - k + 1)]
           Part(s, e) == s = [k \in 0 .. e |-> IF k = 0 THEN m ELSE Split(s[k - 1], top - k + 1)]
           E == {e \in 0 .. n : \E s : Part(s, e)}
<1>0. NumBins \in Nat /\ n \in Nat /\ n = top - j
  BY FrameAssumption
<1>1. 0 \in E
  <2> DEFINE s == [k \in 0 .. 0 |-> m]
  <2>1. Part(s, 0)
    OBVIOUS
  <2> HIDE DEF s, Part
  <2>. QED
    BY <1>0, <2>1
<1>2. ASSUME NEW e \in 1 .. n, e - 1 \in E PROVE e \in E
  <2>1. PICK s : Part(s, e - 1)
    BY <1>2
  <2> DEFINE v == Split(s[e - 1], top - e + 1)
             r == [k \in 0 .. e |-> IF k = e THEN v ELSE s[k]]
  <2>0. e \in Nat \ {0}
    BY <1>0
  <2>2. \A k \in 0 .. e - 1 : s[k] = IF k = 0 THEN m ELSE Split(s[k - 1], top - k + 1)
    BY <2>1
  <2>3. ASSUME NEW k \in 0 .. e PROVE r[k] = IF k = 0 THEN m ELSE Split(r[k - 1], top - k + 1)
    <3>1. CASE k = e
      <4>1. e - 1 \in 0 .. e /\ e - 1 # e /\ e # 0
        BY <2>0
      <4> HIDE DEF v
      <4>2. r[e - 1] = s[e - 1] /\ r[e] = v
        BY <2>0, <4>1
      <4>3. v = Split(s[e - 1], top - e + 1)
        BY DEF v
      <4> HIDE DEF r
      <4>. QED
        BY <3>1, <4>1, <4>2, <4>3
    <3>2. CASE k # e
      <4>1. k \in 0 .. e - 1
        BY <2>0, <3>2
      <4>2. k = 0 \/ (k - 1 \in 0 .. e /\ k - 1 # e)
        BY <2>0
      <4> HIDE DEF v
      <4>3. r[k] = s[k] /\ (k # 0 => r[k - 1] = s[k - 1])
        BY <3>2, <4>2
      <4> HIDE DEF r
      <4>. QED
        BY <2>2, <4>1, <4>3
    <3>. QED
      BY <3>1, <3>2
  <2>4. Part(r, e)
    <3> HIDE DEF v
    <3>1. r = [k \in 0 .. e |-> r[k]]
      OBVIOUS
    <3> HIDE DEF r
    <3>. QED
      BY <2>3, <3>1
  <2> HIDE DEF r, Part
  <2>. QED
    BY <1>0, <2>4
<1>3. n \in E
  <2>1. E \in SUBSET (0 .. n)
    OBVIOUS
  <2> HIDE DEF E, n
  <2>2. \A k \in 0 .. n : k \in E
    BY <1>0, <1>1, <1>2, <2>1, UpTo
  <2>. QED
    BY <1>0, <2>2
<1>4. \E s : Rec(s)
  BY <1>3
<1> DEFINE s == CHOOSE r : Rec(r)
<1>5. request_split(m, j + 1) = s[n]
  BY DEF request_split
<1>6. Rec(s)
  <2> HIDE DEF Rec
  <2>. QED
    BY <1>4
<1> HIDE DEF s
<1>7. \A k \in 0 .. n : s[k] = IF k = 0 THEN m ELSE Split(s[k - 1], top - k + 1)
  <2> HIDE DEF n
  <2>. QED
    BY <1>6
<1> HIDE DEF Rec, n
<1> DEFINE Step(c, k) == Going(c, top - k, A) /\ \A x \in j .. (top - k) - 1 : c.bins[x] = <<>>
           G == {k \in 0 .. n : Step(s[k], k)}
<1>8. 0 \in G
  <2>1. s[0] = m /\ top - 0 = top
    BY <1>0, <1>7
  <2>. QED
    BY <1>0, <2>1
<1>9. ASSUME NEW k \in 1 .. n, k - 1 \in G PROVE k \in G
  <2> DEFINE c == s[k - 1]
             i == (top - k) + 1
  <2>1. s[k] = Split(c, i)
    <3>1. k \in 0 .. n /\ k # 0 /\ top - k + 1 = i
      BY <1>0
    <3>. QED
      BY <1>7, <3>1
  <2>2. /\ i \in 1 .. NumBins - 1 /\ top - (k - 1) = i /\ i - 1 = top - k /\ i - 1 \in j .. i - 1
        /\ k \in 0 .. n
    BY <1>0
  <2>3. Going(c, i, A) /\ \A x \in j .. i - 1 : c.bins[x] = <<>>
    BY <1>9, <2>2
  <2> HIDE DEF c, i
  <2>4. c.bins[i - 1] = <<>>
    BY <2>2, <2>3
  <2>5. /\ Going(Split(c, i), i - 1, A)
        /\ \A x \in 0 .. NumBins - 1 : x # i /\ x # i - 1 => Split(c, i).bins[x] = c.bins[x]
    BY <2>2, <2>3, <2>4, SplitSound
  <2>6. \A x \in j .. (i - 1) - 1 : x \in 0 .. NumBins - 1 /\ x # i /\ x # i - 1 /\ x \in j .. i - 1
    BY <1>0, <2>2
  <2>7. \A x \in j .. (i - 1) - 1 : Split(c, i).bins[x] = <<>>
    BY <2>3, <2>5, <2>6
  <2>. QED
    BY <2>1, <2>2, <2>5, <2>7
<1>10. n \in G
  <2>1. G \in SUBSET (0 .. n)
    OBVIOUS
  <2> HIDE DEF G
  <2>2. \A k \in 0 .. n : k \in G
    BY <1>0, <1>8, <1>9, <2>1, UpTo
  <2>. QED
    BY <1>0, <2>2
<1>11. Going(s[n], top - n, A) /\ top - n = j
  BY <1>0, <1>10
<1>. QED
  BY <1>5, <1>11

(* The nearest bin is the first with a frame. *)
LEMMA Nearest ==
  ASSUME NEW m, NEW i \in 0 .. NumBins
  PROVE  /\ NearestBin(m, i) \in i .. NumBins
         /\ \A x \in i .. NearestBin(m, i) - 1 : m.bins[x] = <<>>
         /\ NearestBin(m, i) = NumBins \/ m.bins[NearestBin(m, i)] # <<>>
<1> DEFINE P(k) == /\ \A x \in i .. k - 1 : m.bins[x] = <<>>
                   /\ k = NumBins \/ m.bins[k] # <<>>
           S == {k \in i .. NumBins : k = NumBins \/ m.bins[k] # <<>>}
<1>0. NumBins \in Nat
  BY FrameAssumption
<1>1. PICK a \in S : \A x \in S : a <= x
  <2>1. S \in SUBSET Nat /\ S # {}
    BY <1>0
  <2> HIDE DEF S
  <2>. QED
    BY <2>1, Least
<1>2. a \in i .. NumBins /\ P(a)
  <2>1. ASSUME NEW x \in i .. a - 1 PROVE m.bins[x] = <<>>
    <3>1. x \in i .. NumBins /\ x # NumBins /\ ~(a <= x)
      BY <1>0, <1>1
    <3>. QED
      BY <1>1, <3>1
  <2>. QED
    BY <1>1, <2>1
<1>3. NearestBin(m, i) = CHOOSE k \in i .. NumBins : P(k)
  BY DEF NearestBin
<1> HIDE DEF P
<1>4. NearestBin(m, i) \in i .. NumBins /\ P(NearestBin(m, i))
  BY <1>2, <1>3
<1>. QED
  BY <1>4 DEF P

(* A request that is not too large has a bin of frames large enough. *)
LEMMA BinIs ==
  ASSUME NEW n \in Nat, n <= TWO_POW(NumBins - 1)
  PROVE  BinFor(n) \in 0 .. NumBins - 1 /\ n <= TWO_POW(BinFor(n))
<1> DEFINE P(j) == n <= TWO_POW(j) /\ (j > 0 => n > TWO_POW(j - 1))
           S == {j \in 0 .. NumBins - 1 : n <= TWO_POW(j)}
<1>0. NumBins \in Nat \ {0} /\ \A i \in 0 .. NumBins - 1 : TWO_POW(i) \in Nat
  BY FrameAssumption, Powers
<1>1. PICK a \in S : \A x \in S : a <= x
  <2>1. S \in SUBSET Nat /\ S # {}
    BY <1>0
  <2> HIDE DEF S
  <2>. QED
    BY <2>1, Least
<1>2. a \in 0 .. NumBins - 1 /\ P(a)
  <2>1. ASSUME a > 0 PROVE n > TWO_POW(a - 1)
    <3>1. a - 1 \in 0 .. NumBins - 1 /\ ~(a <= a - 1)
      BY <1>0, <1>1, <2>1
    <3>2. ~(n <= TWO_POW(a - 1))
      BY <1>1, <3>1
    <3>. QED
      BY <1>0, <3>1, <3>2
  <2>. QED
    BY <1>1, <2>1
<1>3. BinFor(n) = CHOOSE j \in 0 .. NumBins - 1 : P(j)
  BY DEF BinFor
<1> HIDE DEF P
<1>4. BinFor(n) \in 0 .. NumBins - 1 /\ P(BinFor(n))
  BY <1>2, <1>3
<1>. QED
  BY <1>4 DEF P

-----------------------------------------------------------------------------
(* Taking the first frame of a bin. *)

TakenFrom(m, c, j, f) ==
  /\ IsManager(c) /\ IsFunction(c.frame) /\ StatusTo(m.frame, c.frame, f, "ALLOC")
  /\ c.bins = [m.bins EXCEPT ![j] = Tail(@)]
  /\ c.deallocated = ht_remove(m.deallocated, Addr(f))
  /\ c.allocated = ht_put(m.allocated, Addr(f), f)
  /\ c.parents = m.parents

(* The effect of a change of status on the frames. *)
LEMMA StatusIs ==
  ASSUME NEW t, Typed(t), NEW x \in DOMAIN t, NEW s
  PROVE  /\ IsFunction([t EXCEPT ![x].status = s])
         /\ StatusTo(t, [t EXCEPT ![x].status = s], x, s)
<1> DEFINE u == [t EXCEPT ![x].status = s]
<1>1. /\ IsFunction(u) /\ DOMAIN u = DOMAIN t /\ \A f \in DOMAIN t \ {x} : u[f] = t[f]
      /\ u[x] = [t[x] EXCEPT !.status = s]
  BY DEF Typed, IsFunction
<1> HIDE DEF u
<1>2. t[x] \in FrameRec
  BY RecordOf
<1>3. u[x] = frame_init(s, t[x].buddy, t[x].parent)
  BY <1>1, <1>2 DEF FrameRec, frame_init
<1>4. IsFunction(u) /\ StatusTo(t, u, x, s)
  BY <1>1, <1>3 DEF StatusTo
<1>. QED
  BY <1>4 DEF u

(* What Take does to each part of the manager. *)
LEMMA TakeIs ==
  ASSUME NEW m, Sound(m, {}), NEW j \in 0 .. NumBins - 1, m.bins[j] # <<>>,
         NEW f, f = Head(m.bins[j])
  PROVE  TakenFrom(m, Take(m, j), j, f)
<1> DEFINE F == [m.frame EXCEPT ![f].status = "ALLOC"]
           B == [m.bins EXCEPT ![j] = Tail(@)]
           A == ht_remove(m.deallocated, Addr(f))
           C == ht_put(m.allocated, Addr(f), f)
           c == Take(m, j)
<1>1. f \in DOMAIN m.frame /\ Typed(m.frame)
  BY HeadOf DEF Sound, Struct
<1>2. m = [frame |-> m.frame, bins |-> m.bins, deallocated |-> m.deallocated,
           allocated |-> m.allocated, parents |-> m.parents]
  BY DEF Sound, IsManager
<1>3. c = [m EXCEPT !.bins[j] = Tail(@), !.deallocated = ht_remove(@, Addr(f)),
                    !.allocated = ht_put(@, Addr(f), f), !.frame[f].status = "ALLOC"]
  BY DEF Take
<1>4. c = [frame |-> F, bins |-> B, deallocated |-> A, allocated |-> C, parents |-> m.parents]
  <2> HIDE DEF c
  <2>. QED
    BY <1>2, <1>3
<1>5. IsFunction(F) /\ StatusTo(m.frame, F, f, "ALLOC")
  <2> DEFINE t == m.frame
  <2> HIDE DEF t
  <2>1. IsFunction([t EXCEPT ![f].status = "ALLOC"])
        /\ StatusTo(t, [t EXCEPT ![f].status = "ALLOC"], f, "ALLOC")
    BY <1>1, StatusIs DEF t
  <2>. QED
    BY <2>1 DEF t
<1> HIDE DEF F, B, A, C, c
<1>6. /\ c.frame = F /\ c.bins = B /\ c.deallocated = A /\ c.allocated = C
      /\ c.parents = m.parents
  BY <1>4
<1>7. IsManager(c)
  BY <1>4, <1>6 DEF IsManager
<1>. QED
  BY <1>5, <1>6, <1>7 DEF TakenFrom, c, A, B, C

(* The frames of each status after a change of one. *)
StatusSets(t, u, x, s) ==
  /\ Having(u, s) = Having(t, s) \cup {x}
  /\ \A o \in {"DEALLOC", "ALLOC", "PARENT"} \ {s} : Having(u, o) = Having(t, o) \ {x}

(* Only the frame whose status changes goes from one set to another. *)
LEMMA StatusHaving ==
  ASSUME NEW t, Typed(t), NEW x \in DOMAIN t, NEW s \in {"DEALLOC", "ALLOC", "PARENT"},
         NEW u, IsFunction(u), StatusTo(t, u, x, s)
  PROVE  StatusSets(t, u, x, s)
<1>1. /\ DOMAIN u = DOMAIN t /\ u[x].status = s
      /\ \A f \in DOMAIN t \ {x} : u[f].status = t[f].status
  BY StatusTyped
<1>2. ASSUME NEW o PROVE Having(u, o) = IF o = s THEN Having(t, o) \cup {x} ELSE Having(t, o) \ {x}
  BY <1>1 DEF Having
<1>. QED
  BY <1>2 DEF StatusSets

(* One list changes, and the free frames of the other bins stay. *)
LEMMA BinChange ==
  ASSUME NEW t, NEW u, NEW bins, Binned(bins, t), NEW j \in 0 .. NumBins - 1,
         NEW v \in Seq(FrameName), NoneTwice(v),
         Elems(v) = {g \in Having(u, "DEALLOC") : BinOf(g) = j},
         \A g : BinOf(g) # j => (g \in Having(u, "DEALLOC") <=> g \in Having(t, "DEALLOC"))
  PROVE  Binned([bins EXCEPT ![j] = v], u)
<1> DEFINE B == [bins EXCEPT ![j] = v]
<1>1. /\ bins \in [0 .. NumBins - 1 -> Seq(FrameName)]
      /\ \A x \in 0 .. NumBins - 1 :
           NoneTwice(bins[x]) /\ Elems(bins[x]) = {f \in Having(t, "DEALLOC") : BinOf(f) = x}
  BY DEF Binned
<1>2. /\ B \in [0 .. NumBins - 1 -> Seq(FrameName)] /\ B[j] = v
      /\ \A x \in 0 .. NumBins - 1 : x # j => B[x] = bins[x]
  <2> DEFINE Q == Seq(FrameName)
             I == 0 .. NumBins - 1
  <2>1. bins \in [I -> Q] /\ v \in Q /\ j \in I
    BY <1>1
  <2> HIDE DEF Q, I
  <2>2. B \in [I -> Q] /\ B[j] = v /\ \A x \in I : x # j => B[x] = bins[x]
    BY ONLY <2>1
  <2>. QED
    BY <2>2 DEF Q, I
<1> HIDE DEF B
<1>3. ASSUME NEW x \in 0 .. NumBins - 1
      PROVE  NoneTwice(B[x]) /\ Elems(B[x]) = {f \in Having(u, "DEALLOC") : BinOf(f) = x}
  <2>1. CASE x = j
    BY <1>2, <2>1
  <2>2. CASE x # j
    <3>1. {f \in Having(u, "DEALLOC") : BinOf(f) = x} = {f \in Having(t, "DEALLOC") : BinOf(f) = x}
      BY <2>2
    <3>. QED
      BY <1>1, <1>2, <2>2, <3>1
  <2>. QED
    BY <2>1, <2>2
<1>4. Binned(B, u)
  BY <1>2, <1>3 DEF Binned
<1>. QED
  BY <1>4 DEF B

(* The frame is taken out of its bin and of the table of free frames, and  *)
(* put into that of the allocated ones, where nobody has its address.      *)
LEMMA TakeSound ==
  ASSUME NEW m, NEW A, NEW j \in 0 .. NumBins - 1, Going(m, j, A),
         NEW f, f = Head(m.bins[j])
  PROVE  /\ Sound(Take(m, j), {}) /\ Coalesced(Take(m, j).frame, {})
         /\ Take(m, j).allocated = With(A, Addr(f), f)
         /\ f \in Having(m.frame, "DEALLOC") /\ BinOf(f) = j /\ Addr(f) \notin DOMAIN A
<1> DEFINE c == Take(m, j)
           t == m.frame
           u == c.frame
<1>0. Sound(m, {}) /\ m.bins[j] # <<>> /\ Coalesced(t, {f}) /\ m.allocated = A
  BY DEF Going
<1>1. /\ f \in DOMAIN t /\ f \in FrameName /\ t[f].status = "DEALLOC" /\ BinOf(f) = j
      /\ f \in Having(t, "DEALLOC")
  BY <1>0, HeadOf
<1>2. /\ IsManager(c) /\ IsFunction(u) /\ StatusTo(t, u, f, "ALLOC")
      /\ c.bins = [m.bins EXCEPT ![j] = Tail(@)]
      /\ c.deallocated = ht_remove(m.deallocated, Addr(f))
      /\ c.allocated = ht_put(m.allocated, Addr(f), f)
      /\ c.parents = m.parents
  <2>1. TakenFrom(m, c, j, f)
    BY <1>0, TakeIs
  <2>. QED
    BY <2>1 DEF TakenFrom
<1>3. /\ Struct(t, {}) /\ Binned(m.bins, t) /\ Pool(m.deallocated, Having(t, "DEALLOC"))
      /\ Pool(m.allocated, Having(t, "ALLOC") \ {}) /\ ParentPool(m.parents, Having(t, "PARENT"))
      /\ Typed(t)
  BY <1>0 DEF Sound, Struct
<1> HIDE DEF c
<1>4. Struct(u, {})
  BY <1>1, <1>2, <1>3, TakeStruct
<1>5. /\ Having(u, "ALLOC") = Having(t, "ALLOC") \cup {f}
      /\ Having(u, "DEALLOC") = Having(t, "DEALLOC") \ {f}
      /\ Having(u, "PARENT") = Having(t, "PARENT")
  <2>1. StatusSets(t, u, f, "ALLOC")
    BY <1>1, <1>2, <1>3, StatusHaving
  <2>2. f \notin Having(t, "PARENT")
    BY <1>1 DEF Having
  <2>. QED
    BY <2>1, <2>2 DEF StatusSets
<1>6. Binned(c.bins, u)
  <2> DEFINE s == m.bins[j]
             bins == m.bins
  <2>1. s \in Seq(FrameName) /\ NoneTwice(s) /\ s # <<>>
        /\ Elems(s) = {g \in Having(t, "DEALLOC") : BinOf(g) = j}
    BY <1>0, <1>3 DEF Binned
  <2> HIDE DEF s
  <2>2. Tail(s) \in Seq(FrameName) /\ Elems(Tail(s)) = Elems(s) \ {Head(s)} /\ NoneTwice(Tail(s))
    BY <2>1, TailElems
  <2>3. Elems(Tail(s)) = {g \in Having(u, "DEALLOC") : BinOf(g) = j}
    BY <1>5, <2>1, <2>2 DEF s
  <2>4. \A g : BinOf(g) # j => (g \in Having(u, "DEALLOC") <=> g \in Having(t, "DEALLOC"))
    BY <1>1, <1>5
  <2>5. Binned(bins, t) /\ c.bins = [bins EXCEPT ![j] = Tail(s)]
    BY <1>2, <1>3 DEF s
  <2> HIDE DEF bins
  <2>6. Binned([bins EXCEPT ![j] = Tail(s)], u)
    BY <2>2, <2>3, <2>4, <2>5, BinChange
  <2>. QED
    BY <2>5, <2>6
<1>7. Pool(c.deallocated, Having(u, "DEALLOC"))
  BY <1>1, <1>2, <1>3, <1>5, PoolRemove
<1>8. /\ Pool(c.allocated, Having(u, "ALLOC") \ {}) /\ c.allocated = With(A, Addr(f), f)
      /\ Addr(f) \notin DOMAIN A
  <2>1. \A g \in Having(t, "ALLOC") : Addr(g) # Addr(f)
    <3>1. \A g \in Having(t, "ALLOC") : g \in DOMAIN t /\ t[g].status # "PARENT" /\ g # f
      BY <1>1 DEF Having
    <3>. QED
      BY <1>1, <1>3, <3>1, LeavesApart
  <2>2. Pool(m.allocated, Having(t, "ALLOC"))
    BY <1>3
  <2>3. /\ Pool(ht_put(m.allocated, Addr(f), f), Having(t, "ALLOC") \cup {f})
        /\ ht_put(m.allocated, Addr(f), f) = With(m.allocated, Addr(f), f)
    BY <2>1, <2>2, PoolPut
  <2>4. DOMAIN m.allocated = {Addr(g) : g \in Having(t, "ALLOC")}
    BY <2>2, PoolIs
  <2>5. Addr(f) \notin DOMAIN m.allocated
    BY <2>1, <2>4
  <2>. QED
    BY <1>0, <1>2, <1>5, <2>3, <2>5
<1>9. ParentPool(c.parents, Having(u, "PARENT"))
  BY <1>2, <1>3, <1>5
<1>10. Sound(c, {})
  BY <1>2, <1>4, <1>6, <1>7, <1>8, <1>9 DEF Sound
<1>11. Coalesced(u, {})
  <2>0. /\ u[f].status = "ALLOC"
        /\ \A g \in DOMAIN t : u[g].buddy = t[g].buddy
        /\ \A g \in DOMAIN t \ {f} : u[g].status = t[g].status
    BY <1>1, <1>2, <1>3, StatusTyped
  <2>1. SUFFICES ASSUME NEW g \in Having(u, "DEALLOC"), u[g].buddy # NULL
                 PROVE  u[u[g].buddy].status # "DEALLOC"
    BY DEF Coalesced
  <2>2. g \in Having(t, "DEALLOC") \ {f} /\ g \in DOMAIN t /\ u[g].buddy = t[g].buddy
    BY <1>5, <2>0 DEF Having
  <2>3. t[g].buddy \in DOMAIN t
    BY <1>3, <2>1, <2>2, BuddyOf
  <2>4. CASE t[g].buddy = f
    BY <2>0, <2>2, <2>4
  <2>5. CASE t[g].buddy # f
    <3>1. t[t[g].buddy].status # "DEALLOC"
      BY <1>0, <2>1, <2>2, <2>5 DEF Coalesced
    <3>. QED
      BY <2>0, <2>2, <2>3, <2>5, <3>1
  <2>. QED
    BY <2>4, <2>5
<1>. QED
  BY <1>1, <1>8, <1>10, <1>11 DEF c

(* What an allocation does: a frame as large as was asked for, at an       *)
(* address that no allocated frame has.                                    *)
Granted(n, f) ==
  /\ f \in FrameName /\ n <= Size(f)
  /\ Addr(f) \notin DOMAIN fm.allocated
  /\ fm'.allocated = With(fm.allocated, Addr(f), f)
  /\ f \in Having(fm'.frame, "ALLOC")
  /\ Inv'

(* fm_alloc, whether a frame is split or not, keeps the invariant and      *)
(* grants such a frame.                                                    *)
LEMMA AllocSound ==
  ASSUME Inv, NEW n \in 1 .. MaxRequest, fm_alloc(n)
  PROVE  \E f : Granted(n, f)
<1> DEFINE j == BinFor(n)
           A == fm.allocated
           m == IF fm.bins[j] = <<>> THEN request_split(fm, j + 1) ELSE fm
<1>0. NumBins \in Nat \ {0} /\ MaxRequest \in Nat
  BY FrameAssumption
<1>1. /\ n \in Nat /\ n <= TWO_POW(NumBins - 1) /\ NearestBin(fm, j) < NumBins
      /\ fm' = Take(m, j)
  <2>1. NumBins - 1 \in 0 .. NumBins
    BY <1>0
  <2>2. TWO_POW(NumBins - 1) \in Nat
    BY <2>1, Powers
  <2>3. n \in 1 .. TWO_POW(NumBins - 1) /\ NearestBin(fm, j) < NumBins /\ fm' = Take(m, j)
    BY DEF fm_alloc, Satisfiable
  <2>. QED
    BY <1>0, <2>2, <2>3
<1>2. j \in 0 .. NumBins - 1 /\ n <= TWO_POW(j)
  BY <1>1, BinIs
<1> HIDE DEF j
<1>3. Sound(fm, {}) /\ Coalesced(fm.frame, {})
  BY DEF Inv
<1>4. \A S : Coalesced(fm.frame, S)
  BY <1>3 DEF Coalesced
<1>5. Going(m, j, A)
  <2>1. CASE fm.bins[j] # <<>>
    BY <1>3, <1>4, <2>1 DEF Going
  <2>2. CASE fm.bins[j] = <<>>
    <3> DEFINE k == NearestBin(fm, j)
               top == NearestBin(fm, j + 1)
    <3>1. j \in 0 .. NumBins /\ j + 1 \in 0 .. NumBins
      BY <1>0, <1>2
    <3>2. k \in j .. NumBins /\ k < NumBins /\ (k = NumBins \/ fm.bins[k] # <<>>)
      BY <1>1, <3>1, Nearest
    <3>3. /\ top \in j + 1 .. NumBins /\ (top = NumBins \/ fm.bins[top] # <<>>)
          /\ \A x \in j + 1 .. top - 1 : fm.bins[x] = <<>>
      BY <3>1, Nearest
    <3> HIDE DEF k, top
    <3>4. k # j /\ fm.bins[k] # <<>> /\ k \in j + 1 .. NumBins - 1
      BY <1>0, <1>2, <2>2, <3>2
    <3>5. ~(k \in j + 1 .. top - 1)
      BY <3>3, <3>4
    <3>6. top <= k
      BY <1>0, <1>2, <3>3, <3>4, <3>5
    <3>7. top \in 0 .. NumBins - 1 /\ j < top /\ fm.bins[top] # <<>>
      BY <1>0, <1>2, <3>3, <3>4, <3>6
    <3>8. \A x \in j .. top - 1 : x = j \/ x \in j + 1 .. top - 1
      BY <1>0, <1>2, <3>3
    <3>9. \A x \in j .. top - 1 : fm.bins[x] = <<>>
      BY <2>2, <3>3, <3>8
    <3>10. Going(fm, top, A)
      BY <1>3, <1>4, <3>7 DEF Going
    <3>11. top = NearestBin(fm, j + 1)
      BY DEF top
    <3>12. Going(request_split(fm, j + 1), j, A)
      BY <1>2, <3>7, <3>9, <3>10, <3>11, SplitChain
    <3>. QED
      BY <2>2, <3>12
  <2>. QED
    BY <2>1, <2>2
<1> HIDE DEF m
<1> DEFINE f == Head(m.bins[j])
<1>6. /\ Sound(Take(m, j), {}) /\ Coalesced(Take(m, j).frame, {})
      /\ Take(m, j).allocated = With(A, Addr(f), f)
      /\ f \in Having(m.frame, "DEALLOC") /\ BinOf(f) = j /\ Addr(f) \notin DOMAIN A
  BY <1>2, <1>5, TakeSound
<1>7. Inv'
  BY <1>1, <1>6 DEF Inv
<1>8. n <= Size(f)
  BY <1>2, <1>6 DEF Size
<1>9. f \in Having(fm'.frame, "ALLOC") /\ f \in FrameName
  <2>1. Sound(m, {}) /\ m.bins[j] # <<>>
    BY <1>5 DEF Going
  <2>2. TakenFrom(m, Take(m, j), j, f) /\ f \in DOMAIN m.frame /\ f \in FrameName
    BY <1>2, <2>1, TakeIs, HeadOf
  <2>3. StatusTo(m.frame, fm'.frame, f, "ALLOC")
    BY <1>1, <2>2 DEF TakenFrom
  <2>. QED
    BY <2>2, <2>3, RecordIs DEF StatusTo, Having
<1>10. Granted(n, f)
  BY <1>1, <1>6, <1>7, <1>8, <1>9 DEF Granted
<1>. QED
  BY <1>10

-----------------------------------------------------------------------------
(* Freeing a frame and joining it with its buddy. *)

(* x is being freed, and A are the other allocated frames. *)
Joining(m, x, A) ==
  Sound(m, {x}) /\ x \in DOMAIN m.frame /\ Coalesced(m.frame, {}) /\ m.allocated = A

DestroyedFrom(m, c, x, b) ==
  /\ IsManager(c) /\ IsFunction(c.frame) /\ DroppedTo(m.frame, c.frame, x, b)
  /\ c.bins = [m.bins EXCEPT ![BinOf(b)] = Unlinked(@, b)]
  /\ c.deallocated = ht_remove(m.deallocated, Addr(b))
  /\ c.allocated = m.allocated
  /\ c.parents = ht_remove(m.parents, ParentKey(x))

(* What DestroyPair does to each part of the manager. *)
LEMMA DestroyIs ==
  ASSUME NEW m, IsManager(m), NEW x, NEW b, b = m.frame[x].buddy
  PROVE  DestroyedFrom(m, DestroyPair(m, x), x, b)
<1> DEFINE F == Without(m.frame, {x, b})
           B == [m.bins EXCEPT ![BinOf(b)] = Unlinked(@, b)]
           A == ht_remove(m.deallocated, Addr(b))
           P == ht_remove(m.parents, ParentKey(x))
           c == DestroyPair(m, x)
<1>1. m = [frame |-> m.frame, bins |-> m.bins, deallocated |-> m.deallocated,
           allocated |-> m.allocated, parents |-> m.parents]
  BY DEF IsManager
<1>2. c = [m EXCEPT !.deallocated = ht_remove(@, Addr(b)), !.parents = ht_remove(@, ParentKey(x)),
                    !.bins[BinOf(b)] = Unlinked(@, b), !.frame = Without(@, {x, b})]
  BY DEF DestroyPair
<1>3. c = [frame |-> F, bins |-> B, deallocated |-> A, allocated |-> m.allocated, parents |-> P]
  <2> HIDE DEF c
  <2>. QED
    BY <1>1, <1>2
<1>4. IsFunction(F) /\ DroppedTo(m.frame, F, x, b)
  BY DEF Without, IsFunction, DroppedTo
<1> HIDE DEF F, B, A, P, c
<1>5. /\ c.frame = F /\ c.bins = B /\ c.deallocated = A /\ c.allocated = m.allocated
      /\ c.parents = P
  BY <1>3
<1>6. IsManager(c)
  BY <1>3, <1>5 DEF IsManager
<1>. QED
  BY <1>4, <1>5, <1>6 DEF DestroyedFrom, c, A, B, P

(* The pair is destroyed, and the parent is being freed. *)
LEMMA DestroySound ==
  ASSUME NEW m, NEW x, NEW A, Joining(m, x, A), HasFreeBuddy(m, x)
  PROVE  /\ Joining(DestroyPair(m, x), m.frame[x].parent, A)
         /\ BinOf(m.frame[x].parent) = BinOf(x) + 1
<1> DEFINE t == m.frame
           b == t[x].buddy
           p == t[x].parent
           c == DestroyPair(m, x)
           u == c.frame
<1>0. Sound(m, {x}) /\ x \in DOMAIN t /\ Coalesced(t, {}) /\ m.allocated = A
  BY DEF Joining
<1>1. b # NULL /\ t[b].status = "DEALLOC"
  BY DEF HasFreeBuddy
<1>2. /\ IsManager(m) /\ Struct(t, {x}) /\ Binned(m.bins, t)
      /\ Pool(m.deallocated, Having(t, "DEALLOC"))
      /\ Pool(m.allocated, Having(t, "ALLOC") \ {x}) /\ ParentPool(m.parents, Having(t, "PARENT"))
      /\ Typed(t) /\ t[x].status # "DEALLOC"
  BY <1>0 DEF Sound, Struct, Holed
<1>3. /\ IsManager(c) /\ IsFunction(u) /\ DroppedTo(t, u, x, b)
      /\ c.bins = [m.bins EXCEPT ![BinOf(b)] = Unlinked(@, b)]
      /\ c.deallocated = ht_remove(m.deallocated, Addr(b))
      /\ c.allocated = m.allocated /\ c.parents = ht_remove(m.parents, ParentKey(x))
  <2>1. DestroyedFrom(m, c, x, b)
    BY <1>2, DestroyIs
  <2>. QED
    BY <2>1 DEF DestroyedFrom
<1>4. /\ p \in DOMAIN t /\ t[p].status = "PARENT" /\ b \in DOMAIN t /\ x # b /\ x # p /\ b # p
      /\ BinOf(x) = BinOf(p) - 1 /\ BinOf(b) = BinOf(x)
  BY <1>0, <1>1, <1>2, BuddyOf
<1>5. p \in FrameName /\ x \in FrameName /\ b \in FrameName /\ BinOf(p) \in Nat
      /\ BinOf(b) \in 0 .. NumBins - 1
  BY <1>0, <1>2, <1>4, Named DEF Typed
<1>6. Struct(u, {p})
  <2> HIDE DEF c, u, t
  <2>. QED
    BY <1>0, <1>1, <1>2, <1>3, DropStruct
<1> HIDE DEF c, p, b, t
<1>7. DOMAIN u = DOMAIN t \ {x, b} /\ \A g \in DOMAIN u : u[g] = t[g]
  BY <1>3 DEF DroppedTo
<1>8. ASSUME NEW s PROVE Having(u, s) = Having(t, s) \ {x, b}
  BY <1>7 DEF Having
<1>9. /\ x \notin Having(t, "DEALLOC") /\ b \in Having(t, "DEALLOC")
      /\ b \notin Having(t, "ALLOC") /\ b \notin Having(t, "PARENT") /\ p \notin Having(t, "ALLOC")
  BY <1>1, <1>2, <1>4 DEF Having, b
<1>10. /\ Having(u, "DEALLOC") = Having(t, "DEALLOC") \ {b}
       /\ Having(u, "ALLOC") \ {p} = Having(t, "ALLOC") \ {x}
       /\ Having(u, "PARENT") = Having(t, "PARENT") \ {x}
  BY <1>8, <1>9
<1>11. Binned(c.bins, u)
  <2> DEFINE bins == m.bins
             s == bins[BinOf(b)]
             v == Unlinked(s, b)
  <2>1. s \in Seq(FrameName) /\ NoneTwice(s)
        /\ Elems(s) = {g \in Having(t, "DEALLOC") : BinOf(g) = BinOf(b)}
    BY <1>2, <1>5 DEF Binned
  <2> HIDE DEF s
  <2>2. b \in Elems(s)
    BY <1>9, <2>1
  <2>3. v \in Seq(FrameName) /\ Elems(v) = Elems(s) \ {b} /\ NoneTwice(v)
    BY <2>1, <2>2, UnlinkedElems
  <2>4. Elems(v) = {g \in Having(u, "DEALLOC") : BinOf(g) = BinOf(b)}
    BY <1>10, <2>1, <2>3
  <2>5. \A g : BinOf(g) # BinOf(b) => (g \in Having(u, "DEALLOC") <=> g \in Having(t, "DEALLOC"))
    BY <1>10
  <2>6. Binned(bins, t) /\ c.bins = [bins EXCEPT ![BinOf(b)] = v]
    BY <1>2, <1>3 DEF s
  <2> HIDE DEF bins, v
  <2>7. Binned([bins EXCEPT ![BinOf(b)] = v], u)
    BY <1>5, <2>3, <2>4, <2>5, <2>6, BinChange
  <2>. QED
    BY <2>6, <2>7
<1>12. Pool(c.deallocated, Having(u, "DEALLOC"))
  BY <1>2, <1>3, <1>9, <1>10, PoolRemove
<1>13. Pool(c.allocated, Having(u, "ALLOC") \ {p})
  BY <1>2, <1>3, <1>10
<1>14. ParentPool(c.parents, Having(u, "PARENT"))
  <2>1. Having(t, "PARENT") \in SUBSET FrameName
    BY <1>2 DEF Having, Typed
  <2>2. ParentPool(ht_remove(m.parents, ParentKey(x)), Having(t, "PARENT") \ {x})
    BY <1>2, <1>5, <2>1, ParentRemove
  <2>. QED
    BY <1>3, <1>10, <2>2
<1>15. Sound(c, {p})
  BY <1>3, <1>6, <1>11, <1>12, <1>13, <1>14 DEF Sound
<1>16. Coalesced(u, {})
  <2>1. SUFFICES ASSUME NEW g \in Having(u, "DEALLOC"), u[g].buddy # NULL
                 PROVE  u[u[g].buddy].status # "DEALLOC"
    BY DEF Coalesced
  <2>2. g \in DOMAIN u /\ g \in Having(t, "DEALLOC") /\ u[g] = t[g]
    BY <1>7, <1>10 DEF Having
  <2>3. u[g].buddy \in DOMAIN u
    BY <1>6, <2>1, <2>2, BuddyOf
  <2>4. t[t[g].buddy].status # "DEALLOC"
    BY <1>0, <2>1, <2>2 DEF Coalesced
  <2>. QED
    BY <1>7, <2>2, <2>3, <2>4
<1>17. p \in DOMAIN u
  BY <1>4, <1>7
<1>18. Joining(c, p, A)
  BY <1>0, <1>3, <1>15, <1>16, <1>17 DEF Joining
<1>19. BinOf(p) = BinOf(x) + 1
  BY <1>4, <1>5
<1>. QED
  BY <1>18, <1>19 DEF c, p, t

FreedFrom(m, c, x) ==
  /\ IsManager(c) /\ IsFunction(c.frame) /\ StatusTo(m.frame, c.frame, x, "DEALLOC")
  /\ c.bins = [m.bins EXCEPT ![BinOf(x)] = Append(@, x)]
  /\ c.deallocated = ht_put(m.deallocated, Addr(x), x)
  /\ c.allocated = m.allocated
  /\ c.parents = ht_remove(m.parents, ParentKey(x))

(* What Free does to each part of the manager. *)
LEMMA FreeIs ==
  ASSUME NEW m, IsManager(m), Typed(m.frame), NEW x \in DOMAIN m.frame
  PROVE  FreedFrom(m, Free(m, x), x)
<1> DEFINE F == [m.frame EXCEPT ![x].status = "DEALLOC"]
           B == [m.bins EXCEPT ![BinOf(x)] = Append(@, x)]
           A == ht_put(m.deallocated, Addr(x), x)
           P == ht_remove(m.parents, ParentKey(x))
           c == Free(m, x)
<1>1. m = [frame |-> m.frame, bins |-> m.bins, deallocated |-> m.deallocated,
           allocated |-> m.allocated, parents |-> m.parents]
  BY DEF IsManager
<1>2. c = [m EXCEPT !.parents = ht_remove(@, ParentKey(x)), !.deallocated = ht_put(@, Addr(x), x),
                    !.bins[BinOf(x)] = Append(@, x), !.frame[x].status = "DEALLOC"]
  BY DEF Free
<1>3. c = [frame |-> F, bins |-> B, deallocated |-> A, allocated |-> m.allocated, parents |-> P]
  <2> HIDE DEF c
  <2>. QED
    BY <1>1, <1>2
<1>4. IsFunction(F) /\ StatusTo(m.frame, F, x, "DEALLOC")
  <2> DEFINE t == m.frame
  <2>0. Typed(t) /\ x \in DOMAIN t
    OBVIOUS
  <2> HIDE DEF t
  <2>1. IsFunction([t EXCEPT ![x].status = "DEALLOC"])
        /\ StatusTo(t, [t EXCEPT ![x].status = "DEALLOC"], x, "DEALLOC")
    BY <2>0, StatusIs
  <2>. QED
    BY <2>1 DEF t
<1> HIDE DEF F, B, A, P, c
<1>5. /\ c.frame = F /\ c.bins = B /\ c.deallocated = A /\ c.allocated = m.allocated
      /\ c.parents = P
  BY <1>3
<1>6. IsManager(c)
  BY <1>3, <1>5 DEF IsManager
<1>. QED
  BY <1>4, <1>5, <1>6 DEF FreedFrom, c, A, B, P

(* The frame that was being freed is free, and its buddy is not. *)
LEMMA FreeSound ==
  ASSUME NEW m, NEW x, NEW A, Joining(m, x, A), ~HasFreeBuddy(m, x)
  PROVE  /\ Sound(Free(m, x), {}) /\ Coalesced(Free(m, x).frame, {})
         /\ Free(m, x).allocated = A
<1> DEFINE t == m.frame
           c == Free(m, x)
           u == c.frame
<1>0. Sound(m, {x}) /\ x \in DOMAIN t /\ Coalesced(t, {}) /\ m.allocated = A
  BY DEF Joining
<1>1. t[x].buddy # NULL => t[t[x].buddy].status # "DEALLOC"
  BY DEF HasFreeBuddy
<1>2. /\ IsManager(m) /\ Struct(t, {x}) /\ Binned(m.bins, t)
      /\ Pool(m.deallocated, Having(t, "DEALLOC"))
      /\ Pool(m.allocated, Having(t, "ALLOC") \ {x}) /\ ParentPool(m.parents, Having(t, "PARENT"))
      /\ Typed(t) /\ t[x].status # "DEALLOC"
  BY <1>0 DEF Sound, Struct, Holed
<1>3. /\ IsManager(c) /\ IsFunction(u) /\ StatusTo(t, u, x, "DEALLOC")
      /\ c.bins = [m.bins EXCEPT ![BinOf(x)] = Append(@, x)]
      /\ c.deallocated = ht_put(m.deallocated, Addr(x), x)
      /\ c.allocated = m.allocated /\ c.parents = ht_remove(m.parents, ParentKey(x))
  <2>1. FreedFrom(m, c, x)
    BY <1>0, <1>2, FreeIs
  <2>. QED
    BY <2>1 DEF FreedFrom
<1>4. x \in FrameName /\ BinOf(x) \in 0 .. NumBins - 1
  BY <1>0, <1>2, Named DEF Typed
<1> HIDE DEF c, t
<1>5. Struct(u, {})
  BY <1>0, <1>2, <1>3, FreeStruct
<1>6. /\ Having(u, "DEALLOC") = Having(t, "DEALLOC") \cup {x}
      /\ Having(u, "ALLOC") = Having(t, "ALLOC") \ {x}
      /\ Having(u, "PARENT") = Having(t, "PARENT") \ {x}
  <2>1. StatusSets(t, u, x, "DEALLOC")
    BY <1>0, <1>2, <1>3, StatusHaving
  <2>. QED
    BY <2>1 DEF StatusSets
<1>7. x \notin Having(t, "DEALLOC")
  BY <1>2 DEF Having
<1>8. Binned(c.bins, u)
  <2> DEFINE bins == m.bins
             s == bins[BinOf(x)]
             v == Append(s, x)
  <2>1. s \in Seq(FrameName) /\ NoneTwice(s)
        /\ Elems(s) = {g \in Having(t, "DEALLOC") : BinOf(g) = BinOf(x)}
    BY <1>2, <1>4 DEF Binned
  <2> HIDE DEF s
  <2>2. x \notin Elems(s)
    BY <1>7, <2>1
  <2>3. v \in Seq(FrameName) /\ Elems(v) = Elems(s) \cup {x} /\ NoneTwice(v)
    BY <1>4, <2>1, <2>2, AppendElems
  <2>4. Elems(v) = {g \in Having(u, "DEALLOC") : BinOf(g) = BinOf(x)}
    BY <1>6, <2>1, <2>3
  <2>5. \A g : BinOf(g) # BinOf(x) => (g \in Having(u, "DEALLOC") <=> g \in Having(t, "DEALLOC"))
    BY <1>6
  <2>6. Binned(bins, t) /\ c.bins = [bins EXCEPT ![BinOf(x)] = v]
    BY <1>2, <1>3 DEF s
  <2> HIDE DEF bins, v
  <2>7. Binned([bins EXCEPT ![BinOf(x)] = v], u)
    BY <1>4, <2>3, <2>4, <2>5, <2>6, BinChange
  <2>. QED
    BY <2>6, <2>7
<1>9. Pool(c.deallocated, Having(u, "DEALLOC"))
  <2>1. \A g \in Having(t, "DEALLOC") : g \in DOMAIN t /\ t[g].status # "PARENT" /\ g # x
    BY <1>7 DEF Having
  <2>2. \A g \in Having(t, "DEALLOC") : Addr(g) # Addr(x)
    BY <1>0, <1>2, <2>1, LeavesApart
  <2>3. Pool(ht_put(m.deallocated, Addr(x), x), Having(t, "DEALLOC") \cup {x})
    BY <1>2, <2>2, PoolPut
  <2>. QED
    BY <1>3, <1>6, <2>3
<1>10. Pool(c.allocated, Having(u, "ALLOC") \ {})
  <2>1. Having(u, "ALLOC") \ {} = Having(t, "ALLOC") \ {x}
    BY <1>6
  <2>. QED
    BY <1>2, <1>3, <2>1
<1>11. ParentPool(c.parents, Having(u, "PARENT"))
  <2>1. Having(t, "PARENT") \in SUBSET FrameName
    BY <1>2 DEF Having, Typed
  <2>2. ParentPool(ht_remove(m.parents, ParentKey(x)), Having(t, "PARENT") \ {x})
    BY <1>2, <1>4, <2>1, ParentRemove
  <2>. QED
    BY <1>3, <1>6, <2>2
<1>12. Sound(c, {})
  BY <1>3, <1>5, <1>8, <1>9, <1>10, <1>11 DEF Sound
<1>13. Coalesced(u, {})
  <2>0. /\ DOMAIN u = DOMAIN t /\ u[x].status = "DEALLOC"
        /\ \A g \in DOMAIN t : u[g].buddy = t[g].buddy
        /\ \A g \in DOMAIN t \ {x} : u[g].status = t[g].status
    BY <1>0, <1>2, <1>3, StatusTyped
  <2>1. SUFFICES ASSUME NEW g \in Having(u, "DEALLOC"), u[g].buddy # NULL
                 PROVE  u[u[g].buddy].status # "DEALLOC"
    BY DEF Coalesced
  <2>2. g \in DOMAIN t /\ u[g].buddy = t[g].buddy
    BY <2>0 DEF Having
  <2>3. t[g].buddy \in DOMAIN t /\ t[t[g].buddy].buddy = g /\ t[g].buddy # g
    BY <1>2, <2>1, <2>2, BuddyOf
  <2>4. CASE g = x
    BY <1>1, <2>0, <2>1, <2>2, <2>3, <2>4
  <2>5. CASE g # x
    <3>1. t[t[g].buddy].status # "DEALLOC"
      BY <1>0, <1>6, <2>1, <2>2, <2>5 DEF Coalesced
    <3>2. t[g].buddy # x
      <4>1. SUFFICES ASSUME t[g].buddy = x PROVE FALSE
        OBVIOUS
      <4>2. t[x].buddy = g /\ t[g].status = "DEALLOC"
        BY <2>0, <2>1, <2>2, <2>3, <2>5, <4>1 DEF Having
      <4>3. g # NULL
        BY <1>2, <2>2, Named DEF Typed
      <4>. QED
        BY <1>1, <4>2, <4>3
    <3>. QED
      BY <2>0, <2>2, <2>3, <3>1, <3>2
  <2>. QED
    BY <2>4, <2>5
<1>. QED
  BY <1>0, <1>3, <1>12, <1>13 DEF c

JoinStep(s) == IF HasFreeBuddy(s.m, s.f)
                 THEN [m |-> DestroyPair(s.m, s.f), f |-> s.m.frame[s.f].parent]
                 ELSE s

(* The way up ends at a frame whose buddy is not free, since each step     *)
(* goes to a larger bin.                                                   *)
LEMMA JoinChain ==
  ASSUME NEW m, NEW f, NEW A, Joining(m, f, A)
  PROVE  /\ Sound(request_join(m, f), {}) /\ Coalesced(request_join(m, f).frame, {})
         /\ request_join(m, f).allocated = A
<1> DEFINE n == NumBins
           s0 == [m |-> m, f |-> f]
           Rec(s) == s = [k \in 0 .. n |-> IF k = 0 THEN s0 ELSE JoinStep(s[k - 1])]
           Part(s, e) == s = [k \in 0 .. e |-> IF k = 0 THEN s0 ELSE JoinStep(s[k - 1])]
           E == {e \in 0 .. n : \E s : Part(s, e)}
<1>0. n \in Nat
  BY FrameAssumption
<1>x. s0.m = m /\ s0.f = f
  OBVIOUS
<1>5. request_join(m, f) = LET s == CHOOSE r : Rec(r) IN Free(s[n].m, s[n].f)
  BY DEF request_join, JoinStep
<1> HIDE DEF s0, n
<1>1. 0 \in E
  <2> DEFINE s == [k \in 0 .. 0 |-> s0]
  <2>1. Part(s, 0)
    OBVIOUS
  <2> HIDE DEF s, Part
  <2>. QED
    BY <1>0, <2>1
<1>2. ASSUME NEW e \in 1 .. n, e - 1 \in E PROVE e \in E
  <2>1. PICK s : Part(s, e - 1)
    BY <1>2
  <2> DEFINE v == JoinStep(s[e - 1])
             r == [k \in 0 .. e |-> IF k = e THEN v ELSE s[k]]
  <2>0. e \in Nat \ {0}
    BY <1>0
  <2>2. \A k \in 0 .. e - 1 : s[k] = IF k = 0 THEN s0 ELSE JoinStep(s[k - 1])
    BY <2>1
  <2>3. ASSUME NEW k \in 0 .. e PROVE r[k] = IF k = 0 THEN s0 ELSE JoinStep(r[k - 1])
    <3>1. CASE k = e
      <4>1. e - 1 \in 0 .. e /\ e - 1 # e /\ e # 0
        BY <2>0
      <4> HIDE DEF v
      <4>2. r[e - 1] = s[e - 1] /\ r[e] = v
        BY <2>0, <4>1
      <4>3. v = JoinStep(s[e - 1])
        BY DEF v
      <4> HIDE DEF r
      <4>. QED
        BY <3>1, <4>1, <4>2, <4>3
    <3>2. CASE k # e
      <4>1. k \in 0 .. e - 1
        BY <2>0, <3>2
      <4>2. k = 0 \/ (k - 1 \in 0 .. e /\ k - 1 # e)
        BY <2>0
      <4> HIDE DEF v
      <4>3. r[k] = s[k] /\ (k # 0 => r[k - 1] = s[k - 1])
        BY <3>2, <4>2
      <4> HIDE DEF r
      <4>. QED
        BY <2>2, <4>1, <4>3
    <3>. QED
      BY <3>1, <3>2
  <2>4. Part(r, e)
    <3> HIDE DEF v
    <3>1. r = [k \in 0 .. e |-> r[k]]
      OBVIOUS
    <3> HIDE DEF r
    <3>. QED
      BY <2>3, <3>1
  <2> HIDE DEF r, Part
  <2>. QED
    BY <1>0, <2>4
<1>3. n \in E
  <2>1. E \in SUBSET (0 .. n)
    OBVIOUS
  <2> HIDE DEF E
  <2>2. \A k \in 0 .. n : k \in E
    BY <1>0, <1>1, <1>2, <2>1, UpTo
  <2>. QED
    BY <1>0, <2>2
<1>4. \E s : Rec(s)
  BY <1>3
<1> DEFINE s == CHOOSE r : Rec(r)
<1>6. Rec(s)
  <2> HIDE DEF Rec
  <2>. QED
    BY <1>4
<1>y. request_join(m, f) = Free(s[n].m, s[n].f)
  BY <1>5
<1> HIDE DEF s
<1>7. \A k \in 0 .. n : s[k] = IF k = 0 THEN s0 ELSE JoinStep(s[k - 1])
  BY <1>6
<1> HIDE DEF Rec
<1> DEFINE Good(r, k) == /\ Joining(r.m, r.f, A)
                         /\ HasFreeBuddy(r.m, r.f) => BinOf(r.f) >= k
           G == {k \in 0 .. n : Good(s[k], k)}
<1>8. ASSUME NEW c, NEW x, Joining(c, x, A) PROVE BinOf(x) \in 0 .. NumBins - 1
  <2>1. x \in FrameName
    BY <1>8 DEF Joining, Sound, Struct, Typed
  <2>. QED
    BY <2>1, Named
<1>9. 0 \in G
  <2>1. s[0] = s0
    BY <1>0, <1>7
  <2>2. BinOf(f) >= 0
    BY <1>0, <1>8
  <2>. QED
    BY <1>0, <1>x, <2>1, <2>2
<1>10. ASSUME NEW k \in 1 .. n, k - 1 \in G PROVE k \in G
  <2> DEFINE r == s[k - 1]
  <2>0. k \in Nat /\ k \in 0 .. n /\ k # 0
    BY <1>0
  <2>1. s[k] = JoinStep(r)
    BY <1>7, <2>0
  <2>2. Joining(r.m, r.f, A) /\ (HasFreeBuddy(r.m, r.f) => BinOf(r.f) >= k - 1)
    BY <1>10
  <2> HIDE DEF r
  <2>3. CASE HasFreeBuddy(r.m, r.f)
    <3> DEFINE c == DestroyPair(r.m, r.f)
               x == r.m.frame[r.f].parent
    <3>1. Joining(c, x, A) /\ BinOf(x) = BinOf(r.f) + 1
      BY <2>2, <2>3, DestroySound
    <3>2. s[k] = [m |-> c, f |-> x]
      BY <2>1, <2>3 DEF JoinStep
    <3> HIDE DEF c, x
    <3>3. s[k].m = c /\ s[k].f = x
      BY <3>2
    <3>4. BinOf(x) >= k
      <4>1. BinOf(r.f) \in 0 .. NumBins - 1
        BY <1>8, <2>2
      <4>. QED
        BY <2>0, <2>2, <2>3, <3>1, <4>1
    <3>. QED
      BY <2>0, <3>1, <3>3, <3>4
  <2>4. CASE ~HasFreeBuddy(r.m, r.f)
    <3>1. s[k] = r
      BY <2>1, <2>4 DEF JoinStep
    <3>. QED
      BY <2>0, <2>2, <2>4, <3>1
  <2>. QED
    BY <2>3, <2>4
<1>11. n \in G
  <2>1. G \in SUBSET (0 .. n)
    OBVIOUS
  <2> HIDE DEF G
  <2>2. \A k \in 0 .. n : k \in G
    BY <1>0, <1>9, <1>10, <2>1, UpTo
  <2>. QED
    BY <1>0, <2>2
<1>12. Joining(s[n].m, s[n].f, A) /\ ~HasFreeBuddy(s[n].m, s[n].f)
  <2>1. Joining(s[n].m, s[n].f, A) /\ (HasFreeBuddy(s[n].m, s[n].f) => BinOf(s[n].f) >= n)
    BY <1>11
  <2>2. BinOf(s[n].f) \in 0 .. n - 1
    BY <1>8, <2>1 DEF n
  <2>3. ~(BinOf(s[n].f) >= n)
    BY <1>0, <2>2
  <2>. QED
    BY <2>1, <2>3
<1>. QED
  BY <1>12, <1>y, FreeSound

(* A deallocation takes the address out of the allocated ones. *)
LEMMA DeallocSound ==
  ASSUME Inv, NEW a, fm_dealloc(a)
  PROVE  Inv' /\ fm'.allocated = Without(fm.allocated, {a})
<1> DEFINE f == fm.allocated[a]
           A == ht_remove(fm.allocated, a)
           m == [fm EXCEPT !.allocated = ht_remove(@, a)]
           t == fm.frame
<1>1. /\ a \in DOMAIN fm.allocated
      /\ fm' = IF HasFreeBuddy(m, f) THEN request_join(DestroyPair(m, f), m.frame[f].parent)
                                     ELSE Free(m, f)
  BY DEF fm_dealloc
<1>2. /\ IsManager(fm) /\ Struct(t, {}) /\ Binned(fm.bins, t)
      /\ Pool(fm.deallocated, Having(t, "DEALLOC"))
      /\ Pool(fm.allocated, Having(t, "ALLOC") \ {}) /\ ParentPool(fm.parents, Having(t, "PARENT"))
      /\ Coalesced(t, {})
  BY DEF Inv, Sound
<1>3. m = [frame |-> t, bins |-> fm.bins, deallocated |-> fm.deallocated,
           allocated |-> A, parents |-> fm.parents]
  <2>1. fm = [frame |-> fm.frame, bins |-> fm.bins, deallocated |-> fm.deallocated,
              allocated |-> fm.allocated, parents |-> fm.parents]
    BY <1>2 DEF IsManager
  <2>. QED
    BY <2>1
<1>4. f \in Having(t, "ALLOC") /\ Addr(f) = a
  <2> DEFINE T == fm.allocated
             S == Having(t, "ALLOC")
  <2>1. Pool(T, S)
    BY <1>2
  <2>2. DOMAIN T = {Addr(g) : g \in S} /\ \A g \in S : T[Addr(g)] = g
    BY <2>1, PoolIs
  <2>. QED
    BY <1>1, <2>2
<1>5. f \in DOMAIN t /\ t[f].status = "ALLOC"
  BY <1>4 DEF Having
<1> HIDE DEF m, A, f
<1>6. /\ m.frame = t /\ m.bins = fm.bins /\ m.deallocated = fm.deallocated
      /\ m.allocated = A /\ m.parents = fm.parents
  BY <1>3
<1>7. IsManager(m)
  BY <1>3, <1>6 DEF IsManager
<1>8. Struct(t, {f})
  BY <1>2, <1>5, HoleStruct
<1>9. Pool(A, Having(t, "ALLOC") \ {f})
  <2>1. Having(t, "ALLOC") \ {} = Having(t, "ALLOC")
    OBVIOUS
  <2>2. Pool(ht_remove(fm.allocated, Addr(f)), Having(t, "ALLOC") \ {f})
    BY <1>2, <1>4, <2>1, PoolRemove
  <2>. QED
    BY <1>4, <2>2 DEF A
<1>10. Sound(m, {f})
  BY <1>2, <1>6, <1>7, <1>8, <1>9 DEF Sound
<1>11. Joining(m, f, A)
  BY <1>2, <1>5, <1>6, <1>10 DEF Joining
<1>12. Sound(fm', {}) /\ Coalesced(fm'.frame, {}) /\ fm'.allocated = A
  <2>1. CASE HasFreeBuddy(m, f)
    <3> DEFINE c == DestroyPair(m, f)
               p == m.frame[f].parent
    <3>1. Joining(c, p, A)
      BY <1>11, <2>1, DestroySound
    <3>2. fm' = request_join(c, p)
      BY <1>1, <2>1
    <3> HIDE DEF c, p
    <3>. QED
      BY <3>1, <3>2, JoinChain
  <2>2. CASE ~HasFreeBuddy(m, f)
    <3>1. fm' = Free(m, f)
      BY <1>1, <2>2
    <3>. QED
      BY <1>11, <2>2, <3>1, FreeSound
  <2>. QED
    BY <2>1, <2>2
<1>. QED
  BY <1>12 DEF Inv, A, ht_remove

-----------------------------------------------------------------------------
(* The first frames. *)

(* The largest multiple of n up to a. *)
LEMMA Floor ==
  ASSUME NEW a \in Nat, NEW n \in Nat \ {0}
  PROVE  /\ a \div n \in Nat /\ (a \div n) * n <= a
         /\ \A c \in Nat : c * n <= a => c <= a \div n
<1>1. a \div n \in Nat /\ a % n \in 0 .. n - 1 /\ a = n * (a \div n) + (a % n)
  OBVIOUS
<1> DEFINE q == a \div n
           r == a % n
<1>2. q \in Nat /\ r \in 0 .. n - 1 /\ a = n * q + r
  BY <1>1
<1> HIDE DEF q, r
<1>3. q * n <= a
  BY <1>2
<1>4. ASSUME NEW c \in Nat, c * n <= a PROVE c <= q
  <2>1. SUFFICES ASSUME c >= q + 1 PROVE FALSE
    BY <1>2
  <2>2. c * n = (q + 1) * n + (c - (q + 1)) * n
    BY <1>2, <2>1
  <2>3. (c - (q + 1)) * n >= 0
    <3> DEFINE d == c - (q + 1)
    <3>1. d \in Nat
      BY <1>2, <2>1
    <3> HIDE DEF d
    <3>2. d * n >= 0
      BY <3>1
    <3>. QED
      BY <3>2 DEF d
  <2>4. (q + 1) * n = n * q + n
    BY <1>2
  <2>. QED
    BY <1>2, <1>4, <2>2, <2>3, <2>4
<1>. QED
  BY <1>2, <1>3, <1>4 DEF q

(* Multiples are ordered as their factors. *)
LEMMA Multiples ==
  ASSUME NEW a \in Int, NEW b \in Int, NEW z \in Nat, a <= b
  PROVE  a * z <= b * z
<1> DEFINE d == b - a
<1>1. d \in Nat /\ b = a + d
  OBVIOUS
<1> HIDE DEF d
<1>2. (a + d) * z = a * z + d * z /\ d * z >= 0 /\ a * z \in Int /\ d * z \in Int
  BY <1>1
<1>. QED
  BY <1>1, <1>2

StartOf(i) == IF i = NumBins - 1 THEN 0 ELSE (Pages \div TWO_POW(i + 1)) * TWO_POW(i + 1)
NumberOf(i) == (Pages - StartOf(i)) \div TWO_POW(i)
FirstOf(i, k) == <<i, StartOf(i) + (k - 1) * TWO_POW(i)>>

(* Each bin's frames start at a multiple of their size and end within the  *)
(* memory, below those of the smaller bins.                                *)
LEMMA FirstBins ==
  ASSUME NEW i \in 0 .. NumBins - 1
  PROVE  /\ TWO_POW(i) \in Nat \ {0} /\ StartOf(i) \in Nat /\ NumberOf(i) \in Nat
         /\ \E d \in Nat : StartOf(i) = d * TWO_POW(i)
         /\ StartOf(i) + NumberOf(i) * TWO_POW(i) <= Pages
<1> DEFINE z == TWO_POW(i)
<1>0. NumBins \in Nat \ {0} /\ Pages \in Nat
  BY FrameAssumption
<1>1. z \in Nat \ {0}
  BY <1>0, Powers
<1>2. \E d \in Nat : StartOf(i) = d * z /\ d * z <= Pages
  <2>1. CASE i = NumBins - 1
    <3>1. StartOf(i) = 0 * z /\ 0 * z <= Pages
      BY <1>0, <1>1, <2>1 DEF StartOf
    <3>. QED
      BY <3>1
  <2>2. CASE i # NumBins - 1
    <3> DEFINE y == TWO_POW(i + 1)
               q == Pages \div y
    <3>1. y = 2 * z /\ y \in Nat \ {0}
      BY <1>0, <1>1, Powers
    <3> HIDE DEF y, z
    <3>2. q \in Nat /\ q * y <= Pages
      BY <1>0, <3>1, Floor
    <3>3. StartOf(i) = q * y
      BY <2>2 DEF StartOf, y
    <3> HIDE DEF q
    <3>4. q * y = (2 * q) * z /\ 2 * q \in Nat
      BY <1>1, <3>1, <3>2, Product
    <3>. QED
      BY <3>2, <3>3, <3>4
  <2>. QED
    BY <2>1, <2>2
<1> HIDE DEF z
<1>3. StartOf(i) \in Nat /\ StartOf(i) <= Pages
  <2>1. PICK d \in Nat : StartOf(i) = d * z /\ d * z <= Pages
    BY <1>2
  <2>2. d * z \in Nat
    BY <1>1
  <2>. QED
    BY <2>1, <2>2
<1> DEFINE r == Pages - StartOf(i)
<1>4. r \in Nat
  BY <1>0, <1>3
<1>5. r \div z \in Nat /\ (r \div z) * z <= r
  BY <1>1, <1>4, Floor
<1>6. NumberOf(i) = r \div z
  BY DEF NumberOf, z
<1>7. NumberOf(i) \in Nat /\ NumberOf(i) * z <= r /\ NumberOf(i) * z \in Int
  BY <1>1, <1>5, <1>6
<1>8. StartOf(i) + NumberOf(i) * z <= Pages
  BY <1>0, <1>3, <1>7
<1>. QED
  BY <1>1, <1>2, <1>3, <1>7, <1>8 DEF z

(* The frames of a larger bin end where those of a smaller one start, or   *)
(* before.                                                                 *)
LEMMA FirstBelow ==
  ASSUME NEW i \in 0 .. NumBins - 1, NEW j \in 0 .. NumBins - 1, i < j
  PROVE  StartOf(j) + NumberOf(j) * TWO_POW(j) <= StartOf(i)
<1> DEFINE z == TWO_POW(j)
           y == TWO_POW(i + 1)
           N == NumberOf(j)
           e == Pages \div y
<1>0. NumBins \in Nat \ {0} /\ Pages \in Nat
  BY FrameAssumption
<1>1. i + 1 \in 0 .. NumBins /\ j \in 0 .. NumBins /\ i + 1 <= j /\ i # NumBins - 1
  BY <1>0
<1>2. z \in Nat /\ y \in Nat \ {0}
  BY <1>1, Powers
<1>3. PICK c \in Nat \ {0} : z = c * y
  BY <1>1, PowerDivides
<1>4. PICK d \in Nat : StartOf(j) = d * z
  BY FirstBins
<1>5. N \in Nat /\ StartOf(j) + N * z <= Pages
  BY FirstBins
<1>6. StartOf(i) = e * y
  BY <1>1 DEF StartOf
<1> HIDE DEF z, y, N, e
<1>7. d * z + N * z = (d + N) * z /\ (d + N) * z = ((d + N) * c) * y /\ (d + N) * c \in Nat
  BY <1>2, <1>3, <1>5, Product
<1> DEFINE w == (d + N) * c
<1>8. w \in Nat /\ StartOf(j) + N * z = w * y /\ w * y <= Pages
  BY <1>4, <1>5, <1>7
<1> HIDE DEF w
<1>9. w <= e /\ e \in Nat
  BY <1>0, <1>2, <1>8, Floor DEF e
<1>10. w * y <= e * y
  BY <1>2, <1>8, <1>9, Multiples
<1>. QED
  BY <1>6, <1>8, <1>10 DEF z, N

(* The k-th of the first frames of bin i. *)
LEMMA FirstFrameIs ==
  ASSUME NEW i \in 0 .. NumBins - 1
  PROVE  /\ FirstFrames[i] = [k \in 1 .. NumberOf(i) |-> FirstOf(i, k)]
         /\ DOMAIN FirstFrames = 0 .. NumBins - 1
  BY DEF FirstFrames, FirstOf, NumberOf, StartOf

(* Where the k-th of the first frames of bin i lies. *)
LEMMA FirstOfIs ==
  ASSUME NEW i \in 0 .. NumBins - 1, NEW k \in 1 .. NumberOf(i)
  PROVE  /\ FirstOf(i, k) \in FrameName /\ BinOf(FirstOf(i, k)) = i
         /\ Addr(FirstOf(i, k)) = StartOf(i) + (k - 1) * TWO_POW(i)
         /\ Addr(FirstOf(i, k)) + Size(FirstOf(i, k)) = StartOf(i) + k * TWO_POW(i)
         /\ StartOf(i) + k * TWO_POW(i) <= StartOf(i) + NumberOf(i) * TWO_POW(i)
         /\ StartOf(i) <= Addr(FirstOf(i, k))
         /\ Aligned(FirstOf(i, k))
<1> DEFINE z == TWO_POW(i)
           S == StartOf(i)
           N == NumberOf(i)
           f == FirstOf(i, k)
<1>1. z \in Nat \ {0} /\ S \in Nat /\ N \in Nat /\ \E d \in Nat : S = d * z
  BY FirstBins
<1>2. BinOf(f) = i /\ Addr(f) = S + (k - 1) * z /\ f = <<i, S + (k - 1) * z>>
  BY DEF BinOf, Addr, FirstOf
<1>3. Size(f) = z
  BY <1>2 DEF Size
<1>x. k \in Nat \ {0} /\ k <= N
  BY <1>1
<1> HIDE DEF z, S, N, f
<1>4. (k - 1) * z \in Nat /\ k * z \in Nat /\ (k - 1) * z + z = k * z
  <2>1. k - 1 \in Nat
    BY <1>x
  <2>. QED
    BY <1>1, <1>x, <2>1
<1>5. k * z <= N * z /\ N * z \in Nat
  BY <1>1, <1>x, Multiples
<1>6. f \in FrameName
  BY <1>1, <1>2, <1>4 DEF FrameName
<1>7. Aligned(f)
  <2>1. PICK d \in Nat : S = d * z
    BY <1>1
  <2>2. S + (k - 1) * z = (d + (k - 1)) * z /\ d + (k - 1) \in Nat
    BY <1>1, <1>x, <2>1, Product
  <2>. QED
    BY <1>2, <1>3, <2>2 DEF Aligned
<1>8. Addr(f) + Size(f) = S + k * z
  BY <1>1, <1>2, <1>3, <1>4
<1>9. S + k * z <= S + N * z /\ S <= Addr(f)
  BY <1>1, <1>2, <1>4, <1>5
<1>. QED
  BY <1>2, <1>6, <1>7, <1>8, <1>9 DEF z, S, N, f

(* The first frames are aligned and within the memory. *)
LEMMA FirstSetIs ==
  /\ \A f : f \in FirstSet <=> \E i \in 0 .. NumBins - 1 : \E k \in 1 .. NumberOf(i) : f = FirstOf(i, k)
  /\ \A f \in FirstSet : f \in FrameName /\ Addr(f) + Size(f) <= Pages /\ Aligned(f)
<1>1. ASSUME NEW i \in 0 .. NumBins - 1
      PROVE  {FirstFrames[i][k] : k \in DOMAIN FirstFrames[i]} = {FirstOf(i, k) : k \in 1 .. NumberOf(i)}
  BY FirstFrameIs
<1>2. \A f : f \in FirstSet <=> \E i \in 0 .. NumBins - 1 : f \in {FirstOf(i, k) : k \in 1 .. NumberOf(i)}
  BY <1>1 DEF FirstSet
<1>3. \A f : f \in FirstSet <=> \E i \in 0 .. NumBins - 1 : \E k \in 1 .. NumberOf(i) : f = FirstOf(i, k)
  BY <1>2
<1>4. ASSUME NEW f \in FirstSet PROVE f \in FrameName /\ Addr(f) + Size(f) <= Pages /\ Aligned(f)
  <2>1. PICK i \in 0 .. NumBins - 1 : \E k \in 1 .. NumberOf(i) : f = FirstOf(i, k)
    BY <1>3
  <2>2. PICK k \in 1 .. NumberOf(i) : f = FirstOf(i, k)
    BY <2>1
  <2>3. /\ f \in FrameName /\ Aligned(f) /\ Addr(f) + Size(f) = StartOf(i) + k * TWO_POW(i)
        /\ StartOf(i) + k * TWO_POW(i) <= StartOf(i) + NumberOf(i) * TWO_POW(i)
    BY <2>2, FirstOfIs
  <2>4. StartOf(i) + NumberOf(i) * TWO_POW(i) <= Pages /\ StartOf(i) \in Nat /\ TWO_POW(i) \in Nat
        /\ NumberOf(i) \in Nat /\ Pages \in Nat
    BY FirstBins, FrameAssumption
  <2>5. k * TWO_POW(i) \in Int /\ NumberOf(i) * TWO_POW(i) \in Int
    BY <2>4
  <2>. QED
    BY <2>3, <2>4, <2>5
<1>. QED
  BY <1>3, <1>4

(* The first frames share no page. *)
LEMMA FirstApart ==
  ASSUME NEW f \in FirstSet, NEW g \in FirstSet, f # g
  PROVE  Apart(f, g) /\ Addr(f) # Addr(g)
<1>1. PICK i \in 0 .. NumBins - 1 : \E k \in 1 .. NumberOf(i) : f = FirstOf(i, k)
  BY FirstSetIs
<1>2. PICK k \in 1 .. NumberOf(i) : f = FirstOf(i, k)
  BY <1>1
<1>3. PICK j \in 0 .. NumBins - 1 : \E l \in 1 .. NumberOf(j) : g = FirstOf(j, l)
  BY FirstSetIs
<1>4. PICK l \in 1 .. NumberOf(j) : g = FirstOf(j, l)
  BY <1>3
<1>0. NumBins \in Nat
  BY FrameAssumption
<1>5. ASSUME NEW x \in 0 .. NumBins - 1, NEW a \in 1 .. NumberOf(x), NEW y \in 0 .. NumBins - 1,
             NEW b \in 1 .. NumberOf(y), x < y
      PROVE  Addr(FirstOf(y, b)) + Size(FirstOf(y, b)) <= Addr(FirstOf(x, a))
  <2> DEFINE e == StartOf(y) + NumberOf(y) * TWO_POW(y)
             v == StartOf(y) + b * TWO_POW(y)
  <2>1. Addr(FirstOf(y, b)) + Size(FirstOf(y, b)) = v /\ v <= e
    BY FirstOfIs
  <2>2. e <= StartOf(x)
    BY <1>5, FirstBelow
  <2>3. StartOf(x) <= Addr(FirstOf(x, a)) /\ FirstOf(x, a) \in FrameName
    BY FirstOfIs
  <2>4. e \in Int /\ v \in Int /\ StartOf(x) \in Int
    BY FirstBins
  <2>5. Addr(FirstOf(x, a)) \in Int
    BY <2>3, Named
  <2> HIDE DEF e, v
  <2>. QED
    BY <2>1, <2>2, <2>3, <2>4, <2>5
<1>6. ASSUME NEW a \in 1 .. NumberOf(i), NEW b \in 1 .. NumberOf(i), a < b
      PROVE  Addr(FirstOf(i, a)) + Size(FirstOf(i, a)) <= Addr(FirstOf(i, b))
  <2> DEFINE z == TWO_POW(i)
             S == StartOf(i)
  <2>1. Addr(FirstOf(i, a)) + Size(FirstOf(i, a)) = S + a * z
    BY FirstOfIs
  <2>2. Addr(FirstOf(i, b)) = S + (b - 1) * z
    BY FirstOfIs
  <2>3. z \in Nat /\ S \in Nat /\ a \in Nat /\ b \in Nat /\ a <= b - 1
    BY <1>6, FirstBins
  <2> HIDE DEF z, S
  <2>4. a * z <= (b - 1) * z /\ a * z \in Int /\ (b - 1) * z \in Int
    BY <2>3, Multiples
  <2>. QED
    BY <2>1, <2>2, <2>3, <2>4
<1>7. Apart(f, g)
  <2>1. CASE i < j
    BY <1>2, <1>4, <1>5, <2>1 DEF Apart
  <2>2. CASE j < i
    BY <1>2, <1>4, <1>5, <2>2 DEF Apart
  <2>3. CASE i = j
    <3>1. k \in Int /\ l \in Int /\ k # l
      BY <1>2, <1>4, <2>3
    <3>2. CASE k < l
      BY <1>2, <1>4, <1>6, <2>3, <3>2 DEF Apart
    <3>3. CASE l < k
      BY <1>2, <1>4, <1>6, <2>3, <3>3 DEF Apart
    <3>. QED
      BY <3>1, <3>2, <3>3
  <2>. QED
    BY <1>0, <2>1, <2>2, <2>3
<1>8. Addr(f) \in Nat /\ Addr(g) \in Nat /\ Size(f) \in Nat \ {0} /\ Size(g) \in Nat \ {0}
  BY FirstSetIs, Named
<1>. QED
  BY <1>7, <1>8 DEF Apart

(* The invariant holds at first: every frame is free, and none was split. *)
LEMMA InitSound == Init => Inv
<1> SUFFICES ASSUME Init PROVE Inv
  OBVIOUS
<1> DEFINE t == [f \in FirstSet |-> frame_init("DEALLOC", NULL, NULL)]
           T == [a \in {Addr(f) : f \in FirstSet} |-> CHOOSE f \in FirstSet : Addr(f) = a]
           E == [a \in {} |-> NULL]
<1>1. fm = [frame |-> t, bins |-> FirstFrames, deallocated |-> T, allocated |-> E, parents |-> E]
  BY DEF Init
<1>2. DOMAIN t = FirstSet /\ \A f \in FirstSet : t[f] = frame_init("DEALLOC", NULL, NULL)
  OBVIOUS
<1>3. \A f \in FirstSet : t[f].status = "DEALLOC" /\ t[f].buddy = NULL /\ t[f].parent = NULL
  BY RecordIs
<1>4. FirstSet \subseteq FrameName
  BY FirstSetIs
<1>5. Typed(t)
  <2>1. frame_init("DEALLOC", NULL, NULL) \in FrameRec
    BY RecordIs
  <2> HIDE DEF frame_init
  <2>. QED
    BY <1>4, <2>1 DEF Typed
<1>6. T = [a \in {Addr(f) : f \in FirstSet} |-> T[a]] /\ \A f \in FirstSet : T[Addr(f)] = f
  <2>1. ASSUME NEW f \in FirstSet PROVE T[Addr(f)] = f
    <3> DEFINE g == CHOOSE h \in FirstSet : Addr(h) = Addr(f)
    <3>1. T[Addr(f)] = g
      OBVIOUS
    <3>2. g \in FirstSet /\ Addr(g) = Addr(f)
      OBVIOUS
    <3> HIDE DEF g
    <3>3. g = f
      BY <3>2, FirstApart
    <3> HIDE DEF T
    <3>. QED
      BY <3>1, <3>3
  <2>2. T = [a \in {Addr(f) : f \in FirstSet} |-> T[a]]
    OBVIOUS
  <2>. QED
    BY <2>1, <2>2
<1>7. Pool(E, {}) /\ ParentPool(E, {})
  BY DEF Pool, ParentPool
<1> HIDE DEF t, T, E
<1>8. /\ fm.frame = t /\ fm.bins = FirstFrames /\ fm.deallocated = T
      /\ fm.allocated = E /\ fm.parents = E
  BY <1>1
<1>9. /\ Having(t, "DEALLOC") = FirstSet /\ Having(t, "ALLOC") = {} /\ Having(t, "PARENT") = {}
  BY <1>2, <1>3 DEF Having
<1>10. Struct(t, {})
  <2>1. Links(t, {})
    BY <1>2, <1>3 DEF Links, First
  <2>2. Laminar(t, {})
    BY <1>2, FirstApart DEF Laminar
  <2>3. Rooted(t)
    BY <1>2, FirstSetIs DEF Rooted
  <2>. QED
    BY <1>5, <2>1, <2>2, <2>3 DEF Struct, Holed
<1>11. Binned(FirstFrames, t)
  <2>1. ASSUME NEW i \in 0 .. NumBins - 1
        PROVE  /\ FirstFrames[i] \in Seq(FrameName) /\ NoneTwice(FirstFrames[i])
               /\ Elems(FirstFrames[i]) = {f \in FirstSet : BinOf(f) = i}
    <3> DEFINE s == FirstFrames[i]
               N == NumberOf(i)
    <3>1. s = [k \in 1 .. N |-> FirstOf(i, k)] /\ N \in Nat
      BY FirstFrameIs, FirstBins
    <3> HIDE DEF s, N
    <3>2. \A k \in 1 .. N : FirstOf(i, k) \in FrameName /\ BinOf(FirstOf(i, k)) = i
      BY FirstOfIs DEF N
    <3>3. s \in Seq(FrameName)
      <4>1. \A k \in 1 .. N : FirstOf(i, k) \in FrameName
        BY <3>2
      <4> HIDE DEF FrameName
      <4>. QED
        BY <3>1, <4>1
    <3>4. DOMAIN s = 1 .. N /\ \A k \in 1 .. N : s[k] = FirstOf(i, k)
      BY <3>1
    <3>5. ASSUME NEW a \in 1 .. N, NEW b \in 1 .. N, FirstOf(i, a) = FirstOf(i, b) PROVE a = b
      <4> DEFINE z == TWO_POW(i)
                 S == StartOf(i)
      <4>1. S + (a - 1) * z = S + (b - 1) * z
        <5>1. Addr(FirstOf(i, a)) = S + (a - 1) * z /\ Addr(FirstOf(i, b)) = S + (b - 1) * z
          BY FirstOfIs DEF N
        <5>. QED
          BY <3>5, <5>1
      <4>2. z \in Nat \ {0} /\ S \in Nat /\ a \in Nat /\ b \in Nat
        BY <3>1, FirstBins
      <4> HIDE DEF z, S
      <4>3. (a - 1) * z = (b - 1) * z
        BY <4>1, <4>2
      <4>4. ASSUME NEW x \in Int, NEW y \in Int, x < y PROVE x * z # y * z
        <5>1. x + 1 <= y
          BY <4>4
        <5>2. (x + 1) * z <= y * z /\ (x + 1) * z = x * z + z /\ x * z \in Int /\ y * z \in Int
          BY <4>2, <5>1, Multiples
        <5>. QED
          BY <4>2, <5>2
      <4>5. a - 1 = b - 1
        BY <4>2, <4>3, <4>4
      <4>. QED
        BY <4>2, <4>5
    <3>6. NoneTwice(s)
      BY <3>4, <3>5 DEF NoneTwice
    <3>7. Elems(s) = {FirstOf(i, k) : k \in 1 .. N}
      BY <3>4 DEF Elems
    <3>8. {FirstOf(i, k) : k \in 1 .. N} = {f \in FirstSet : BinOf(f) = i}
      <4>1. ASSUME NEW k \in 1 .. N PROVE FirstOf(i, k) \in FirstSet /\ BinOf(FirstOf(i, k)) = i
        BY <3>2, FirstSetIs DEF N
      <4>2. ASSUME NEW f \in FirstSet, BinOf(f) = i PROVE \E k \in 1 .. N : f = FirstOf(i, k)
        <5>1. PICK j \in 0 .. NumBins - 1 : \E k \in 1 .. NumberOf(j) : f = FirstOf(j, k)
          BY FirstSetIs
        <5>2. j = i
          BY <4>2, <5>1, FirstOfIs
        <5>. QED
          BY <5>1, <5>2 DEF N
      <4>. QED
        BY <4>1, <4>2
    <3>. QED
      BY <3>3, <3>6, <3>7, <3>8 DEF s
  <2>2. FirstFrames \in [0 .. NumBins - 1 -> Seq(FrameName)]
    <3>1. FirstFrames = [i \in 0 .. NumBins - 1 |-> FirstFrames[i]]
      BY DEF FirstFrames
    <3>. QED
      BY <2>1, <3>1
  <2>. QED
    BY <1>9, <2>1, <2>2 DEF Binned
<1>12. Pool(T, FirstSet)
  BY <1>6 DEF Pool
<1>13. IsManager(fm)
  BY <1>1, <1>8 DEF IsManager
<1>14. Sound(fm, {})
  <2>1. Having(t, "ALLOC") \ {} = {}
    BY <1>9
  <2>. QED
    BY <1>7, <1>8, <1>9, <1>10, <1>11, <1>12, <1>13, <2>1 DEF Sound
<1>15. Coalesced(t, {})
  BY <1>3, <1>9 DEF Coalesced
<1>. QED
  BY <1>8, <1>14, <1>15 DEF Inv

-----------------------------------------------------------------------------
(* What follows from the invariant. *)

Within(f, g) == Addr(g) <= Addr(f) /\ Addr(f) + Size(f) <= Addr(g) + Size(g)

(* The pages of a frame that lies in another, or apart from it. *)
LEMMA RunIs ==
  ASSUME NEW f \in FrameName, NEW g \in FrameName
  PROVE  /\ Run(f) \subseteq Run(g) <=> Within(f, g)
         /\ Apart(f, g) => Run(f) \cap Run(g) = {}
<1> DEFINE a == Addr(f)
           b == Addr(g)
           x == Size(f)
           y == Size(g)
<1>1. a \in Nat /\ b \in Nat /\ x \in Nat \ {0} /\ y \in Nat \ {0}
  BY Named
<1>2. Run(f) = a .. (a + x) - 1 /\ Run(g) = b .. (b + y) - 1
  <2>1. Run(f) = a .. a + x - 1 /\ Run(g) = b .. b + y - 1
    BY DEF Run
  <2> HIDE DEF a, b, x, y
  <2>. QED
    BY <1>1, <2>1
<1>3. (Within(f, g) <=> b <= a /\ a + x <= b + y) /\ (Apart(f, g) <=> a + x <= b \/ b + y <= a)
  BY DEF Within, Apart
<1> HIDE DEF a, b, x, y
<1>4. ASSUME Run(f) \subseteq Run(g) PROVE b <= a /\ a + x <= b + y
  <2>1. a \in Run(f) /\ (a + x) - 1 \in Run(f)
    BY <1>1, <1>2
  <2>2. a \in b .. (b + y) - 1 /\ (a + x) - 1 \in b .. (b + y) - 1
    BY <1>2, <1>4, <2>1
  <2>. QED
    BY <1>1, <2>2
<1>5. ASSUME b <= a, a + x <= b + y PROVE Run(f) \subseteq Run(g)
  BY <1>1, <1>2, <1>5
<1>6. ASSUME a + x <= b \/ b + y <= a PROVE Run(f) \cap Run(g) = {}
  BY <1>1, <1>2, <1>6
<1>. QED
  BY <1>3, <1>4, <1>5, <1>6

(* The pages of a frame are those of its halves, each of which has its own. *)
LEMMA RunOfHalves ==
  ASSUME NEW p \in FrameName, BinOf(p) > 0, NEW f, NEW b, Halves(p, f, b)
  PROVE  /\ Run(p) = Run(f) \cup Run(b) /\ Run(f) \cap Run(b) = {}
         /\ Within(f, p) /\ Within(b, p)
<1> DEFINE z == Size(Left(p))
           a == Addr(p)
           l == Left(p)
           r == Right(p)
<1>1. z \in Nat \ {0} /\ Size(p) = z + z /\ Size(r) = z /\ Addr(l) = a /\ Addr(r) = a + z
      /\ a \in Nat
  BY HalvesAre, Named
<1>2. Run(p) = a .. a + (z + z) - 1 /\ Run(l) = a .. a + z - 1 /\ Run(r) = (a + z) .. (a + z) + z - 1
  BY <1>1 DEF Run
<1>x. Within(l, p) /\ Within(r, p)
  <2>1. /\ Within(l, p) <=> a <= a /\ a + z <= a + (z + z)
        /\ Within(r, p) <=> a <= a + z /\ (a + z) + z <= a + (z + z)
    BY <1>1 DEF Within
  <2> HIDE DEF z, a, l, r
  <2>. QED
    BY <1>1, <2>1
<1> HIDE DEF z, a, l, r
<1>3. Run(p) = Run(l) \cup Run(r) /\ Run(l) \cap Run(r) = {}
  BY <1>1, <1>2
<1>. QED
  BY <1>3, <1>x DEF Halves, l, r

(* The invariant contains what TablesAgree says of bins and tables. *)
LEMMA TablesFollow == Inv => TablesAgree
<1> SUFFICES ASSUME Inv PROVE TablesAgree
  OBVIOUS
<1> DEFINE t == fm.frame
           Table(S) == [a \in {Addr(f) : f \in S} |-> CHOOSE f \in S : Addr(f) = a]
<1>1. /\ Struct(t, {}) /\ Binned(fm.bins, t) /\ Pool(fm.deallocated, Having(t, "DEALLOC"))
      /\ Pool(fm.allocated, Having(t, "ALLOC")) /\ ParentPool(fm.parents, Having(t, "PARENT"))
  <2>1. Having(t, "ALLOC") \ {} = Having(t, "ALLOC")
    OBVIOUS
  <2>. QED
    BY <2>1 DEF Inv, Sound
<1>2. \A s : WithStatus(s) = Having(t, s)
  BY DEF WithStatus, Having
<1>3. ASSUME NEW T, NEW S, Pool(T, S)
      PROVE  T = Table(S)
  <2>1. T = [a \in {Addr(f) : f \in S} |-> T[a]] /\ \A f \in S : T[Addr(f)] = f
    BY <1>3 DEF Pool
  <2>2. ASSUME NEW a \in {Addr(f) : f \in S} PROVE T[a] = CHOOSE f \in S : Addr(f) = a
    <3> DEFINE g == CHOOSE f \in S : Addr(f) = a
    <3>1. g \in S /\ Addr(g) = a
      OBVIOUS
    <3> HIDE DEF g
    <3>2. T[a] = g
      BY <2>1, <3>1
    <3>. QED
      BY <3>2 DEF g
  <2>. QED
    BY <2>1, <2>2
<1>4. fm.parents = [k \in {ParentKey(f) : f \in Having(t, "PARENT")} |-> <<k[2], k[1]>>]
  <2> DEFINE T == fm.parents
             S == Having(t, "PARENT")
  <2>1. T = [k \in {ParentKey(f) : f \in S} |-> T[k]] /\ \A f \in S : T[ParentKey(f)] = f
    BY <1>1 DEF ParentPool
  <2>2. S \subseteq FrameName
    BY <1>1 DEF Having, Struct, Typed
  <2> HIDE DEF T, S
  <2>3. ASSUME NEW f \in S
        PROVE  <<ParentKey(f)[2], ParentKey(f)[1]>> = f
    BY <2>2, Named DEF ParentKey
  <2>4. ASSUME NEW k \in {ParentKey(f) : f \in S} PROVE T[k] = <<k[2], k[1]>>
    <3>1. PICK f \in S : k = ParentKey(f)
      OBVIOUS
    <3>. QED
      BY <2>1, <2>3, <3>1
  <2>5. T = [k \in {ParentKey(f) : f \in S} |-> <<k[2], k[1]>>]
    BY <2>1, <2>4
  <2>. QED
    BY <2>5 DEF T, S
<1>5. ASSUME NEW i \in 0 .. NumBins - 1
      PROVE  /\ \A j, k \in DOMAIN fm.bins[i] : fm.bins[i][j] = fm.bins[i][k] => j = k
             /\ {fm.bins[i][k] : k \in DOMAIN fm.bins[i]} = {f \in Having(t, "DEALLOC") : BinOf(f) = i}
  <2>1. NoneTwice(fm.bins[i]) /\ Elems(fm.bins[i]) = {f \in Having(t, "DEALLOC") : BinOf(f) = i}
    BY <1>1 DEF Binned
  <2>2. Elems(fm.bins[i]) = {fm.bins[i][k] : k \in DOMAIN fm.bins[i]}
    BY DEF Elems
  <2>. QED
    BY <2>1, <2>2 DEF NoneTwice
<1>6. fm.deallocated = Table(Having(t, "DEALLOC")) /\ fm.allocated = Table(Having(t, "ALLOC"))
  <2> HIDE DEF Table
  <2>. QED
    BY <1>1, <1>3
<1> HIDE DEF t
<1>7. /\ WithStatus("DEALLOC") = Having(t, "DEALLOC") /\ WithStatus("ALLOC") = Having(t, "ALLOC")
      /\ WithStatus("PARENT") = Having(t, "PARENT")
  BY <1>2
<1>. QED
  BY <1>4, <1>5, <1>6, <1>7 DEF TablesAgree

(* The links of the invariant are those that BuddiesPaired asks for. *)
LEMMA BuddiesFollow == Inv => BuddiesPaired
<1> SUFFICES ASSUME Inv PROVE BuddiesPaired
  OBVIOUS
<1> DEFINE t == fm.frame
<1>1. Struct(t, {})
  BY DEF Inv, Sound
<1>2. SUFFICES ASSUME NEW f \in DOMAIN t, t[f].buddy # NULL
               PROVE  LET b == t[f].buddy
                          p == t[f].parent
                      IN  /\ b \in DOMAIN t /\ p \in WithStatus("PARENT")
                          /\ t[b].buddy = f /\ t[b].parent = p /\ BinOf(b) = BinOf(f)
                          /\ Run(p) = Run(f) \cup Run(b) /\ Run(f) \cap Run(b) = {}
  BY DEF BuddiesPaired
<1> DEFINE b == t[f].buddy
           p == t[f].parent
<1>3. /\ p \in DOMAIN t /\ t[p].status = "PARENT" /\ BinOf(p) > 0 /\ b \in DOMAIN t
      /\ t[b].buddy = f /\ t[b].parent = p /\ Halves(p, f, b) /\ BinOf(b) = BinOf(f)
  BY <1>1, <1>2, BuddyOf
<1>4. p \in FrameName
  BY <1>1, <1>3 DEF Struct, Typed
<1>5. Run(p) = Run(f) \cup Run(b) /\ Run(f) \cap Run(b) = {}
  <2> HIDE DEF p, b
  <2>. QED
    BY <1>3, <1>4, RunOfHalves
<1>6. p \in WithStatus("PARENT")
  BY <1>3 DEF WithStatus
<1>. QED
  BY <1>3, <1>5, <1>6

(* A frame that was split has an allocated frame in it: two free halves    *)
(* would have been joined.                                                 *)
LEMMA ParentInUse ==
  ASSUME Inv, NEW q \in Having(fm.frame, "PARENT")
  PROVE  \E f \in Having(fm.frame, "ALLOC") : Within(f, q)
<1> DEFINE t == fm.frame
           Used(p) == \E f \in Having(t, "ALLOC") : Within(f, p)
           Bad == {p \in Having(t, "PARENT") : ~Used(p)}
           Bins == {BinOf(p) : p \in Bad}
<1>1. Struct(t, {}) /\ Typed(t) /\ Links(t, {}) /\ Coalesced(t, {})
  BY DEF Inv, Sound, Struct
<1>2. SUFFICES ASSUME Bad # {} PROVE FALSE
  OBVIOUS
<1>3. PICK a \in Bins : \A x \in Bins : a <= x
  <2>1. Bins \in SUBSET Nat
    <3>1. \A p \in Bad : p \in FrameName
      BY <1>1 DEF Having, Typed
    <3>2. \A p \in Bad : BinOf(p) \in Nat
      BY <3>1, Named
    <3>. QED
      BY <3>2
  <2>2. Bins # {}
    BY <1>2
  <2> HIDE DEF Bins
  <2>. QED
    BY <2>1, <2>2, Least
<1>4. PICK p \in Bad : a = BinOf(p)
  OBVIOUS
<1>5. p \in DOMAIN t /\ t[p].status = "PARENT" /\ p \in FrameName /\ ~Used(p)
  BY <1>1, <1>4 DEF Having, Typed
<1> DEFINE l == Left(p)
           r == Right(p)
<1>6. BinOf(p) > 0 /\ l \in DOMAIN t /\ r \in DOMAIN t /\ t[l].parent = p /\ t[r].parent = p
  BY <1>1, <1>5 DEF Links
<1>7. Half(t, {}, l)
  <2>1. p # NULL
    BY <1>5, Named
  <2>. QED
    BY <1>1, <1>6, <2>1 DEF Links, First
<1>8. t[l].buddy = r
  <2>1. Halves(p, l, t[l].buddy)
    BY <1>6, <1>7 DEF Half
  <2>2. l # r
    BY <1>5, <1>6, HalvesAre
  <2>. QED
    BY <2>1, <2>2 DEF Halves
<1>9. t[l].status # "DEALLOC" \/ t[r].status # "DEALLOC"
  <2>1. r # NULL
    BY <1>1, <1>6, Named DEF Typed
  <2>. QED
    BY <1>1, <1>6, <1>8, <2>1 DEF Coalesced, Having
<1>10. ASSUME NEW h \in {l, r}, t[h].status # "DEALLOC" PROVE FALSE
  <2>1. h \in DOMAIN t /\ h \in FrameName /\ BinOf(h) = BinOf(p) - 1 /\ BinOf(p) \in Nat
    BY <1>1, <1>5, <1>6, HalvesAre, Named DEF Typed
  <2>2. Within(h, p)
    <3>1. Halves(p, l, r)
      BY DEF Halves
    <3>. QED
      BY <1>5, <1>6, <3>1, RunOfHalves
  <2>3. CASE t[h].status = "ALLOC"
    BY <1>5, <2>1, <2>2, <2>3 DEF Having
  <2>4. CASE t[h].status = "PARENT"
    <3>1. ~(BinOf(p) <= BinOf(h))
      BY <2>1
    <3>2. h \in Having(t, "PARENT")
      BY <2>1, <2>4 DEF Having
    <3>3. h \notin Bad
      BY <1>3, <1>4, <3>1
    <3>4. PICK f \in Having(t, "ALLOC") : Within(f, h)
      BY <3>2, <3>3
    <3>5. f \in FrameName
      BY <1>1 DEF Having, Typed
    <3>6. Within(f, p)
      <4>1. /\ Addr(f) \in Nat /\ Addr(h) \in Nat /\ Addr(p) \in Nat
            /\ Size(f) \in Nat /\ Size(h) \in Nat /\ Size(p) \in Nat
        BY <1>5, <2>1, <3>5, Named
      <4>. QED
        BY <2>2, <3>4, <4>1 DEF Within
    <3>. QED
      BY <1>5, <3>6
  <2>5. t[h].status \in {"DEALLOC", "ALLOC", "PARENT"}
    BY <1>1, <2>1, RecordOf
  <2>. QED
    BY <1>10, <2>3, <2>4, <2>5
<1>. QED
  BY <1>9, <1>10

(* An aligned block that lies in a larger aligned frame lies in a half. *)
LEMMA InOneHalf ==
  ASSUME NEW b \in FrameName, NEW f \in FrameName, Aligned(b), Aligned(f),
         BinOf(b) < BinOf(f), Within(b, f)
  PROVE  BinOf(f) > 0 /\ (Within(b, Left(f)) \/ Within(b, Right(f)))
<1> DEFINE z == Size(b)
           h == Size(Left(f))
           a == Addr(f)
           x == Addr(b)
           i == BinOf(f) - 1
<1>0. NumBins \in Nat /\ BinOf(b) \in 0 .. NumBins - 1 /\ BinOf(f) \in 0 .. NumBins - 1
  BY FrameAssumption, Named
<1>1. BinOf(f) > 0 /\ BinOf(b) <= i /\ i \in 0 .. NumBins /\ BinOf(b) \in 0 .. NumBins
  BY <1>0
<1>2. /\ h \in Nat \ {0} /\ Size(f) = h + h /\ Size(Right(f)) = h
      /\ Addr(Left(f)) = a /\ Addr(Right(f)) = a + h /\ BinOf(Left(f)) = i
  BY <1>1, HalvesAre
<1>3. z \in Nat \ {0} /\ a \in Nat /\ x \in Nat
  BY Named
<1>4. PICK c \in Nat \ {0} : h = c * z
  <2>1. h = TWO_POW(i) /\ z = TWO_POW(BinOf(b))
    BY <1>2 DEF Size
  <2> HIDE DEF h, z, i
  <2>. QED
    BY <1>1, <2>1, PowerDivides
<1>5. PICK d \in Nat : a = d * (h + h)
  BY <1>2 DEF Aligned
<1>6. PICK e \in Nat : x = e * z
  BY DEF Aligned
<1>7. /\ Within(b, f) <=> a <= x /\ x + z <= a + (h + h)
      /\ Within(b, Left(f)) <=> a <= x /\ x + z <= a + h
      /\ Within(b, Right(f)) <=> a + h <= x /\ x + z <= (a + h) + h
  BY <1>2 DEF Within
<1> HIDE DEF z, h, a, x, i
<1> DEFINE M == (2 * d + 1) * c
<1>8. a + h = M * z /\ M \in Nat
  <2>1. d * (h + h) = (2 * d) * h /\ (2 * d) * h + h = (2 * d + 1) * h
    BY <1>2, Product
  <2>2. (2 * d + 1) * h = M * z /\ M \in Nat
    BY <1>3, <1>4, Product
  <2> HIDE DEF M
  <2>. QED
    BY <1>5, <2>1, <2>2
<1> HIDE DEF M
<1>9. CASE e + 1 <= M
  <2>1. (e + 1) * z <= M * z /\ (e + 1) * z = e * z + z
    BY <1>3, <1>8, <1>9, Multiples
  <2>2. x + z <= a + h
    BY <1>6, <1>8, <2>1
  <2>. QED
    BY <1>1, <1>7, <2>2
<1>10. CASE M <= e
  <2>1. M * z <= e * z
    BY <1>3, <1>8, <1>10, Multiples
  <2>2. a + h <= x
    BY <1>6, <1>8, <2>1
  <2>3. x + z <= (a + h) + h
    BY <1>2, <1>3, <1>7
  <2>. QED
    BY <1>1, <1>7, <2>2, <2>3
<1>. QED
  BY <1>8, <1>9, <1>10

(* A block of the first layout is aligned. *)
LEMMA BlockAligned ==
  ASSUME NEW b \in FrameName, NEW g \in FirstSet, BinOf(b) <= BinOf(g), Within(b, g),
         (Addr(b) - Addr(g)) % Size(b) = 0
  PROVE  Aligned(b)
<1> DEFINE z == Size(b)
           y == Size(g)
           v == Addr(b) - Addr(g)
           q == v \div z
<1>1. g \in FrameName /\ Aligned(g)
  BY FirstSetIs
<1>2. z \in Nat \ {0} /\ y \in Nat \ {0} /\ Addr(b) \in Nat /\ Addr(g) \in Nat
  BY <1>1, Named
<1>3. BinOf(b) \in 0 .. NumBins /\ BinOf(g) \in 0 .. NumBins
  BY <1>1, Named, FrameAssumption
<1>4. PICK c \in Nat \ {0} : y = c * z
  BY <1>3, PowerDivides DEF Size
<1>5. PICK d \in Nat : Addr(g) = d * y
  BY <1>1 DEF Aligned
<1>6. v \in Nat /\ v % z = 0
  BY <1>2 DEF Within
<1>7. Addr(b) = Addr(g) + v
  BY <1>2
<1> HIDE DEF z, y, v
<1>8. q \in Nat /\ v = z * q + (v % z)
  BY <1>2, <1>6
<1> HIDE DEF q
<1>9. v = q * z
  BY <1>2, <1>6, <1>8
<1>10. d * y = (d * c) * z /\ (d * c) * z + q * z = (d * c + q) * z /\ d * c + q \in Nat
  BY <1>2, <1>4, <1>8, Product
<1>11. Addr(b) = (d * c + q) * z
  BY <1>5, <1>7, <1>9, <1>10
<1>. QED
  BY <1>10, <1>11 DEF Aligned, z

(* The smallest frame around a block is free, or has an allocated frame    *)
(* that shares a page with the block: it was not split, or the block would *)
(* lie in one of its halves or be the frame itself, which is in use.       *)
LEMMA NoExhaustionFollows == Inv => NoFalseExhaustion
<1> SUFFICES ASSUME Inv PROVE NoFalseExhaustion
  OBVIOUS
<1> DEFINE t == fm.frame
           taken == UNION {Run(f) : f \in WithStatus("ALLOC")}
<1>1. Struct(t, {}) /\ Typed(t) /\ Links(t, {}) /\ Rooted(t)
  BY DEF Inv, Sound, Struct
<1>2. SUFFICES ASSUME NEW b \in (0 .. NumBins - 1) \X (0 .. Pages - 1), NEW g \in FirstSet,
                      BinOf(b) <= BinOf(g), Run(b) \subseteq Run(g),
                      (Addr(b) - Addr(g)) % Size(b) = 0, Run(b) \cap taken = {}
               PROVE  \E f \in WithStatus("DEALLOC") : Run(b) \subseteq Run(f)
  BY DEF NoFalseExhaustion
<1>3. b \in FrameName
  BY FrameAssumption DEF FrameName
<1>4. g \in FrameName /\ g \in DOMAIN t
  BY <1>1, FirstSetIs DEF Links
<1>5. Within(b, g)
  BY <1>2, <1>3, <1>4, RunIs
<1>6. Aligned(b)
  BY <1>2, <1>3, <1>5, BlockAligned
<1> DEFINE Around == {f \in DOMAIN t : Within(b, f)}
           Bins == {BinOf(f) : f \in Around}
<1>7. PICK a \in Bins : \A x \in Bins : a <= x
  <2>1. Bins \in SUBSET Nat
    <3>1. \A f \in Around : f \in FrameName
      BY <1>1 DEF Typed
    <3>2. \A f \in Around : BinOf(f) \in Nat
      BY <3>1, Named
    <3>. QED
      BY <3>2
  <2>2. Bins # {}
    BY <1>4, <1>5
  <2> HIDE DEF Bins
  <2>. QED
    BY <2>1, <2>2, Least
<1>8. PICK f \in Around : a = BinOf(f)
  OBVIOUS
<1>9. f \in DOMAIN t /\ f \in FrameName /\ Within(b, f) /\ Aligned(f)
  BY <1>1, <1>8 DEF Typed, Rooted
<1>10. ASSUME NEW h \in Having(t, "ALLOC"), Run(b) \cap Run(h) # {} PROVE FALSE
  BY <1>2, <1>10 DEF WithStatus, Having
<1>11. Run(b) # {}
  <2>1. Addr(b) \in Nat /\ Size(b) \in Nat \ {0}
    BY <1>3, Named
  <2>2. Addr(b) \in Run(b)
    BY <2>1 DEF Run
  <2>. QED
    BY <2>2
<1>12. Run(b) \subseteq Run(f)
  BY <1>3, <1>9, RunIs
<1>13. CASE t[f].status = "DEALLOC"
  BY <1>9, <1>12, <1>13 DEF WithStatus
<1>14. CASE t[f].status = "ALLOC"
  BY <1>9, <1>10, <1>11, <1>12, <1>14 DEF Having
<1>15. CASE t[f].status = "PARENT"
  <2>0. /\ BinOf(b) \in 0 .. NumBins - 1 /\ BinOf(f) \in 0 .. NumBins - 1 /\ NumBins \in Nat
        /\ Addr(b) \in Nat /\ Addr(f) \in Nat /\ Size(b) \in Nat \ {0} /\ Size(f) \in Nat \ {0}
    BY <1>3, <1>9, Named, FrameAssumption
  <2>1. CASE BinOf(b) < BinOf(f)
    <3>1. BinOf(f) > 0 /\ (Within(b, Left(f)) \/ Within(b, Right(f)))
      BY <1>3, <1>6, <1>9, <2>1, InOneHalf
    <3>2. Left(f) \in DOMAIN t /\ Right(f) \in DOMAIN t
      BY <1>1, <1>9, <1>15 DEF Links
    <3>3. BinOf(Left(f)) = BinOf(f) - 1 /\ BinOf(Right(f)) = BinOf(f) - 1
      BY <1>9, <3>1, HalvesAre
    <3>4. PICK h \in DOMAIN t : Within(b, h) /\ BinOf(h) = BinOf(f) - 1
      BY <3>1, <3>2, <3>3
    <3>5. BinOf(f) <= BinOf(f) - 1
      <4>1. BinOf(h) \in Bins
        BY <3>4
      <4>. QED
        BY <1>7, <1>8, <3>4, <4>1
    <3>. QED
      BY <2>0, <3>5
  <2>2. CASE BinOf(f) <= BinOf(b)
    <3>1. Size(f) <= Size(b)
      <4>1. BinOf(f) \in 0 .. NumBins /\ BinOf(b) \in 0 .. NumBins
        BY <2>0
      <4>. QED
        BY <2>2, <4>1, PowerGrows DEF Size
    <3>2. Within(f, b)
      BY <1>9, <2>0, <3>1 DEF Within
    <3>3. f \in Having(t, "PARENT")
      BY <1>9, <1>15 DEF Having
    <3>4. PICK h \in Having(t, "ALLOC") : Within(h, f)
      BY <3>3, ParentInUse
    <3>5. h \in FrameName
      BY <1>1 DEF Having, Typed
    <3>6. Run(h) \subseteq Run(f) /\ Run(f) \subseteq Run(b)
      BY <1>3, <1>9, <3>2, <3>4, <3>5, RunIs
    <3>7. Run(h) # {}
      <4>1. Addr(h) \in Nat /\ Size(h) \in Nat \ {0}
        BY <3>5, Named
      <4>2. Addr(h) \in Run(h)
        BY <4>1 DEF Run
      <4>. QED
        BY <4>2
    <3>. QED
      BY <1>10, <3>6, <3>7
  <2>. QED
    BY <2>0, <2>1, <2>2
<1>. QED
  BY <1>1, <1>9, <1>13, <1>14, <1>15, RecordOf

-----------------------------------------------------------------------------
(* The theorems. *)

(* Each call of fm_alloc and fm_dealloc keeps the invariant. *)
LEMMA StepSound == Inv /\ [Next]_fm => Inv'
<1> SUFFICES ASSUME Inv, [Next]_fm PROVE Inv'
  OBVIOUS
<1>1. ASSUME NEW n \in 1 .. MaxRequest, fm_alloc(n) PROVE Inv'
  <2>1. \E f : Granted(n, f)
    BY <1>1, AllocSound
  <2>. QED
    BY <2>1 DEF Granted
<1>2. ASSUME NEW a \in 0 .. Pages - 1, fm_dealloc(a) PROVE Inv'
  BY <1>2, DeallocSound
<1>3. CASE UNCHANGED fm
  BY <1>3 DEF Inv
<1>. QED
  BY <1>1, <1>2, <1>3 DEF Next

(* The invariant holds in every state between two calls. *)
LEMMA InvHolds == Spec => []Inv
  BY InitSound, StepSound, PTL DEF Spec

(* The bins and the hash tables hold exactly the frames whose status says  *)
(* so, each once, so that no lookup of request_join or fm_dealloc fails.   *)
THEOREM TablesAgreeCorrect == Spec => []TablesAgree
  BY InvHolds, TablesFollow, PTL

(* The buddy and parent pointers that fm_dealloc and request_join follow   *)
(* are those of a pair that was split.                                     *)
THEOREM BuddiesPairedCorrect == Spec => []BuddiesPaired
  BY InvHolds, BuddiesFollow, PTL

(* Coalescing in request_join leaves no block in pieces: one whose pages   *)
(* are all free lies in one free frame.                                    *)
THEOREM NoFalseExhaustionCorrect == Spec => []NoFalseExhaustion
  BY InvHolds, NoExhaustionFollows, PTL

(* The runs that are given out, by their first pages. *)
Owned == [a \in DOMAIN fm.allocated |-> Size(fm.allocated[a])]

(* The allocated frames are those of the table, each by its address. *)
LEMMA AllocatedIs ==
  ASSUME NEW m, Sound(m, {}), NEW a \in DOMAIN m.allocated
  PROVE  /\ m.allocated[a] \in Having(m.frame, "ALLOC") /\ m.allocated[a] \in FrameName
         /\ Addr(m.allocated[a]) = a
<1> DEFINE T == m.allocated
           S == Having(m.frame, "ALLOC")
<1>1. Pool(T, S)
  <2>1. S \ {} = S
    OBVIOUS
  <2>. QED
    BY <2>1 DEF Sound
<1>2. DOMAIN T = {Addr(g) : g \in S} /\ \A g \in S : T[Addr(g)] = g
  BY <1>1, PoolIs
<1>3. S \subseteq FrameName
  BY DEF Sound, Struct, Typed, Having
<1>4. PICK g \in S : a = Addr(g)
  BY <1>2
<1>5. T[a] = g /\ g \in FrameName
  BY <1>2, <1>3, <1>4
<1>. QED
  BY <1>4, <1>5

(* An allocation gives out a run that is long enough and that nobody has. *)
LEMMA AllocImplements ==
  ASSUME Inv, NEW n \in 1 .. MaxRequest, fm_alloc(n)
  PROVE  \E a \in 0 .. Pages - 1, size \in 1 .. Pages : Allocator!Alloc(n, a, size)
<1>1. PICK f : Granted(n, f)
  BY AllocSound
<1> DEFINE a == Addr(f)
           z == Size(f)
<1>2. /\ f \in FrameName /\ n <= z /\ a \notin DOMAIN fm.allocated
      /\ fm'.allocated = With(fm.allocated, a, f)
      /\ f \in Having(fm'.frame, "ALLOC") /\ Inv'
  BY <1>1 DEF Granted
<1>3. a \in Nat /\ z \in Nat \ {0} /\ Pages \in Nat
  BY <1>2, Named, FrameAssumption
<1>4. Struct(fm'.frame, {})
  BY <1>2 DEF Inv, Sound
<1>5. a + z <= Pages
  BY <1>2, <1>4 DEF Struct, Rooted, Having
<1>6. a \in 0 .. Pages - 1 /\ z \in 1 .. Pages
  <2> HIDE DEF a, z
  <2>. QED
    BY <1>3, <1>5
<1>7. Allocator!Run(a, z) \subseteq Allocator!Run(0, Pages)
  <2> HIDE DEF a, z
  <2>. QED
    BY <1>3, <1>5 DEF Allocator!Run
<1> DEFINE T == fm.allocated
           U == fm'.allocated
<1>8. DOMAIN U = DOMAIN T \cup {a} /\ U[a] = f /\ \A x \in DOMAIN T \ {a} : U[x] = T[x]
  <2>1. U = With(T, a, f)
    BY <1>2
  <2> HIDE DEF T, U, a
  <2>. QED
    BY <2>1 DEF With
<1>9. ASSUME NEW b \in DOMAIN T
      PROVE  Allocator!Run(a, z) \cap Allocator!Run(b, Size(T[b])) = {}
  <2> DEFINE g == U[b]
  <2>1. b \in DOMAIN U /\ b # a /\ T[b] = g
    BY <1>2, <1>8
  <2>2. g \in Having(fm'.frame, "ALLOC") /\ g \in FrameName /\ Addr(g) = b
    BY <1>2, <2>1, AllocatedIs DEF Inv
  <2> HIDE DEF g
  <2>3. g # f
    BY <2>1, <2>2
  <2>4. Apart(f, g)
    BY <1>2, <1>4, <2>2, <2>3, LeavesApart DEF Having
  <2>5. Run(f) \cap Run(g) = {}
    BY <1>2, <2>2, <2>4, RunIs
  <2>. QED
    BY <2>1, <2>2, <2>5 DEF Run, Allocator!Run
<1> DEFINE O == [x \in DOMAIN T |-> Size(T[x])]
           P == [x \in DOMAIN U |-> Size(U[x])]
<1>10. P = [b \in DOMAIN O \cup {a} |-> IF b = a THEN z ELSE O[b]]
  <2> HIDE DEF T, U, a, Size
  <2>1. DOMAIN O = DOMAIN T /\ \A x \in DOMAIN T : O[x] = Size(T[x])
    OBVIOUS
  <2>2. \A x \in DOMAIN U : Size(U[x]) = IF x = a THEN Size(f) ELSE O[x]
    BY <1>8, <2>1
  <2>. QED
    BY <1>8, <2>1, <2>2
<1>11. Allocator!Alloc(n, a, z)
  <2>1. DOMAIN O = DOMAIN T /\ \A x \in DOMAIN T : O[x] = Size(T[x])
    OBVIOUS
  <2>2. \A b \in DOMAIN O : Allocator!Run(a, z) \cap Allocator!Run(b, O[b]) = {}
    BY <1>9, <2>1
  <2>. QED
    BY <1>2, <1>7, <1>10, <2>2 DEF Allocator!Alloc
<1>. QED
  BY <1>6, <1>11

(* A deallocation takes back one run. *)
LEMMA DeallocImplements ==
  ASSUME Inv, NEW a, fm_dealloc(a)
  PROVE  \E x \in DOMAIN Owned : Allocator!Dealloc(x)
<1> DEFINE T == fm.allocated
           U == fm'.allocated
           O == [x \in DOMAIN T |-> Size(T[x])]
           P == [x \in DOMAIN U |-> Size(U[x])]
<1>1. U = Without(T, {a}) /\ a \in DOMAIN T
  BY DeallocSound DEF fm_dealloc
<1>2. DOMAIN U = DOMAIN T \ {a} /\ \A x \in DOMAIN U : U[x] = T[x]
  <2> HIDE DEF T, U
  <2>. QED
    BY <1>1 DEF Without
<1>3. P = [x \in DOMAIN O \ {a} |-> O[x]]
  <2> HIDE DEF T, U
  <2>1. DOMAIN O = DOMAIN T /\ \A x \in DOMAIN T : O[x] = Size(T[x])
    OBVIOUS
  <2>2. \A x \in DOMAIN U : Size(U[x]) = O[x]
    BY <1>2, <2>1
  <2>. QED
    BY <1>2, <2>1, <2>2
<1>4. Allocator!Dealloc(a)
  BY <1>3 DEF Allocator!Dealloc
<1>. QED
  BY <1>1, <1>4 DEF Owned

(* The frame manager gives out runs of pages that nobody else has: each    *)
(* fm_alloc is an allocation of the abstract allocator, each fm_dealloc a  *)
(* deallocation.                                                           *)
THEOREM AllocatorImplemented == Spec => ImplementsAllocator
<1>1. Init => Allocator!Init
  <2>1. SUFFICES ASSUME Init PROVE Owned = [a \in {} |-> 0]
    BY DEF Allocator!Init, Owned
  <2>2. DOMAIN fm.allocated = {}
    BY <2>1 DEF Init
  <2>. QED
    BY <2>2 DEF Owned
<1>2. Inv /\ [Next]_fm => [Allocator!Next]_Owned
  <2> SUFFICES ASSUME Inv, [Next]_fm PROVE [Allocator!Next]_Owned
    OBVIOUS
  <2>1. ASSUME NEW n \in 1 .. MaxRequest, fm_alloc(n) PROVE Allocator!Next
    BY <2>1, AllocImplements DEF Allocator!Next
  <2>2. ASSUME NEW a \in 0 .. Pages - 1, fm_dealloc(a) PROVE Allocator!Next
    BY <2>2, DeallocImplements DEF Allocator!Next, Owned
  <2>3. CASE UNCHANGED fm
    BY <2>3 DEF Owned
  <2>. QED
    BY <2>1, <2>2, <2>3 DEF Next
<1>3. Inv /\ [Next]_fm
        => Inv' /\ [Allocator!Next]_[a \in DOMAIN fm.allocated |-> Size(fm.allocated[a])]
  BY <1>2, StepSound DEF Owned
<1>. QED
  BY <1>1, <1>3, InitSound, PTL DEF Spec, ImplementsAllocator, Allocator!Spec
=============================================================================
