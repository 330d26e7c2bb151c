---------------------------- MODULE TcbPoolProofs ----------------------------
(***************************************************************************)
(* What the list operations of TcbPool return: the lemmas on which the     *)
(* proofs about the specifications that use the pool rest.  A list without *)
(* repetitions is one whose sequence is injective; every operation is a    *)
(* way of cutting a list in two and putting pieces together again.  And    *)
(* what the scheduler's switch, move and wakeup do to the lists.           *)
(***************************************************************************)
EXTENDS Scheduler, SequenceTheorems, WellFoundedInduction, TLAPS

(* A nonempty set of naturals has a least element, and Min picks it. *)
LEMMA MinIsLeast ==
  ASSUME NEW S \in SUBSET Nat, S # {}
  PROVE  Min(S) \in S /\ \A x \in S : Min(S) <= x
<1>1. PICK m \in S : \A x \in S : ~(<<x, m>> \in OpToRel(<, Nat))
  BY NatLessThanWellFounded, WFMin
<1>2. ASSUME NEW x \in S PROVE m <= x
  <2>1. <<x, m>> \in Nat \X Nat
    OBVIOUS
  <2>2. ~(<<x, m>>[1] < <<x, m>>[2])
    BY <1>1, <2>1 DEF OpToRel
  <2>. QED
    BY <2>2
<1>. QED
  BY <1>2 DEF Min

(* The elements of a concatenation are those of its parts. *)
LEMMA ConcatRange ==
  ASSUME NEW S, NEW a \in Seq(S), NEW b \in Seq(S)
  PROVE  a \o b \in Seq(S) /\ Range(a \o b) = Range(a) \cup Range(b)
BY ConcatProperties, RangeConcatenation

(* A concatenation has no repetitions when its parts have none and no      *)
(* element in common.                                                      *)
LEMMA ConcatInjective ==
  ASSUME NEW S, NEW a \in Seq(S), NEW b \in Seq(S),
         IsInjective(a), IsInjective(b), Range(a) \cap Range(b) = {}
  PROVE  IsInjective(a \o b)
<1> DEFINE c == a \o b
<1>1. /\ DOMAIN a = 1..Len(a) /\ DOMAIN b = 1..Len(b)
      /\ Len(a) \in Nat /\ Len(b) \in Nat
  BY LenProperties
<1>2. /\ DOMAIN c = 1..(Len(a) + Len(b))
      /\ \A i \in 1..(Len(a) + Len(b)) :
           c[i] = IF i <= Len(a) THEN a[i] ELSE b[i - Len(a)]
  BY ConcatProperties, LenProperties
<1>3. ASSUME NEW i \in DOMAIN a, NEW j \in DOMAIN b PROVE a[i] # b[j]
  BY DEF Range
<1>4. \A i, j \in DOMAIN a : a[i] = a[j] => i = j
  BY DEF IsInjective
<1>5. \A i, j \in DOMAIN b : b[i] = b[j] => i = j
  BY DEF IsInjective
<1> HIDE DEF c
<1>6. \A i, j \in DOMAIN c : c[i] = c[j] => i = j
  <2>1. SUFFICES ASSUME NEW i \in DOMAIN c, NEW j \in DOMAIN c, c[i] = c[j]
                 PROVE  i = j
    OBVIOUS
  <2>2. CASE i <= Len(a) /\ j <= Len(a)
    BY <1>1, <1>2, <1>4, <2>1, <2>2
  <2>3. CASE i > Len(a) /\ j > Len(a)
    <3>1. i - Len(a) \in DOMAIN b /\ j - Len(a) \in DOMAIN b
      BY <1>1, <1>2, <2>3
    <3>. QED
      BY <1>1, <1>2, <1>5, <2>1, <2>3, <3>1
  <2>4. CASE i <= Len(a) /\ j > Len(a)
    <3>1. i \in DOMAIN a /\ j - Len(a) \in DOMAIN b
      BY <1>1, <1>2, <2>4
    <3>. QED
      BY <1>1, <1>2, <1>3, <2>1, <2>4, <3>1
  <2>5. CASE i > Len(a) /\ j <= Len(a)
    <3>1. i - Len(a) \in DOMAIN b /\ j \in DOMAIN a
      BY <1>1, <1>2, <2>5
    <3>. QED
      BY <1>1, <1>2, <1>3, <2>1, <2>5, <3>1
  <2>. QED
    BY <1>1, <1>2, <2>2, <2>3, <2>4, <2>5
<1>. QED
  BY <1>6 DEF c, IsInjective

(* ... and only then. *)
LEMMA ConcatInjectiveParts ==
  ASSUME NEW S, NEW a \in Seq(S), NEW b \in Seq(S), IsInjective(a \o b)
  PROVE  IsInjective(a) /\ IsInjective(b) /\ Range(a) \cap Range(b) = {}
<1> DEFINE c == a \o b
<1>1. /\ DOMAIN a = 1..Len(a) /\ DOMAIN b = 1..Len(b)
      /\ Len(a) \in Nat /\ Len(b) \in Nat
  BY LenProperties
<1>2. /\ DOMAIN c = 1..(Len(a) + Len(b))
      /\ \A i \in 1..(Len(a) + Len(b)) :
           c[i] = IF i <= Len(a) THEN a[i] ELSE b[i - Len(a)]
  BY ConcatProperties, LenProperties
<1>3. \A i, j \in DOMAIN c : c[i] = c[j] => i = j
  BY DEF IsInjective
<1> HIDE DEF c
<1>4. \A i \in DOMAIN a : i \in DOMAIN c /\ c[i] = a[i]
  BY <1>1, <1>2
<1>5. ASSUME NEW i \in DOMAIN b
      PROVE  Len(a) + i \in DOMAIN c /\ c[Len(a) + i] = b[i]
  <2>1. Len(a) + i \in 1..(Len(a) + Len(b)) /\ ~(Len(a) + i <= Len(a))
        /\ (Len(a) + i) - Len(a) = i
    BY <1>1
  <2>. QED
    BY <1>2, <2>1
<1>6. IsInjective(a)
  BY <1>3, <1>4 DEF IsInjective
<1>7. IsInjective(b)
  <2>1. SUFFICES ASSUME NEW i \in DOMAIN b, NEW j \in DOMAIN b, b[i] = b[j]
                 PROVE  i = j
    BY DEF IsInjective
  <2>2. Len(a) + i = Len(a) + j
    BY <1>3, <1>5, <2>1
  <2>. QED
    BY <1>1, <2>2
<1>8. ASSUME NEW i \in DOMAIN a, NEW j \in DOMAIN b PROVE a[i] # b[j]
  <2>1. i # Len(a) + j
    BY <1>1
  <2>. QED
    BY <1>3, <1>4, <1>5, <2>1
<1>. QED
  BY <1>6, <1>7, <1>8 DEF Range

(* A list of one node. *)
LEMMA SingletonList ==
  ASSUME NEW S, NEW t \in S
  PROVE  <<t>> \in Seq(S) /\ Range(<<t>>) = {t} /\ IsInjective(<<t>>)
<1>1. <<t>> \in Seq(S) /\ DOMAIN <<t>> = {1} /\ <<t>>[1] = t
  OBVIOUS
<1>. QED
  BY <1>1 DEF Range, IsInjective

(* A list is what comes before a place in it, and what comes after. *)
LEMMA SplitList ==
  ASSUME NEW S, NEW s \in Seq(S), NEW n \in 0..Len(s)
  PROVE  /\ SubSeq(s, 1, n) \in Seq(S)
         /\ SubSeq(s, n + 1, Len(s)) \in Seq(S)
         /\ s = SubSeq(s, 1, n) \o SubSeq(s, n + 1, Len(s))
<1> DEFINE a == SubSeq(s, 1, n)
           b == SubSeq(s, n + 1, Len(s))
<1>1. Len(s) \in Nat /\ \A i \in 1..Len(s) : s[i] \in S
  BY LenProperties, ElementOfSeq
<1>2. /\ a \in Seq(S) /\ Len(a) = n
      /\ \A i \in 1..n : a[i] = s[i]
  BY <1>1, SubSeqProperties
<1>3. /\ b \in Seq(S) /\ Len(b) = Len(s) - n
      /\ \A i \in 1..(Len(s) - n) : b[i] = s[n + i]
  <2>1. \A i \in (n + 1)..Len(s) : s[i] \in S
    BY <1>1
  <2>2. /\ b \in Seq(S)
        /\ Len(b) = IF n + 1 <= Len(s) THEN Len(s) - (n + 1) + 1 ELSE 0
        /\ \A i \in 1..(Len(s) - (n + 1) + 1) : b[i] = s[(n + 1) + i - 1]
    BY <1>1, <2>1, SubSeqProperties
  <2>. QED
    BY <1>1, <2>2
<1> HIDE DEF a, b
<1>4. /\ a \o b \in Seq(S) /\ Len(a \o b) = Len(s)
      /\ \A i \in 1..Len(s) : (a \o b)[i] = IF i <= n THEN a[i] ELSE b[i - n]
  <2>1. /\ a \o b \in Seq(S) /\ Len(a \o b) = Len(a) + Len(b)
        /\ \A i \in 1..(Len(a) + Len(b)) :
             (a \o b)[i] = IF i <= Len(a) THEN a[i] ELSE b[i - Len(a)]
    BY <1>2, <1>3, ConcatProperties
  <2>. QED
    BY <1>1, <1>2, <1>3, <2>1
<1>5. ASSUME NEW i \in 1..Len(s) PROVE s[i] = (a \o b)[i]
  <2>1. CASE i <= n
    BY <1>2, <1>4, <2>1
  <2>2. CASE i > n
    <3>1. i - n \in 1..(Len(s) - n) /\ n + (i - n) = i
      BY <1>1, <2>2
    <3>. QED
      BY <1>3, <1>4, <2>2, <3>1
  <2>3. i <= n \/ i > n
    BY <1>1
  <2>. QED
    BY <2>1, <2>2, <2>3, Zenon
<1>6. s = a \o b
  BY <1>4, <1>5, SeqEqual
<1>. QED
  BY <1>2, <1>3, <1>6 DEF a, b

(* A place in a list splits it into what precedes, the node and the rest. *)
LEMMA SplitAround ==
  ASSUME NEW S, NEW s \in Seq(S), NEW i \in 1..Len(s)
  PROVE  /\ SubSeq(s, 1, i - 1) \in Seq(S)
         /\ SubSeq(s, i + 1, Len(s)) \in Seq(S)
         /\ s[i] \in S
         /\ s = SubSeq(s, 1, i - 1) \o (<<s[i]>> \o SubSeq(s, i + 1, Len(s)))
<1>1. Len(s) \in Nat /\ s[i] \in S
  BY LenProperties, ElementOfSeq
<1>2. i - 1 \in 0..Len(s) /\ i \in 0..Len(s) /\ (i - 1) + 1 = i
  BY <1>1
<1>3. /\ SubSeq(s, 1, i - 1) \in Seq(S)
      /\ s = SubSeq(s, 1, i - 1) \o SubSeq(s, i, Len(s))
  BY <1>2, SplitList
<1>4. SubSeq(s, i + 1, Len(s)) \in Seq(S)
  BY <1>2, SplitList
<1>5. SubSeq(s, i, Len(s)) = <<s[i]>> \o SubSeq(s, i + 1, Len(s))
  <2>1. Len(s) \in i..Len(s)
    BY <1>1
  <2>. QED
    BY <2>1, SubSeqRecursiveFirst
<1>. QED
  BY <1>1, <1>3, <1>4, <1>5

-----------------------------------------------------------------------------
(* ll_unlink_node takes the given node, and nothing else, out of a list *)
(* that holds it once.                                                  *)
LEMMA UnlinkNode ==
  ASSUME NEW S, NEW s \in Seq(S), NEW t \in Range(s)
  PROVE  /\ ll_unlink_node(s, t) \in Seq(S)
         /\ IsInjective(s) => /\ IsInjective(ll_unlink_node(s, t))
                              /\ Range(ll_unlink_node(s, t)) = Range(s) \ {t}
<1> DEFINE i == CHOOSE k \in DOMAIN s : s[k] = t
           a == SubSeq(s, 1, i - 1)
           b == SubSeq(s, i + 1, Len(s))
           one == <<t>>
<1>1. i \in 1..Len(s) /\ s[i] = t
  BY LenProperties DEF Range
<1> HIDE DEF i
<1>2. a \in Seq(S) /\ b \in Seq(S) /\ t \in S /\ s = a \o (one \o b)
  BY <1>1, SplitAround
<1>3. ll_unlink_node(s, t) = a \o b
  BY DEF ll_unlink_node, RemoveAt, i
<1>5. one \in Seq(S) /\ Range(one) = {t}
  BY <1>2, SingletonList
<1> HIDE DEF a, b, one
<1>4. a \o b \in Seq(S) /\ Range(a \o b) = Range(a) \cup Range(b)
  BY <1>2, ConcatRange
<1>6. one \o b \in Seq(S) /\ Range(one \o b) = {t} \cup Range(b)
  BY <1>2, <1>5, ConcatRange
<1>7. Range(s) = Range(a) \cup ({t} \cup Range(b))
  <2>1. \A x, y \in Seq(S) : Range(x \o y) = Range(x) \cup Range(y)
    BY ConcatRange
  <2> DEFINE c == one \o b
  <2>2. c \in Seq(S) /\ s = a \o c /\ Range(c) = {t} \cup Range(b)
    BY <1>2, <1>6
  <2> HIDE DEF c
  <2>3. Range(a \o c) = Range(a) \cup Range(c)
    BY <1>2, <2>1, <2>2
  <2>. QED
    BY <2>2, <2>3
<1>8. ASSUME IsInjective(s)
      PROVE  IsInjective(a \o b) /\ Range(a \o b) = Range(s) \ {t}
  <2>1. /\ IsInjective(a) /\ IsInjective(one \o b)
        /\ Range(a) \cap ({t} \cup Range(b)) = {}
    BY <1>2, <1>6, <1>8, ConcatInjectiveParts
  <2>2. IsInjective(b) /\ {t} \cap Range(b) = {}
    BY <1>2, <1>5, <2>1, ConcatInjectiveParts
  <2>3. IsInjective(a \o b)
    BY <1>2, <2>1, <2>2, ConcatInjective
  <2>. QED
    BY <1>4, <1>7, <2>1, <2>2, <2>3
<1>. QED
  BY <1>3, <1>4, <1>8

(* ll_link_node_last adds the given node, and keeps a list that did not *)
(* hold it free of repetitions.                                         *)
LEMMA LinkNodeLast ==
  ASSUME NEW S, NEW s \in Seq(S), NEW t \in S
  PROVE  /\ ll_link_node_last(s, t) \in Seq(S)
         /\ Range(ll_link_node_last(s, t)) = Range(s) \cup {t}
         /\ ll_link_node_last(s, t) # <<>>
         /\ IsInjective(s) /\ t \notin Range(s)
              => IsInjective(ll_link_node_last(s, t))
<1> DEFINE one == <<t>>
<1>1. one \in Seq(S) /\ Range(one) = {t} /\ IsInjective(one)
  BY SingletonList
<1>2. ll_link_node_last(s, t) = s \o one
  BY AppendIsConcat DEF ll_link_node_last
<1>0. one # <<>>
  OBVIOUS
<1> HIDE DEF one
<1>3. s \o one \in Seq(S) /\ Range(s \o one) = Range(s) \cup {t}
  BY <1>1, ConcatRange
<1>4. s \o one # <<>>
  BY <1>1, <1>0, ConcatEqualIffEmpty
<1>5. ASSUME IsInjective(s), t \notin Range(s) PROVE IsInjective(s \o one)
  <2>1. Range(s) \cap Range(one) = {}
    BY <1>1, <1>5
  <2>. QED
    BY <1>1, <1>5, <2>1, ConcatInjective
<1>. QED
  BY <1>2, <1>3, <1>4, <1>5

(* ll_rotate keeps the nodes of a list, and a list empty or not. *)
LEMMA Rotate ==
  ASSUME NEW S, NEW s \in Seq(S)
  PROVE  /\ ll_rotate(s) \in Seq(S)
         /\ Range(ll_rotate(s)) = Range(s)
         /\ ll_rotate(s) = <<>> <=> s = <<>>
         /\ IsInjective(s) => IsInjective(ll_rotate(s))
<1>1. CASE Len(s) <= 1
  BY <1>1 DEF ll_rotate
<1>2. CASE ~(Len(s) <= 1)
  <2> DEFINE one == <<Head(s)>>
  <2>0. s # <<>> /\ Len(s) \in Nat
    BY <1>2, LenProperties
  <2>1. Head(s) \in S /\ Tail(s) \in Seq(S)
    BY <2>0, HeadTailProperties
  <2>2. ll_rotate(s) = ll_link_node_last(Tail(s), Head(s))
    BY <1>2 DEF ll_rotate, ll_link_node_last
  <2>3. s = one \o Tail(s)
    <3>1. Head(s) = s[1] /\ Tail(s) = SubSeq(s, 2, Len(s))
      BY <2>0, TailIsSubSeq
    <3>2. 1 \in 1..Len(s) /\ Len(s) \in 1..Len(s)
      BY <1>2, <2>0
    <3>3. SubSeq(s, 1, Len(s)) = <<s[1]>> \o SubSeq(s, 1 + 1, Len(s))
      BY <3>2, SubSeqRecursiveFirst
    <3>. QED
      BY <3>1, <3>3, SubSeqFull
  <2>4. one \in Seq(S) /\ Range(one) = {Head(s)}
    BY <2>1, SingletonList
  <2> HIDE DEF one
  <2>5. Range(s) = {Head(s)} \cup Range(Tail(s))
    <3>1. \A x, y \in Seq(S) : Range(x \o y) = Range(x) \cup Range(y)
      BY ConcatRange
    <3>. QED
      BY <2>1, <2>3, <2>4, <3>1
  <2>6. IsInjective(s) => IsInjective(Tail(s)) /\ Head(s) \notin Range(Tail(s))
    <3>1. IsInjective(s) => /\ IsInjective(Tail(s))
                            /\ {Head(s)} \cap Range(Tail(s)) = {}
      BY <2>1, <2>3, <2>4, ConcatInjectiveParts
    <3>. QED
      BY <3>1
  <2> DEFINE r == ll_link_node_last(Tail(s), Head(s))
  <2>7. /\ r \in Seq(S)
        /\ Range(r) = Range(Tail(s)) \cup {Head(s)}
        /\ r # <<>>
        /\ IsInjective(Tail(s)) /\ Head(s) \notin Range(Tail(s))
             => IsInjective(r)
    BY <2>1, LinkNodeLast
  <2> HIDE DEF r
  <2>8. ll_rotate(s) = r
    BY <2>2 DEF r
  <2>9. Range(r) = Range(s)
    BY <2>5, <2>7
  <2>. QED
    BY <2>0, <2>6, <2>7, <2>8, <2>9, Zenon
<1>. QED
  BY <1>1, <1>2

(* r is s with t inserted after the n-th node: the n first stay where they *)
(* are and the others are shifted by one.                                  *)
Inserted(r, s, n, t) ==
  /\ Len(r) = Len(s) + 1
  /\ \A j \in 1..n : r[j] = s[j]
  /\ r[n + 1] = t
  /\ \A j \in (n + 1)..Len(s) : r[j + 1] = s[j]

(* InsertAt does that. *)
LEMMA InsertAfter ==
  ASSUME NEW S, NEW s \in Seq(S), NEW n \in 0..Len(s), NEW t \in S,
         NEW r, r = InsertAt(s, n + 1, t)
  PROVE  r \in Seq(S) /\ Inserted(r, s, n, t)
<1> DEFINE a == SubSeq(s, 1, n)
           one == <<t>>
           b == SubSeq(s, n + 1, Len(s))
           ao == a \o one
<1>1. Len(s) \in Nat /\ \A i \in 1..Len(s) : s[i] \in S
  BY LenProperties, ElementOfSeq
<1>2. a \in Seq(S) /\ Len(a) = n /\ \A i \in 1..n : a[i] = s[i]
  BY <1>1, SubSeqProperties
<1>3. /\ b \in Seq(S) /\ Len(b) = Len(s) - n
      /\ \A i \in 1..(Len(s) - n) : b[i] = s[n + i]
  <2>1. \A i \in (n + 1)..Len(s) : s[i] \in S
    BY <1>1
  <2>2. /\ b \in Seq(S)
        /\ Len(b) = IF n + 1 <= Len(s) THEN Len(s) - (n + 1) + 1 ELSE 0
        /\ \A i \in 1..(Len(s) - (n + 1) + 1) : b[i] = s[(n + 1) + i - 1]
    BY <1>1, <2>1, SubSeqProperties
  <2>. QED
    BY <1>1, <2>2
<1>4. one \in Seq(S) /\ Len(one) = 1 /\ one[1] = t
  OBVIOUS
<1>5. r = ao \o b
  <2>1. (n + 1) - 1 = n
    OBVIOUS
  <2>. QED
    BY <2>1 DEF InsertAt
<1> HIDE DEF a, b, one
<1>6. /\ ao \in Seq(S) /\ Len(ao) = n + 1
      /\ \A i \in 1..(n + 1) : ao[i] = IF i <= n THEN a[i] ELSE one[i - n]
  <2>1. /\ a \o one \in Seq(S) /\ Len(a \o one) = Len(a) + Len(one)
        /\ \A i \in 1..(Len(a) + Len(one)) :
             (a \o one)[i] = IF i <= Len(a) THEN a[i] ELSE one[i - Len(a)]
    BY <1>2, <1>4, ConcatProperties
  <2>. QED
    BY <1>2, <1>4, <2>1
<1> HIDE DEF ao
<1>7. /\ r \in Seq(S) /\ Len(r) = Len(s) + 1
      /\ \A i \in 1..(Len(s) + 1) :
           r[i] = IF i <= n + 1 THEN ao[i] ELSE b[i - (n + 1)]
  <2>1. /\ ao \o b \in Seq(S) /\ Len(ao \o b) = Len(ao) + Len(b)
        /\ \A i \in 1..(Len(ao) + Len(b)) :
             (ao \o b)[i] = IF i <= Len(ao) THEN ao[i] ELSE b[i - Len(ao)]
    BY <1>3, <1>6, ConcatProperties
  <2>2. Len(ao) + Len(b) = Len(s) + 1
    BY <1>1, <1>3, <1>6
  <2>. QED
    BY <1>5, <1>6, <2>1, <2>2
<1>8. ASSUME NEW j \in 1..n PROVE r[j] = s[j]
  <2>1. j \in 1..(Len(s) + 1) /\ j <= n + 1 /\ j \in 1..(n + 1) /\ j <= n
    BY <1>1
  <2>. QED
    BY <1>2, <1>6, <1>7, <2>1
<1>9. r[n + 1] = t
  <2>1. n + 1 \in 1..(Len(s) + 1) /\ n + 1 <= n + 1 /\ n + 1 \in 1..(n + 1)
        /\ ~(n + 1 <= n) /\ (n + 1) - n = 1
    BY <1>1
  <2>. QED
    BY <1>4, <1>6, <1>7, <2>1
<1>10. ASSUME NEW j \in (n + 1)..Len(s) PROVE r[j + 1] = s[j]
  <2>1. j + 1 \in 1..(Len(s) + 1) /\ ~(j + 1 <= n + 1)
        /\ (j + 1) - (n + 1) = j - n /\ j - n \in 1..(Len(s) - n)
        /\ n + (j - n) = j
    BY <1>1
  <2>2. r[j + 1] = b[j - n]
    BY <1>7, <2>1
  <2>. QED
    BY <1>3, <2>1, <2>2
<1>. QED
  BY <1>7, <1>8, <1>9, <1>10 DEF Inserted

(* The place ll_link_node_sorted finds is in the list, or before its head. *)
LEMMA SortedPlace ==
  ASSUME NEW S, NEW s \in Seq(S), NEW t, NEW key, s # <<>>
  PROVE  /\ SortedPredecessor(s, t, key) \in 1..Len(s)
         /\ LET p == SortedPredecessor(s, t, key) IN
              /\ \/ p = Len(s)
                 \/ key[s[p]] <= key[t] /\ key[t] <= key[s[p + 1]]
              /\ \A i \in 1..Len(s) :
                   key[s[i]] <= key[t] /\ key[t] <= key[s[i + 1]] => p <= i
<1> DEFINE P == {i \in DOMAIN s : \/ i = Len(s)
                                  \/ key[s[i]] <= key[t] /\ key[t] <= key[s[i + 1]]}
<1>1. Len(s) \in Nat /\ Len(s) # 0 /\ DOMAIN s = 1..Len(s)
  BY LenProperties, EmptySeq
<1>2. P \in SUBSET Nat /\ Len(s) \in P
  BY <1>1
<1>3. SortedPredecessor(s, t, key) = Min(P)
  BY DEF SortedPredecessor
<1> HIDE DEF P
<1>4. Min(P) \in P /\ \A x \in P : Min(P) <= x
  BY <1>2, MinIsLeast
<1>. QED
  BY <1>1, <1>3, <1>4 DEF P

(* ll_link_node_sorted adds the given node, and no other. *)
LEMMA LinkNodeSorted ==
  ASSUME NEW S, NEW s \in Seq(S), NEW t \in S, NEW key
  PROVE  LET r == ll_link_node_sorted(s, t, key) IN
         /\ r \in Seq(S)
         /\ Range(r) = Range(s) \cup {t}
         /\ IsInjective(s) /\ t \notin Range(s) => IsInjective(r)
<1>1. PICK n \in 0..Len(s) : ll_link_node_sorted(s, t, key) = InsertAt(s, n + 1, t)
  <2>1. Len(s) \in Nat
    BY LenProperties
  <2>2. CASE s = <<>> \/ key[t] < key[Head(s)]
    <3>1. ll_link_node_sorted(s, t, key) = InsertAt(s, 0 + 1, t)
      BY <2>2 DEF ll_link_node_sorted
    <3>. QED
      BY <2>1, <3>1
  <2>3. CASE ~(s = <<>> \/ key[t] < key[Head(s)])
    <3>1. SortedPredecessor(s, t, key) \in 0..Len(s)
      BY <2>1, <2>3, SortedPlace
    <3>. QED
      BY <2>3, <3>1 DEF ll_link_node_sorted
  <2>. QED
    BY <2>2, <2>3
<1> DEFINE a == SubSeq(s, 1, n)
           one == <<t>>
           b == SubSeq(s, n + 1, Len(s))
           ao == a \o one
<1>2. InsertAt(s, n + 1, t) = ao \o b
  <2>1. (n + 1) - 1 = n
    OBVIOUS
  <2>. QED
    BY <2>1 DEF InsertAt
<1>3. one \in Seq(S) /\ Range(one) = {t} /\ IsInjective(one)
  BY SingletonList
<1>4. a \in Seq(S) /\ b \in Seq(S) /\ s = a \o b
  BY SplitList
<1> HIDE DEF a, b, one
<1>5. \A x, y \in Seq(S) : /\ x \o y \in Seq(S)
                           /\ Range(x \o y) = Range(x) \cup Range(y)
  BY ConcatRange
<1>6. ao \in Seq(S) /\ Range(ao) = Range(a) \cup {t}
  BY <1>3, <1>4, <1>5
<1>7. Range(s) = Range(a) \cup Range(b)
  BY <1>4, <1>5
<1>8. ASSUME IsInjective(s), t \notin Range(s) PROVE IsInjective(ao \o b)
  <2>1. IsInjective(a) /\ IsInjective(b) /\ Range(a) \cap Range(b) = {}
    BY <1>4, <1>8, ConcatInjectiveParts
  <2>2. Range(a) \cap Range(one) = {}
    BY <1>3, <1>7, <1>8
  <2>3. IsInjective(ao)
    BY <1>3, <1>4, <2>1, <2>2, ConcatInjective
  <2>4. Range(ao) \cap Range(b) = {}
    BY <1>6, <1>7, <1>8, <2>1
  <2> HIDE DEF ao
  <2>. QED
    BY <1>4, <1>6, <2>1, <2>3, <2>4, ConcatInjective
<1> HIDE DEF ao
<1>9. ao \o b \in Seq(S) /\ Range(ao \o b) = Range(s) \cup {t}
  BY <1>4, <1>5, <1>6, <1>7
<1>. QED
  BY <1>1, <1>2, <1>8, <1>9

(* In an ordered list, ll_link_node_sorted stops at a node after which the *)
(* new one is in order: whoever comes before is not due later, and whoever *)
(* comes after is not due sooner.                                          *)
LEMMA SortedPlaceInOrder ==
  ASSUME NEW S, NEW s \in Seq(S), NEW t \in S, NEW key \in [S -> Int],
         Ordered(s, key), s # <<>>, ~(key[t] < key[Head(s)])
  PROVE  LET p == SortedPredecessor(s, t, key) IN
         /\ \A i \in 1..p : key[s[i]] <= key[t]
         /\ \A i \in (p + 1)..Len(s) : key[t] <= key[s[i]]
<1> DEFINE p == SortedPredecessor(s, t, key)
<1>1. Len(s) \in Nat /\ Len(s) # 0 /\ DOMAIN s = 1..Len(s) /\ Head(s) = s[1]
  BY LenProperties, EmptySeq
<1>2. key[t] \in Int /\ \A i \in 1..Len(s) : key[s[i]] \in Int
  BY ElementOfSeq
<1>3. /\ p \in 1..Len(s)
      /\ p = Len(s) \/ (key[s[p]] <= key[t] /\ key[t] <= key[s[p + 1]])
      /\ \A i \in 1..Len(s) :
           key[s[i]] <= key[t] /\ key[t] <= key[s[i + 1]] => p <= i
  BY SortedPlace
<1>0. p \in 1..Len(s)
  BY <1>3
<1> HIDE DEF p
<1>4. \A i, j \in 1..Len(s) : i < j => key[s[i]] <= key[s[j]]
  BY <1>1 DEF Ordered
<1>5. key[s[p]] <= key[t]
  <2>1. CASE p # Len(s)
    BY <1>3, <2>1
  <2>2. CASE p = Len(s)
    <3> DEFINE Later == {i \in 1..Len(s) : key[t] < key[s[i]]}
    <3>1. CASE Later = {}
      BY <1>2, <1>3, <3>1
    <3>2. CASE Later # {}
      <4>1. Later \in SUBSET Nat
        OBVIOUS
      <4>2. PICK m \in Later : \A x \in Later : m <= x
        BY <3>2, <4>1, MinIsLeast
      <4>3. m \in 1..Len(s) /\ key[t] < key[s[m]] /\ m # 1
        BY <1>1
      <4>4. m - 1 \in 1..Len(s) /\ m - 1 \notin Later /\ (m - 1) + 1 = m
            /\ m - 1 < Len(s)
        BY <1>1, <4>2, <4>3
      <4>5. key[s[m - 1]] <= key[t] /\ key[t] <= key[s[(m - 1) + 1]]
        BY <1>2, <4>3, <4>4
      <4>6. p <= m - 1
        BY <1>3, <4>4, <4>5
      <4>. QED
        BY <1>1, <2>2, <4>4, <4>6
    <3>. QED
      BY <3>1, <3>2
  <2>. QED
    BY <2>1, <2>2
<1>6. ASSUME NEW i \in 1..p PROVE key[s[i]] <= key[t]
  <2>1. i \in 1..Len(s) /\ (i = p \/ i < p)
    BY <1>1, <1>0
  <2>2. key[s[i]] <= key[s[p]]
    BY <1>2, <1>3, <1>4, <2>1
  <2>. QED
    BY <1>2, <1>3, <1>5, <2>1, <2>2
<1>7. ASSUME NEW i \in (p + 1)..Len(s) PROVE key[t] <= key[s[i]]
  <2>0. p \in Nat /\ Len(s) \in Nat /\ 1 <= p /\ i \in Int /\ p + 1 <= i /\ i <= Len(s)
    BY <1>1, <1>0
  <2>1. /\ p # Len(s) /\ i \in 1..Len(s) /\ p + 1 \in 1..Len(s)
        /\ (i = p + 1 \/ p + 1 < i)
    BY <2>0
  <2>2. key[s[p + 1]] <= key[s[i]]
    BY <1>2, <1>4, <2>1
  <2>. QED
    BY <1>2, <1>3, <2>1, <2>2
<1>. QED
  BY <1>6, <1>7 DEF p

(* A node inserted between those not later and those not sooner keeps a  *)
(* list in order.                                                        *)
LEMMA InsertKeepsOrder ==
  ASSUME NEW S, NEW s \in Seq(S), NEW t \in S, NEW key \in [S -> Int],
         NEW n \in 0..Len(s), Ordered(s, key),
         \A i \in 1..n : key[s[i]] <= key[t],
         \A i \in (n + 1)..Len(s) : key[t] <= key[s[i]]
  PROVE  Ordered(InsertAt(s, n + 1, t), key)
<1> DEFINE r == InsertAt(s, n + 1, t)
<1>0. r = InsertAt(s, n + 1, t)
  OBVIOUS
<1> HIDE DEF r
<1>1. /\ r \in Seq(S) /\ Len(r) = Len(s) + 1
      /\ \A j \in 1..n : r[j] = s[j]
      /\ r[n + 1] = t
      /\ \A j \in (n + 1)..Len(s) : r[j + 1] = s[j]
  <2>1. r \in Seq(S) /\ Inserted(r, s, n, t)
    BY <1>0, InsertAfter
  <2>. QED
    BY <2>1 DEF Inserted
<1>2. Len(s) \in Nat /\ DOMAIN s = 1..Len(s)
  BY LenProperties
<1>3. DOMAIN r = 1..(Len(s) + 1)
  BY <1>1, LenProperties
<1>4. \A i, j \in 1..Len(s) : i < j => key[s[i]] <= key[s[j]]
  BY <1>2 DEF Ordered
<1>5. ASSUME NEW j \in (n + 2)..(Len(s) + 1)
      PROVE  j - 1 \in (n + 1)..Len(s) /\ j - 1 \in 1..Len(s) /\ r[j] = s[j - 1]
  <2>1. j - 1 \in (n + 1)..Len(s) /\ j - 1 \in 1..Len(s) /\ (j - 1) + 1 = j
    BY <1>2
  <2>. QED
    BY <1>1, <2>1
<1>6. SUFFICES ASSUME NEW i \in 1..(Len(s) + 1), NEW j \in 1..(Len(s) + 1), i < j
               PROVE  key[r[i]] <= key[r[j]]
  BY <1>3 DEF Ordered, r
<1>7. CASE j <= n
  <2>1. i \in 1..n /\ j \in 1..n /\ i \in 1..Len(s) /\ j \in 1..Len(s)
    BY <1>2, <1>6, <1>7
  <2>. QED
    BY <1>1, <1>4, <1>6, <2>1
<1>8. CASE j = n + 1
  <2>1. i \in 1..n
    BY <1>2, <1>6, <1>8
  <2>. QED
    BY <1>1, <1>8, <2>1
<1>9. CASE j > n + 1 /\ i <= n
  <2>1. i \in 1..n /\ i \in 1..Len(s) /\ j \in (n + 2)..(Len(s) + 1)
        /\ i < j - 1
    BY <1>2, <1>6, <1>9
  <2>. QED
    BY <1>1, <1>4, <1>5, <2>1
<1>10. CASE j > n + 1 /\ i = n + 1
  <2>1. j \in (n + 2)..(Len(s) + 1)
    BY <1>2, <1>6, <1>10
  <2>. QED
    BY <1>1, <1>5, <1>10, <2>1
<1>11. CASE i > n + 1
  <2>1. /\ i \in (n + 2)..(Len(s) + 1) /\ j \in (n + 2)..(Len(s) + 1)
        /\ i - 1 < j - 1
    BY <1>2, <1>6, <1>11
  <2>2. key[s[i - 1]] <= key[s[j - 1]]
    BY <1>4, <1>5, <2>1
  <2>. QED
    BY <1>5, <2>1, <2>2
<1>. QED
  BY <1>2, <1>7, <1>8, <1>9, <1>10, <1>11

(* ll_link_node_sorted keeps an ordered list in order. *)
LEMMA LinkNodeSortedOrder ==
  ASSUME NEW S, NEW s \in Seq(S), NEW t \in S, NEW key \in [S -> Int],
         Ordered(s, key)
  PROVE  Ordered(ll_link_node_sorted(s, t, key), key)
<1>1. Len(s) \in Nat /\ DOMAIN s = 1..Len(s)
  BY LenProperties
<1>2. key[t] \in Int /\ \A i \in 1..Len(s) : key[s[i]] \in Int
  BY ElementOfSeq
<1>3. \A i, j \in 1..Len(s) : i < j => key[s[i]] <= key[s[j]]
  BY <1>1 DEF Ordered
<1>4. CASE s = <<>> \/ key[t] < key[Head(s)]
  <2>1. ll_link_node_sorted(s, t, key) = InsertAt(s, 0 + 1, t)
    BY <1>4 DEF ll_link_node_sorted
  <2>2. 0 \in 0..Len(s) /\ \A i \in 1..0 : key[s[i]] <= key[t]
    BY <1>1
  <2>3. ASSUME NEW i \in (0 + 1)..Len(s) PROVE key[t] <= key[s[i]]
    <3>1. s # <<>> /\ Head(s) = s[1] /\ 1 \in 1..Len(s) /\ i \in 1..Len(s)
      BY <1>1
    <3>2. key[s[1]] <= key[s[i]]
      BY <1>2, <1>3, <3>1
    <3>. QED
      BY <1>2, <1>4, <3>1, <3>2
  <2>. QED
    BY <2>1, <2>2, <2>3, InsertKeepsOrder
<1>5. CASE ~(s = <<>> \/ key[t] < key[Head(s)])
  <2> DEFINE p == SortedPredecessor(s, t, key)
  <2>1. ll_link_node_sorted(s, t, key) = InsertAt(s, p + 1, t)
    BY <1>5 DEF ll_link_node_sorted
  <2>2. p \in 1..Len(s)
    BY <1>5, SortedPlace
  <2>3. /\ \A i \in 1..p : key[s[i]] <= key[t]
        /\ \A i \in (p + 1)..Len(s) : key[t] <= key[s[i]]
    BY <1>5, SortedPlaceInOrder
  <2> HIDE DEF p
  <2>4. p \in 0..Len(s)
    BY <1>1, <2>2
  <2>. QED
    BY <2>1, <2>3, <2>4, InsertKeepsOrder
<1>. QED
  BY <1>4, <1>5

-----------------------------------------------------------------------------
(* tcb_pool_wakeup takes from the front of the sleeping list nodes that are *)
(* due, and stops at the end or at one that is not.                         *)
LEMMA DuePrefix ==
  ASSUME NEW S, NEW s \in Seq(S), NEW now
  PROVE  LET n == NumDue(s, now) IN
         /\ n \in 0..Len(s)
         /\ \A i \in 1..n : now[s[i]] = 0
         /\ n # Len(s) => now[s[n + 1]] # 0
<1> DEFINE K == {k \in 0..Len(s) : k = Len(s) \/ now[s[k + 1]] # 0}
           n == NumDue(s, now)
<1>1. Len(s) \in Nat
  BY LenProperties
<1>2. K \in SUBSET Nat /\ Len(s) \in K
  BY <1>1
<1>3. n = Min(K)
  BY DEF NumDue
<1> HIDE DEF K, n
<1>4. n \in K /\ \A k \in K : n <= k
  BY <1>2, <1>3, MinIsLeast
<1>5. n \in 0..Len(s) /\ (n # Len(s) => now[s[n + 1]] # 0)
  BY <1>4 DEF K
<1>6. ASSUME NEW i \in 1..n PROVE now[s[i]] = 0
  <2>1. i - 1 \in 0..Len(s) /\ i - 1 # Len(s) /\ ~(n <= i - 1) /\ (i - 1) + 1 = i
    BY <1>1, <1>5
  <2>2. i - 1 \notin K
    BY <1>4, <2>1
  <2>. QED
    BY <2>1, <2>2 DEF K
<1>. QED
  BY <1>5, <1>6 DEF n

-----------------------------------------------------------------------------
(* Replacing one list by one with the same nodes keeps the partition. *)
LEMMA ReorderPartitioned ==
  ASSUME NEW p \in [Lists -> Seq(Thread)], NEW T, Partitioned(p, T),
         NEW l \in Lists, NEW s \in Seq(Thread),
         IsInjective(s), Range(s) = Range(p[l])
  PROVE  Partitioned([p EXCEPT ![l] = s], T)
<1> DEFINE q == [p EXCEPT ![l] = s]
<1>1. \A m \in Lists : q[m] = IF m = l THEN s ELSE p[m]
  OBVIOUS
<1> HIDE DEF q
<1>2. \A m \in Lists : IsInjective(q[m]) /\ Range(q[m]) = Range(p[m])
  BY <1>1 DEF Partitioned
<1>3. Partitioned(q, T)
  BY <1>2 DEF Partitioned
<1>. QED
  BY <1>3 DEF q

(* So does moving a thread from one list to another. *)
LEMMA MovePartitioned ==
  ASSUME NEW p \in [Lists -> Seq(Thread)], NEW T, Partitioned(p, T),
         NEW l \in Lists, NEW m \in Lists, l # m, NEW t \in Range(p[l]),
         NEW a \in Seq(Thread), IsInjective(a), Range(a) = Range(p[l]) \ {t},
         NEW b \in Seq(Thread), IsInjective(b), Range(b) = Range(p[m]) \cup {t}
  PROVE  Partitioned([p EXCEPT ![l] = a, ![m] = b], T)
<1> DEFINE q == [p EXCEPT ![l] = a, ![m] = b]
<1>1. \A k \in Lists : q[k] = IF k = l THEN a ELSE IF k = m THEN b ELSE p[k]
  OBVIOUS
<1> HIDE DEF q
<1>2. \A k \in Lists : IsInjective(q[k])
  BY <1>1 DEF Partitioned
<1>3. \A k \in Lists : Range(q[k]) = IF k = l THEN Range(p[k]) \ {t}
                                ELSE IF k = m THEN Range(p[k]) \cup {t}
                                ELSE Range(p[k])
  BY <1>1
<1>4. ASSUME NEW j \in Lists, NEW k \in Lists, j # k, NEW x \in Range(p[j])
      PROVE  x \notin Range(p[k])
  BY <1>4 DEF Partitioned
<1>5. ASSUME NEW j \in Lists, NEW k \in Lists, j # k, NEW x \in Range(q[j])
      PROVE  x \notin Range(q[k])
  <2>1. ASSUME NEW i \in Lists, t \in Range(q[i]) PROVE i = m
    BY <1>3, <1>4, <2>1
  <2>2. ASSUME NEW i \in Lists, NEW y \in Range(q[i]), y # t
        PROVE  y \in Range(p[i])
    BY <1>3, <2>2
  <2>3. CASE x = t
    BY <1>5, <2>1, <2>3
  <2>4. CASE x # t
    BY <1>4, <1>5, <2>2, <2>4
  <2>. QED
    BY <2>3, <2>4
<1>6. \A x : (\E k \in Lists : x \in Range(q[k]))
               <=> (\E k \in Lists : x \in Range(p[k]))
  BY <1>3
<1>7. T = {x \in Thread : \E k \in Lists : x \in Range(q[k])}
  BY <1>6 DEF Partitioned
<1>8. Partitioned(q, T)
  BY <1>2, <1>5, <1>7 DEF Partitioned
<1>. QED
  BY <1>8 DEF q

(* A node that is moved from the list it is in to the end of another, as   *)
(* make_waiting and make_runnable move it, leaves the lists a partition.   *)
LEMMA MoveNodePartitioned ==
  ASSUME NEW p \in [Lists -> Seq(Thread)], NEW T, Partitioned(p, T),
         NEW l \in Lists, NEW m \in Lists, l # m, NEW t \in Range(p[l]),
         NEW b, b \in Seq(Thread),
         Range(b) = Range(p[m]) \cup {t},
         t \notin Range(p[m]) /\ IsInjective(p[m]) => IsInjective(b)
  PROVE  Partitioned([p EXCEPT ![l] = ll_unlink_node(@, t), ![m] = b], T)
<1> DEFINE a == ll_unlink_node(p[l], t)
<1>0. p[l] \in Seq(Thread)
  OBVIOUS
<1>1. IsInjective(p[l]) /\ IsInjective(p[m]) /\ t \notin Range(p[m])
  BY DEF Partitioned
<1>2. a \in Seq(Thread) /\ IsInjective(a) /\ Range(a) = Range(p[l]) \ {t}
  BY <1>0, <1>1, UnlinkNode
<1> HIDE DEF a
<1>3. Partitioned([p EXCEPT ![l] = a, ![m] = b], T)
  BY <1>1, <1>2, MovePartitioned
<1>. QED
  BY <1>3 DEF a

(* The lists after tcb_pool_wakeup, in terms of the number of nodes taken. *)
LEMMA WakeupLists ==
  ASSUME pool \in [Lists -> Seq(Thread)]
  PROVE  LET s == pool["sleeping"]
             n == NumDue(s, AfterTick)
         IN  /\ n \in 0..Len(s)
             /\ DueSleepers = SubSeq(s, 1, n)
             /\ Len(DueSleepers) = n
             /\ PoolAfterWakeup =
                  [pool EXCEPT !["sleeping"] = SubSeq(s, n + 1, Len(s)),
                               !["runnable"] = pool["runnable"] \o SubSeq(s, 1, n)]
<1> DEFINE s == pool["sleeping"]
           n == NumDue(s, AfterTick)
<1>1. s \in Seq(Thread)
  BY DEF Lists
<1>2. Len(s) \in Nat /\ \A i \in 1..Len(s) : s[i] \in Thread
  BY <1>1, LenProperties, ElementOfSeq
<1>3. n \in 0..Len(s)
  <2> HIDE DEF s
  <2>. QED
    BY <1>1, DuePrefix
<1>4. DueSleepers = SubSeq(s, 1, n)
  BY DEF DueSleepers
<1>5. Len(SubSeq(s, 1, n)) = n
  <2> HIDE DEF n, s
  <2>. QED
    BY <1>2, <1>3, SubSeqProperties
<1>. QED
  BY <1>3, <1>4, <1>5 DEF PoolAfterWakeup, Lists

(* tcb_pool_wakeup keeps the partition. *)
LEMMA WakeupPartitioned ==
  ASSUME NEW p \in [Lists -> Seq(Thread)], NEW T, Partitioned(p, T),
         NEW a \in Seq(Thread), NEW d \in Seq(Thread),
         p["sleeping"] = d \o a
  PROVE  LET q == [p EXCEPT !["sleeping"] = a, !["runnable"] = p["runnable"] \o d]
         IN  q \in [Lists -> Seq(Thread)] /\ Partitioned(q, T)
<1> DEFINE r == p["runnable"]
           q == [p EXCEPT !["sleeping"] = a, !["runnable"] = r \o d]
<1>1. r \in Seq(Thread) /\ IsInjective(r) /\ IsInjective(d \o a)
  BY DEF Lists, Partitioned
<1>2. IsInjective(d) /\ IsInjective(a) /\ Range(d) \cap Range(a) = {}
  BY <1>1, ConcatInjectiveParts
<1>3. Range(p["sleeping"]) = Range(d) \cup Range(a)
  BY ConcatRange
<1>4. ASSUME NEW j \in Lists, NEW k \in Lists, j # k, NEW x \in Range(p[j])
      PROVE  x \notin Range(p[k])
  BY <1>4 DEF Partitioned
<1>5. Range(r) \cap Range(d) = {}
  BY <1>3, <1>4 DEF Lists
<1>6. r \o d \in Seq(Thread) /\ Range(r \o d) = Range(r) \cup Range(d)
  BY <1>1, ConcatRange
<1>7. IsInjective(r \o d)
  BY <1>1, <1>2, <1>5, ConcatInjective
<1>8. /\ q \in [Lists -> Seq(Thread)]
      /\ q["sleeping"] = a /\ q["runnable"] = r \o d /\ q["waiting"] = p["waiting"]
  BY <1>6 DEF Lists
<1> HIDE DEF q
<1>9. \A k \in Lists : IsInjective(q[k])
  BY <1>2, <1>7, <1>8 DEF Partitioned, Lists
<1>10. \A x : /\ x \in Range(q["sleeping"]) <=> x \in Range(a)
              /\ x \in Range(q["waiting"]) <=> x \in Range(p["waiting"])
              /\ x \in Range(q["runnable"]) <=> x \in Range(r) \/ x \in Range(d)
  BY <1>6, <1>8
<1>11. ASSUME NEW x
       PROVE  /\ ~(x \in Range(q["sleeping"]) /\ x \in Range(q["waiting"]))
              /\ ~(x \in Range(q["sleeping"]) /\ x \in Range(q["runnable"]))
              /\ ~(x \in Range(q["waiting"]) /\ x \in Range(q["runnable"]))
  <2>1. /\ ~(x \in Range(p["sleeping"]) /\ x \in Range(p["waiting"]))
        /\ ~(x \in Range(p["sleeping"]) /\ x \in Range(r))
        /\ ~(x \in Range(p["waiting"]) /\ x \in Range(r))
    BY <1>4 DEF Lists
  <2>. QED
    BY <1>2, <1>3, <1>10, <2>1
<1>12. \A j, k \in Lists : j # k => Range(q[j]) \cap Range(q[k]) = {}
  BY <1>11 DEF Lists
<1>13. \A x : (\E k \in Lists : x \in Range(q[k]))
                <=> (\E k \in Lists : x \in Range(p[k]))
  BY <1>3, <1>10 DEF Lists
<1>14. T = {x \in Thread : \E k \in Lists : x \in Range(q[k])}
  BY <1>13 DEF Partitioned
<1>15. Partitioned(q, T)
  BY <1>9, <1>12, <1>14 DEF Partitioned
<1>. QED
  BY <1>8, <1>15 DEF q

-----------------------------------------------------------------------------
(* In an ordered list, both parts are in order, and nothing in the first   *)
(* is later than anything in the second.                                   *)
LEMMA OrderedParts ==
  ASSUME NEW S, NEW a \in Seq(S), NEW b \in Seq(S), NEW key, Ordered(a \o b, key)
  PROVE  /\ Ordered(a, key) /\ Ordered(b, key)
         /\ \A x \in Range(a), y \in Range(b) : key[x] <= key[y]
<1> DEFINE c == a \o b
<1>1. /\ DOMAIN a = 1..Len(a) /\ DOMAIN b = 1..Len(b)
      /\ Len(a) \in Nat /\ Len(b) \in Nat
  BY LenProperties
<1>2. /\ DOMAIN c = 1..(Len(a) + Len(b))
      /\ \A i \in 1..(Len(a) + Len(b)) :
           c[i] = IF i <= Len(a) THEN a[i] ELSE b[i - Len(a)]
  BY ConcatProperties, LenProperties
<1>3. \A i, j \in DOMAIN c : i < j => key[c[i]] <= key[c[j]]
  BY DEF Ordered
<1> HIDE DEF c
<1>4. \A i \in DOMAIN a : i \in DOMAIN c /\ c[i] = a[i]
  BY <1>1, <1>2
<1>5. ASSUME NEW i \in DOMAIN b
      PROVE  Len(a) + i \in DOMAIN c /\ c[Len(a) + i] = b[i]
  <2>1. Len(a) + i \in 1..(Len(a) + Len(b)) /\ ~(Len(a) + i <= Len(a))
        /\ (Len(a) + i) - Len(a) = i
    BY <1>1
  <2>. QED
    BY <1>2, <2>1
<1>6. Ordered(a, key)
  BY <1>3, <1>4 DEF Ordered
<1>7. Ordered(b, key)
  <2>1. SUFFICES ASSUME NEW i \in DOMAIN b, NEW j \in DOMAIN b, i < j
                 PROVE  key[b[i]] <= key[b[j]]
    BY DEF Ordered
  <2>2. Len(a) + i < Len(a) + j
    BY <1>1, <2>1
  <2>. QED
    BY <1>3, <1>5, <2>2
<1>8. ASSUME NEW i \in DOMAIN a, NEW j \in DOMAIN b PROVE key[a[i]] <= key[b[j]]
  <2>1. i < Len(a) + j
    BY <1>1
  <2>. QED
    BY <1>3, <1>4, <1>5, <2>1
<1>. QED
  BY <1>6, <1>7, <1>8 DEF Range

(* ... and two such parts make an ordered list. *)
LEMMA OrderedConcat ==
  ASSUME NEW S, NEW a \in Seq(S), NEW b \in Seq(S), NEW key,
         Ordered(a, key), Ordered(b, key),
         \A x \in Range(a), y \in Range(b) : key[x] <= key[y]
  PROVE  Ordered(a \o b, key)
<1> DEFINE c == a \o b
<1>1. /\ DOMAIN a = 1..Len(a) /\ DOMAIN b = 1..Len(b)
      /\ Len(a) \in Nat /\ Len(b) \in Nat
  BY LenProperties
<1>2. /\ DOMAIN c = 1..(Len(a) + Len(b))
      /\ \A i \in 1..(Len(a) + Len(b)) :
           c[i] = IF i <= Len(a) THEN a[i] ELSE b[i - Len(a)]
  BY ConcatProperties, LenProperties
<1>3. \A i, j \in DOMAIN a : i < j => key[a[i]] <= key[a[j]]
  BY DEF Ordered
<1>4. \A i, j \in DOMAIN b : i < j => key[b[i]] <= key[b[j]]
  BY DEF Ordered
<1>5. \A i \in DOMAIN a, j \in DOMAIN b : key[a[i]] <= key[b[j]]
  BY DEF Range
<1> HIDE DEF c
<1>6. ASSUME NEW i \in DOMAIN c, NEW j \in DOMAIN c, i < j
      PROVE  key[c[i]] <= key[c[j]]
  <2>1. CASE j <= Len(a)
    <3>1. i \in DOMAIN a /\ j \in DOMAIN a /\ c[i] = a[i] /\ c[j] = a[j]
      BY <1>1, <1>2, <1>6, <2>1
    <3>. QED
      BY <1>3, <1>6, <3>1
  <2>2. CASE i > Len(a)
    <3>1. /\ i - Len(a) \in DOMAIN b /\ j - Len(a) \in DOMAIN b
          /\ i - Len(a) < j - Len(a)
          /\ c[i] = b[i - Len(a)] /\ c[j] = b[j - Len(a)]
      BY <1>1, <1>2, <1>6, <2>2
    <3>. QED
      BY <1>4, <3>1
  <2>3. CASE i <= Len(a) /\ j > Len(a)
    <3>1. /\ i \in DOMAIN a /\ j - Len(a) \in DOMAIN b
          /\ c[i] = a[i] /\ c[j] = b[j - Len(a)]
      BY <1>1, <1>2, <1>6, <2>3
    <3>. QED
      BY <1>5, <3>1
  <2>. QED
    BY <1>1, <1>2, <2>1, <2>2, <2>3
<1>. QED
  BY <1>6 DEF Ordered, c

(* Unlinking a node keeps a list in order. *)
LEMMA UnlinkKeepsOrder ==
  ASSUME NEW S, NEW s \in Seq(S), NEW t \in Range(s), NEW key, Ordered(s, key)
  PROVE  Ordered(ll_unlink_node(s, t), key)
<1> DEFINE i == CHOOSE k \in DOMAIN s : s[k] = t
           a == SubSeq(s, 1, i - 1)
           b == SubSeq(s, i + 1, Len(s))
           one == <<t>>
           c == one \o b
<1>1. i \in 1..Len(s) /\ s[i] = t
  BY LenProperties DEF Range
<1> HIDE DEF i
<1>2. a \in Seq(S) /\ b \in Seq(S) /\ t \in S /\ s = a \o c
  BY <1>1, SplitAround
<1>3. ll_unlink_node(s, t) = a \o b
  BY DEF ll_unlink_node, RemoveAt, i
<1>4. one \in Seq(S)
  BY <1>2, SingletonList
<1> HIDE DEF a, b, one
<1>5. c \in Seq(S) /\ Range(b) \subseteq Range(c)
  BY <1>2, <1>4, ConcatRange
<1>9. c = one \o b
  OBVIOUS
<1> HIDE DEF c
<1>6. /\ Ordered(a, key) /\ Ordered(c, key)
      /\ \A x \in Range(a), y \in Range(c) : key[x] <= key[y]
  BY <1>2, <1>5, OrderedParts
<1>7. Ordered(b, key)
  BY <1>2, <1>4, <1>6, <1>9, OrderedParts
<1>8. Ordered(a \o b, key)
  BY <1>2, <1>5, <1>6, <1>7, OrderedConcat
<1>. QED
  BY <1>3, <1>8

(* Keys that agree on the nodes of a list put it in the same order. *)
LEMMA OrderedAgree ==
  ASSUME NEW s, NEW key, NEW nkey, Ordered(s, key),
         \A t \in Range(s) : nkey[t] = key[t]
  PROVE  Ordered(s, nkey)
BY DEF Ordered, Range

-----------------------------------------------------------------------------
(* Whatever is switched to is a thread that has a tcb, and the lists stay  *)
(* lists of threads.                                                       *)
LEMMA SwitchType ==
  ASSUME NEW p \in [Lists -> Seq(Thread)], NEW tid, threads \subseteq Thread
  PROVE  /\ SwitchTarget(p, tid) \in Tcb
         /\ PoolAfterSwitch(p, tid) \in [Lists -> Seq(Thread)]
<1> DEFINE s == p["runnable"]
           r == ll_rotate(s)
<1>1. s \in Seq(Thread)
  BY DEF Lists
<1>2. r \in Seq(Thread) /\ (r = <<>> <=> s = <<>>)
  <2> HIDE DEF s
  <2>. QED
    BY <1>1, Rotate
<1>3. PoolAfterSwitch(p, tid) \in [Lists -> Seq(Thread)]
  BY <1>2 DEF PoolAfterSwitch
<1>4. scheduler_get_next_tcb(s) \in Tcb
  <2>1. CASE s = <<>>
    BY <2>1 DEF scheduler_get_next_tcb, Tcb
  <2>2. CASE s # <<>>
    <3>1. scheduler_get_next_tcb(s) = Head(r)
      BY <2>2 DEF scheduler_get_next_tcb
    <3> HIDE DEF r, s
    <3>2. Head(r) \in Thread
      BY <1>2, <2>2, HeadTailProperties
    <3>. QED
      BY <3>1, <3>2 DEF Tcb
  <2>. QED
    BY <2>1, <2>2
<1>. QED
  BY <1>3, <1>4 DEF SwitchTarget, Tcb

(* Loading a context leaves the stack bookkeeping well typed. *)
LEMMA LoadType ==
  ASSUME NEW n \in Tcb, NEW v \in [Tcb -> Seq(Thread)], fate \in Fates,
         LoadContext(n, v)
  PROVE  /\ tail' \in Thread \cup {None}
         /\ via' \in [Tcb -> Seq(Thread)]
         /\ fate' \in Fates
<1>1. CASE v[n] = <<>>
  BY <1>1 DEF LoadContext, Fates
<1>2. CASE v[n] # <<>>
  <2> DEFINE w == v[n]
  <2>1. w \in Seq(Thread) /\ w # <<>>
    BY <1>2
  <2>2. /\ tail' = Last(w) /\ fate' = fate
        /\ via' = [v EXCEPT ![n] = Front(w)]
    BY <1>2 DEF LoadContext
  <2> HIDE DEF w
  <2>3. Len(w) \in Nat /\ Len(w) # 0 /\ \A i \in 1..Len(w) : w[i] \in Thread
    BY <2>1, LenProperties, EmptySeq, ElementOfSeq
  <2>4. Last(w) \in Thread
    BY <2>3 DEF Last
  <2>5. Front(w) \in Seq(Thread)
    <3>1. Len(w) - 1 \in Int /\ \A i \in 1..(Len(w) - 1) : w[i] \in Thread
      BY <2>3
    <3>. QED
      BY <3>1, SubSeqProperties DEF Front
  <2>. QED
    BY <2>2, <2>4, <2>5
<1>. QED
  BY <1>1, <1>2

(* Moving a node leaves lists of threads. *)
LEMMA MoveNodeType ==
  ASSUME pool \in [Lists -> Seq(Thread)], fate \in Fates, NEW t \in Thread, NEW l \in Lists, NEW m \in Lists,
         MoveNode(t, l, m)
  PROVE  pool' \in [Lists -> Seq(Thread)] /\ fate' \in Fates
<1>1. pool[l] \in Seq(Thread) /\ pool[m] \in Seq(Thread)
  OBVIOUS
<1>2. CASE In(l, t)
  <2>1. ll_unlink_node(pool[l], t) \in Seq(Thread)
    BY <1>1, <1>2, UnlinkNode DEF In
  <2>2. ll_link_node_last(pool[m], t) \in Seq(Thread)
    BY <1>1, LinkNodeLast
  <2>3. ll_link_node_last(ll_unlink_node(pool[l], t), t) \in Seq(Thread)
    BY <2>1, LinkNodeLast
  <2>. QED
    BY <1>2, <2>1, <2>2, <2>3 DEF MoveNode
<1>3. CASE ~In(l, t)
  BY <1>3 DEF MoveNode, Fates
<1>. QED
  BY <1>2, <1>3

(* The lists that tcb_pool_wakeup leaves are lists of threads. *)
LEMMA WakeupType ==
  ASSUME pool \in [Lists -> Seq(Thread)]
  PROVE  PoolAfterWakeup \in [Lists -> Seq(Thread)]
<1> DEFINE s == pool["sleeping"]
           n == NumDue(s, AfterTick)
<1>1. s \in Seq(Thread) /\ pool["runnable"] \in Seq(Thread)
  BY DEF Lists
<1>2. /\ n \in 0..Len(s)
      /\ PoolAfterWakeup =
           [pool EXCEPT !["sleeping"] = SubSeq(s, n + 1, Len(s)),
                        !["runnable"] = pool["runnable"] \o SubSeq(s, 1, n)]
  BY WakeupLists
<1> HIDE DEF n, s
<1>3. SubSeq(s, 1, n) \in Seq(Thread) /\ SubSeq(s, n + 1, Len(s)) \in Seq(Thread)
  BY <1>1, <1>2, SplitList
<1>4. pool["runnable"] \o SubSeq(s, 1, n) \in Seq(Thread)
  BY <1>1, <1>3, ConcatProperties
<1>. QED
  BY <1>2, <1>3, <1>4

=============================================================================
