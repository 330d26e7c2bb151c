---------------------------- MODULE TerminalProofs ----------------------------
(***************************************************************************)
(* Proofs about the terminal, for any number of readers and any sizes: the *)
(* circular buffer behind the keyboard is a queue, and the console driver  *)
(* implements the sheet of text of Screen.                                 *)
(***************************************************************************)
EXTENDS Terminal, SequenceTheorems, WellFoundedInduction, TLAPS

-----------------------------------------------------------------------------
(* Arithmetic. *)

(* What division by d leaves. *)
LEMMA Division ==
  ASSUME NEW d \in Nat \ {0}, NEW x \in Int
  PROVE  /\ x \div d \in Int /\ x % d \in 0 .. d - 1
         /\ x = d * (x \div d) + (x % d)
OBVIOUS

(* Quotient and remainder are unique. *)
LEMMA DivisionUnique ==
  ASSUME NEW d \in Nat \ {0}, NEW q \in Int, NEW r \in 0 .. d - 1
  PROVE  (d * q + r) \div d = q /\ (d * q + r) % d = r
<1> DEFINE x == d * q + r
           e == x \div d
           s == x % d
<1>1. x \in Int /\ d * q \in Int
  OBVIOUS
<1>2. e \in Int /\ s \in 0 .. d - 1 /\ x = d * e + s
  BY <1>1, Division
<1>3. d * (q - e) = s - r
  <2>1. d * (q - e) = d * q - d * e
    BY <1>2
  <2>2. d * e \in Int
    BY <1>2
  <2>. QED
    BY <1>1, <1>2, <2>1, <2>2
<1> HIDE DEF e, s
<1>4. q - e \in Int /\ s - r < d /\ -d < s - r
  BY <1>2
<1>5. q - e < 1
  <2>1. SUFFICES ASSUME q - e >= 1 PROVE FALSE
    BY <1>4
  <2>2. d * (q - e) >= d
    BY <1>4, <2>1
  <2>. QED
    BY <1>2, <1>3, <1>4, <2>2
<1>6. q - e > -1
  <2>1. SUFFICES ASSUME q - e <= -1 PROVE FALSE
    BY <1>4
  <2>2. d * (q - e) <= -d
    BY <1>4, <2>1
  <2>. QED
    BY <1>2, <1>3, <1>4, <2>2
<1>7. q = e
  BY <1>2, <1>4, <1>5, <1>6
<1>8. s = r
  BY <1>2, <1>3, <1>7
<1>. QED
  BY <1>7, <1>8 DEF e, s, x

(* The remainder of what is not twice the divisor. *)
LEMMA ModSmall ==
  ASSUME NEW d \in Nat \ {0}, NEW x \in 0 .. 2 * d - 1
  PROVE  x % d = IF x < d THEN x ELSE x - d
<1>1. CASE x < d
  <2>1. d * 0 + x = x /\ x \in 0 .. d - 1
    BY <1>1
  <2>2. (d * 0 + x) % d = x
    BY <2>1, DivisionUnique, 0 \in Int
  <2>. QED
    BY <1>1, <2>1, <2>2
<1>2. CASE ~(x < d)
  <2>1. d * 1 + (x - d) = x /\ x - d \in 0 .. d - 1
    BY <1>2
  <2>2. (d * 1 + (x - d)) % d = x - d
    BY <2>1, DivisionUnique, 1 \in Int
  <2>. QED
    BY <1>2, <2>1, <2>2
<1>. QED
  BY <1>1, <1>2

-----------------------------------------------------------------------------
(* The circular buffer. *)

(* The index after i and the one before it, in uint32_t arithmetic: Length *)
(* divides Word, so that 0 - 1 is the last slot.                           *)
LEMMA IndexStep ==
  ASSUME NEW i \in Index
  PROVE  /\ ((i + 1) % Word) % Length = (IF i + 1 = Length THEN 0 ELSE i + 1)
         /\ ((i - 1) % Word) % Length = (IF i = 0 THEN Length - 1 ELSE i - 1)
<1>1. Length \in Nat \ {0} /\ Word \in Nat /\ i \in 0 .. Length - 1
  BY BufferAssumption DEF Index
<1>2. PICK k \in 1 .. Word : Word = k * Length
  BY BufferAssumption
<1>3. Word >= Length /\ Word \in Nat \ {0}
  BY <1>1, <1>2
<1>4. ((i + 1) % Word) % Length = IF i + 1 = Length THEN 0 ELSE i + 1
  <2> DEFINE j == i + 1
  <2>1. j \in 0 .. 2 * Word - 1 /\ j \in 0 .. 2 * Length - 1 /\ j <= Length
    BY <1>1, <1>3
  <2> HIDE DEF j
  <2>2. j % Word = IF j < Word THEN j ELSE j - Word
    BY <1>3, <2>1, ModSmall
  <2>3. j % Length = IF j < Length THEN j ELSE j - Length
    BY <1>1, <2>1, ModSmall
  <2>4. 0 % Length = 0
    <3>1. 0 \in 0 .. 2 * Length - 1 /\ 0 < Length
      BY <1>1
    <3>. QED
      BY <1>1, <3>1, ModSmall
  <2>5. CASE j < Word
    <3>1. (j % Word) % Length = IF j = Length THEN 0 ELSE j
      BY <1>1, <2>1, <2>2, <2>3, <2>5
    <3>. QED
      BY <3>1 DEF j
  <2>6. CASE ~(j < Word)
    <3>1. j = Word /\ j = Length
      BY <1>1, <1>3, <2>1, <2>6
    <3>2. j % Word = 0
      BY <1>3, <2>2, <3>1
    <3>3. (j % Word) % Length = IF j = Length THEN 0 ELSE j
      BY <2>4, <3>1, <3>2
    <3>. QED
      BY <3>3 DEF j
  <2>. QED
    BY <2>5, <2>6
<1>5. ((i - 1) % Word) % Length = IF i = 0 THEN Length - 1 ELSE i - 1
  <2>1. CASE i = 0
    <3>1. (i - 1) % Word = Word - 1
      <4>1. Word * (-1) + (Word - 1) = i - 1 /\ Word - 1 \in 0 .. Word - 1 /\ -1 \in Int
        BY <1>3, <2>1
      <4>2. (Word * (-1) + (Word - 1)) % Word = Word - 1
        BY <1>3, <4>1, DivisionUnique
      <4>. QED
        BY <4>1, <4>2
    <3>2. (Word - 1) % Length = Length - 1
      <4>1. k - 1 \in Int /\ Length - 1 \in 0 .. Length - 1
        BY <1>1, <1>2
      <4>2. Length * (k - 1) + (Length - 1) = Word - 1
        BY <1>1, <1>2
      <4>3. (Length * (k - 1) + (Length - 1)) % Length = Length - 1
        BY <1>1, <4>1, DivisionUnique
      <4>. QED
        BY <4>2, <4>3
    <3>. QED
      BY <2>1, <3>1, <3>2
  <2>2. CASE i # 0
    <3>1. i - 1 \in 0 .. 2 * Word - 1 /\ i - 1 \in 0 .. 2 * Length - 1
          /\ i - 1 < Word /\ i - 1 < Length
      BY <1>1, <1>3, <2>2
    <3>2. (i - 1) % Word = i - 1
      BY <1>3, <3>1, ModSmall
    <3>3. (i - 1) % Length = i - 1
      BY <1>1, <3>1, ModSmall
    <3>. QED
      BY <2>2, <3>2, <3>3
  <2>. QED
    BY <2>1, <2>2
<1>. QED
  BY <1>4, <1>5

(* What a slot holds: a key, or nothing yet. *)
Val == Char \cup {Unset}

Buffer == [i_r : Index, i_w : Index, n : 0 .. Length - 1, buf : [Index -> Val]]

(* A buffer of n keys, the last of them before the write index. *)
Sound(c) == c \in Buffer /\ c.i_w = (c.i_r + c.n) % Length

(* The buffer c, k keys later. *)
Skip(c, k) == [c EXCEPT !.i_r = (c.i_r + k) % Length, !.n = @ - k]

(* An index moved on by less than the length wraps at most once. *)
LEMMA Wrap ==
  ASSUME NEW r \in Index, NEW j \in 0 .. Length
  PROVE  /\ (r + j) % Length = (IF r + j < Length THEN r + j ELSE r + j - Length)
         /\ (r + j) % Length \in Index
<1>1. Length \in Nat \ {0} /\ r \in 0 .. Length - 1
  BY BufferAssumption DEF Index
<1> DEFINE x == r + j
<1>2. x \in 0 .. 2 * Length - 1
  BY <1>1
<1> HIDE DEF x
<1>3. x % Length = IF x < Length THEN x ELSE x - Length
  BY <1>1, <1>2, ModSmall
<1>4. x % Length \in 0 .. Length - 1
  BY <1>1, <1>2, <1>3
<1>. QED
  BY <1>1, <1>3, <1>4 DEF x, Index

(* Moving on twice is moving on once. *)
LEMMA WrapTwice ==
  ASSUME NEW r \in Index, NEW j \in 0 .. Length, NEW k \in 0 .. Length, j + k <= Length
  PROVE  (((r + j) % Length) + k) % Length = (r + (j + k)) % Length
<1>1. Length \in Nat \ {0} /\ r \in 0 .. Length - 1
  BY BufferAssumption DEF Index
<1> DEFINE s == (r + j) % Length
<1>2. s = (IF r + j < Length THEN r + j ELSE r + j - Length) /\ s \in Index
  BY Wrap
<1>3. j + k \in 0 .. Length
  BY <1>1
<1> HIDE DEF s
<1>4. (s + k) % Length = IF s + k < Length THEN s + k ELSE s + k - Length
  BY <1>2, Wrap
<1>5. (r + (j + k)) % Length
        = IF r + (j + k) < Length THEN r + (j + k) ELSE r + (j + k) - Length
  BY <1>3, Wrap
<1>6. s \in 0 .. Length - 1
  BY <1>2 DEF Index
<1>7. (s + k) % Length = (r + (j + k)) % Length
  BY <1>1, <1>2, <1>4, <1>5, <1>6
<1>. QED
  BY <1>7 DEF s

(* Two offsets below the length reach different slots. *)
LEMMA WrapInjective ==
  ASSUME NEW r \in Index, NEW j \in 0 .. Length - 1, NEW k \in 0 .. Length - 1, j # k
  PROVE  (r + j) % Length # (r + k) % Length
<1>1. Length \in Nat \ {0} /\ r \in 0 .. Length - 1
  BY BufferAssumption DEF Index
<1>2. j \in 0 .. Length /\ k \in 0 .. Length
  BY <1>1
<1>3. (r + j) % Length = IF r + j < Length THEN r + j ELSE r + j - Length
  BY <1>2, Wrap
<1>4. (r + k) % Length = IF r + k < Length THEN r + k ELSE r + k - Length
  BY <1>2, Wrap
<1>. QED
  BY <1>1, <1>3, <1>4

(* The fields of a sound buffer. *)
LEMMA SoundFields ==
  ASSUME NEW c, Sound(c)
  PROVE  /\ c \in Buffer
         /\ Length \in Nat \ {0}
         /\ c.i_r \in Index /\ c.i_w \in Index /\ c.i_w = (c.i_r + c.n) % Length
         /\ c.n \in 0 .. Length - 1 /\ c.n \in 0 .. Length /\ c.n \in Nat
         /\ c.buf \in [Index -> Val]
<1>1. Length \in Nat \ {0}
  BY BufferAssumption
<1>2. c \in Buffer /\ c.i_w = (c.i_r + c.n) % Length
  BY DEF Sound
<1>3. c.i_r \in Index /\ c.i_w \in Index /\ c.n \in 0 .. Length - 1 /\ c.buf \in [Index -> Val]
  BY <1>2 DEF Buffer
<1>4. c.n \in 0 .. Length /\ c.n \in Nat
  BY <1>1, <1>3
<1>. QED
  BY <1>1, <1>2, <1>3, <1>4

(* The contents are a sequence of n keys. *)
LEMMA ContentsIs ==
  ASSUME NEW c, Sound(c)
  PROVE  /\ Contents(c) \in Seq(Val)
         /\ Len(Contents(c)) = c.n
         /\ \A i \in 1 .. c.n : /\ i - 1 \in 0 .. Length - 1
                                /\ Contents(c)[i] = c.buf[(c.i_r + (i - 1)) % Length]
<1>1. /\ Length \in Nat \ {0} /\ c.i_r \in Index /\ c.n \in 0 .. Length - 1
      /\ c.n \in Nat /\ c.buf \in [Index -> Val]
  BY SoundFields
<1>2. ASSUME NEW i \in 1 .. c.n
      PROVE  /\ i - 1 \in 0 .. Length - 1 /\ i - 1 \in 0 .. Length
             /\ c.i_r + i - 1 = c.i_r + (i - 1)
             /\ c.buf[(c.i_r + i - 1) % Length] \in Val
  <2>1. i - 1 \in 0 .. Length - 1 /\ i - 1 \in 0 .. Length
    BY <1>1
  <2>2. c.i_r \in Int
    BY <1>1 DEF Index
  <2>3. c.i_r + i - 1 = c.i_r + (i - 1)
    BY <1>1, <2>2
  <2>4. (c.i_r + (i - 1)) % Length \in Index
    BY <1>1, <2>1, Wrap
  <2>. QED
    BY <1>1, <2>1, <2>3, <2>4
<1>3. Contents(c) \in [1 .. c.n -> Val]
  BY <1>2 DEF Contents
<1>4. Contents(c) \in Seq(Val)
  BY <1>1, <1>3
<1>5. Len(Contents(c)) = c.n
  BY <1>1, <1>3, <1>4
<1>6. \A i \in 1 .. c.n : Contents(c)[i] = c.buf[(c.i_r + (i - 1)) % Length]
  BY <1>2 DEF Contents
<1>. QED
  BY <1>2, <1>4, <1>5, <1>6

(* circ_buf_init makes an empty buffer. *)
LEMMA InitSound == Sound(circ_buf_init) /\ Contents(circ_buf_init) = <<>>
<1>1. Length \in Nat \ {0}
  BY BufferAssumption
<1>2. 0 \in Index /\ 0 \in 0 .. Length /\ 0 + 0 = 0 /\ 0 < Length /\ 0 \in 0 .. Length - 1
  BY <1>1 DEF Index
<1>3. (0 + 0) % Length = 0
  BY <1>2, Wrap
<1>4. circ_buf_init \in Buffer
  BY <1>2 DEF circ_buf_init, Buffer, Val
<1>5. Sound(circ_buf_init)
  BY <1>3, <1>4 DEF Sound, circ_buf_init
<1>6. circ_buf_init.n = 0
  BY DEF circ_buf_init
<1>7. Contents(circ_buf_init) \in Seq(Val) /\ Len(Contents(circ_buf_init)) = 0
  BY <1>5, <1>6, ContentsIs
<1>. QED
  BY <1>5, <1>7, EmptySeq

(* circ_buf_write appends. *)
LEMMA WriteAppends ==
  ASSUME NEW c, Sound(c), NEW v \in Val, ~Full(c)
  PROVE  /\ Sound(circ_buf_write(c, v))
         /\ Contents(circ_buf_write(c, v)) = Append(Contents(c), v)
<1> DEFINE w == circ_buf_write(c, v)
<1>1. /\ Length \in Nat \ {0} /\ c \in Buffer /\ c.i_r \in Index /\ c.i_w \in Index
      /\ c.i_w = (c.i_r + c.n) % Length /\ c.n \in 0 .. Length - 1 /\ c.n \in Nat
      /\ c.buf \in [Index -> Val]
  BY SoundFields
<1>2. c.n + 1 \in 0 .. Length - 1 /\ c.n + 1 \in 0 .. Length /\ c.n + 1 \in Nat
  BY <1>1 DEF Full
<1>3. w = [c EXCEPT !.buf[c.i_w] = v, !.i_w = ((c.i_w + 1) % Word) % Length, !.n = @ + 1]
  BY DEF circ_buf_write
<1>4. ((c.i_w + 1) % Word) % Length = (c.i_r + (c.n + 1)) % Length
  <2>1. ((c.i_w + 1) % Word) % Length = IF c.i_w + 1 = Length THEN 0 ELSE c.i_w + 1
    BY <1>1, IndexStep
  <2>2. c.i_w \in 0 .. Length - 1 /\ 1 \in 0 .. Length /\ c.n \in 0 .. Length
    BY <1>1 DEF Index
  <2>3. (c.i_w + 1) % Length = IF c.i_w + 1 < Length THEN c.i_w + 1 ELSE c.i_w + 1 - Length
    BY <1>1, <2>2, Wrap
  <2>4. ((c.i_w + 1) % Word) % Length = (c.i_w + 1) % Length
    BY <1>1, <2>1, <2>2, <2>3
  <2>5. c.n + 1 <= Length
    BY <1>2
  <2>6. (c.i_w + 1) % Length = (c.i_r + (c.n + 1)) % Length
    BY <1>1, <2>2, <2>5, WrapTwice
  <2>. QED
    BY <2>4, <2>6
<1>5. (c.i_r + (c.n + 1)) % Length \in Index
  BY <1>1, <1>2, Wrap
<1>6. /\ w.i_r = c.i_r /\ w.n = c.n + 1 /\ w.i_w = (c.i_r + (c.n + 1)) % Length
      /\ w.buf = [c.buf EXCEPT ![c.i_w] = v]
  BY <1>1, <1>3, <1>4 DEF Buffer
<1>7. [c.buf EXCEPT ![c.i_w] = v] \in [Index -> Val]
  BY <1>1
<1>8. w \in Buffer
  BY <1>1, <1>2, <1>3, <1>4, <1>5, <1>7 DEF Buffer
<1>9. Sound(w)
  BY <1>6, <1>8 DEF Sound
<1> HIDE DEF w
<1>10. /\ Contents(c) \in Seq(Val) /\ Len(Contents(c)) = c.n
       /\ \A i \in 1 .. c.n : /\ i - 1 \in 0 .. Length - 1
                              /\ Contents(c)[i] = c.buf[(c.i_r + (i - 1)) % Length]
  BY ContentsIs
<1>11. /\ Contents(w) \in Seq(Val) /\ Len(Contents(w)) = c.n + 1
       /\ \A i \in 1 .. c.n + 1 : Contents(w)[i] = w.buf[(c.i_r + (i - 1)) % Length]
  <2>1. /\ Contents(w) \in Seq(Val) /\ Len(Contents(w)) = w.n
        /\ \A i \in 1 .. w.n : Contents(w)[i] = w.buf[(w.i_r + (i - 1)) % Length]
    BY <1>9, ContentsIs
  <2>. QED
    BY <1>6, <2>1
<1>12. /\ Append(Contents(c), v) \in Seq(Val) /\ Len(Append(Contents(c), v)) = c.n + 1
       /\ \A i \in 1 .. c.n : Append(Contents(c), v)[i] = Contents(c)[i]
       /\ Append(Contents(c), v)[c.n + 1] = v
  BY <1>10, AppendProperties
<1>13. ASSUME NEW i \in 1 .. c.n + 1
       PROVE  Contents(w)[i] = Append(Contents(c), v)[i]
  <2>1. CASE i = c.n + 1
    <3>1. i - 1 = c.n
      BY <1>1, <2>1
    <3>2. Contents(w)[i] = v
      BY <1>1, <1>6, <1>11, <3>1
    <3>. QED
      BY <1>12, <2>1, <3>2
  <2>2. CASE i # c.n + 1
    <3>1. i \in 1 .. c.n /\ i - 1 # c.n
      BY <1>1, <2>2
    <3>2. i - 1 \in 0 .. Length - 1 /\ i - 1 \in 0 .. Length
      BY <1>1, <3>1
    <3>3. (c.i_r + (i - 1)) % Length # c.i_w /\ (c.i_r + (i - 1)) % Length \in Index
      BY <1>1, <3>1, <3>2, WrapInjective, Wrap
    <3>4. w.buf[(c.i_r + (i - 1)) % Length] = c.buf[(c.i_r + (i - 1)) % Length]
      BY <1>1, <1>6, <3>3
    <3>. QED
      BY <1>10, <1>11, <1>12, <3>1, <3>4
  <2>. QED
    BY <2>1, <2>2
<1>14. Contents(w) = Append(Contents(c), v)
  BY <1>2, <1>11, <1>12, <1>13, SeqEqual
<1>. QED
  BY <1>9, <1>14 DEF w

(* circ_buf_delete_front takes the last one back. *)
LEMMA DeleteTakesBack ==
  ASSUME NEW c, Sound(c), c.n # 0
  PROVE  /\ Sound(circ_buf_delete_front(c))
         /\ Contents(circ_buf_delete_front(c)) = SubSeq(Contents(c), 1, c.n - 1)
<1> DEFINE w == circ_buf_delete_front(c)
<1>1. /\ Length \in Nat \ {0} /\ c \in Buffer /\ c.i_r \in Index /\ c.i_w \in Index
      /\ c.i_w = (c.i_r + c.n) % Length /\ c.n \in 0 .. Length - 1 /\ c.n \in Nat
      /\ c.buf \in [Index -> Val]
  BY SoundFields
<1>2. c.n - 1 \in 0 .. Length - 1 /\ c.n - 1 \in 0 .. Length /\ c.n - 1 \in Nat
  BY <1>1
<1>3. w = [c EXCEPT !.i_w = ((c.i_w - 1) % Word) % Length, !.n = @ - 1]
  BY DEF circ_buf_delete_front
<1>4. ((c.i_w - 1) % Word) % Length = (c.i_r + (c.n - 1)) % Length
  <2>1. ((c.i_w - 1) % Word) % Length = IF c.i_w = 0 THEN Length - 1 ELSE c.i_w - 1
    BY <1>1, IndexStep
  <2>2. c.i_r \in 0 .. Length - 1 /\ c.n \in 0 .. Length
    BY <1>1 DEF Index
  <2>3. (c.i_r + c.n) % Length = IF c.i_r + c.n < Length THEN c.i_r + c.n ELSE c.i_r + c.n - Length
    BY <1>1, <2>2, Wrap
  <2>4. (c.i_r + (c.n - 1)) % Length
          = IF c.i_r + (c.n - 1) < Length THEN c.i_r + (c.n - 1) ELSE c.i_r + (c.n - 1) - Length
    BY <1>1, <1>2, Wrap
  <2>. QED
    BY <1>1, <2>1, <2>2, <2>3, <2>4
<1>5. (c.i_r + (c.n - 1)) % Length \in Index
  BY <1>1, <1>2, Wrap
<1>6. /\ w.i_r = c.i_r /\ w.n = c.n - 1 /\ w.i_w = (c.i_r + (c.n - 1)) % Length
      /\ w.buf = c.buf
  BY <1>1, <1>3, <1>4 DEF Buffer
<1>8. w \in Buffer
  BY <1>1, <1>2, <1>3, <1>4, <1>5 DEF Buffer
<1>9. Sound(w)
  BY <1>6, <1>8 DEF Sound
<1> HIDE DEF w
<1>10. /\ Contents(c) \in Seq(Val) /\ Len(Contents(c)) = c.n
       /\ \A i \in 1 .. c.n : Contents(c)[i] = c.buf[(c.i_r + (i - 1)) % Length]
  BY ContentsIs
<1>11. /\ Contents(w) \in Seq(Val) /\ Len(Contents(w)) = c.n - 1
       /\ \A i \in 1 .. c.n - 1 : Contents(w)[i] = c.buf[(c.i_r + (i - 1)) % Length]
  BY <1>6, <1>9, ContentsIs
<1> DEFINE t == SubSeq(Contents(c), 1, c.n - 1)
<1>12. t \in Seq(Val) /\ Len(t) = c.n - 1 /\ \A i \in 1 .. c.n - 1 : t[i] = Contents(c)[i]
  <2>1. \A i \in 1 .. c.n - 1 : i \in 1 .. c.n
    BY <1>1
  <2>2. \A i \in 1 .. c.n - 1 : Contents(c)[i] \in Val
    BY <1>10, <2>1, ElementOfSeq
  <2>3. 1 \in Int /\ c.n - 1 \in Int
    BY <1>1
  <2>4. /\ t \in Seq(Val)
        /\ Len(t) = IF 1 <= c.n - 1 THEN (c.n - 1) - 1 + 1 ELSE 0
        /\ \A i \in 1 .. (c.n - 1) - 1 + 1 : t[i] = Contents(c)[1 + i - 1]
    BY <2>2, <2>3, SubSeqProperties
  <2>5. (c.n - 1) - 1 + 1 = c.n - 1 /\ \A i \in 1 .. c.n - 1 : 1 + i - 1 = i
    BY <1>1
  <2>. QED
    BY <1>2, <2>4, <2>5
<1> HIDE DEF t
<1>13. \A i \in 1 .. c.n - 1 : Contents(w)[i] = t[i]
  BY <1>1, <1>10, <1>11, <1>12
<1>14. Contents(w) = t
  BY <1>11, <1>12, <1>13, SeqEqual
<1>. QED
  BY <1>9, <1>14 DEF w, t

(* A sound buffer without its first k keys is sound. *)
LEMMA SkipSound ==
  ASSUME NEW c, Sound(c), NEW k \in 0 .. c.n
  PROVE  /\ Sound(Skip(c, k)) /\ Skip(c, k).n = c.n - k
         /\ Contents(Skip(c, k)) = SubSeq(Contents(c), k + 1, c.n)
<1> DEFINE w == Skip(c, k)
<1>1. /\ Length \in Nat \ {0} /\ c \in Buffer /\ c.i_r \in Index /\ c.i_w \in Index
      /\ c.i_w = (c.i_r + c.n) % Length /\ c.n \in 0 .. Length - 1 /\ c.n \in Nat
      /\ c.buf \in [Index -> Val]
  BY SoundFields
<1>2. /\ c.n - k \in 0 .. Length - 1 /\ c.n - k \in 0 .. Length /\ k \in 0 .. Length
      /\ c.n - k \in Nat /\ k + (c.n - k) = c.n /\ c.n \in 0 .. Length /\ k \in Nat
  BY <1>1
<1>3. (c.i_r + k) % Length \in Index
  BY <1>1, <1>2, Wrap
<1>4. (((c.i_r + k) % Length) + (c.n - k)) % Length = (c.i_r + (k + (c.n - k))) % Length
  BY <1>1, <1>2, WrapTwice
<1>5. /\ w.i_r = (c.i_r + k) % Length /\ w.n = c.n - k /\ w.i_w = c.i_w /\ w.buf = c.buf
  BY <1>1 DEF Skip, Buffer
<1>6. w \in Buffer
  BY <1>1, <1>2, <1>3 DEF Skip, Buffer
<1>7. Sound(w)
  BY <1>1, <1>2, <1>4, <1>5, <1>6 DEF Sound
<1> HIDE DEF w
<1>8. /\ Contents(c) \in Seq(Val) /\ Len(Contents(c)) = c.n
      /\ \A i \in 1 .. c.n : Contents(c)[i] = c.buf[(c.i_r + (i - 1)) % Length]
  BY ContentsIs
<1>9. /\ Contents(w) \in Seq(Val) /\ Len(Contents(w)) = c.n - k
      /\ \A i \in 1 .. c.n - k :
           Contents(w)[i] = c.buf[(((c.i_r + k) % Length) + (i - 1)) % Length]
  BY <1>5, <1>7, ContentsIs
<1> DEFINE t == SubSeq(Contents(c), k + 1, c.n)
<1>10. t \in Seq(Val) /\ Len(t) = c.n - k /\ \A i \in 1 .. c.n - k : t[i] = Contents(c)[k + i]
  <2>1. \A i \in k + 1 .. c.n : i \in 1 .. c.n
    BY <1>1
  <2>2. \A i \in k + 1 .. c.n : Contents(c)[i] \in Val
    BY <1>8, <2>1, ElementOfSeq
  <2>3. k + 1 \in Int /\ c.n \in Int
    BY <1>1
  <2>4. /\ t \in Seq(Val)
        /\ Len(t) = IF k + 1 <= c.n THEN c.n - (k + 1) + 1 ELSE 0
        /\ \A i \in 1 .. c.n - (k + 1) + 1 : t[i] = Contents(c)[(k + 1) + i - 1]
    BY <2>2, <2>3, SubSeqProperties
  <2>5. /\ c.n - (k + 1) + 1 = c.n - k
        /\ \A i \in 1 .. c.n - k : (k + 1) + i - 1 = k + i
        /\ ~(k + 1 <= c.n) => c.n - k = 0
    BY <1>1
  <2>. QED
    BY <2>4, <2>5
<1> HIDE DEF t
<1>11. ASSUME NEW i \in 1 .. c.n - k PROVE Contents(w)[i] = t[i]
  <2>1. /\ i - 1 \in 0 .. Length /\ k + (i - 1) <= Length
        /\ k + (i - 1) = (k + i) - 1 /\ k + i \in 1 .. c.n
    BY <1>1, <1>2
  <2>2. (((c.i_r + k) % Length) + (i - 1)) % Length = (c.i_r + (k + (i - 1))) % Length
    BY <1>1, <1>2, <2>1, WrapTwice
  <2>3. Contents(c)[k + i] = c.buf[(c.i_r + ((k + i) - 1)) % Length]
    BY <1>8, <2>1
  <2>. QED
    BY <1>9, <1>10, <2>1, <2>2, <2>3
<1>12. Contents(w) = t
  BY <1>9, <1>10, <1>11, SeqEqual
<1>. QED
  BY <1>5, <1>7, <1>12 DEF w, t

(* circ_buf_read takes one more key. *)
LEMMA ReadSkips ==
  ASSUME NEW c, Sound(c), NEW k \in Nat, k + 1 \in 0 .. c.n
  PROVE  circ_buf_read(Skip(c, k)) = Skip(c, k + 1)
<1> DEFINE w == Skip(c, k)
<1>1. /\ Length \in Nat \ {0} /\ c \in Buffer /\ c.i_r \in Index
      /\ c.n \in 0 .. Length - 1 /\ c.n \in Nat
  BY SoundFields
<1>2. k \in 0 .. c.n /\ k \in 0 .. Length /\ k + 1 \in 0 .. Length
      /\ 1 \in 0 .. Length /\ k + 1 <= Length
  BY <1>1
<1>3. w.i_r = (c.i_r + k) % Length /\ w.n = c.n - k /\ w.i_r \in Index
  BY <1>1, <1>2, Wrap DEF Skip, Buffer
<1>4. ((w.i_r + 1) % Word) % Length = (c.i_r + (k + 1)) % Length
  <2>1. ((w.i_r + 1) % Word) % Length = IF w.i_r + 1 = Length THEN 0 ELSE w.i_r + 1
    BY <1>3, IndexStep
  <2>2. (w.i_r + 1) % Length = IF w.i_r + 1 < Length THEN w.i_r + 1 ELSE w.i_r + 1 - Length
    BY <1>2, <1>3, Wrap
  <2>3. w.i_r \in 0 .. Length - 1
    BY <1>3 DEF Index
  <2>4. ((w.i_r + 1) % Word) % Length = (w.i_r + 1) % Length
    BY <1>1, <2>1, <2>2, <2>3
  <2>5. (((c.i_r + k) % Length) + 1) % Length = (c.i_r + (k + 1)) % Length
    BY <1>1, <1>2, WrapTwice
  <2>. QED
    BY <1>3, <2>4, <2>5
<1>5. circ_buf_read(w) = [w EXCEPT !.i_r = (c.i_r + (k + 1)) % Length, !.n = @ - 1]
  BY <1>4 DEF circ_buf_read
<1>6. (c.n - k) - 1 = c.n - (k + 1)
  BY <1>1
<1>. QED
  BY <1>1, <1>5, <1>6 DEF Skip, Buffer

(* A nonempty set of naturals has a least element. *)
LEMMA Least ==
  ASSUME NEW S \in SUBSET Nat, S # {}
  PROVE  \E a \in S : \A x \in S : a <= x
<1>1. PICK a \in S : \A x \in S : ~(<<x, a>> \in OpToRel(<, Nat))
  BY NatLessThanWellFounded, WFMin
<1>2. ASSUME NEW x \in S PROVE a <= x
  <2>1. <<x, a>> \in Nat \X Nat
    OBVIOUS
  <2>2. ~(<<x, a>>[1] < <<x, a>>[2])
    BY <1>1, <2>1 DEF OpToRel
  <2>3. x \in Nat /\ a \in Nat
    OBVIOUS
  <2>. QED
    BY <2>2, <2>3
<1>. QED
  BY <1>2

(* Taking no key is doing nothing. *)
LEMMA SkipZero ==
  ASSUME NEW c, Sound(c)
  PROVE  Skip(c, 0) = c
<1>1. c \in Buffer /\ c.i_r \in Index /\ c.n \in Nat /\ Length \in Nat \ {0}
  BY SoundFields
<1>2. 0 \in 0 .. Length /\ c.i_r \in 0 .. Length - 1
  BY <1>1 DEF Index
<1>3. (c.i_r + 0) % Length = c.i_r
  BY <1>1, <1>2, Wrap
<1>4. c.n - 0 = c.n
  BY <1>1
<1>. QED
  BY <1>1, <1>3, <1>4 DEF Skip, Buffer

(* The loop of keyboard_read, k times round, takes the first k keys. *)
LEMMA ReadKeysSkips ==
  ASSUME Sound(kbuf), NEW k \in 0 .. kbuf.n
  PROVE  ReadKeys(k) = Skip(kbuf, k)
<1> DEFINE Rec(b) == b = [i \in 0 .. k |-> IF i = 0 THEN kbuf ELSE circ_buf_read(b[i - 1])]
           B == [i \in 0 .. k |-> Skip(kbuf, i)]
           b == CHOOSE f : Rec(f)
<1>1. kbuf.n \in Nat
  BY SoundFields
<1>2. ASSUME NEW i \in 0 .. k
      PROVE  B[i] = IF i = 0 THEN kbuf ELSE circ_buf_read(B[i - 1])
  <2>1. CASE i = 0
    BY <2>1, SkipZero
  <2>2. CASE i # 0
    <3>1. i - 1 \in Nat /\ i - 1 \in 0 .. k /\ (i - 1) + 1 = i /\ i \in 0 .. kbuf.n
      BY <1>1, <2>2
    <3>2. circ_buf_read(Skip(kbuf, i - 1)) = Skip(kbuf, (i - 1) + 1)
      BY <3>1, ReadSkips
    <3>. QED
      BY <2>2, <3>1, <3>2
  <2>. QED
    BY <2>1, <2>2
<1>3. Rec(B)
  BY <1>2
<1> HIDE DEF B
<1>4. Rec(b)
  <2> HIDE DEF Rec
  <2>. QED
    BY <1>3
<1> HIDE DEF b
<1>5. \A i \in 0 .. k : b[i] = IF i = 0 THEN kbuf ELSE circ_buf_read(b[i - 1])
  BY <1>4
<1> DEFINE Bad == {i \in 0 .. k : b[i] # B[i]}
<1>6. Bad = {}
  <2>1. SUFFICES ASSUME Bad # {} PROVE FALSE
    OBVIOUS
  <2>2. Bad \in SUBSET Nat
    OBVIOUS
  <2>3. PICK a \in Bad : \A x \in Bad : a <= x
    BY <2>1, <2>2, Least
  <2>4. a \in 0 .. k /\ b[a] # B[a]
    OBVIOUS
  <2>5. a # 0
    BY <1>2, <1>5, <2>4
  <2>6. a - 1 \in 0 .. k /\ ~(a <= a - 1)
    BY <2>4, <2>5
  <2>7. b[a - 1] = B[a - 1]
    BY <2>3, <2>6
  <2>. QED
    BY <1>2, <1>5, <2>4, <2>5, <2>7
<1>7. b[k] = B[k]
  <2>1. k \in 0 .. k
    BY <1>1
  <2>. QED
    BY <1>6, <2>1
<1>8. ReadKeys(k) = b[k]
  BY DEF ReadKeys, b
<1>9. B[k] = Skip(kbuf, k)
  BY <1>1 DEF B
<1>. QED
  BY <1>7, <1>8, <1>9

-----------------------------------------------------------------------------
(* The inductive invariant. *)

Handler == [c : Char, at : {"lock", "write", "unlock"}]

TypeInv ==
  /\ sem \in Int /\ waiters \in Seq(Reader)
  /\ pc \in [Reader -> Points] /\ len \in [Reader -> 0 .. MaxLen]
  /\ irq \in [Thread -> Seq(Handler)]

(* The waiters are the readers a negative count stands for, each once.     *)
Waiting ==
  /\ Len(waiters) = IF sem < 0 THEN -sem ELSE 0
  /\ \A i \in 1 .. Len(waiters) : pc[waiters[i]] = "wait"
  /\ \A i, j \in 1 .. Len(waiters) : waiters[i] = waiters[j] => i = j

(* A reader in readline has been given a length. *)
Lengths == \A r \in Reader : pc[r] # "out" => len[r] >= 1

(* The buffer holds the keys typed, and its write index comes after them.  *)
QueueInv == Sound(kbuf) /\ BufferIsQueue

ReadInv == TypeInv /\ Waiting /\ Lengths /\ QueueInv

(* What a key does to the buffer is what it does to the keys typed. *)
LEMMA KeyQueued ==
  ASSUME QueueInv, NEW c \in Char, EchoAndWrite(c)
  PROVE  QueueInv'
<1>1. Sound(kbuf) /\ Contents(kbuf) = typed
  BY DEF QueueInv, BufferIsQueue
<1>2. typed \in Seq(Val) /\ Len(typed) = kbuf.n
  BY <1>1, ContentsIs
<1>3. kbuf.n \in 0 .. Length - 1 /\ kbuf.n \in Nat /\ Length \in Nat \ {0}
  BY <1>1, SoundFields
<1>4. CASE c # "backspace"
  <2>1. kbuf' = circ_buf_write(kbuf, c)
    BY <1>4 DEF EchoAndWrite, write_to_buffer
  <2>2. CASE Full(kbuf)
    <3>1. ~(Len(typed) + 1 < Length)
      BY <1>2, <1>3, <2>2 DEF Full
    <3>2. typed' = typed
      BY <1>4, <3>1 DEF EchoAndWrite
    <3>3. kbuf' = kbuf
      BY <2>1, <2>2 DEF circ_buf_write
    <3>. QED
      BY <1>1, <3>2, <3>3 DEF QueueInv, BufferIsQueue
  <2>3. CASE ~Full(kbuf)
    <3>1. Len(typed) + 1 < Length
      BY <1>2, <1>3, <2>3 DEF Full
    <3>2. typed' = Append(typed, c)
      BY <1>4, <3>1 DEF EchoAndWrite
    <3>3. Sound(circ_buf_write(kbuf, c)) /\ Contents(circ_buf_write(kbuf, c)) = Append(typed, c)
      BY <1>1, <2>3, WriteAppends DEF Val
    <3>. QED
      BY <2>1, <3>2, <3>3 DEF QueueInv, BufferIsQueue
  <2>. QED
    BY <2>2, <2>3
<1>5. CASE c = "backspace"
  <2>1. kbuf' = circ_buf_delete_front(kbuf)
    BY <1>5 DEF EchoAndWrite, write_to_buffer
  <2>2. CASE kbuf.n = 0
    <3>1. typed = <<>>
      BY <1>2, <2>2, EmptySeq
    <3>2. typed' = typed
      BY <1>5, <3>1 DEF EchoAndWrite
    <3>3. kbuf' = kbuf
      BY <2>1, <2>2 DEF circ_buf_delete_front
    <3>. QED
      BY <1>1, <3>2, <3>3 DEF QueueInv, BufferIsQueue
  <2>3. CASE kbuf.n # 0
    <3>1. typed # <<>>
      BY <1>2, <2>3, EmptySeq
    <3>2. typed' = SubSeq(typed, 1, Len(typed) - 1)
      BY <1>5, <3>1 DEF EchoAndWrite
    <3>3. /\ Sound(circ_buf_delete_front(kbuf))
          /\ Contents(circ_buf_delete_front(kbuf)) = SubSeq(typed, 1, kbuf.n - 1)
      BY <1>1, <2>3, DeleteTakesBack
    <3>. QED
      BY <1>2, <2>1, <3>2, <3>3 DEF QueueInv, BufferIsQueue
  <2>. QED
    BY <2>2, <2>3
<1>. QED
  BY <1>4, <1>5

(* The line the loop of keyboard_read looks for has a length. *)
LEMMA EndOfLineIs ==
  ASSUME TypeInv, NEW r \in Reader, len[r] >= 1
  PROVE  EndOfLine(r) \in Nat
<1>1. len[r] \in Nat
  BY TerminalAssumption DEF TypeInv
<1> DEFINE q == Contents(kbuf)
           ends == {i \in 1 .. len[r] : i = len[r] \/ (i <= Len(q) /\ q[i] = "newline")}
<1>2. len[r] \in ends
  BY <1>1
<1>3. ends \in SUBSET Nat /\ ends # {}
  BY <1>1, <1>2
<1>4. EndOfLine(r) = CHOOSE i \in ends : \A j \in ends : i <= j
  BY DEF EndOfLine
<1> HIDE DEF ends
<1>5. \E i \in ends : \A j \in ends : i <= j
  BY <1>3, Least
<1>6. EndOfLine(r) \in ends
  BY <1>4, <1>5
<1>. QED
  BY <1>3, <1>6

(* keyboard_read takes the first keys of the queue. *)
LEMMA ReadDequeues ==
  ASSUME TypeInv, Lengths, QueueInv, NEW r \in Reader, keyboard_read(r)
  PROVE  QueueInv'
<1>1. Sound(kbuf) /\ Contents(kbuf) = typed
  BY DEF QueueInv, BufferIsQueue
<1>2. typed \in Seq(Val) /\ Len(typed) = kbuf.n
  BY <1>1, ContentsIs
<1>3. kbuf.n \in Nat
  BY <1>1, SoundFields
<1>4. len[r] >= 1
  BY DEF keyboard_read, At, Lengths
<1> DEFINE n == EndOfLine(r)
           taken == IF n <= kbuf.n THEN n ELSE kbuf.n
<1>5. n \in Nat
  BY <1>4, EndOfLineIs
<1> HIDE DEF n
<1>6. taken \in 0 .. kbuf.n
  BY <1>3, <1>5
<1>7. kbuf' = ReadKeys(taken) /\ typed' = SubSeq(typed, taken + 1, Len(typed))
  BY DEF keyboard_read, circ_buf_count, n
<1> HIDE DEF taken
<1>8. ReadKeys(taken) = Skip(kbuf, taken)
  BY <1>1, <1>6, ReadKeysSkips
<1>9. /\ Sound(Skip(kbuf, taken))
      /\ Contents(Skip(kbuf, taken)) = SubSeq(typed, taken + 1, kbuf.n)
  BY <1>1, <1>6, SkipSound
<1>. QED
  BY <1>2, <1>7, <1>8, <1>9 DEF QueueInv, BufferIsQueue

(* The semaphore's signal wakes the first waiter, if there is one. *)
LEMMA SignalStep ==
  ASSUME TypeInv, Waiting, Lengths, NEW c, Signal(c),
         UNCHANGED len, irq' \in [Thread -> Seq(Handler)]
  PROVE  TypeInv' /\ Waiting' /\ Lengths'
<1>1. /\ sem \in Int /\ waiters \in Seq(Reader) /\ pc \in [Reader -> Points]
      /\ len \in [Reader -> 0 .. MaxLen]
  BY DEF TypeInv
<1>2. Len(waiters) \in Nat
  BY <1>1, LenProperties
<1>3. CASE Signals(c) /\ sem < 0
  <2>1. /\ sem' = sem + 1 /\ waiters' = Tail(waiters)
        /\ pc' = [pc EXCEPT ![Head(waiters)] = "lock"]
    BY <1>3 DEF Signal
  <2>2. Len(waiters) = -sem /\ waiters # <<>>
    <3>1. Len(waiters) = -sem /\ Len(waiters) # 0
      BY <1>1, <1>3 DEF Waiting
    <3>. QED
      BY <1>1, <3>1, EmptySeq
  <2>3. /\ Head(waiters) = waiters[1] /\ Head(waiters) \in Reader
        /\ Tail(waiters) \in Seq(Reader) /\ Len(Tail(waiters)) = Len(waiters) - 1
        /\ \A i \in 1 .. Len(waiters) - 1 : Tail(waiters)[i] = waiters[i + 1]
    BY <1>1, <2>2, HeadTailProperties
  <2>4. sem' \in Int /\ pc' \in [Reader -> Points]
    BY <1>1, <2>1, <2>3 DEF Points
  <2>5. Len(waiters') = IF sem' < 0 THEN -sem' ELSE 0
    BY <1>1, <1>2, <1>3, <2>1, <2>2, <2>3
  <2>6. \A i \in 1 .. Len(waiters) - 1 : i + 1 \in 1 .. Len(waiters) /\ 1 \in 1 .. Len(waiters)
    BY <1>2
  <2>7. ASSUME NEW i \in 1 .. Len(waiters')
        PROVE  /\ i \in 1 .. Len(waiters) - 1 /\ i + 1 \in 1 .. Len(waiters)
               /\ waiters'[i] = waiters[i + 1]
    BY <2>1, <2>3, <2>6
  <2>8. ASSUME NEW i \in 1 .. Len(waiters')
        PROVE  pc'[waiters'[i]] = "wait"
    <3>1. i + 1 # 1 /\ 1 \in 1 .. Len(waiters)
      BY <1>2, <2>7
    <3>2. waiters[i + 1] # Head(waiters) /\ pc[waiters[i + 1]] = "wait"
      BY <2>3, <2>7, <3>1 DEF Waiting
    <3>3. waiters[i + 1] \in Reader
      BY <1>1, <2>7, ElementOfSeq
    <3>. QED
      BY <1>1, <2>1, <2>7, <3>2, <3>3
  <2>9. ASSUME NEW i \in 1 .. Len(waiters'), NEW j \in 1 .. Len(waiters'), waiters'[i] = waiters'[j]
        PROVE  i = j
    <3>1. i + 1 = j + 1
      BY <2>7, <2>9 DEF Waiting
    <3>. QED
      BY <1>2, <2>7, <3>1
  <2>10. Waiting'
    BY <2>5, <2>8, <2>9 DEF Waiting
  <2>11. pc[Head(waiters)] # "out"
    BY <1>2, <2>2, <2>3, <2>6 DEF Waiting
  <2>12. Lengths'
    BY <1>1, <2>1, <2>3, <2>11 DEF Lengths
  <2>. QED
    BY <1>1, <2>1, <2>3, <2>4, <2>10, <2>12 DEF TypeInv
<1>4. CASE ~(Signals(c) /\ sem < 0)
  <2>1. /\ waiters' = waiters /\ pc' = pc /\ len' = len
        /\ sem' = sem \/ (sem' = sem + 1 /\ ~(sem < 0))
    BY <1>4 DEF Signal
  <2>2. sem' \in Int /\ Len(waiters) = IF sem' < 0 THEN -sem' ELSE 0
    BY <1>1, <2>1 DEF Waiting
  <2>3. TypeInv'
    BY <1>1, <2>1, <2>2 DEF TypeInv
  <2>4. Waiting'
    BY <2>1, <2>2 DEF Waiting
  <2>5. Lengths'
    BY <2>1 DEF Lengths
  <2>. QED
    BY <2>3, <2>4, <2>5
<1>. QED
  BY <1>3, <1>4

(* What leaves the readers alone. *)
LEMMA QuietStep ==
  ASSUME TypeInv, Waiting, Lengths,
         UNCHANGED <<sem, waiters, pc, len>>, irq' \in [Thread -> Seq(Handler)]
  PROVE  TypeInv' /\ Waiting' /\ Lengths'
BY DEF TypeInv, Waiting, Lengths

(* A reader goes on, inside readline. *)
LEMMA MoveStep ==
  ASSUME TypeInv, Waiting, Lengths, UNCHANGED <<sem, waiters, len, irq>>,
         NEW r \in Reader, pc[r] \notin {"out", "wait"},
         NEW p \in Points \ {"out"}, pc' = [pc EXCEPT ![r] = p]
  PROVE  TypeInv' /\ Waiting' /\ Lengths'
<1>1. pc \in [Reader -> Points] /\ waiters \in Seq(Reader)
  BY DEF TypeInv
<1>2. ASSUME NEW i \in 1 .. Len(waiters)
      PROVE  pc'[waiters[i]] = "wait"
  <2>1. waiters[i] \in Reader
    BY <1>1, ElementOfSeq
  <2>2. pc[waiters[i]] = "wait"
    BY DEF Waiting
  <2>. QED
    BY <1>1, <2>1, <2>2
<1>3. Waiting'
  BY <1>2 DEF Waiting
<1>4. Lengths'
  BY <1>1 DEF Lengths
<1>. QED
  BY <1>1, <1>3, <1>4 DEF TypeInv

(* A reader calls readline, and waits or does not. *)
LEMMA ReadlineStep ==
  ASSUME TypeInv, Waiting, Lengths,
         NEW r \in Reader, NEW n \in 1 .. MaxLen, syscall_readline(r, n)
  PROVE  TypeInv' /\ Waiting' /\ Lengths'
<1>1. /\ sem \in Int /\ waiters \in Seq(Reader) /\ pc \in [Reader -> Points]
      /\ len \in [Reader -> 0 .. MaxLen] /\ irq \in [Thread -> Seq(Handler)]
  BY DEF TypeInv
<1>2. Len(waiters) \in Nat /\ n \in 0 .. MaxLen /\ n >= 1
  BY <1>1, LenProperties, TerminalAssumption
<1>3. /\ pc[r] = "out" /\ len' = [len EXCEPT ![r] = n] /\ sem' = sem - 1 /\ irq' = irq
  BY DEF syscall_readline, At
<1>4. sem' \in Int /\ len' \in [Reader -> 0 .. MaxLen]
  BY <1>1, <1>2, <1>3
<1>5. \A i \in 1 .. Len(waiters) : waiters[i] \in Reader /\ waiters[i] # r
  BY <1>1, <1>3, ElementOfSeq DEF Waiting
<1>6. CASE sem' < 0
  <2>1. pc' = [pc EXCEPT ![r] = "wait"] /\ waiters' = Append(waiters, r)
    BY <1>6 DEF syscall_readline
  <2>2. /\ waiters' \in Seq(Reader) /\ Len(waiters') = Len(waiters) + 1
        /\ \A i \in 1 .. Len(waiters) : waiters'[i] = waiters[i]
        /\ waiters'[Len(waiters) + 1] = r
    BY <1>1, <2>1, AppendProperties
  <2>3. Len(waiters') = IF sem' < 0 THEN -sem' ELSE 0
    BY <1>1, <1>2, <1>3, <1>6, <2>2 DEF Waiting
  <2>4. \A i \in 1 .. Len(waiters') : i \in 1 .. Len(waiters) \/ i = Len(waiters) + 1
    BY <1>2, <2>2
  <2>5. pc' \in [Reader -> Points]
    BY <1>1, <2>1 DEF Points
  <2>6. \A i \in 1 .. Len(waiters') : pc'[waiters'[i]] = "wait"
    BY <1>1, <1>5, <2>1, <2>2, <2>4 DEF Waiting
  <2>7. \A i, j \in 1 .. Len(waiters') : waiters'[i] = waiters'[j] => i = j
    BY <1>5, <2>2, <2>4 DEF Waiting
  <2>8. Waiting'
    BY <2>3, <2>6, <2>7 DEF Waiting
  <2>9. Lengths'
    BY <1>1, <1>2, <1>3, <2>1 DEF Lengths
  <2>. QED
    BY <1>1, <1>3, <1>4, <2>2, <2>5, <2>8, <2>9 DEF TypeInv
<1>7. CASE ~(sem' < 0)
  <2>1. pc' = [pc EXCEPT ![r] = "lock"] /\ waiters' = waiters
    BY <1>7 DEF syscall_readline
  <2>2. pc' \in [Reader -> Points]
    BY <1>1, <2>1 DEF Points
  <2>3. Len(waiters) = IF sem' < 0 THEN -sem' ELSE 0
    BY <1>1, <1>3, <1>7 DEF Waiting
  <2>4. \A i \in 1 .. Len(waiters) : pc'[waiters[i]] = "wait"
    BY <1>1, <1>5, <2>1 DEF Waiting
  <2>5. Waiting'
    BY <2>1, <2>3, <2>4 DEF Waiting
  <2>6. Lengths'
    BY <1>1, <1>2, <1>3, <2>1 DEF Lengths
  <2>. QED
    BY <1>1, <1>3, <1>4, <2>1, <2>2, <2>5, <2>6 DEF TypeInv
<1>. QED
  BY <1>6, <1>7

(* A reader returns from readline. *)
LEMMA ReturnStep ==
  ASSUME TypeInv, Waiting, Lengths, NEW r \in Reader, ReadUnlock(r)
  PROVE  TypeInv' /\ Waiting' /\ Lengths'
<1>1. /\ waiters \in Seq(Reader) /\ pc \in [Reader -> Points]
      /\ len \in [Reader -> 0 .. MaxLen]
  BY DEF TypeInv
<1>2. /\ pc[r] # "wait" /\ pc' = [pc EXCEPT ![r] = "out"] /\ len' = [len EXCEPT ![r] = 0]
      /\ UNCHANGED <<sem, waiters, irq>>
  BY DEF ReadUnlock, At
<1>3. pc' \in [Reader -> Points] /\ len' \in [Reader -> 0 .. MaxLen]
  BY <1>1, <1>2, TerminalAssumption DEF Points
<1>4. ASSUME NEW i \in 1 .. Len(waiters)
      PROVE  pc'[waiters[i]] = "wait"
  <2>1. waiters[i] \in Reader
    BY <1>1, ElementOfSeq
  <2>2. pc[waiters[i]] = "wait"
    BY DEF Waiting
  <2>. QED
    BY <1>1, <1>2, <2>1, <2>2
<1>5. Waiting'
  BY <1>2, <1>4 DEF Waiting
<1>6. Lengths'
  BY <1>1, <1>2 DEF Lengths
<1>. QED
  BY <1>2, <1>3, <1>5, <1>6 DEF TypeInv

(* A handler is begun on top of the others. *)
LEMMA HandlerBegun ==
  ASSUME TypeInv, NEW t \in Thread, NEW h \in Handler,
         irq' = [irq EXCEPT ![t] = Append(@, h)]
  PROVE  irq' \in [Thread -> Seq(Handler)]
<1>1. irq \in [Thread -> Seq(Handler)]
  BY DEF TypeInv
<1>2. Append(irq[t], h) \in Seq(Handler)
  BY <1>1, AppendProperties
<1>. QED
  BY <1>1, <1>2

(* The innermost handler goes on; the key it was begun for is a key.       *)
LEMMA HandlerMoves ==
  ASSUME TypeInv, NEW t \in Thread, NEW p, HandlerAt(t, p)
  PROVE  /\ irq[t][Len(irq[t])].c \in Char
         /\ \A q \in {"lock", "write", "unlock"} :
              HandlerGoto(t, q) => irq' \in [Thread -> Seq(Handler)]
         /\ irq' = [irq EXCEPT ![t] = SubSeq(@, 1, Len(@) - 1)]
              => irq' \in [Thread -> Seq(Handler)]
<1> DEFINE s == irq[t]
           k == Len(s)
<1>1. irq \in [Thread -> Seq(Handler)]
  BY DEF TypeInv
<1>2. s \in Seq(Handler) /\ s # <<>>
  BY <1>1 DEF HandlerAt
<1>3. k \in Nat \ {0}
  BY <1>2, EmptySeq
<1> HIDE DEF s, k
<1>4. k \in 1 .. Len(s) /\ k = Len(s)
  BY <1>3 DEF k
<1>5. s[k] \in Handler
  BY <1>2, <1>4, ElementOfSeq
<1>6. ASSUME NEW q \in {"lock", "write", "unlock"}, HandlerGoto(t, q)
      PROVE  irq' \in [Thread -> Seq(Handler)]
  <2>1. [s[k] EXCEPT !.at = q] \in Handler
    BY <1>5 DEF Handler
  <2>2. [s EXCEPT ![k] = [s[k] EXCEPT !.at = q]] \in Seq(Handler)
    BY <1>2, <1>4, <2>1, ExceptSeq
  <2>3. irq' = [irq EXCEPT ![t] = [s EXCEPT ![k] = [s[k] EXCEPT !.at = q]]]
    BY <1>6 DEF HandlerGoto, s, k
  <2>. QED
    BY <1>1, <2>2, <2>3
<1>7. ASSUME irq' = [irq EXCEPT ![t] = SubSeq(@, 1, Len(@) - 1)]
      PROVE  irq' \in [Thread -> Seq(Handler)]
  <2>1. \A i \in 1 .. k - 1 : i \in 1 .. Len(s)
    BY <1>3, <1>4
  <2>2. \A i \in 1 .. k - 1 : s[i] \in Handler
    BY <1>2, <2>1, ElementOfSeq
  <2>3. 1 \in Int /\ k - 1 \in Int
    BY <1>3
  <2>4. SubSeq(s, 1, k - 1) \in Seq(Handler)
    BY <2>2, <2>3, SubSeqProperties
  <2>5. irq' = [irq EXCEPT ![t] = SubSeq(s, 1, k - 1)]
    BY <1>7 DEF s, k
  <2>. QED
    BY <1>1, <2>4, <2>5
<1>8. s[k].c \in Char
  BY <1>5 DEF Handler
<1>. QED
  BY <1>6, <1>7, <1>8 DEF s, k

(* The invariant holds at first. *)
LEMMA ReadInit == Init => ReadInv
<1>1. SUFFICES ASSUME Init PROVE ReadInv
  OBVIOUS
<1>2. TypeInv
  BY <1>1, EmptySeq, TerminalAssumption DEF Init, TypeInv, Points
<1>3. Waiting
  BY <1>1, EmptySeq DEF Init, Waiting
<1>4. Lengths
  BY <1>1 DEF Init, Lengths
<1>5. QueueInv
  BY <1>1, InitSound DEF Init, QueueInv, BufferIsQueue
<1>. QED
  BY <1>2, <1>3, <1>4, <1>5 DEF ReadInv

(* Every step preserves it: one case per action. *)
LEMMA ReadNext == ReadInv /\ [Next]_vars => ReadInv'
<1>1. SUFFICES ASSUME ReadInv, [Next]_vars PROVE ReadInv'
  OBVIOUS
<1>2. TypeInv /\ Waiting /\ Lengths /\ QueueInv /\ irq \in [Thread -> Seq(Handler)]
  BY <1>1 DEF ReadInv, TypeInv
<1>3. ASSUME UNCHANGED <<kbuf, typed>> PROVE QueueInv'
  BY <1>2, <1>3 DEF QueueInv, BufferIsQueue, Sound, Contents
<1>4. ASSUME UNCHANGED <<kbuf, typed, sem, waiters, pc, len, irq>> PROVE ReadInv'
  <2>1. irq' \in [Thread -> Seq(Handler)]
    BY <1>2, <1>4
  <2>2. TypeInv' /\ Waiting' /\ Lengths'
    BY <1>2, <1>4, <2>1, QuietStep
  <2>. QED
    BY <1>3, <1>4, <2>2 DEF ReadInv
<1>5. ASSUME NEW t \in Thread, NEW c \in Char, keyboard_write(t, c) PROVE ReadInv'
  <2>1. EchoAndWrite(c) /\ Signal(c) /\ UNCHANGED len
    BY <1>5 DEF keyboard_write, Interrupt
  <2>2. irq' \in [Thread -> Seq(Handler)]
    <3>1. [c |-> c, at |-> "unlock"] \in Handler
      BY DEF Handler
    <3>2. CASE Signals(c)
      <4>1. irq' = [irq EXCEPT ![t] = Append(@, [c |-> c, at |-> "unlock"])]
        BY <1>5, <3>2 DEF keyboard_write
      <4>. QED
        BY <1>2, <3>1, <4>1, HandlerBegun
    <3>3. CASE ~Signals(c)
      BY <1>2, <1>5, <3>3 DEF keyboard_write
    <3>. QED
      BY <3>2, <3>3
  <2>3. TypeInv' /\ Waiting' /\ Lengths'
    BY <1>2, <2>1, <2>2, SignalStep
  <2>4. QueueInv'
    BY <1>2, <2>1, KeyQueued
  <2>. QED
    BY <2>3, <2>4 DEF ReadInv
<1>6. ASSUME NEW t \in Thread, NEW c \in Char, keyboard_write_contended(t, c) PROVE ReadInv'
  <2>1. /\ UNCHANGED <<kbuf, typed, sem, waiters, pc, len>>
        /\ irq' = [irq EXCEPT ![t] = Append(@, [c |-> c, at |-> "lock"])]
    BY <1>6 DEF keyboard_write_contended, Interrupt
  <2>2. [c |-> c, at |-> "lock"] \in Handler
    BY DEF Handler
  <2>3. irq' \in [Thread -> Seq(Handler)]
    BY <1>2, <2>1, <2>2, HandlerBegun
  <2>4. TypeInv' /\ Waiting' /\ Lengths'
    BY <1>2, <2>1, <2>3, QuietStep
  <2>. QED
    BY <1>3, <2>1, <2>4 DEF ReadInv
<1>7. ASSUME NEW t \in Thread, HandlerLock(t) PROVE ReadInv'
  <2>1. /\ UNCHANGED <<kbuf, typed, sem, waiters, pc, len>>
        /\ HandlerAt(t, "lock") /\ HandlerGoto(t, "write")
    BY <1>7 DEF HandlerLock
  <2>2. irq' \in [Thread -> Seq(Handler)]
    BY <1>2, <2>1, HandlerMoves
  <2>3. TypeInv' /\ Waiting' /\ Lengths'
    BY <1>2, <2>1, <2>2, QuietStep
  <2>. QED
    BY <1>3, <2>1, <2>3 DEF ReadInv
<1>8. ASSUME NEW t \in Thread, HandlerWrite(t) PROVE ReadInv'
  <2> DEFINE c == irq[t][Len(irq[t])].c
  <2>1. /\ HandlerAt(t, "write") /\ HandlerGoto(t, "unlock")
        /\ EchoAndWrite(c) /\ Signal(c) /\ UNCHANGED len
    BY <1>8 DEF HandlerWrite
  <2>2. c \in Char /\ irq' \in [Thread -> Seq(Handler)]
    BY <1>2, <2>1, HandlerMoves
  <2> HIDE DEF c
  <2>3. TypeInv' /\ Waiting' /\ Lengths'
    BY <1>2, <2>1, <2>2, SignalStep
  <2>4. QueueInv'
    BY <1>2, <2>1, <2>2, KeyQueued
  <2>. QED
    BY <2>3, <2>4 DEF ReadInv
<1>9. ASSUME NEW t \in Thread, HandlerReturn(t) PROVE ReadInv'
  <2>1. /\ UNCHANGED <<kbuf, typed, sem, waiters, pc, len>>
        /\ HandlerAt(t, "unlock")
        /\ irq' = [irq EXCEPT ![t] = SubSeq(@, 1, Len(@) - 1)]
    BY <1>9 DEF HandlerReturn
  <2>2. irq' \in [Thread -> Seq(Handler)]
    BY <1>2, <2>1, HandlerMoves
  <2>3. TypeInv' /\ Waiting' /\ Lengths'
    BY <1>2, <2>1, <2>2, QuietStep
  <2>. QED
    BY <1>3, <2>1, <2>3 DEF ReadInv
<1>10. ASSUME NEW r \in Reader, NEW n \in 1 .. MaxLen, syscall_readline(r, n) PROVE ReadInv'
  <2>1. TypeInv' /\ Waiting' /\ Lengths'
    BY <1>2, <1>10, ReadlineStep
  <2>2. UNCHANGED <<kbuf, typed>>
    BY <1>10 DEF syscall_readline
  <2>. QED
    BY <1>3, <2>1, <2>2 DEF ReadInv
<1>11. ASSUME NEW r \in Reader, ReadLock(r) PROVE ReadInv'
  <2>1. /\ UNCHANGED <<kbuf, typed, sem, waiters, len, irq>>
        /\ pc[r] \notin {"out", "wait"} /\ pc' = [pc EXCEPT ![r] = "read"]
        /\ "read" \in Points \ {"out"}
    BY <1>11 DEF ReadLock, At, Points
  <2>2. TypeInv' /\ Waiting' /\ Lengths'
    BY <1>2, <2>1, MoveStep
  <2>. QED
    BY <1>3, <2>1, <2>2 DEF ReadInv
<1>12. ASSUME NEW r \in Reader, keyboard_read(r) PROVE ReadInv'
  <2>1. PICK p \in {"unlock", "failed"} : pc' = [pc EXCEPT ![r] = p]
    BY <1>12 DEF keyboard_read
  <2>2. /\ UNCHANGED <<sem, waiters, len, irq>>
        /\ pc[r] \notin {"out", "wait"} /\ p \in Points \ {"out"}
    BY <1>12 DEF keyboard_read, At, Points
  <2>3. TypeInv' /\ Waiting' /\ Lengths'
    BY <1>2, <2>1, <2>2, MoveStep
  <2>4. QueueInv'
    BY <1>2, <1>12, ReadDequeues
  <2>. QED
    BY <2>3, <2>4 DEF ReadInv
<1>13. ASSUME NEW r \in Reader, ReadUnlock(r) PROVE ReadInv'
  <2>1. TypeInv' /\ Waiting' /\ Lengths'
    BY <1>2, <1>13, ReturnStep
  <2>2. UNCHANGED <<kbuf, typed>>
    BY <1>13 DEF ReadUnlock
  <2>. QED
    BY <1>3, <2>1, <2>2 DEF ReadInv
<1>14. ASSUME \/ \E n \in 1 .. MaxLen : syscall_print(n)
              \/ \E c \in Char \cup {"return"} : putbytes(c)
              \/ \E c \in Color : syscall_set_term_color(c)
              \/ \E row \in -1 .. CONSOLE_HEIGHT, col \in 0 .. CONSOLE_WIDTH :
                   syscall_set_cursor_pos(row, col)
              \/ DriverCall
       PROVE  ReadInv'
  <2>1. UNCHANGED <<kbuf, typed, sem, waiters, pc, len, irq>>
    BY <1>14 DEF syscall_print, putbytes, syscall_set_term_color, syscall_set_cursor_pos,
                 DriverCall, Call
  <2>. QED
    BY <1>4, <2>1
<1>15. CASE UNCHANGED vars
  BY <1>4, <1>15 DEF vars
<1>. QED
  BY <1>1, <1>5, <1>6, <1>7, <1>8, <1>9, <1>10, <1>11, <1>12, <1>13, <1>14, <1>15
     DEF Next, Step

(* The circular buffer, its wrapped indices and its spare slot included,   *)
(* holds the keys that were typed, in order, whatever handlers and readers *)
(* interleave.                                                             *)
THEOREM BufferIsQueueCorrect == Spec => []BufferIsQueue
<1>1. ReadInv => BufferIsQueue
  BY DEF ReadInv, QueueInv
<1>. QED
  BY <1>1, ReadInit, ReadNext, PTL DEF Spec

-----------------------------------------------------------------------------
(* The console. *)

Cell == (Char \X Color) \cup {BLANK}

Driver ==
  [mem : [Positions -> Cell], lsb : 0 .. C_BYTE - 1, msb : 0 .. C_BYTE - 1, color : Color]

(* A console whose cursor registers hold a position, shown or hidden. *)
Proper(c) == c \in Driver /\ get_hardware_cursor(c) \in 0 .. 2 * C_CONSOLE_SIZE - 1

(* The constants of the screen. *)
LEMMA ScreenSize ==
  /\ CONSOLE_WIDTH \in Nat \ {0} /\ CONSOLE_HEIGHT \in Nat \ {0} /\ C_BYTE \in Nat \ {0}
  /\ C_CONSOLE_SIZE \in Nat \ {0} /\ C_HIDDEN_OFFSET = C_CONSOLE_SIZE
  /\ 2 * C_CONSOLE_SIZE <= C_BYTE * C_BYTE /\ C_BYTE * C_BYTE \in Nat
  /\ Positions = 0 .. C_CONSOLE_SIZE - 1
  /\ C_CONSOLE_SIZE = CONSOLE_WIDTH * CONSOLE_HEIGHT
<1>1. CONSOLE_WIDTH \in Nat \ {0} /\ CONSOLE_HEIGHT \in Nat \ {0} /\ C_BYTE \in Nat \ {0}
  BY ConsoleAssumption
<1>2. CONSOLE_WIDTH * CONSOLE_HEIGHT \in Nat \ {0} /\ C_BYTE * C_BYTE \in Nat
  BY <1>1
<1>3. C_CONSOLE_SIZE \in Nat \ {0} /\ C_HIDDEN_OFFSET = C_CONSOLE_SIZE
  BY <1>2 DEF C_CONSOLE_SIZE, C_HIDDEN_OFFSET
<1>4. C_CONSOLE_SIZE + C_CONSOLE_SIZE <= C_BYTE * C_BYTE
  BY <1>3, ConsoleAssumption
<1>5. 2 * C_CONSOLE_SIZE <= C_BYTE * C_BYTE
  BY <1>2, <1>3, <1>4
<1>. QED
  BY <1>1, <1>2, <1>3, <1>5 DEF Positions, C_CONSOLE_SIZE

(* A row and a column make a position. *)
LEMMA RowColPosition ==
  ASSUME NEW r \in 0 .. CONSOLE_HEIGHT - 1, NEW k \in 0 .. CONSOLE_WIDTH - 1
  PROVE  /\ r * CONSOLE_WIDTH + k \in Positions
         /\ r * CONSOLE_WIDTH \in Nat
         /\ (r + 1) * CONSOLE_WIDTH = r * CONSOLE_WIDTH + CONSOLE_WIDTH
         /\ r * CONSOLE_WIDTH + CONSOLE_WIDTH <= C_CONSOLE_SIZE
         /\ r + 1 = CONSOLE_HEIGHT => r * CONSOLE_WIDTH + CONSOLE_WIDTH = C_CONSOLE_SIZE
         /\ r + 1 # CONSOLE_HEIGHT =>
              /\ r + 1 \in 0 .. CONSOLE_HEIGHT - 1
              /\ r * CONSOLE_WIDTH + CONSOLE_WIDTH < C_CONSOLE_SIZE
<1> DEFINE W == CONSOLE_WIDTH
           H == CONSOLE_HEIGHT
           N == C_CONSOLE_SIZE
<1>1. W \in Nat \ {0} /\ H \in Nat \ {0} /\ N = W * H /\ N \in Nat /\ Positions = 0 .. N - 1
  BY ScreenSize
<1>2. r \in 0 .. H - 1 /\ k \in 0 .. W - 1
  OBVIOUS
<1> HIDE DEF W, H, N
<1>3. r * W \in Nat
  BY <1>1, <1>2
<1>4. (r + 1) * W = r * W + W
  BY <1>1, <1>2
<1>5. (r + 1) * W <= H * W
  <2>1. r + 1 <= H /\ r + 1 \in Nat
    BY <1>1, <1>2
  <2>. QED
    BY <1>1, <2>1
<1>6. H * W = N
  BY <1>1
<1>7. r * W + W <= N
  BY <1>4, <1>5, <1>6
<1>8. r * W + k \in 0 .. N - 1
  BY <1>1, <1>2, <1>3, <1>7
<1>9. r + 1 = H => r * W + W = N
  BY <1>4, <1>6
<1>10. ASSUME r + 1 # H PROVE r + 1 \in 0 .. H - 1 /\ r * W + W < N
  <2>1. r + 1 \in 0 .. H - 1 /\ (r + 1) + 1 <= H /\ (r + 1) + 1 \in Nat
    BY <1>1, <1>2, <1>10
  <2>2. ((r + 1) + 1) * W <= H * W
    BY <1>1, <2>1
  <2>3. ((r + 1) + 1) * W = (r + 1) * W + W
    BY <1>1, <1>2
  <2>. QED
    BY <1>1, <1>3, <1>4, <1>6, <2>1, <2>2, <2>3
<1>. QED
  BY <1>1, <1>3, <1>4, <1>7, <1>8, <1>9, <1>10 DEF W, H, N

(* And a position has a row and a column. *)
LEMMA PositionRowCol ==
  ASSUME NEW p \in Positions
  PROVE  /\ p \div CONSOLE_WIDTH \in 0 .. CONSOLE_HEIGHT - 1
         /\ p % CONSOLE_WIDTH \in 0 .. CONSOLE_WIDTH - 1
         /\ p = (p \div CONSOLE_WIDTH) * CONSOLE_WIDTH + (p % CONSOLE_WIDTH)
<1> DEFINE W == CONSOLE_WIDTH
           H == CONSOLE_HEIGHT
           r == p \div W
           k == p % W
<1>1. W \in Nat \ {0} /\ H \in Nat \ {0} /\ p \in 0 .. W * H - 1 /\ W * H \in Nat
  BY ScreenSize
<1>2. r \in Int /\ k \in 0 .. W - 1 /\ p = W * r + k
  BY <1>1, Division
<1> HIDE DEF r, k, W, H
<1>3. r * W \in Int /\ W * r = r * W
  BY <1>1, <1>2
<1>4. r >= 0
  <2>1. SUFFICES ASSUME r <= -1 PROVE FALSE
    BY <1>2
  <2>2. r * W <= -W
    BY <1>1, <1>2, <2>1
  <2>. QED
    BY <1>1, <1>2, <1>3, <2>2
<1>5. r < H
  <2>1. SUFFICES ASSUME r >= H PROVE FALSE
    BY <1>1, <1>2
  <2>2. r * W >= W * H
    BY <1>1, <1>2, <2>1
  <2>. QED
    BY <1>1, <1>2, <1>3, <2>2
<1>6. r \in 0 .. H - 1 /\ p = r * W + k
  BY <1>1, <1>2, <1>3, <1>4, <1>5
<1>. QED
  BY <1>2, <1>6 DEF r, k, W, H

(* The two registers hold what is written to them. *)
LEMMA HardwareCursor ==
  ASSUME NEW c \in Driver, NEW h \in 0 .. 2 * C_CONSOLE_SIZE - 1
  PROVE  LET d == set_hardware_cursor(c, h) IN
         /\ Proper(d) /\ get_hardware_cursor(d) = h
         /\ d.mem = c.mem /\ d.color = c.color
<1> DEFINE d == set_hardware_cursor(c, h)
           B == C_BYTE
           q == h \div B
           r == h % B
<1>1. B \in Nat \ {0} /\ h \in 0 .. B * B - 1 /\ B * B \in Nat
  BY ScreenSize
<1>2. q \in Int /\ r \in 0 .. B - 1 /\ h = B * q + r
  BY <1>1, Division
<1> HIDE DEF q, r
<1>3. q >= 0
  <2>1. SUFFICES ASSUME q <= -1 PROVE FALSE
    BY <1>2
  <2>2. B * q <= -B
    BY <1>1, <1>2, <2>1
  <2>. QED
    BY <1>1, <1>2, <2>2
<1>4. q < B
  <2>1. SUFFICES ASSUME q >= B PROVE FALSE
    BY <1>1, <1>2
  <2>2. B * q >= B * B
    BY <1>1, <1>2, <2>1
  <2>. QED
    BY <1>1, <1>2, <2>2
<1>5. q \in 0 .. B - 1 /\ q \in 0 .. 2 * B - 1 /\ q < B
  BY <1>1, <1>2, <1>3, <1>4
<1>6. q % B = q
  BY <1>1, <1>5, ModSmall
<1>7. d = [c EXCEPT !.lsb = r, !.msb = q]
  BY <1>6 DEF set_hardware_cursor, q, r
<1>8. d \in Driver /\ d.lsb = r /\ d.msb = q /\ d.mem = c.mem /\ d.color = c.color
  BY <1>2, <1>5, <1>7 DEF Driver
<1>9. q * B + r = h
  BY <1>1, <1>2
<1>10. get_hardware_cursor(d) = h
  BY <1>8, <1>9 DEF get_hardware_cursor
<1>. QED
  BY <1>8, <1>10 DEF Proper

(* The position a proper console writes at, and its row and column. *)
LEMMA ProperPosition ==
  ASSUME NEW c, Proper(c)
  PROVE  /\ c \in Driver /\ Lpos(c) \in Positions
         /\ CursorRow(c) \in 0 .. CONSOLE_HEIGHT - 1
         /\ CursorCol(c) \in 0 .. CONSOLE_WIDTH - 1
         /\ Lpos(c) = CursorRow(c) * CONSOLE_WIDTH + CursorCol(c)
         /\ get_hpos_status(get_hardware_cursor(c)) \in {"HIDDEN", "SHOWN"}
         /\ get_hpos_status(get_hardware_cursor(c)) = "HIDDEN" =>
              get_hardware_cursor(c) = Lpos(c) + C_HIDDEN_OFFSET
         /\ get_hpos_status(get_hardware_cursor(c)) = "SHOWN" =>
              get_hardware_cursor(c) = Lpos(c)
<1> DEFINE h == get_hardware_cursor(c)
           N == C_CONSOLE_SIZE
<1>1. /\ N \in Nat \ {0} /\ C_HIDDEN_OFFSET = N /\ Positions = 0 .. N - 1
      /\ h \in 0 .. 2 * N - 1 /\ c \in Driver
  BY ScreenSize DEF Proper
<1> HIDE DEF h, N
<1>2. CASE h < N
  <2>1. h \in Positions /\ h \notin N .. N + N - 1
    BY <1>1, <1>2
  <2>2. get_hpos_status(h) = "SHOWN"
    BY <1>1, <2>1 DEF get_hpos_status, N
  <2>3. Lpos(c) = h
    BY <2>2 DEF Lpos, hardware_to_logical, h
  <2>4. /\ Lpos(c) \in Positions /\ get_hpos_status(h) \in {"HIDDEN", "SHOWN"}
        /\ get_hpos_status(h) = "HIDDEN" => h = Lpos(c) + C_HIDDEN_OFFSET
        /\ get_hpos_status(h) = "SHOWN" => h = Lpos(c)
    BY <2>1, <2>2, <2>3
  <2>. QED
    BY <1>1, <2>4, PositionRowCol DEF CursorRow, CursorCol, h
<1>3. CASE ~(h < N)
  <2>1. h \in N .. N + N - 1 /\ h - N \in Positions /\ (h - N) + N = h
    BY <1>1, <1>3
  <2>2. get_hpos_status(h) = "HIDDEN"
    BY <1>1, <2>1 DEF get_hpos_status, N
  <2>3. Lpos(c) = h - N
    BY <1>1, <2>2 DEF Lpos, hardware_to_logical, h
  <2>4. /\ Lpos(c) \in Positions /\ get_hpos_status(h) \in {"HIDDEN", "SHOWN"}
        /\ get_hpos_status(h) = "HIDDEN" => h = Lpos(c) + C_HIDDEN_OFFSET
        /\ get_hpos_status(h) = "SHOWN" => h = Lpos(c)
    BY <1>1, <2>1, <2>2, <2>3
  <2>. QED
    BY <1>1, <2>4, PositionRowCol DEF CursorRow, CursorCol, h
<1>. QED
  BY <1>2, <1>3

(* A hardware cursor that is shown or hidden, at a position p. *)
LEMMA PositionFrom ==
  ASSUME NEW c, Proper(c), NEW p \in Positions,
         get_hardware_cursor(c) \in {p, p + C_HIDDEN_OFFSET}
  PROVE  Lpos(c) = p
<1>1. /\ C_CONSOLE_SIZE \in Nat \ {0} /\ C_HIDDEN_OFFSET = C_CONSOLE_SIZE
      /\ Positions = 0 .. C_CONSOLE_SIZE - 1
  BY ScreenSize
<1>2. Lpos(c) \in Positions
      /\ get_hardware_cursor(c) \in {Lpos(c), Lpos(c) + C_HIDDEN_OFFSET}
  BY ProperPosition
<1>. QED
  BY <1>1, <1>2

(* set_cursor moves the writing position and nothing else. *)
LEMMA SetCursorMoves ==
  ASSUME NEW c, Proper(c),
         NEW r \in 0 .. CONSOLE_HEIGHT - 1, NEW k \in 0 .. CONSOLE_WIDTH - 1
  PROVE  LET d == set_cursor(c, r, k) IN
         /\ Proper(d) /\ d.mem = c.mem /\ d.color = c.color
         /\ Lpos(d) = r * CONSOLE_WIDTH + k
<1> DEFINE d == set_cursor(c, r, k)
           p == r * CONSOLE_WIDTH + k
           st == get_hpos_status(get_hardware_cursor(c))
           h == logical_to_hardware(p, st)
<1>1. /\ C_CONSOLE_SIZE \in Nat \ {0} /\ C_HIDDEN_OFFSET = C_CONSOLE_SIZE
      /\ Positions = 0 .. C_CONSOLE_SIZE - 1
  BY ScreenSize
<1>2. p \in Positions
  BY RowColPosition
<1>3. d = set_hardware_cursor(c, h)
  BY DEF set_cursor, in_bounds, row_col_to_lpos
<1>4. h \in {p, p + C_HIDDEN_OFFSET}
  BY DEF logical_to_hardware
<1> HIDE DEF d, p, h
<1>5. h \in 0 .. 2 * C_CONSOLE_SIZE - 1
  BY <1>1, <1>2, <1>4
<1>6. c \in Driver
  BY DEF Proper
<1>7. Proper(d) /\ get_hardware_cursor(d) = h /\ d.mem = c.mem /\ d.color = c.color
  BY <1>3, <1>5, <1>6, HardwareCursor
<1>8. Lpos(d) = p
  BY <1>2, <1>4, <1>7, PositionFrom
<1>. QED
  BY <1>7, <1>8 DEF d, p

(* The text rolled by a row. *)
Rolled(t) ==
  [i \in 0 .. C_CONSOLE_SIZE - 1 |->
     IF i + CONSOLE_WIDTH < C_CONSOLE_SIZE THEN t[i + CONSOLE_WIDTH] ELSE BLANK]

(* The console d has the text t, written up to p, perhaps rolled.          *)
Shows(d, t, p) ==
  /\ Proper(d)
  /\ p < C_CONSOLE_SIZE => d.mem = t /\ Lpos(d) = p
  /\ ~(p < C_CONSOLE_SIZE) => d.mem = Rolled(t) /\ Lpos(d) = p - CONSOLE_WIDTH

(* Other text on a console leaves its cursor alone. *)
LEMMA Redrawn ==
  ASSUME NEW c, Proper(c), NEW t \in [Positions -> Cell]
  PROVE  LET d == [c EXCEPT !.mem = t] IN
         /\ Proper(d) /\ d.mem = t /\ d.color = c.color /\ Lpos(d) = Lpos(c)
         /\ CursorRow(d) = CursorRow(c) /\ CursorCol(d) = CursorCol(c)
         /\ get_hardware_cursor(d) = get_hardware_cursor(c)
<1> DEFINE d == [c EXCEPT !.mem = t]
<1>1. c \in Driver /\ get_hardware_cursor(c) \in 0 .. 2 * C_CONSOLE_SIZE - 1
  BY DEF Proper
<1>2. /\ d \in Driver /\ d.mem = t /\ d.color = c.color
      /\ d.lsb = c.lsb /\ d.msb = c.msb
  BY <1>1 DEF Driver
<1>3. get_hardware_cursor(d) = get_hardware_cursor(c)
  BY <1>2 DEF get_hardware_cursor
<1>4. Lpos(d) = Lpos(c)
  BY <1>3 DEF Lpos
<1>. QED
  BY <1>1, <1>2, <1>3, <1>4 DEF Proper, CursorRow, CursorCol

(* scroll_console rolls the text. *)
LEMMA ScrollRolls ==
  ASSUME NEW c, Proper(c)
  PROVE  LET d == scroll_console(c) IN
         /\ Proper(d) /\ d.mem = Rolled(c.mem) /\ d.color = c.color /\ Lpos(d) = Lpos(c)
<1>1. /\ C_CONSOLE_SIZE \in Nat \ {0} /\ CONSOLE_WIDTH \in Nat \ {0}
      /\ Positions = 0 .. C_CONSOLE_SIZE - 1
  BY ScreenSize
<1>2. c.mem \in [Positions -> Cell] /\ c \in Driver
  BY DEF Proper, Driver
<1>3. ASSUME NEW i \in Positions
      PROVE  /\ i + CONSOLE_WIDTH \in Positions <=> i + CONSOLE_WIDTH < C_CONSOLE_SIZE
             /\ i + CONSOLE_WIDTH \in Positions => c.mem[i + CONSOLE_WIDTH] \in Cell
  BY <1>1, <1>2
<1>4. Rolled(c.mem) =
        [i \in Positions |-> IF i + CONSOLE_WIDTH \in Positions
                               THEN c.mem[i + CONSOLE_WIDTH] ELSE BLANK]
  BY <1>1, <1>3 DEF Rolled
<1>5. Rolled(c.mem) \in [Positions -> Cell]
  BY <1>3, <1>4 DEF Cell
<1>6. scroll_console(c) = [c EXCEPT !.mem = Rolled(c.mem)]
  BY <1>2, <1>4 DEF scroll_console, Driver
<1>. QED
  BY <1>5, <1>6, Redrawn

(* draw_char writes a cell. *)
LEMMA DrawWrites ==
  ASSUME NEW c, Proper(c), NEW cell \in Cell,
         NEW r \in 0 .. CONSOLE_HEIGHT - 1, NEW k \in 0 .. CONSOLE_WIDTH - 1
  PROVE  LET d == draw_char(c, r, k, cell) IN
         /\ Proper(d) /\ d.mem = [c.mem EXCEPT ![r * CONSOLE_WIDTH + k] = cell]
         /\ d.color = c.color /\ Lpos(d) = Lpos(c)
<1> DEFINE t == [c.mem EXCEPT ![r * CONSOLE_WIDTH + k] = cell]
<1>1. c.mem \in [Positions -> Cell] /\ c \in Driver
  BY DEF Proper, Driver
<1>2. t \in [Positions -> Cell]
  BY <1>1
<1>3. draw_char(c, r, k, cell) = [c EXCEPT !.mem = t]
  BY <1>1 DEF draw_char, in_bounds, row_col_to_lpos, Driver
<1> HIDE DEF t
<1>4. LET d == [c EXCEPT !.mem = t] IN
      Proper(d) /\ d.mem = t /\ d.color = c.color /\ Lpos(d) = Lpos(c)
  BY <1>2, Redrawn
<1>. QED
  BY <1>3, <1>4 DEF t

(* A newline ends the row, at the bottom by rolling. *)
LEMMA NewLineShows ==
  ASSUME NEW c, Proper(c)
  PROVE  Shows(PutNewLine(c), c.mem,
               (Lpos(c) \div CONSOLE_WIDTH) * CONSOLE_WIDTH + CONSOLE_WIDTH)
<1> DEFINE r == CursorRow(c)
<1>1. r \in 0 .. CONSOLE_HEIGHT - 1 /\ r = Lpos(c) \div CONSOLE_WIDTH
  BY ProperPosition DEF CursorRow
<1>2. /\ C_CONSOLE_SIZE \in Nat /\ CONSOLE_WIDTH \in Nat \ {0}
      /\ 0 \in 0 .. CONSOLE_WIDTH - 1
  BY ScreenSize
<1> HIDE DEF r
<1>3. /\ r * CONSOLE_WIDTH \in Nat
      /\ (r + 1) * CONSOLE_WIDTH = r * CONSOLE_WIDTH + CONSOLE_WIDTH
      /\ r + 1 = CONSOLE_HEIGHT => r * CONSOLE_WIDTH + CONSOLE_WIDTH = C_CONSOLE_SIZE
      /\ r + 1 # CONSOLE_HEIGHT =>
           /\ r + 1 \in 0 .. CONSOLE_HEIGHT - 1
           /\ r * CONSOLE_WIDTH + CONSOLE_WIDTH < C_CONSOLE_SIZE
  BY <1>1, <1>2, RowColPosition
<1>4. CASE r + 1 = CONSOLE_HEIGHT
  <2> DEFINE s == scroll_console(c)
             d == set_cursor(s, r, 0)
  <2>1. PutNewLine(c) = d
    BY <1>4 DEF PutNewLine, r
  <2>2. Proper(s) /\ s.mem = Rolled(c.mem)
    BY ScrollRolls
  <2> HIDE DEF s
  <2>3. Proper(d) /\ d.mem = s.mem /\ Lpos(d) = r * CONSOLE_WIDTH + 0
    BY <1>1, <1>2, <2>2, SetCursorMoves
  <2>4. /\ r * CONSOLE_WIDTH + 0 = (r * CONSOLE_WIDTH + CONSOLE_WIDTH) - CONSOLE_WIDTH
        /\ ~(r * CONSOLE_WIDTH + CONSOLE_WIDTH < C_CONSOLE_SIZE)
    BY <1>2, <1>3, <1>4
  <2>. QED
    BY <1>1, <2>1, <2>2, <2>3, <2>4 DEF Shows
<1>5. CASE r + 1 # CONSOLE_HEIGHT
  <2> DEFINE d == set_cursor(c, r + 1, 0)
  <2>1. PutNewLine(c) = d
    BY <1>5 DEF PutNewLine, r
  <2>2. Proper(d) /\ d.mem = c.mem /\ Lpos(d) = (r + 1) * CONSOLE_WIDTH + 0
    BY <1>2, <1>3, <1>5, SetCursorMoves
  <2>3. (r + 1) * CONSOLE_WIDTH + 0 = r * CONSOLE_WIDTH + CONSOLE_WIDTH
    BY <1>2, <1>3
  <2>. QED
    BY <1>1, <1>3, <1>5, <2>1, <2>2, <2>3 DEF Shows
<1>. QED
  BY <1>4, <1>5

(* A carriage return goes back to the first column. *)
LEMMA ReturnShows ==
  ASSUME NEW c, Proper(c)
  PROVE  \E p \in Positions : Shows(set_cursor(c, CursorRow(c), 0), c.mem, p)
<1> DEFINE r == CursorRow(c)
           p == r * CONSOLE_WIDTH + 0
           d == set_cursor(c, r, 0)
<1>1. r \in 0 .. CONSOLE_HEIGHT - 1
  BY ProperPosition
<1>2. 0 \in 0 .. CONSOLE_WIDTH - 1
  BY ScreenSize
<1> HIDE DEF r
<1>3. p \in Positions
  BY <1>1, <1>2, RowColPosition
<1>4. Proper(d) /\ d.mem = c.mem /\ Lpos(d) = p
  BY <1>1, <1>2, SetCursorMoves
<1>5. p < C_CONSOLE_SIZE
  BY <1>3, ScreenSize
<1>6. Shows(d, c.mem, p)
  BY <1>4, <1>5 DEF Shows
<1>. QED
  BY <1>3, <1>6 DEF r

(* A backspace erases the character before the cursor, on the row above if *)
(* need be; in the corner it does nothing.                                 *)
LEMMA BackspaceShows ==
  ASSUME NEW c, Proper(c)
  PROVE  \/ Lpos(c) = 0 /\ PutBackspace(c) = c
         \/ /\ Lpos(c) > 0
            /\ Shows(PutBackspace(c), [c.mem EXCEPT ![Lpos(c) - 1] = BLANK], Lpos(c) - 1)
<1> DEFINE r == CursorRow(c)
           k == CursorCol(c)
           W == CONSOLE_WIDTH
<1>1. /\ r \in 0 .. CONSOLE_HEIGHT - 1 /\ k \in 0 .. W - 1
      /\ Lpos(c) = r * W + k /\ Lpos(c) \in Positions
  BY ProperPosition
<1>2. W \in Nat \ {0} /\ C_CONSOLE_SIZE \in Nat \ {0} /\ Positions = 0 .. C_CONSOLE_SIZE - 1
      /\ CONSOLE_HEIGHT \in Nat
  BY ScreenSize
<1>3. r * W \in Nat /\ Lpos(c) \in Nat /\ Lpos(c) < C_CONSOLE_SIZE /\ W - 1 \in 0 .. W - 1
  BY <1>1, <1>2, RowColPosition
<1> HIDE DEF r, k
<1>4. ASSUME NEW i \in 0 .. CONSOLE_HEIGHT - 1, NEW j \in 0 .. W - 1,
             PutBackspace(c) = set_cursor(draw_char(c, i, j, BLANK), i, j),
             i * W + j = Lpos(c) - 1
      PROVE  Shows(PutBackspace(c), [c.mem EXCEPT ![Lpos(c) - 1] = BLANK], Lpos(c) - 1)
  <2> DEFINE e == draw_char(c, i, j, BLANK)
             d == set_cursor(e, i, j)
  <2>1. Proper(e) /\ e.mem = [c.mem EXCEPT ![i * W + j] = BLANK]
    BY DrawWrites DEF Cell
  <2> HIDE DEF e
  <2>2. Proper(d) /\ d.mem = e.mem /\ Lpos(d) = i * W + j
    BY <2>1, SetCursorMoves
  <2>3. PutBackspace(c) = d
    BY <1>4 DEF e
  <2>4. Lpos(c) - 1 < C_CONSOLE_SIZE
    BY <1>2, <1>3
  <2>. QED
    BY <1>4, <2>1, <2>2, <2>3, <2>4 DEF Shows
<1>5. CASE k # 0
  <2>1. k - 1 \in 0 .. W - 1 /\ r * W + (k - 1) = Lpos(c) - 1 /\ Lpos(c) > 0
    BY <1>1, <1>2, <1>3, <1>5
  <2>2. PutBackspace(c) = set_cursor(draw_char(c, r, k - 1, BLANK), r, k - 1)
    BY <1>5 DEF PutBackspace, r, k
  <2>. QED
    BY <1>1, <1>4, <2>1, <2>2
<1>6. CASE k = 0 /\ r # 0
  <2>1. r - 1 \in 0 .. CONSOLE_HEIGHT - 1 /\ r > 0 /\ (r - 1) + 1 = r
    BY <1>1, <1>2, <1>6
  <2>2. ((r - 1) + 1) * W = (r - 1) * W + W /\ (r - 1) * W \in Nat
    BY <1>3, <2>1, RowColPosition
  <2>3. (r - 1) * W + (W - 1) = Lpos(c) - 1 /\ Lpos(c) > 0
    BY <1>1, <1>2, <1>3, <1>6, <2>1, <2>2
  <2>4. PutBackspace(c) = set_cursor(draw_char(c, r - 1, W - 1, BLANK), r - 1, W - 1)
    BY <1>6 DEF PutBackspace, r, k
  <2>. QED
    BY <1>3, <1>4, <2>1, <2>3, <2>4
<1>7. CASE k = 0 /\ r = 0
  <2>1. PutBackspace(c) = c
    BY <1>7 DEF PutBackspace, r, k
  <2>2. Lpos(c) = 0
    BY <1>1, <1>2, <1>7
  <2>. QED
    BY <2>1, <2>2
<1>. QED
  BY <1>5, <1>6, <1>7

(* A character goes where the cursor is, and ends a full row. *)
LEMMA CharShows ==
  ASSUME NEW c, Proper(c), NEW ch \in Char
  PROVE  /\ <<ch, c.color>> \in Char \X Color
         /\ Shows(PutChar(c, ch), [c.mem EXCEPT ![Lpos(c)] = <<ch, c.color>>], Lpos(c) + 1)
<1> DEFINE r == CursorRow(c)
           k == CursorCol(c)
           W == CONSOLE_WIDTH
           cell == <<ch, c.color>>
           e == draw_char(c, r, k, cell)
           t == [c.mem EXCEPT ![Lpos(c)] = cell]
<1>1. /\ r \in 0 .. CONSOLE_HEIGHT - 1 /\ k \in 0 .. W - 1
      /\ Lpos(c) = r * W + k /\ Lpos(c) \in Positions
  BY ProperPosition
<1>2. /\ W \in Nat \ {0} /\ C_CONSOLE_SIZE \in Nat \ {0}
      /\ Positions = 0 .. C_CONSOLE_SIZE - 1 /\ CONSOLE_HEIGHT \in Nat
      /\ 0 \in 0 .. W - 1
  BY ScreenSize
<1> HIDE DEF r, k
<1>3. /\ r * W \in Nat /\ Lpos(c) \in Nat /\ Lpos(c) < C_CONSOLE_SIZE
      /\ (r + 1) * W = r * W + W
      /\ r * W + W <= C_CONSOLE_SIZE
      /\ r + 1 = CONSOLE_HEIGHT => r * W + W = C_CONSOLE_SIZE
      /\ r + 1 # CONSOLE_HEIGHT => /\ r + 1 \in 0 .. CONSOLE_HEIGHT - 1
                                   /\ r * W + W < C_CONSOLE_SIZE
  BY <1>1, <1>2, RowColPosition
<1>4. cell \in Char \X Color /\ cell \in Cell
  BY DEF Proper, Driver, Cell
<1> HIDE DEF cell
<1>5. Proper(e) /\ e.mem = t
  <2>1. Proper(e) /\ e.mem = [c.mem EXCEPT ![r * W + k] = cell]
    BY <1>1, <1>4, DrawWrites
  <2>. QED
    BY <1>1, <2>1
<1>6. PutChar(c, ch) =
        CASE k # W - 1 -> set_cursor(e, r, k + 1)
          [] k = W - 1 /\ r = CONSOLE_HEIGHT - 1 -> scroll_console(set_cursor(e, r, 0))
          [] OTHER -> set_cursor(e, r + 1, 0)
  BY DEF PutChar, e, cell, r, k
<1> HIDE DEF e, t
<1>7. CASE k # W - 1
  <2> DEFINE d == set_cursor(e, r, k + 1)
  <2>1. k + 1 \in 0 .. W - 1
    BY <1>1, <1>2, <1>7
  <2>2. Proper(d) /\ d.mem = t /\ Lpos(d) = r * W + (k + 1)
    BY <1>1, <1>5, <2>1, SetCursorMoves
  <2>3. r * W + (k + 1) = Lpos(c) + 1 /\ Lpos(c) + 1 < C_CONSOLE_SIZE
    BY <1>1, <1>2, <1>3, <2>1
  <2>4. PutChar(c, ch) = d
    BY <1>6, <1>7
  <2>5. Shows(d, t, Lpos(c) + 1)
    BY <2>2, <2>3 DEF Shows
  <2>. QED
    BY <1>4, <2>4, <2>5 DEF t, cell
<1>8. CASE k = W - 1 /\ r = CONSOLE_HEIGHT - 1
  <2> DEFINE f == set_cursor(e, r, 0)
             d == scroll_console(f)
  <2>1. Proper(f) /\ f.mem = t /\ Lpos(f) = r * W + 0
    BY <1>1, <1>2, <1>5, SetCursorMoves
  <2>2. PutChar(c, ch) = d
    BY <1>6, <1>8
  <2> HIDE DEF f
  <2>3. Proper(d) /\ d.mem = Rolled(f.mem) /\ Lpos(d) = Lpos(f)
    BY <2>1, ScrollRolls
  <2>4. r * W + 0 = (Lpos(c) + 1) - W /\ ~(Lpos(c) + 1 < C_CONSOLE_SIZE)
    BY <1>1, <1>2, <1>3, <1>8
  <2>5. Shows(d, t, Lpos(c) + 1)
    BY <2>1, <2>3, <2>4 DEF Shows
  <2>. QED
    BY <1>4, <2>2, <2>5 DEF t, cell
<1>9. CASE k = W - 1 /\ r # CONSOLE_HEIGHT - 1
  <2> DEFINE d == set_cursor(e, r + 1, 0)
  <2>1. r + 1 # CONSOLE_HEIGHT
    BY <1>1, <1>2, <1>9
  <2>2. Proper(d) /\ d.mem = t /\ Lpos(d) = (r + 1) * W + 0
    BY <1>2, <1>3, <1>5, <2>1, SetCursorMoves
  <2>3. (r + 1) * W + 0 = Lpos(c) + 1 /\ Lpos(c) + 1 < C_CONSOLE_SIZE
    BY <1>1, <1>2, <1>3, <1>9, <2>1
  <2>4. PutChar(c, ch) = d
    BY <1>6, <1>9
  <2>5. Shows(d, t, Lpos(c) + 1)
    BY <2>2, <2>3 DEF Shows
  <2>. QED
    BY <1>4, <2>4, <2>5 DEF t, cell
<1>. QED
  BY <1>7, <1>8, <1>9

-----------------------------------------------------------------------------
(* The console implements the sheet of text. *)

SheetStep == [Sheet!Next]_<<con.mem, Lpos(con)>>

(* A console that shows what is written is a step of the sheet. *)
LEMMA SheetWrites ==
  ASSUME NEW t, NEW p, Shows(con', t, p)
  PROVE  Sheet!Write(t, p)
<1>1. C_CONSOLE_SIZE = CONSOLE_WIDTH * CONSOLE_HEIGHT
  BY ScreenSize
<1>2. CASE p < C_CONSOLE_SIZE
  BY <1>1, <1>2 DEF Shows, Sheet!Write, Sheet!Size
<1>3. CASE ~(p < C_CONSOLE_SIZE)
  BY <1>1, <1>3 DEF Shows, Rolled, Sheet!Write, Sheet!Size
<1>. QED
  BY <1>2, <1>3

(* putbyte, whatever the byte, is a step of the sheet. *)
LEMMA PutbyteSheet ==
  ASSUME Proper(con), NEW ch \in Char \cup {"return"}, con' = putbyte(con, ch)
  PROVE  Proper(con') /\ SheetStep
<1>1. C_CONSOLE_SIZE = CONSOLE_WIDTH * CONSOLE_HEIGHT /\ Positions = 0 .. C_CONSOLE_SIZE - 1
  BY ScreenSize
<1>2. CASE ch = "newline"
  <2>1. con' = PutNewLine(con)
    BY <1>2 DEF putbyte
  <2>2. Shows(con', con.mem, (Lpos(con) \div CONSOLE_WIDTH) * CONSOLE_WIDTH + CONSOLE_WIDTH)
    BY <2>1, NewLineShows
  <2>3. Sheet!NewLine
    BY <2>2, SheetWrites DEF Sheet!NewLine, Sheet!RowStart
  <2>. QED
    BY <2>2, <2>3 DEF Shows, SheetStep, Sheet!Next
<1>3. CASE ch = "return"
  <2>1. con' = set_cursor(con, CursorRow(con), 0)
    BY <1>3 DEF putbyte
  <2>2. PICK p \in Positions : Shows(con', con.mem, p)
    BY <2>1, ReturnShows
  <2>3. Sheet!Move
    BY <1>1, <2>2, SheetWrites DEF Sheet!Move, Sheet!Size
  <2>. QED
    BY <2>2, <2>3 DEF Shows, SheetStep, Sheet!Next
<1>4. CASE ch = "backspace"
  <2>1. con' = PutBackspace(con)
    BY <1>4 DEF putbyte
  <2>2. CASE con' = con
    BY <2>2 DEF SheetStep
  <2>3. CASE con' # con
    <3>1. /\ Lpos(con) > 0
          /\ Shows(con', [con.mem EXCEPT ![Lpos(con) - 1] = BLANK], Lpos(con) - 1)
      BY <2>1, <2>3, BackspaceShows
    <3>2. Sheet!Erase
      BY <3>1, SheetWrites DEF Sheet!Erase
    <3>. QED
      BY <3>1, <3>2 DEF Shows, SheetStep, Sheet!Next
  <2>. QED
    BY <2>2, <2>3
<1>5. CASE ch \notin {"newline", "return", "backspace"}
  <2>1. con' = PutChar(con, ch) /\ ch \in Char
    BY <1>5 DEF putbyte
  <2>2. /\ <<ch, con.color>> \in Char \X Color
        /\ Shows(con', [con.mem EXCEPT ![Lpos(con)] = <<ch, con.color>>], Lpos(con) + 1)
    BY <2>1, CharShows
  <2>3. Sheet!Character
    BY <2>2, SheetWrites DEF Sheet!Character
  <2>. QED
    BY <2>2, <2>3 DEF Shows, SheetStep, Sheet!Next
<1>. QED
  BY <1>2, <1>3, <1>4, <1>5

(* So is set_cursor, which the caller may give any position. *)
LEMMA SetCursorSheet ==
  ASSUME Proper(con), NEW r, NEW k, con' = set_cursor(con, r, k)
  PROVE  Proper(con') /\ SheetStep
<1>1. C_CONSOLE_SIZE = CONSOLE_WIDTH * CONSOLE_HEIGHT /\ Positions = 0 .. C_CONSOLE_SIZE - 1
      /\ C_CONSOLE_SIZE \in Nat
  BY ScreenSize
<1>2. CASE ~in_bounds(r, k)
  <2>1. con' = con
    BY <1>2 DEF set_cursor
  <2>. QED
    BY <2>1 DEF SheetStep
<1>3. CASE in_bounds(r, k)
  <2> DEFINE p == r * CONSOLE_WIDTH + k
  <2>1. r \in 0 .. CONSOLE_HEIGHT - 1 /\ k \in 0 .. CONSOLE_WIDTH - 1
    BY <1>3 DEF in_bounds
  <2>2. Proper(con') /\ con'.mem = con.mem /\ Lpos(con') = p
    BY <2>1, SetCursorMoves
  <2>3. p \in Positions
    BY <2>1, RowColPosition
  <2> HIDE DEF p
  <2>4. p < C_CONSOLE_SIZE
    BY <1>1, <2>3
  <2>5. Shows(con', con.mem, p)
    BY <2>2, <2>4 DEF Shows
  <2>6. Sheet!Move
    BY <1>1, <2>3, <2>5, SheetWrites DEF Sheet!Move, Sheet!Size
  <2>. QED
    BY <2>2, <2>6 DEF SheetStep, Sheet!Next
<1>. QED
  BY <1>2, <1>3

(* Hiding and showing the cursor move it in the registers alone. *)
LEMMA HideShowSheet ==
  ASSUME Proper(con), con' \in {hide_cursor(con), show_cursor(con)}
  PROVE  Proper(con') /\ SheetStep
<1> DEFINE h == get_hardware_cursor(con)
           l == Lpos(con)
<1>1. /\ C_CONSOLE_SIZE \in Nat \ {0} /\ C_HIDDEN_OFFSET = C_CONSOLE_SIZE
      /\ Positions = 0 .. C_CONSOLE_SIZE - 1
  BY ScreenSize
<1>2. /\ con \in Driver /\ l \in Positions
      /\ get_hpos_status(h) = "HIDDEN" => h = l + C_HIDDEN_OFFSET
      /\ get_hpos_status(h) = "SHOWN" => h = l
  BY ProperPosition
<1>3. CASE con' = con
  BY <1>3 DEF SheetStep
<1>4. CASE con' # con
  <2>1. PICK g \in {l, l + C_HIDDEN_OFFSET} : con' = set_hardware_cursor(con, g)
    <3>1. CASE con' = hide_cursor(con)
      <4>1. con' = set_hardware_cursor(con, h + C_HIDDEN_OFFSET) /\ get_hpos_status(h) = "SHOWN"
        BY <1>4, <3>1 DEF hide_cursor
      <4>. QED
        BY <1>2, <4>1
    <3>2. CASE con' = show_cursor(con)
      <4>1. con' = set_hardware_cursor(con, h - C_HIDDEN_OFFSET) /\ get_hpos_status(h) = "HIDDEN"
        BY <1>4, <3>2 DEF show_cursor
      <4>2. h - C_HIDDEN_OFFSET = l
        BY <1>1, <1>2, <4>1
      <4>. QED
        BY <4>1, <4>2
    <3>. QED
      BY <3>1, <3>2
  <2> HIDE DEF l
  <2>2. g \in 0 .. 2 * C_CONSOLE_SIZE - 1
    BY <1>1, <1>2, <2>1
  <2>3. Proper(con') /\ get_hardware_cursor(con') = g /\ con'.mem = con.mem
    BY <1>2, <2>1, <2>2, HardwareCursor
  <2>4. Lpos(con') = l
    BY <1>2, <2>1, <2>3, PositionFrom
  <2>. QED
    BY <2>3, <2>4 DEF SheetStep, l
<1>. QED
  BY <1>3, <1>4

(* clear_console is a new sheet. *)
LEMMA ClearIs ==
  ASSUME NEW c, Proper(c)
  PROVE  Shows(clear_console(c), [p \in Positions |-> BLANK], 0)
<1> DEFINE t == [p \in Positions |-> BLANK]
           e == [c EXCEPT !.mem = t]
           d == set_cursor(e, 0, 0)
<1>1. /\ C_CONSOLE_SIZE \in Nat \ {0} /\ CONSOLE_WIDTH \in Nat \ {0}
      /\ 0 \in 0 .. CONSOLE_WIDTH - 1 /\ 0 \in 0 .. CONSOLE_HEIGHT - 1
      /\ 0 * CONSOLE_WIDTH + 0 = 0
  BY ScreenSize
<1>2. t \in [Positions -> Cell]
  BY DEF Cell
<1> HIDE DEF t
<1>3. Proper(e) /\ e.mem = t
  BY <1>2, Redrawn
<1>4. clear_console(c) = d
  BY DEF clear_console, t
<1> HIDE DEF e
<1>5. Proper(d) /\ d.mem = e.mem /\ Lpos(d) = 0 * CONSOLE_WIDTH + 0
  BY <1>1, <1>3, SetCursorMoves
<1>6. 0 < C_CONSOLE_SIZE
  BY <1>1
<1>. QED
  BY <1>1, <1>3, <1>4, <1>5, <1>6 DEF Shows, t

(* The console is proper, and blank, at first. *)
LEMMA SheetInit == Init => Proper(con) /\ Sheet!Init
<1>1. SUFFICES ASSUME Init PROVE Proper(con) /\ Sheet!Init
  OBVIOUS
<1> DEFINE z == [mem |-> [p \in Positions |-> BLANK], lsb |-> 0, msb |-> 0,
                 color |-> DEFAULT_COLOR]
<1>2. con = clear_console(z)
  BY <1>1 DEF Init, ConsoleInit
<1>3. /\ C_CONSOLE_SIZE \in Nat \ {0} /\ C_BYTE \in Nat \ {0} /\ 0 \in 0 .. C_BYTE - 1
      /\ C_CONSOLE_SIZE = CONSOLE_WIDTH * CONSOLE_HEIGHT
      /\ Positions = 0 .. C_CONSOLE_SIZE - 1
  BY ScreenSize
<1>4. DEFAULT_COLOR \in Color
  BY ConsoleAssumption DEF DEFAULT_COLOR
<1>5. z \in Driver
  BY <1>3, <1>4 DEF Driver, Cell
<1>6. get_hardware_cursor(z) = 0
  <2>1. z.msb = 0 /\ z.lsb = 0
    OBVIOUS
  <2>. QED
    BY <1>3, <2>1 DEF get_hardware_cursor
<1>7. Proper(z)
  BY <1>3, <1>5, <1>6 DEF Proper
<1> HIDE DEF z
<1>8. Shows(con, [p \in Positions |-> BLANK], 0)
  BY <1>2, <1>7, ClearIs
<1>9. 0 < C_CONSOLE_SIZE
  BY <1>3
<1>10. Proper(con) /\ con.mem = [p \in Positions |-> BLANK] /\ Lpos(con) = 0
  BY <1>8, <1>9 DEF Shows
<1>. QED
  BY <1>3, <1>10 DEF Sheet!Init, Sheet!Size

(* Every step of the terminal is one of the sheet's, or leaves it alone.   *)
LEMMA SheetNext == ReadInv /\ Proper(con) /\ [Next]_vars => Proper(con') /\ SheetStep
<1>1. SUFFICES ASSUME ReadInv, Proper(con), [Next]_vars PROVE Proper(con') /\ SheetStep
  OBVIOUS
<1>2. ASSUME con' = con PROVE Proper(con') /\ SheetStep
  BY <1>1, <1>2 DEF SheetStep
<1>3. ASSUME NEW c \in Char, EchoAndWrite(c) PROVE Proper(con') /\ SheetStep
  <2>1. con' = con \/ con' = putbyte(con, c)
    BY <1>3 DEF EchoAndWrite, print_to_console
  <2>. QED
    BY <1>1, <1>2, <2>1, PutbyteSheet
<1>4. ASSUME NEW t \in Thread, HandlerWrite(t) PROVE Proper(con') /\ SheetStep
  <2> DEFINE c == irq[t][Len(irq[t])].c
  <2>1. HandlerAt(t, "write") /\ EchoAndWrite(c)
    BY <1>4 DEF HandlerWrite
  <2>2. c \in Char
    BY <1>1, <2>1, HandlerMoves DEF ReadInv
  <2> HIDE DEF c
  <2>. QED
    BY <1>3, <2>1, <2>2
<1>5. ASSUME NEW t \in Thread, NEW c \in Char, keyboard_write(t, c)
      PROVE  Proper(con') /\ SheetStep
  <2>1. EchoAndWrite(c)
    BY <1>5 DEF keyboard_write
  <2>. QED
    BY <1>3, <2>1
<1>6. ASSUME NEW c \in Char \cup {"return"}, putbytes(c) PROVE Proper(con') /\ SheetStep
  <2>1. con' = putbyte(con, c)
    BY <1>6 DEF putbytes
  <2>. QED
    BY <1>1, <2>1, PutbyteSheet
<1>7. ASSUME NEW c \in Color, syscall_set_term_color(c) PROVE Proper(con') /\ SheetStep
  <2>1. con \in Driver /\ con' = [con EXCEPT !.color = c]
    BY <1>1, <1>7 DEF syscall_set_term_color, set_term_color, Proper
  <2>2. /\ con' \in Driver /\ con'.mem = con.mem
        /\ con'.lsb = con.lsb /\ con'.msb = con.msb
    BY <2>1 DEF Driver
  <2>3. get_hardware_cursor(con') = get_hardware_cursor(con)
    BY <2>2 DEF get_hardware_cursor
  <2>4. Lpos(con') = Lpos(con)
    BY <2>3 DEF Lpos
  <2>. QED
    BY <1>1, <2>2, <2>3, <2>4 DEF Proper, SheetStep
<1>8. ASSUME NEW row, NEW col, syscall_set_cursor_pos(row, col)
      PROVE  Proper(con') /\ SheetStep
  <2>1. con' = set_cursor(con, row, col)
    BY <1>8 DEF syscall_set_cursor_pos
  <2>. QED
    BY <1>1, <2>1, SetCursorSheet
<1>9. ASSUME DriverCall PROVE Proper(con') /\ SheetStep
  <2>1. con' \in {hide_cursor(con), show_cursor(con)} \/ con' = clear_console(con)
    BY <1>9 DEF DriverCall
  <2>2. CASE con' \in {hide_cursor(con), show_cursor(con)}
    BY <1>1, <2>2, HideShowSheet
  <2>3. CASE con' = clear_console(con)
    <3>1. Shows(con', [p \in Positions |-> BLANK], 0)
      BY <1>1, <2>3, ClearIs
    <3>2. Positions = 0 .. CONSOLE_WIDTH * CONSOLE_HEIGHT - 1
      BY ScreenSize
    <3>3. Sheet!Clear
      BY <3>1, <3>2, SheetWrites DEF Sheet!Clear, Sheet!Size
    <3>. QED
      BY <3>1, <3>3 DEF Shows, SheetStep, Sheet!Next
  <2>. QED
    BY <2>1, <2>2, <2>3
<1>10. ASSUME NEW t \in Thread,
              \/ HandlerLock(t) \/ HandlerReturn(t)
              \/ ReadLock(t) \/ keyboard_read(t) \/ ReadUnlock(t)
              \/ \E c \in Char : keyboard_write_contended(t, c)
       PROVE  Proper(con') /\ SheetStep
  <2>1. con' = con
    BY <1>10 DEF HandlerLock, HandlerReturn, ReadLock, keyboard_read, ReadUnlock,
                 keyboard_write_contended
  <2>. QED
    BY <1>2, <2>1
<1>11. ASSUME \/ \E r \in Reader, n \in 1 .. MaxLen : syscall_readline(r, n)
              \/ \E n \in 1 .. MaxLen : syscall_print(n)
       PROVE  Proper(con') /\ SheetStep
  <2>1. con' = con
    BY <1>11 DEF syscall_readline, syscall_print
  <2>. QED
    BY <1>2, <2>1
<1>12. CASE UNCHANGED vars
  BY <1>2, <1>12 DEF vars
<1>. QED
  BY <1>1, <1>4, <1>5, <1>6, <1>7, <1>8, <1>9, <1>10, <1>11, <1>12 DEF Next, Step

(* The console driver is a sheet of text written from left to right: the   *)
(* initial states map to its initial state, and every step to a step of    *)
(* it or to a stutter.                                                     *)
THEOREM ConsoleIsSheetCorrect == Spec => ConsoleIsSheet
<1>1. Init => ReadInv /\ Proper(con) /\ Sheet!Init
  BY ReadInit, SheetInit
<1>2. /\ ReadInv /\ Proper(con) /\ [Next]_vars
        => ReadInv' /\ Proper(con)' /\ [Sheet!Next]_<<con.mem, Lpos(con)>>
  BY ReadNext, SheetNext DEF SheetStep
<1>. QED
  BY <1>1, <1>2, PTL DEF Spec, ConsoleIsSheet, Sheet!Spec

=============================================================================
