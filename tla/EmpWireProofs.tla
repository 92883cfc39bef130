---------------------------- MODULE EmpWireProofs ----------------------------
(***************************************************************************)
(* A session, for any sizes of buffers, anything typed and any batch       *)
(* files: the I/O queues lose and reorder nothing, cookies stand alone,    *)
(* and client and server agree on who reads and writes what.               *)
(***************************************************************************)
EXTENDS EmpWire, EmpLemmas

-----------------------------------------------------------------------------
(* Sequences of sequences, poured into one. *)

\* One may put them together in any order.
LEMMA Associates == \A B : \A x, y, z \in Seq(B) : (x \o y) \o z = x \o (y \o z)
<1> TAKE B
<1> TAKE x, y, z \in Seq(B)
<1> QED
  BY ConcatAssociative

\* f[i] is what the first i of ss make, up to k.
FillsTo(f, ss, k, B) ==
    /\ f \in [0..k -> Seq(B)] /\ f[0] = <<>>
    /\ \A i \in 1..k : f[i] = f[i - 1] \o ss[i]
Fills(f, ss, B) == FillsTo(f, ss, Len(ss), B)

\* The first of all.
LEMMA FillsFirst ==
  ASSUME NEW B, NEW ss \in Seq(Seq(B)), ss # <<>>, NEW f, Fills(f, ss, B)
  PROVE  f[1] = ss[1]
<1>1. PICK k \in 1..Len(ss) : k = 1
  OBVIOUS
<1>2. k - 1 = 0
  BY <1>1
<1>3. f[k] = f[k - 1] \o ss[k]
  BY DEF Fills, FillsTo
<1>4. f[k - 1] = <<>>
  BY <1>2 DEF Fills, FillsTo
<1>5. ss[k] \in Seq(B)
  OBVIOUS
<1>6. f[k] = ss[k]
  BY <1>3, <1>4, <1>5
<1> QED
  BY <1>1, <1>6

\* There is such a function.
LEMMA FillsExists ==
  ASSUME NEW B, NEW ss \in Seq(Seq(B))
  PROVE  \E f : Fills(f, ss, B)
<1> DEFINE S == {k \in 0..Len(ss) : \E f : FillsTo(f, ss, k, B)}
<1>1. Len(ss) \in Nat
  OBVIOUS
<1>2. 0 \in S
  <2>1. FillsTo([i \in 0..0 |-> <<>>], ss, 0, B)
    BY DEF FillsTo
  <2> QED
    BY <1>1, <2>1
<1>3. ASSUME NEW k \in 0..Len(ss), k \in S, k < Len(ss) PROVE k + 1 \in S
  <2>1. PICK f : FillsTo(f, ss, k, B)
    BY <1>3
  <2> DEFINE g == [i \in 0..k + 1 |-> IF i = k + 1 THEN f[k] \o ss[k + 1] ELSE f[i]]
  <2>2. ss[k + 1] \in Seq(B) /\ f[k] \in Seq(B)
    BY <1>1, <1>3, <2>1 DEF FillsTo
  <2>3. f[k] \o ss[k + 1] \in Seq(B)
    BY <2>2
  <2>4. g \in [0..k + 1 -> Seq(B)]
    <3>1. ASSUME NEW i \in 0..k + 1 PROVE (IF i = k + 1 THEN f[k] \o ss[k + 1] ELSE f[i]) \in Seq(B)
      <4>1. i # k + 1 => i \in 0..k
        BY <1>3
      <4> QED
        BY <2>1, <2>3, <4>1 DEF FillsTo
    <3> QED
      BY <3>1
  <2>5. g[0] = <<>>
    BY <1>3, <2>1 DEF FillsTo
  <2>6. ASSUME NEW i \in 1..k + 1 PROVE g[i] = g[i - 1] \o ss[i]
    <3>1. i - 1 \in 0..k + 1 /\ i - 1 # k + 1 /\ i \in 0..k + 1
      BY <1>3
    <3>2. g[i - 1] = f[i - 1]
      BY <3>1
    <3>3. CASE i = k + 1
      <4>1. i - 1 = k
        BY <3>3
      <4>2. g[i] = f[k] \o ss[k + 1]
        BY <3>1, <3>3
      <4> HIDE DEF g
      <4> QED
        BY <3>2, <3>3, <4>1, <4>2
    <3>4. CASE i # k + 1
      <4>1. i \in 1..k
        BY <3>4
      <4>2. g[i] = f[i]
        BY <3>1, <3>4
      <4> HIDE DEF g
      <4> QED
        BY <4>1, <4>2, <3>2, <2>1 DEF FillsTo
    <3> QED
      BY <3>3, <3>4
  <2> HIDE DEF g
  <2>7. FillsTo(g, ss, k + 1, B)
    BY <2>4, <2>5, <2>6 DEF FillsTo
  <2> QED
    BY <1>1, <1>3, <2>7
<1>4. 0..Len(ss) \subseteq S
  <2> HIDE DEF S
  <2> QED
    BY <1>1, <1>2, <1>3, NatsBySteps
<1>5. Len(ss) \in S
  BY <1>1, <1>4
<1> QED
  BY <1>5 DEF Fills

\* What two sequences of sequences have in common fills in the same way.
LEMMA FillsAlike ==
  ASSUME NEW B, NEW ss, NEW tt, NEW f, NEW g, Len(ss) \in Nat, Len(tt) \in Nat,
         Fills(f, ss, B), Fills(g, tt, B),
         NEW n \in Nat, n <= Len(ss), n <= Len(tt), \A i \in 1..n : ss[i] = tt[i]
  PROVE  \A i \in 0..n : f[i] = g[i]
<1> DEFINE S == {i \in 0..n : f[i] = g[i]}
<1>1. 0 \in S
  BY DEF Fills, FillsTo
<1>2. ASSUME NEW i \in 0..n, i \in S, i < n PROVE i + 1 \in S
  <2>1. i + 1 \in 1..Len(ss) /\ i + 1 \in 1..Len(tt) /\ i + 1 \in 1..n /\ (i + 1) - 1 = i
    BY <1>2
  <2>2. f[i + 1] = f[i] \o ss[i + 1] /\ g[i + 1] = g[i] \o tt[i + 1]
    BY <2>1 DEF Fills, FillsTo
  <2>3. i + 1 \in 0..n /\ f[i] = g[i] /\ ss[i + 1] = tt[i + 1]
    BY <1>2, <2>1
  <2>4. f[i + 1] = g[i + 1]
    BY <2>2, <2>3
  <2> QED
    BY <2>3, <2>4
<1>3. 0..n \subseteq S
  <2> HIDE DEF S
  <2> QED
    BY <1>1, <1>2, NatsBySteps
<1> QED
  BY <1>3

\* FlattenSeq is what all of them make.
LEMMA FlattenIs ==
  ASSUME NEW B, NEW ss \in Seq(Seq(B)), NEW f, Fills(f, ss, B)
  PROVE  FlattenSeq(ss) = f[Len(ss)]
<1> DEFINE n == Len(ss)
           Eq(g) == g = [i \in 1..n |-> IF i = 1 THEN ss[i] ELSE g[i - 1] \o ss[i]]
           h == CHOOSE g : Eq(g)
<1>1. n \in Nat
  OBVIOUS
<1>2. CASE n = 0
  BY <1>2 DEF FlattenSeq, Fills, FillsTo
<1>3. CASE n # 0
  <2> DEFINE g0 == [i \in 1..n |-> f[i]]
  <2>1. ASSUME NEW i \in 1..n PROVE g0[i] = IF i = 1 THEN ss[i] ELSE g0[i - 1] \o ss[i]
    <3>1. CASE i = 1
      <4>1. ss # <<>> /\ f[1] = ss[1]
        BY <1>3, FillsFirst
      <4> QED
        BY <3>1, <4>1
    <3>2. CASE i # 1
      <4>1. i - 1 \in 1..n
        BY <3>2, <1>1
      <4> QED
        BY <3>2, <4>1 DEF Fills, FillsTo
    <3> QED
      BY <3>1, <3>2
  <2>2. Eq(g0)
    <3> DEFINE e == [i \in 1..n |-> IF i = 1 THEN ss[i] ELSE g0[i - 1] \o ss[i]]
    <3>1. \A i \in 1..n : g0[i] = e[i]
      BY <2>1
    <3>2. g0 = e
      BY <3>1
    <3> QED
      BY <3>2
  <2>3. Eq(h)
    <3> HIDE DEF Eq, g0
    <3> QED
      BY <2>2
  <2>4. FlattenSeq(ss) = h[n]
    BY <1>1, <1>3 DEF FlattenSeq
  <2> HIDE DEF h
  <2>5. \A i \in 1..n : h[i] = IF i = 1 THEN ss[i] ELSE h[i - 1] \o ss[i]
    BY <2>3
  <2>6. h[1] = ss[1] /\ ss[1] = f[1]
    <3>1. 1 \in 1..n
      BY <1>1, <1>3
    <3>2. f[1] = ss[1]
      BY <1>3, FillsFirst
    <3> QED
      BY <2>5, <3>1, <3>2
  <2> DEFINE S == {i \in 0..n : i > 0 => h[i] = f[i]}
  <2>7. 0 \in S
    BY <1>1
  <2>8. ASSUME NEW i \in 0..n, i \in S, i < n PROVE i + 1 \in S
    <3>1. i + 1 \in 1..n /\ (i + 1) - 1 = i /\ i + 1 \in 0..n
      BY <1>1, <2>8
    <3> HIDE DEF n
    <3>2. CASE i = 0
      BY <3>1, <3>2, <2>6
    <3>3. CASE i # 0
      <4>0. i + 1 # 1
        BY <3>3
      <4>1. h[i + 1] = h[i] \o ss[i + 1]
        BY <3>1, <4>0, <2>5
      <4>2. f[i + 1] = f[i] \o ss[i + 1]
        BY <3>1 DEF Fills, FillsTo, n
      <4>3. h[i] = f[i]
        BY <2>8, <3>3
      <4> QED
        BY <3>1, <4>1, <4>2, <4>3
    <3> QED
      BY <3>2, <3>3
  <2>9. 0..n \subseteq S
    <3> HIDE DEF S, n
    <3> QED
      BY <1>1, <2>7, <2>8, NatsBySteps
  <2>10. n \in S /\ n > 0
    <3> HIDE DEF S
    <3> QED
      BY <1>1, <1>3, <2>9
  <2>11. h[n] = f[n]
    BY <2>10
  <2> QED
    BY <2>4, <2>11
<1> QED
  BY <1>2, <1>3

-----------------------------------------------------------------------------
(* What is left of a sequence. *)

Drop(s, n) == SubSeq(s, n + 1, Len(s))

\* What is left without the first n.
LEMMA DropIs ==
  ASSUME NEW B, NEW s \in Seq(B), NEW n \in 0..Len(s)
  PROVE  /\ Drop(s, n) \in Seq(B) /\ Len(Drop(s, n)) = Len(s) - n
         /\ \A i \in 1..Len(s) - n : Drop(s, n)[i] = s[i + n]
         /\ Len(s) \in Nat
<1>1. n \in Nat /\ n <= Len(s) /\ Len(s) \in Nat
  OBVIOUS
<1>2. Drop(s, n) \in Seq(B) /\ Len(Drop(s, n)) = Len(s) - n
  BY <1>1, RestOfSeq DEF Drop
<1>3. ASSUME NEW i \in 1..Len(s) - n PROVE Drop(s, n)[i] = s[i + n]
  <2>1. Drop(s, n)[i] = s[n + 1 + i - 1]
    BY <1>1, RestOfSeq DEF Drop
  <2>2. n + 1 + i - 1 = i + n
    BY <1>1
  <2> QED
    BY <2>1, <2>2
<1> QED
  BY <1>1, <1>2, <1>3

\* Nothing is left without all, all is left without nothing.
LEMMA DropEnds ==
  ASSUME NEW B, NEW s \in Seq(B)
  PROVE  /\ Drop(s, Len(s)) = <<>> /\ Drop(s, 0) = s
         /\ \A n \in 0..Len(s) : Drop(s, n) = <<>> => n = Len(s)
<1>1. Len(s) \in Nat /\ 0 \in 0..Len(s) /\ Len(s) \in 0..Len(s)
  OBVIOUS
<1>2. Drop(s, Len(s)) \in Seq(B) /\ Len(Drop(s, Len(s))) = 0
  BY <1>1, DropIs
<1>3. Drop(s, 0) \in Seq(B) /\ Len(Drop(s, 0)) = Len(s)
  BY <1>1, DropIs
<1>4. \A i \in 1..Len(s) : Drop(s, 0)[i] = s[i]
  <2> TAKE i \in 1..Len(s)
  <2>1. i \in 1..Len(s) - 0 /\ i + 0 = i
    BY <1>1
  <2> QED
    BY <1>1, <2>1, DropIs
<1>5. Drop(s, 0) = s
  BY <1>3, <1>4, SeqEqual
<1>6. ASSUME NEW n \in 0..Len(s), Drop(s, n) = <<>> PROVE n = Len(s)
  <2>1. Len(Drop(s, n)) = Len(s) - n
    BY DropIs
  <2> QED
    BY <1>1, <1>6, <2>1
<1> QED
  BY <1>2, <1>5, <1>6

\* Dropping twice.
LEMMA DropDrop ==
  ASSUME NEW B, NEW s \in Seq(B), NEW n \in 0..Len(s), NEW m \in 0..Len(s) - n
  PROVE  Drop(Drop(s, n), m) = Drop(s, n + m)
<1>1. Drop(s, n) \in Seq(B) /\ Len(Drop(s, n)) = Len(s) - n /\ Len(s) \in Nat
  BY DropIs
<1>2. n + m \in 0..Len(s) /\ m \in 0..Len(Drop(s, n)) /\ Len(s) - (n + m) = Len(s) - n - m
  BY <1>1
<1>3. Drop(s, n + m) \in Seq(B) /\ Len(Drop(s, n + m)) = Len(s) - (n + m)
  BY <1>2, DropIs
<1>4. Drop(Drop(s, n), m) \in Seq(B) /\ Len(Drop(Drop(s, n), m)) = Len(s) - n - m
  BY <1>1, <1>2, DropIs
<1>5. ASSUME NEW i \in 1..Len(s) - n - m PROVE Drop(Drop(s, n), m)[i] = Drop(s, n + m)[i]
  <2>1. i \in 1..Len(Drop(s, n)) - m /\ i \in 1..Len(s) - (n + m) /\ i + m \in 1..Len(s) - n /\ i + m + n = i + (n + m)
    BY <1>1
  <2>2. Drop(Drop(s, n), m)[i] = Drop(s, n)[i + m]
    BY <1>1, <1>2, <2>1, DropIs
  <2>3. Drop(s, n)[i + m] = s[i + m + n]
    BY <2>1, DropIs
  <2>4. Drop(s, n + m)[i] = s[i + (n + m)]
    BY <1>2, <2>1, DropIs
  <2> QED
    BY <2>1, <2>2, <2>3, <2>4
<1> QED
  BY <1>2, <1>3, <1>4, <1>5, SeqEqual

\* Dropping from the first of two sequences.
LEMMA DropFirst ==
  ASSUME NEW B, NEW s \in Seq(B), NEW t \in Seq(B), NEW n \in 0..Len(s)
  PROVE  Drop(s \o t, n) = Drop(s, n) \o t
<1> DEFINE l == Len(s)
           k == Len(t)
<1>1. l \in Nat /\ k \in Nat /\ s \o t \in Seq(B) /\ Len(s \o t) = l + k
  BY ConcatProperties
<1>2. Drop(s, n) \in Seq(B) /\ Len(Drop(s, n)) = l - n
  BY DropIs
<1>3. n \in 0..Len(s \o t) /\ l - n \in Nat
  BY <1>1
<1>4. /\ Drop(s \o t, n) \in Seq(B) /\ Len(Drop(s \o t, n)) = Len(s \o t) - n
      /\ \A i \in 1..Len(s \o t) - n : Drop(s \o t, n)[i] = (s \o t)[i + n]
  <2> HIDE DEF l, k
  <2> QED
    BY <1>1, <1>3, DropIs
<1>5. /\ Drop(s, n) \o t \in Seq(B) /\ Len(Drop(s, n) \o t) = Len(Drop(s, n)) + k
      /\ \A i \in 1..Len(Drop(s, n)) + k : (Drop(s, n) \o t)[i] =
           IF i <= Len(Drop(s, n)) THEN Drop(s, n)[i] ELSE t[i - Len(Drop(s, n))]
  BY <1>2, ConcatProperties
<1>6. ASSUME NEW i \in 1..l + k - n PROVE Drop(s \o t, n)[i] = (Drop(s, n) \o t)[i]
  <2>1. Drop(s \o t, n)[i] = (s \o t)[i + n]
    BY <1>1, <1>4
  <2>2. i + n \in 1..l + k /\ i \in 1..(l - n) + k
    BY <1>1
  <2>3. (s \o t)[i + n] = IF i + n <= l THEN s[i + n] ELSE t[i + n - l]
    BY <2>2, ConcatProperties
  <2>4. (Drop(s, n) \o t)[i] = IF i <= l - n THEN Drop(s, n)[i] ELSE t[i - (l - n)]
    BY <1>2, <1>5, <2>2
  <2>5. i <= l - n => Drop(s, n)[i] = s[i + n]
    <3>1. i <= l - n => i \in 1..Len(s) - n
      BY <1>1
    <3> QED
      BY <3>1, DropIs
  <2>6. (i <= l - n <=> i + n <= l) /\ i - (l - n) = i + n - l
    BY <1>1
  <2> QED
    BY <2>1, <2>3, <2>4, <2>5, <2>6
<1>7. Len(s \o t) - n = Len(Drop(s, n)) + k /\ Len(s \o t) - n = l + k - n
  BY <1>1, <1>2
<1> HIDE DEF l, k
<1> QED
  BY <1>4, <1>5, <1>6, <1>7, SeqEqual

\* Dropping all of the first of two sequences, and more.
LEMMA DropSecond ==
  ASSUME NEW B, NEW s \in Seq(B), NEW t \in Seq(B), NEW n \in 0..Len(t)
  PROVE  Drop(s \o t, Len(s) + n) = Drop(t, n)
<1>1. Len(s) \in Nat /\ Len(t) \in Nat /\ s \o t \in Seq(B) /\ Len(s \o t) = Len(s) + Len(t)
  BY ConcatProperties
<1>2. Drop(s \o t, Len(s)) = t
  <2>1. Drop(s \o t, Len(s)) = Drop(s, Len(s)) \o t
    <3>1. Len(s) \in 0..Len(s)
      BY <1>1
    <3> QED
      BY <3>1, DropFirst
  <2>2. Drop(s, Len(s)) = <<>>
    BY DropEnds
  <2> QED
    BY <2>1, <2>2, ConcatEmptySeq
<1>3. Len(s) \in 0..Len(s \o t) /\ n \in 0..Len(s \o t) - Len(s)
  BY <1>1
<1> QED
  BY <1>1, <1>2, <1>3, DropDrop

\* The first n and what is left.
LEMMA TakeAndDrop ==
  ASSUME NEW B, NEW s \in Seq(B), NEW n \in 0..Len(s)
  PROVE  /\ SubSeq(s, 1, n) \o Drop(s, n) = s
         /\ SubSeq(s, 1, n) \in Seq(B) /\ Len(SubSeq(s, 1, n)) = n
         /\ \A i \in 1..n : SubSeq(s, 1, n)[i] = s[i]
<1>1. Len(s) \in Nat /\ n \in Nat
  OBVIOUS
<1>2. 1 \in 1..Len(s) + 1 /\ n \in 1 - 1..Len(s) /\ Len(s) \in n..Len(s)
  BY <1>1
<1>3. SubSeq(s, 1, n) \o Drop(s, n) = SubSeq(s, 1, Len(s))
  BY <1>2, ConcatAdjacentSubSeq DEF Drop
<1>4. SubSeq(s, 1, Len(s)) = s
  BY SubSeqFull
<1>5. \A i \in 1..n : s[i] \in B
  BY <1>1, ElementOfSeq
<1>6. /\ SubSeq(s, 1, n) \in Seq(B) /\ Len(SubSeq(s, 1, n)) = IF 1 <= n THEN n - 1 + 1 ELSE 0
      /\ \A i \in 1..n - 1 + 1 : SubSeq(s, 1, n)[i] = s[1 + i - 1]
  BY <1>1, <1>5, SubSeqProperties
<1>7. \A i \in 1..n : i \in 1..n - 1 + 1 /\ 1 + i - 1 = i
  BY <1>1
<1>8. Len(SubSeq(s, 1, n)) = n
  BY <1>1, <1>6
<1>9. \A i \in 1..n : SubSeq(s, 1, n)[i] = s[i]
  BY <1>6, <1>7
<1> QED
  BY <1>3, <1>4, <1>6, <1>8, <1>9

-----------------------------------------------------------------------------
(* Lists of buffers.                                                       *)

Buffers(B) == [size : Nat, data : Seq(B), offset : Nat]
Rest(io) == Drop(io.data, io.offset)
Lists(B) == {l \in Seq(Buffers(B)) :
               \A i \in 1..Len(l) : Len(l[i].data) <= l[i].size /\ l[i].offset <= Len(l[i].data)}
Parts(l) == [i \in DOMAIN l |-> Rest(l[i])]
Pours(f, l, B) == Fills(f, Parts(l), B)

\* A buffer of a list.
LEMMA BufferOf ==
  ASSUME NEW B, NEW l \in Lists(B), NEW i \in 1..Len(l)
  PROVE  /\ l \in Seq(Buffers(B)) /\ Len(l) \in Nat
         /\ l[i] \in Buffers(B) /\ l[i].size \in Nat /\ l[i].data \in Seq(B) /\ l[i].offset \in Nat
         /\ Len(l[i].data) \in Nat /\ Len(l[i].data) <= l[i].size
         /\ l[i].offset \in 0..Len(l[i].data) /\ l[i].offset <= Len(l[i].data)
<1>1. l \in Seq(Buffers(B)) /\ Len(l[i].data) <= l[i].size /\ l[i].offset <= Len(l[i].data)
  BY DEF Lists
<1>2. Len(l) \in Nat /\ l[i] \in Buffers(B)
  BY <1>1, ElementOfSeq
<1>3. l[i].size \in Nat /\ l[i].data \in Seq(B) /\ l[i].offset \in Nat
  BY <1>2 DEF Buffers
<1>4. Len(l[i].data) \in Nat
  BY <1>3
<1> QED
  BY <1>1, <1>2, <1>3, <1>4

\* The parts that are poured.
LEMMA PartsOf ==
  ASSUME NEW B, NEW l \in Lists(B)
  PROVE  /\ Parts(l) \in Seq(Seq(B)) /\ Len(Parts(l)) = Len(l) /\ Len(l) \in Nat
         /\ \A i \in 1..Len(l) : Parts(l)[i] = Rest(l[i]) /\ Rest(l[i]) \in Seq(B)
         /\ Poured(l) = FlattenSeq(Parts(l))
<1>1. l \in Seq(Buffers(B)) /\ Len(l) \in Nat /\ DOMAIN l = 1..Len(l)
  BY LenProperties DEF Lists
<1>2. ASSUME NEW i \in 1..Len(l) PROVE Rest(l[i]) \in Seq(B)
  BY BufferOf, DropIs DEF Rest
<1>3. Parts(l) \in [1..Len(l) -> Seq(B)]
  BY <1>1, <1>2 DEF Parts
<1>4. Parts(l) \in Seq(Seq(B)) /\ Len(Parts(l)) = Len(l)
  BY <1>1, <1>3
<1>5. \A i \in 1..Len(l) : Parts(l)[i] = Rest(l[i])
  BY <1>1 DEF Parts
<1>6. Poured(l) = FlattenSeq(Parts(l))
  BY DEF Poured, Parts, Rest, Drop
<1> QED
  BY <1>1, <1>2, <1>4, <1>5, <1>6

\* Something pours a list, and it ends with what is poured.
LEMMA PoursExists ==
  ASSUME NEW B, NEW l \in Lists(B)
  PROVE  \E f : Pours(f, l, B)
BY PartsOf, FillsExists DEF Pours

\* What is poured is the last of those.
LEMMA PouredIs ==
  ASSUME NEW B, NEW l \in Lists(B), NEW f, Pours(f, l, B)
  PROVE  /\ Poured(l) = f[Len(l)] /\ f \in [0..Len(l) -> Seq(B)] /\ f[0] = <<>>
         /\ \A i \in 1..Len(l) : f[i] = f[i - 1] \o Rest(l[i])
<1>1. FlattenSeq(Parts(l)) = f[Len(Parts(l))]
  BY PartsOf, FlattenIs DEF Pours
<1>2. Len(Parts(l)) = Len(l) /\ \A i \in 1..Len(l) : Parts(l)[i] = Rest(l[i])
  BY PartsOf
<1>3. FillsTo(f, Parts(l), Len(l), B)
  BY <1>2 DEF Pours, Fills
<1> QED
  BY <1>1, <1>2, <1>3, PartsOf DEF FillsTo

\* To pour a list is to do so buffer by buffer.
LEMMA PouredBy ==
  ASSUME NEW B, NEW l \in Lists(B), NEW f \in [0..Len(l) -> Seq(B)], f[0] = <<>>,
         \A i \in 1..Len(l) : f[i] = f[i - 1] \o Rest(l[i])
  PROVE  Pours(f, l, B) /\ Poured(l) = f[Len(l)]
<1>1. Len(Parts(l)) = Len(l) /\ \A i \in 1..Len(l) : Parts(l)[i] = Rest(l[i])
  BY PartsOf
<1>2. FillsTo(f, Parts(l), Len(l), B)
  BY <1>1 DEF FillsTo
<1>3. Pours(f, l, B)
  BY <1>1, <1>2 DEF Pours, Fills
<1> QED
  BY <1>3, PouredIs

\* What is poured are the list's elements; of no buffer, none.
LEMMA PouredType ==
  ASSUME NEW B, NEW l \in Lists(B)
  PROVE  /\ Poured(l) \in Seq(B) /\ Len(Poured(l)) \in Nat
         /\ l = <<>> => Poured(l) = <<>>
<1>1. PICK f : Pours(f, l, B)
  BY PoursExists
<1>2. Len(l) \in Nat /\ (l = <<>> => Len(l) = 0)
  BY PartsOf
<1>3. Len(l) \in 0..Len(l)
  BY <1>2
<1>4. f[Len(l)] \in Seq(B) /\ Poured(l) = f[Len(l)] /\ f[0] = <<>>
  BY <1>1, <1>3, PouredIs
<1> QED
  BY <1>2, <1>4

\* One more buffer.
LEMMA PouredAppend ==
  ASSUME NEW B, NEW l \in Lists(B), NEW io \in Buffers(B), Len(io.data) <= io.size, io.offset <= Len(io.data)
  PROVE  /\ Append(l, io) \in Lists(B) /\ Len(Append(l, io)) = Len(l) + 1 /\ Append(l, io)[Len(l) + 1] = io
         /\ \A i \in 1..Len(l) : Append(l, io)[i] = l[i]
         /\ Poured(Append(l, io)) = Poured(l) \o Rest(io)
<1> DEFINE a == Append(l, io)
           n == Len(l)
<1>1. l \in Seq(Buffers(B)) /\ n \in Nat
  BY PartsOf DEF Lists
<1>2. /\ a \in Seq(Buffers(B)) /\ Len(a) = n + 1
      /\ \A i \in 1..n : a[i] = l[i]
      /\ a[n + 1] = io
  BY <1>1, AppendProperties
<1> HIDE DEF a
<1>3. a \in Lists(B)
  <2>1. ASSUME NEW i \in 1..Len(a) PROVE Len(a[i].data) <= a[i].size /\ a[i].offset <= Len(a[i].data)
    <3>1. CASE i = n + 1
      BY <3>1, <1>2
    <3>2. CASE i # n + 1
      <4>1. i \in 1..n
        BY <3>2, <1>1, <1>2
      <4> QED
        BY <4>1, <1>2 DEF Lists
    <3> QED
      BY <3>1, <3>2
  <2> QED
    BY <1>2, <2>1 DEF Lists
<1>4. PICK f : Pours(f, a, B)
  BY <1>3, PoursExists
<1>5. /\ Poured(a) = f[Len(a)] /\ f \in [0..Len(a) -> Seq(B)] /\ f[0] = <<>>
      /\ \A i \in 1..Len(a) : f[i] = f[i - 1] \o Rest(a[i])
  BY <1>3, <1>4, PouredIs
<1> DEFINE g == [i \in 0..n |-> f[i]]
<1>6. g \in [0..n -> Seq(B)] /\ g[0] = <<>>
  BY <1>1, <1>2, <1>5
<1>7. ASSUME NEW i \in 1..n PROVE g[i] = g[i - 1] \o Rest(l[i])
  <2>1. i \in 0..n /\ i - 1 \in 0..n /\ i \in 1..Len(a)
    BY <1>1, <1>2
  <2>2. g[i] = f[i] /\ g[i - 1] = f[i - 1]
    BY <2>1
  <2> HIDE DEF g
  <2> QED
    BY <2>1, <2>2, <1>2, <1>5
<1>8. Poured(l) = g[n]
  <2> HIDE DEF g
  <2> QED
    BY <1>6, <1>7, PouredBy
<1>9. g[n] = f[n]
  BY <1>1
<1>10. n + 1 \in 1..Len(a) /\ (n + 1) - 1 = n
  BY <1>1, <1>2
<1>11. f[n + 1] = f[n] \o Rest(io)
  BY <1>2, <1>5, <1>10
<1>12. Poured(a) = Poured(l) \o Rest(io)
  BY <1>2, <1>5, <1>8, <1>9, <1>11
<1> QED
  BY <1>2, <1>3, <1>12 DEF a

\* The last buffer takes more.
Extended(l, n, t) == [l EXCEPT ![n].data = @ \o t]

\* Of each it is known what it is.
LEMMA PouredPart ==
  ASSUME NEW B, NEW l \in Lists(B), NEW f, Pours(f, l, B)
  PROVE  \A x \in 0..Len(l) : f[x] \in Seq(B) /\ Len(f[x]) \in Nat
<1>1. f \in [0..Len(l) -> Seq(B)]
  BY PouredIs
<1>2. \A x \in 0..Len(l) : f[x] \in Seq(B)
  BY <1>1
<1> QED
  BY <1>2

\* What the last buffer takes comes last.
LEMMA PouredExtend ==
  ASSUME NEW B, NEW l \in Lists(B), NEW n, n = Len(l), n > 0, NEW t \in Seq(B),
         Len(l[n].data) + Len(t) <= l[n].size
  PROVE  /\ Extended(l, n, t) \in Lists(B) /\ Len(Extended(l, n, t)) = n
         /\ \A i \in 1..n : Extended(l, n, t)[i].offset = l[i].offset
         /\ Poured(Extended(l, n, t)) = Poured(l) \o t
<1> DEFINE io == [l[n] EXCEPT !.data = l[n].data \o t]
           m == [l EXCEPT ![n] = io]
<1>1. l \in Seq(Buffers(B)) /\ n \in Nat /\ n \in 1..Len(l)
  BY PartsOf DEF Lists
<1>2. /\ l[n] \in Buffers(B) /\ l[n].data \in Seq(B) /\ l[n].offset \in 0..Len(l[n].data)
      /\ Len(l[n].data) \in Nat
  BY <1>1, BufferOf
<1>3. /\ l[n].data \o t \in Seq(B) /\ Len(l[n].data \o t) = Len(l[n].data) + Len(t) /\ Len(t) \in Nat
  BY <1>2, ConcatProperties
<1>4. /\ io \in Buffers(B) /\ io.data = l[n].data \o t /\ io.size = l[n].size /\ io.offset = l[n].offset
  BY <1>2, <1>3 DEF Buffers
<1> HIDE DEF io
<1>5. m \in Seq(Buffers(B)) /\ Len(m) = n /\ \A i \in 1..n : m[i] = IF i = n THEN io ELSE l[i]
  BY <1>1, <1>4, ExceptSeq
<1>6. m = Extended(l, n, t)
  BY <1>1 DEF io, Extended
<1> HIDE DEF m
<1>7. m \in Lists(B)
  <2>1. ASSUME NEW i \in 1..Len(m) PROVE Len(m[i].data) <= m[i].size /\ m[i].offset <= Len(m[i].data)
    <3>0. i \in 1..n
      BY <1>5
    <3>1. CASE i = n
      <4>1. m[i] = io
        BY <3>0, <3>1, <1>5
      <4>2. Len(io.data) <= io.size
        BY <1>3, <1>4
      <4>3. io.offset <= Len(io.data)
        BY <1>2, <1>3, <1>4
      <4> QED
        BY <4>1, <4>2, <4>3
    <3>2. CASE i # n
      BY <3>0, <3>2, <1>5 DEF Lists
    <3> QED
      BY <3>1, <3>2
  <2> QED
    BY <1>5, <2>1 DEF Lists
<1>8. Rest(io) = Rest(l[n]) \o t
  <2>1. Rest(io) = Drop(l[n].data \o t, l[n].offset) /\ Rest(l[n]) = Drop(l[n].data, l[n].offset)
    BY <1>4 DEF Rest
  <2>2. Drop(l[n].data \o t, l[n].offset) = Drop(l[n].data, l[n].offset) \o t
    BY <1>2, DropFirst
  <2> QED
    BY <2>1, <2>2
<1>9. PICK f : Pours(f, l, B)
  BY PoursExists
<1>10. /\ Poured(l) = f[n] /\ f \in [0..n -> Seq(B)] /\ f[0] = <<>>
       /\ \A i \in 1..n : f[i] = f[i - 1] \o Rest(l[i])
  BY <1>9, PouredIs
<1> DEFINE g == [i \in 0..n |-> IF i = n THEN f[n] \o t ELSE f[i]]
<1>11. f[n] \in Seq(B) /\ f[n - 1] \in Seq(B) /\ f[n] \o t \in Seq(B) /\ Rest(l[n]) \in Seq(B)
  <2>1. n \in 0..n /\ n - 1 \in 0..n
    BY <1>1
  <2>2. f[n] \in Seq(B) /\ f[n - 1] \in Seq(B)
    BY <1>10, <2>1
  <2> QED
    BY <2>2, <1>1, PartsOf, ConcatProperties
<1>12. (f[n - 1] \o Rest(l[n])) \o t = f[n - 1] \o (Rest(l[n]) \o t)
  <2>1. f[n - 1] \in Seq(B) /\ Rest(l[n]) \in Seq(B) /\ t \in Seq(B)
    BY <1>11
  <2>2. \A x, y, z \in Seq(B) : (x \o y) \o z = x \o (y \o z)
    BY Associates, SMTT(30)
  <2> QED
    BY <2>1, <2>2, Zenon
<1>13. g \in [0..n -> Seq(B)] /\ g[0] = <<>> /\ g[n] = f[n] \o t
  BY <1>1, <1>10, <1>11
<1>14. ASSUME NEW i \in 1..n PROVE g[i] = g[i - 1] \o Rest(m[i])
  <2>1. i - 1 \in 0..n /\ i - 1 # n /\ i \in 0..n
    BY <1>1
  <2>2. g[i - 1] = f[i - 1]
    BY <2>1
  <2>3. CASE i = n
    <3>1. m[i] = io /\ i - 1 = n - 1 /\ f[n] = f[n - 1] \o Rest(l[n])
      BY <2>3, <1>1, <1>5, <1>10
    <3>2. f[n] \o t = f[n - 1] \o (Rest(l[n]) \o t)
      BY <1>12, <3>1
    <3> HIDE DEF g
    <3> QED
      BY <1>8, <1>13, <2>2, <2>3, <3>1, <3>2
  <2>4. CASE i # n
    <3>1. g[i] = f[i] /\ m[i] = l[i]
      BY <2>1, <2>4, <1>5
    <3> HIDE DEF g
    <3> QED
      BY <2>2, <3>1, <1>10
  <2> QED
    BY <2>3, <2>4
<1> HIDE DEF g
<1>15. Poured(m) = g[n]
  BY <1>5, <1>7, <1>13, <1>14, PouredBy
<1>16. \A i \in 1..n : m[i].offset = l[i].offset
  BY <1>4, <1>5
<1> QED
  BY <1>5, <1>6, <1>7, <1>10, <1>13, <1>15, <1>16

\* The first k buffers, poured.
LEMMA PouredFirst ==
  ASSUME NEW B, NEW l \in Lists(B), NEW f, Pours(f, l, B), NEW k \in 0..Len(l)
  PROVE  Poured(SubSeq(l, 1, k)) = f[k]
<1> DEFINE m == SubSeq(l, 1, k)
           g == [i \in 0..k |-> f[i]]
<1>1. l \in Seq(Buffers(B)) /\ Len(l) \in Nat /\ k \in Nat /\ k <= Len(l)
  BY PartsOf DEF Lists
<1>2. m \in Seq(Buffers(B)) /\ Len(m) = k /\ \A i \in 1..k : m[i] = l[i]
  BY <1>1, TakeAndDrop
<1> HIDE DEF m
<1>3. m \in Lists(B)
  <2>1. \A i \in 1..Len(m) : i \in 1..Len(l) /\ m[i] = l[i]
    BY <1>1, <1>2
  <2> QED
    BY <1>2, <2>1 DEF Lists
<1>4. /\ f \in [0..Len(l) -> Seq(B)] /\ f[0] = <<>>
      /\ \A i \in 1..Len(l) : f[i] = f[i - 1] \o Rest(l[i])
  BY PouredIs
<1>5. g \in [0..k -> Seq(B)] /\ g[0] = <<>> /\ g[k] = f[k]
  BY <1>1, <1>4
<1>6. ASSUME NEW i \in 1..k PROVE g[i] = g[i - 1] \o Rest(m[i])
  <2>1. i \in 0..k /\ i - 1 \in 0..k /\ i \in 1..Len(l)
    BY <1>1
  <2>2. g[i] = f[i] /\ g[i - 1] = f[i - 1]
    BY <2>1
  <2> HIDE DEF g
  <2> QED
    BY <2>1, <2>2, <1>2, <1>4
<1> HIDE DEF g
<1>7. Poured(m) = g[k]
  BY <1>2, <1>3, <1>5, <1>6, PouredBy
<1> QED
  BY <1>5, <1>7 DEF m

\* Pouring makes longer.
LEMMA PouringGrows ==
  ASSUME NEW B, NEW l \in Lists(B), NEW f, Pours(f, l, B), NEW i \in 0..Len(l) - 1
  PROVE  /\ f[i] \in Seq(B) /\ f[i + 1] \in Seq(B) /\ Len(f[i]) \in Nat /\ Len(f[i + 1]) \in Nat
         /\ f[i + 1] = f[i] \o Rest(l[i + 1]) /\ Rest(l[i + 1]) \in Seq(B)
         /\ Len(f[i + 1]) = Len(f[i]) + Len(Rest(l[i + 1])) /\ Len(Rest(l[i + 1])) \in Nat
<1>1. Len(l) \in Nat
  BY PartsOf
<1>2. i \in 0..Len(l) /\ i + 1 \in 1..Len(l) /\ i + 1 \in 0..Len(l) /\ (i + 1) - 1 = i
  BY <1>1
<1>3. f[i] \in Seq(B) /\ f[i + 1] \in Seq(B)
  BY <1>2, PouredPart
<1>4. f[i + 1] = f[(i + 1) - 1] \o Rest(l[i + 1])
  BY <1>2, PouredIs
<1>5. Rest(l[i + 1]) \in Seq(B)
  BY <1>2, PartsOf
<1>6. Len(f[i] \o Rest(l[i + 1])) = Len(f[i]) + Len(Rest(l[i + 1]))
  BY <1>3, <1>5, ConcatProperties
<1>7. f[i + 1] = f[i] \o Rest(l[i + 1])
  BY <1>2, <1>4
<1>8. Len(f[i]) \in Nat /\ Len(f[i + 1]) \in Nat /\ Len(Rest(l[i + 1])) \in Nat
  BY <1>3, <1>5
<1> QED
  BY <1>3, <1>5, <1>6, <1>7, <1>8

\* What is poured gets longer with every buffer.
LEMMA PouringLonger ==
  ASSUME NEW B, NEW l \in Lists(B), NEW f, Pours(f, l, B), NEW i \in 0..Len(l), NEW j \in 0..Len(l), i <= j
  PROVE  f[i] \in Seq(B) /\ Len(f[i]) \in Nat /\ Len(f[j]) \in Nat /\ Len(f[i]) <= Len(f[j])
<1> DEFINE n == Len(l)
           S == {x \in 0..n : x >= i => Len(f[i]) <= Len(f[x])}
<1>1. n \in Nat
  BY PartsOf
<1>2. \A x \in 0..n : f[x] \in Seq(B) /\ Len(f[x]) \in Nat
  BY PouredPart
<1>3. 0 \in S
  BY <1>1, <1>2
<1>4. ASSUME NEW x \in 0..n, x \in S, x < n PROVE x + 1 \in S
  <2>1. x \in 0..n - 1 /\ x + 1 \in 0..n
    BY <1>1, <1>4
  <2>2. Len(f[x + 1]) = Len(f[x]) + Len(Rest(l[x + 1])) /\ Len(Rest(l[x + 1])) \in Nat
    BY <2>1, PouringGrows
  <2>3. x >= i => Len(f[i]) <= Len(f[x])
    BY <1>4
  <2>4. x + 1 = i \/ x >= i \/ ~(x + 1 >= i)
    BY <2>1
  <2>7. Len(f[i]) \in Nat /\ Len(f[x]) \in Nat /\ Len(f[x + 1]) \in Nat
    BY <1>2, <2>1
  <2>5. x >= i => Len(f[i]) <= Len(f[x + 1])
    <3>1. \A a, b, c \in Nat : a <= b => a <= b + c
      OBVIOUS
    <3>2. Len(f[i]) <= Len(f[x]) => Len(f[i]) <= Len(f[x]) + Len(Rest(l[x + 1]))
      BY <2>7, <2>2, <3>1, Zenon
    <3>3. Len(f[i]) <= Len(f[x]) => Len(f[i]) <= Len(f[x + 1])
      BY <2>2, <3>2, Zenon
    <3> QED
      BY <2>3, <3>3, Zenon
  <2>6. x + 1 = i => Len(f[i]) <= Len(f[x + 1])
    BY <2>7
  <2> QED
    BY <2>1, <2>4, <2>5, <2>6
<1>5. 0..n \subseteq S
  <2> HIDE DEF S, n
  <2> QED
    BY <1>1, <1>3, <1>4, NatsBySteps
<1>6. Len(f[i]) <= Len(f[j])
  BY <1>5
<1> QED
  BY <1>2, <1>6

\* The last buffers, of the first of which some more is gone.
Advanced(l, k, n, d) == [SubSeq(l, k + 1, n) EXCEPT ![1].offset = @ + d]

Cuts(B, l, f, n, k, cc, r) ==
  /\ l \in Lists(B) /\ Pours(f, l, B) /\ n = Len(l) /\ k \in 0..n - 1
  /\ cc \in Nat /\ Len(f[k]) <= cc /\ cc < Len(f[k + 1])
  /\ r = Advanced(l, k, n, cc - Len(f[k]))

\* Without whole buffers and the beginning of the next, the rest is poured.
LEMMA PouredRest ==
  ASSUME NEW B, NEW l, NEW f, NEW n, NEW k, NEW cc, NEW r, Cuts(B, l, f, n, k, cc, r)
  PROVE  /\ r \in Lists(B) /\ Len(r) = n - k
         /\ \A i \in 1..n - k : i # 1 => r[i].offset = l[i + k].offset
         /\ cc <= Len(f[n]) /\ Poured(r) = Drop(f[n], cc)
<1>22. /\ l \in Lists(B) /\ Pours(f, l, B) /\ n = Len(l) /\ k \in 0..n - 1
       /\ cc \in Nat /\ Len(f[k]) <= cc /\ cc < Len(f[k + 1])
       /\ r = Advanced(l, k, n, cc - Len(f[k]))
  BY DEF Cuts
<1> USE <1>22
<1> DEFINE s == SubSeq(l, k + 1, n)
           d == cc - Len(f[k])
<1>1. l \in Seq(Buffers(B)) /\ n \in Nat /\ k \in Nat /\ k \in 0..n /\ k + 1 \in 1..n /\ k + 1 \in 0..n /\ n - k \in Nat
      /\ 1 \in 1..n - k
  BY PartsOf DEF Lists
<1>2. /\ f[k] \in Seq(B) /\ f[k + 1] \in Seq(B) /\ Len(f[k]) \in Nat /\ Len(f[k + 1]) \in Nat
      /\ f[k + 1] = f[k] \o Rest(l[k + 1]) /\ Rest(l[k + 1]) \in Seq(B)
      /\ Len(f[k + 1]) = Len(f[k]) + Len(Rest(l[k + 1])) /\ Len(Rest(l[k + 1])) \in Nat
  BY PouringGrows
<1>3. d \in Nat /\ d < Len(Rest(l[k + 1])) /\ d \in 0..Len(Rest(l[k + 1])) /\ cc = Len(f[k]) + d
  <2>1. \A a, b, c \in Nat : a <= cc /\ cc < b /\ b = a + c =>
          cc - a \in Nat /\ cc - a < c /\ cc - a \in 0..c /\ cc = a + (cc - a)
    OBVIOUS
  <2> QED
    BY <1>2, <2>1, Zenon
<1>4. /\ s \in Seq(Buffers(B)) /\ Len(s) = n - k
      /\ \A i \in 1..n - k : s[i] = l[i + k]
  BY <1>1, DropIs DEF Drop
<1> HIDE DEF s
<1>5. /\ l[k + 1] \in Buffers(B) /\ l[k + 1].data \in Seq(B) /\ l[k + 1].offset \in 0..Len(l[k + 1].data)
      /\ Len(l[k + 1].data) \in Nat /\ Len(l[k + 1].data) <= l[k + 1].size /\ l[k + 1].offset \in Nat
      /\ l[k + 1].size \in Nat
  BY <1>1, BufferOf
<1>6. Len(Rest(l[k + 1])) = Len(l[k + 1].data) - l[k + 1].offset
  BY <1>5, DropIs DEF Rest
<1>7. s[1] = l[k + 1] /\ s # <<>>
  <2>1. s[1] = l[1 + k] /\ 1 + k = k + 1 /\ Len(s) # 0
    BY <1>1, <1>4
  <2> QED
    BY <2>1
<1> DEFINE io == [l[k + 1] EXCEPT !.offset = l[k + 1].offset + d]
<1>8. r = [s EXCEPT ![1] = io]
  <2>1. [s EXCEPT ![1] = io] = [s EXCEPT ![1].offset = @ + d]
    BY <1>1, <1>4, <1>7
  <2> QED
    BY <2>1 DEF Advanced, s, d
<1> HIDE DEF d
<1>9. l[k + 1].offset + d \in Nat /\ l[k + 1].offset + d <= Len(l[k + 1].data)
  BY <1>3, <1>5, <1>6
<1>10. /\ io \in Buffers(B) /\ io.data = l[k + 1].data /\ io.size = l[k + 1].size
       /\ io.offset = l[k + 1].offset + d
  BY <1>5, <1>9 DEF Buffers
<1> HIDE DEF io
<1>11. r \in Seq(Buffers(B)) /\ Len(r) = n - k /\ \A i \in 1..n - k : r[i] = IF i = 1 THEN io ELSE l[i + k]
  <2> DEFINE e == [s EXCEPT ![1] = io]
  <2>2. e \in Seq(Buffers(B)) /\ Len(e) = n - k /\ \A i \in 1..n - k : e[i] = IF i = 1 THEN io ELSE s[i]
    BY <1>1, <1>4, <1>10, ExceptSeq
  <2>3. r = e
    BY <1>8
  <2> HIDE DEF e
  <2>1. r \in Seq(Buffers(B)) /\ Len(r) = n - k /\ \A i \in 1..n - k : r[i] = IF i = 1 THEN io ELSE s[i]
    BY <2>2, <2>3
  <2> QED
    BY <1>4, <2>1
<1>12. r \in Lists(B)
  <2>1. ASSUME NEW i \in 1..Len(r) PROVE Len(r[i].data) <= r[i].size /\ r[i].offset <= Len(r[i].data)
    <3>1. CASE i = 1
      BY <3>1, <1>1, <1>5, <1>9, <1>10, <1>11
    <3>2. CASE i # 1
      <4>1. i + k \in 1..n /\ i \in 1..n - k
        BY <1>1, <1>11
      <4>2. r[i] = l[i + k]
        BY <3>2, <4>1, <1>11
      <4> QED
        BY <4>1, <4>2 DEF Lists
    <3> QED
      BY <3>1, <3>2
  <2> QED
    BY <1>11, <2>1 DEF Lists
<1>13. Rest(io) = Drop(f[k + 1], cc)
  <2>1. Drop(f[k + 1], cc) = Drop(Rest(l[k + 1]), d)
    BY <1>2, <1>3, DropSecond
  <2>2. d \in 0..Len(l[k + 1].data) - l[k + 1].offset
    BY <1>3, <1>6
  <2>3. Drop(Drop(l[k + 1].data, l[k + 1].offset), d) = Drop(l[k + 1].data, l[k + 1].offset + d)
    BY <1>5, <2>2, DropDrop
  <2> QED
    BY <2>1, <2>3, <1>10 DEF Rest
<1>14. ASSUME NEW j \in 1..n - k
       PROVE  k + j \in 1..n /\ f[k + j] \in Seq(B) /\ cc \in 0..Len(f[k + j])
  <2>1. k + j \in 1..n /\ k + j \in 0..n /\ k + 1 <= k + j
    BY <1>1
  <2>2. Len(f[k + 1]) <= Len(f[k + j]) /\ Len(f[k + j]) \in Nat
    BY <1>1, <2>1, PouringLonger
  <2>3. f[k + j] \in Seq(B)
    BY <2>1, PouredPart
  <2>4. \A a, b \in Nat : cc < a /\ a <= b => cc \in 0..b
    OBVIOUS
  <2>5. cc \in 0..Len(f[k + j])
    BY <1>2, <2>2, <2>4, Zenon
  <2> QED
    BY <2>1, <2>3, <2>5
<1> DEFINE g == [j \in 0..n - k |-> IF j = 0 THEN <<>> ELSE Drop(f[k + j], cc)]
<1>15. g \in [0..n - k -> Seq(B)] /\ g[0] = <<>>
  <2>1. \A j \in 1..n - k : Drop(f[k + j], cc) \in Seq(B)
    BY <1>14, DropIs
  <2>2. \A j \in 0..n - k : j # 0 => j \in 1..n - k
    OBVIOUS
  <2>3. \A j \in 0..n - k : (IF j = 0 THEN <<>> ELSE Drop(f[k + j], cc)) \in Seq(B)
    BY <2>1, <2>2
  <2>4. 0 \in 0..n - k
    BY <1>1
  <2> QED
    BY <2>3, <2>4
<1>16. \A j \in 1..n - k : g[j] = Drop(f[k + j], cc)
  OBVIOUS
<1> HIDE DEF g
<1>17. ASSUME NEW j \in 1..n - k PROVE g[j] = g[j - 1] \o Rest(r[j])
  <2>1. CASE j = 1
    <3>1. j - 1 = 0 /\ k + j = k + 1
      BY <2>1
    <3>2. g[j - 1] = <<>> /\ r[j] = io /\ g[j] = Rest(io)
      BY <2>1, <3>1, <1>11, <1>13, <1>15, <1>16
    <3>3. Rest(io) \in Seq(B)
      BY <1>15, <3>2
    <3> QED
      BY <3>2, <3>3, ConcatEmptySeq
  <2>2. CASE j # 1
    <3>1. j - 1 \in 1..n - k /\ k + (j - 1) = (k + j) - 1
      BY <2>2, <1>1
    <3>2. g[j - 1] = Drop(f[(k + j) - 1], cc) /\ g[j] = Drop(f[k + j], cc)
      BY <3>1, <1>16
    <3>3. k + j \in 1..n
      BY <1>14
    <3>4. f[k + j] = f[(k + j) - 1] \o Rest(l[k + j])
      BY <3>3, PouredIs
    <3>5. Rest(l[k + j]) \in Seq(B)
      BY <3>3, PartsOf
    <3>6. f[(k + j) - 1] \in Seq(B) /\ cc \in 0..Len(f[(k + j) - 1])
      <4>1. f[k + (j - 1)] \in Seq(B) /\ cc \in 0..Len(f[k + (j - 1)])
        BY <3>1, <1>14
      <4> QED
        BY <3>1, <4>1
    <3>7. Drop(f[k + j], cc) = Drop(f[(k + j) - 1], cc) \o Rest(l[k + j])
      BY <3>4, <3>5, <3>6, DropFirst
    <3>8. r[j] = l[k + j]
      <4>1. j + k = k + j
        BY <1>1
      <4> QED
        BY <2>2, <4>1, <1>11
    <3> QED
      BY <3>2, <3>7, <3>8
  <2> QED
    BY <2>1, <2>2
<1>18. Poured(r) = g[n - k]
  <2>1. g \in [0..Len(r) -> Seq(B)] /\ \A j \in 1..Len(r) : g[j] = g[j - 1] \o Rest(r[j])
    BY <1>11, <1>15, <1>17
  <2>2. Poured(r) = g[Len(r)]
    BY <2>1, <1>12, <1>15, PouredBy
  <2> QED
    BY <2>2, <1>11
<1>19. n - k \in 1..n - k /\ k + (n - k) = n
  BY <1>1
<1>20. Poured(r) = Drop(f[n], cc) /\ cc <= Len(f[n])
  <2>1. g[n - k] = Drop(f[k + (n - k)], cc) /\ cc \in 0..Len(f[k + (n - k)])
    BY <1>14, <1>16, <1>19
  <2> QED
    BY <2>1, <1>18, <1>19
<1>21. \A i \in 1..n - k : i # 1 => r[i].offset = l[i + k].offset
  BY <1>11
<1> QED
  BY <1>7, <1>8, <1>11, <1>12, <1>20, <1>21 DEF s, d

-----------------------------------------------------------------------------
(* The I/O queues. *)

QueueIs(q, B) ==
  /\ q \in [list : Lists(B), cc : Nat, last : Nat]
  /\ \A i \in 1..Len(q.list) : q.list[i].offset > 0 => i = 1
  /\ q.cc = Len(Content(q))

\* A queue of buffers and what it holds.
LEMMA QueueHolds ==
  ASSUME NEW B, NEW q, QueueIs(q, B)
  PROVE  /\ q.list \in Lists(B) /\ q.cc \in Nat /\ q.last \in Nat
         /\ Content(q) \in Seq(B) /\ Len(Content(q)) = q.cc
         /\ q.last <= q.cc => QueueOK(q, B)
<1>1. q.list \in Lists(B) /\ q.cc \in Nat /\ q.last \in Nat
  BY DEF QueueIs
<1>2. Content(q) \in Seq(B) /\ Len(Content(q)) = q.cc
  BY <1>1, PouredType DEF Content, QueueIs
<1>3. DOMAIN q.list = 1..Len(q.list)
  BY <1>1, LenProperties DEF Lists
<1>4. ASSUME NEW i \in DOMAIN q.list
      PROVE  /\ q.list[i].data \in Seq(B) /\ Len(q.list[i].data) <= q.list[i].size
             /\ q.list[i].offset \in 0..Len(q.list[i].data) /\ (q.list[i].offset > 0 => i = 1)
  <2>1. i \in 1..Len(q.list)
    BY <1>3
  <2> QED
    BY <2>1, <1>1, BufferOf DEF QueueIs
<1>5. q.last <= q.cc => QueueOK(q, B)
  BY <1>2, <1>4 DEF QueueOK
<1> QED
  BY <1>1, <1>2, <1>5

\* The empty queue.
LEMMA EmptyQueueIs == ASSUME NEW B PROVE QueueIs(EmptyQueue, B) /\ Content(EmptyQueue) = <<>> /\ EmptyQueue.cc = 0 /\ EmptyQueue.last = 0
<1>1. EmptyQueue.list = <<>> /\ EmptyQueue.cc = 0 /\ EmptyQueue.last = 0
  BY DEF EmptyQueue
<1>2. <<>> \in Seq(Buffers(B)) /\ Len(<<>>) = 0
  OBVIOUS
<1>3. <<>> \in Lists(B)
  BY <1>2 DEF Lists
<1>4. Poured(<<>>) = <<>>
  BY <1>3, PouredType
<1>5. EmptyQueue \in [list : Lists(B), cc : Nat, last : Nat]
  BY <1>3 DEF EmptyQueue
<1>6. Content(EmptyQueue) = <<>>
  BY <1>1, <1>4 DEF Content
<1>7. \A i \in 1..Len(EmptyQueue.list) : EmptyQueue.list[i].offset > 0 => i = 1
  BY <1>1, <1>2
<1>8. EmptyQueue.cc = Len(Content(EmptyQueue))
  BY <1>1, <1>2, <1>6
<1> QED
  BY <1>1, <1>5, <1>6, <1>7, <1>8 DEF QueueIs

\* The room in the last buffer, what goes there and what comes of the list.
Avail(l) == IF Len(l) = 0 THEN 0 ELSE l[Len(l)].size - Len(l[Len(l)].data)
Filled(l, s, len) == IF Avail(l) = 0 THEN l ELSE [l EXCEPT ![Len(l)].data = @ \o SubSeq(s, 1, len)]

\* appendcc() fills the last buffer as far as that goes.
LEMMA FilledIs ==
  ASSUME NEW B, NEW l \in Lists(B), NEW s \in Seq(B), NEW len, len = WireMin(Len(s), Avail(l))
  PROVE  /\ Avail(l) \in Nat /\ len \in 0..Len(s) /\ Len(s) \in Nat
         /\ Avail(l) >= Len(s) => len = Len(s)
         /\ Filled(l, s, len) \in Lists(B) /\ Len(Filled(l, s, len)) = Len(l) /\ Len(l) \in Nat
         /\ \A i \in 1..Len(l) : Filled(l, s, len)[i].offset = l[i].offset
         /\ Poured(Filled(l, s, len)) = Poured(l) \o SubSeq(s, 1, len)
<1>1. Len(l) \in Nat /\ Len(s) \in Nat
  BY PartsOf
<1>2. Avail(l) \in Nat
  <2>1. CASE Len(l) = 0
    BY <2>1 DEF Avail
  <2>2. CASE Len(l) # 0
    <3>1. Len(l) \in 1..Len(l)
      BY <1>1, <2>2
    <3>2. Len(l[Len(l)].data) \in Nat /\ l[Len(l)].size \in Nat /\ Len(l[Len(l)].data) <= l[Len(l)].size
      BY <3>1, BufferOf
    <3>3. \A a, b \in Nat : a <= b => b - a \in Nat
      OBVIOUS
    <3>4. l[Len(l)].size - Len(l[Len(l)].data) \in Nat
      BY <3>2, <3>3, Zenon
    <3> QED
      BY <2>2, <3>4 DEF Avail
  <2> QED
    BY <2>1, <2>2
<1>3. len \in 0..Len(s) /\ len <= Avail(l) /\ (Avail(l) >= Len(s) => len = Len(s)) /\ len \in Nat
  <2>1. \A a, b \in Nat : /\ (IF a < b THEN a ELSE b) \in 0..a /\ (IF a < b THEN a ELSE b) <= b
                          /\ b >= a => (IF a < b THEN a ELSE b) = a
    OBVIOUS
  <2>2. len = IF Len(s) < Avail(l) THEN Len(s) ELSE Avail(l)
    BY DEF WireMin
  <2>3. len \in 0..Len(s) /\ len <= Avail(l) /\ (Avail(l) >= Len(s) => len = Len(s))
    BY <1>1, <1>2, <2>1, <2>2, Zenon
  <2> QED
    BY <2>3
<1>4. SubSeq(s, 1, len) \in Seq(B) /\ Len(SubSeq(s, 1, len)) = len
  BY <1>3, TakeAndDrop
<1>5. CASE Avail(l) = 0
  <2>1. Filled(l, s, len) = l /\ len = 0
    BY <1>3, <1>5 DEF Filled
  <2>2. SubSeq(s, 1, len) = <<>>
    BY <1>4, <2>1
  <2>3. Poured(l) \o <<>> = Poured(l)
    BY PouredType, ConcatEmptySeq
  <2> QED
    BY <1>1, <1>2, <1>3, <2>1, <2>2, <2>3
<1>6. CASE Avail(l) # 0
  <2> DEFINE n == Len(l)
  <2>1. n > 0 /\ Avail(l) = l[n].size - Len(l[n].data) /\ n \in 1..n
    BY <1>1, <1>6 DEF Avail
  <2>2. Len(l[n].data) \in Nat /\ l[n].size \in Nat
    BY <2>1, BufferOf
  <2>3. \A a, b \in Nat : len <= b - a => a + len <= b
    BY <1>3
  <2>4. Len(l[n].data) + len <= l[n].size
    BY <1>3, <2>1, <2>2, <2>3, Zenon
  <2>5. Filled(l, s, len) = [l EXCEPT ![n].data = @ \o SubSeq(s, 1, len)]
    BY <1>6 DEF Filled
  <2>6. /\ Filled(l, s, len) \in Lists(B) /\ Len(Filled(l, s, len)) = n
        /\ \A i \in 1..n : Filled(l, s, len)[i].offset = l[i].offset
        /\ Poured(Filled(l, s, len)) = Poured(l) \o SubSeq(s, 1, len)
    <3> DEFINE u == SubSeq(s, 1, len)
    <3>1. u \in Seq(B) /\ Len(l[n].data) + Len(u) <= l[n].size
      BY <1>4, <2>4
    <3>2. Filled(l, s, len) = Extended(l, n, u)
      BY <2>5 DEF Extended
    <3>3. n > 0 /\ n = Len(l)
      BY <2>1
    <3> HIDE DEF u, n
    <3>4. Extended(l, n, u) \in Lists(B) /\ Len(Extended(l, n, u)) = n
      BY <3>1, <3>3, PouredExtend
    <3>5. \A i \in 1..n : Extended(l, n, u)[i].offset = l[i].offset
      BY <3>1, <3>3, PouredExtend
    <3>6. Poured(Extended(l, n, u)) = Poured(l) \o u
      BY <3>1, <3>3, PouredExtend
    <3> QED
      BY <3>2, <3>4, <3>5, <3>6 DEF u
  <2> QED
    BY <1>1, <1>2, <1>3, <2>6
<1> QED
  BY <1>5, <1>6

\* And that is poured last.
LEMMA FilledPours ==
  ASSUME NEW B, NEW l \in Lists(B), NEW s \in Seq(B), NEW len, len = WireMin(Len(s), Avail(l))
  PROVE  Poured(Filled(l, s, len)) = Poured(l) \o SubSeq(s, 1, len)
BY FilledIs, SMTT(30)

\* What is appended comes last.
LEMMA AppendedIs ==
  ASSUME NEW B, NEW q, QueueIs(q, B), NEW s \in Seq(B), BufSize \in Nat
  PROVE  LET r == IoqAppend(q, s)
         IN  QueueIs(r, B) /\ Content(r) = Content(q) \o s /\ r.cc = q.cc + Len(s) /\ r.last = q.last
<1> DEFINE l == q.list
           n == Len(l)
           len == WireMin(Len(s), Avail(l))
           filled == Filled(l, s, len)
           rest == SubSeq(s, len + 1, Len(s))
           new == [size |-> WireMax(Len(rest), BufSize), data |-> rest, offset |-> 0]
           list == IF Avail(l) >= Len(s) THEN filled ELSE Append(filled, new)
           r == IoqAppend(q, s)
<1>1. l \in Lists(B) /\ q.cc \in Nat /\ q.last \in Nat /\ Content(q) \in Seq(B) /\ Len(Content(q)) = q.cc
      /\ Content(q) = Poured(l)
  BY QueueHolds DEF Content
<1>2. r = [q EXCEPT !.list = list, !.cc = q.cc + Len(s)]
  BY DEF IoqAppend, Avail, Filled
<1>3. r.list = list /\ r.cc = q.cc + Len(s) /\ r.last = q.last
  BY <1>2 DEF QueueIs
<1> HIDE DEF l, len
<1>4. /\ Avail(l) \in Nat /\ len \in 0..Len(s) /\ Len(s) \in Nat
      /\ (Avail(l) >= Len(s) => len = Len(s))
      /\ filled \in Lists(B) /\ Len(filled) = n /\ n \in Nat
      /\ \A i \in 1..n : filled[i].offset = l[i].offset
      /\ Poured(filled) = Poured(l) \o SubSeq(s, 1, len)
  <2> HIDE DEF filled, rest, new, list
  <2>1. len = WireMin(Len(s), Avail(l))
    BY DEF len
  <2>2. /\ Avail(l) \in Nat /\ len \in 0..Len(s) /\ Len(s) \in Nat
        /\ Avail(l) >= Len(s) => len = Len(s)
        /\ Filled(l, s, len) \in Lists(B) /\ Len(Filled(l, s, len)) = Len(l) /\ Len(l) \in Nat
        /\ \A i \in 1..Len(l) : Filled(l, s, len)[i].offset = l[i].offset
        /\ Poured(Filled(l, s, len)) = Poured(l) \o SubSeq(s, 1, len)
    <3>1. l \in Lists(B)
      BY <1>1
    <3>2. Avail(l) \in Nat /\ len \in 0..Len(s) /\ Len(s) \in Nat
      BY <2>1, <3>1, FilledIs
    <3>3. Avail(l) >= Len(s) => len = Len(s)
      BY <2>1, <3>1, FilledIs
    <3>4. Filled(l, s, len) \in Lists(B) /\ Len(Filled(l, s, len)) = Len(l) /\ Len(l) \in Nat
      BY <2>1, <3>1, FilledIs
    <3>5. \A i \in 1..Len(l) : Filled(l, s, len)[i].offset = l[i].offset
      BY <2>1, <3>1, FilledIs
    <3>6. Poured(Filled(l, s, len)) = Poured(l) \o SubSeq(s, 1, len)
      BY <2>1, <3>1, FilledPours
    <3> QED
      BY <3>2, <3>3, <3>4, <3>5, <3>6
  <2> QED
    BY <2>2 DEF filled
<1> HIDE DEF filled
<1>5. /\ SubSeq(s, 1, len) \o rest = s /\ SubSeq(s, 1, len) \in Seq(B)
      /\ rest \in Seq(B) /\ Len(rest) \in Nat /\ Rest(new) = rest
  <2>1. SubSeq(s, 1, len) \o rest = s /\ SubSeq(s, 1, len) \in Seq(B) /\ rest \in Seq(B)
    BY <1>4, TakeAndDrop, DropIs DEF Drop
  <2>2. Rest(new) = Drop(rest, 0)
    BY DEF Rest
  <2> HIDE DEF new, rest
  <2> QED
    BY <2>1, <2>2, DropEnds
<1> HIDE DEF rest
<1>6. list \in Lists(B) /\ Poured(list) = Poured(l) \o s /\ \A i \in 1..Len(list) : list[i].offset > 0 => i = 1
  <2>0. \A i \in 1..n : filled[i].offset > 0 => i = 1
    BY <1>4 DEF QueueIs, l
  <2>1. CASE Avail(l) >= Len(s)
    <3>1. list = filled /\ len = Len(s)
      BY <2>1, <1>4
    <3>2. SubSeq(s, 1, len) = s
      BY <3>1, SubSeqFull
    <3> QED
      BY <3>1, <3>2, <2>0, <1>4
  <2>2. CASE ~(Avail(l) >= Len(s))
    <3>1. list = Append(filled, new)
      BY <2>2
    <3>2. new \in Buffers(B) /\ Len(new.data) <= new.size /\ new.offset <= Len(new.data) /\ new.offset = 0
      <4>1. \A a, b \in Nat : (IF a > b THEN a ELSE b) \in Nat /\ a <= (IF a > b THEN a ELSE b)
        OBVIOUS
      <4>2. WireMax(Len(rest), BufSize) \in Nat /\ Len(rest) <= WireMax(Len(rest), BufSize)
        BY <1>5, <4>1 DEF WireMax
      <4> QED
        BY <1>5, <4>2 DEF Buffers
    <3> HIDE DEF new, list
    <3>a. /\ Append(filled, new) \in Lists(B) /\ Len(Append(filled, new)) = Len(filled) + 1
          /\ Append(filled, new)[Len(filled) + 1] = new
          /\ \A i \in 1..Len(filled) : Append(filled, new)[i] = filled[i]
          /\ Poured(Append(filled, new)) = Poured(filled) \o Rest(new)
      <4>1. filled \in Lists(B)
        BY <1>4
      <4>2. new \in Buffers(B) /\ Len(new.data) <= new.size /\ new.offset <= Len(new.data)
        BY <3>2
      <4> QED
        BY <4>1, <4>2, PouredAppend
    <3>3. /\ list \in Lists(B) /\ Len(list) = n + 1 /\ list[n + 1] = new
          /\ \A i \in 1..n : list[i] = filled[i]
          /\ Poured(list) = Poured(filled) \o Rest(new)
      BY <3>1, <3>a, <1>4
    <3>4. (Poured(l) \o SubSeq(s, 1, len)) \o rest = Poured(l) \o (SubSeq(s, 1, len) \o rest)
      <4>1. \A x, y, z \in Seq(B) : (x \o y) \o z = x \o (y \o z)
        BY Associates, SMTT(30)
      <4>2. Poured(l) \in Seq(B)
        BY <1>1, PouredType
      <4> QED
        BY <4>1, <4>2, <1>5, Zenon
    <3>5. Poured(list) = Poured(l) \o s
      BY <3>3, <3>4, <1>4, <1>5
    <3>6. ASSUME NEW i \in 1..Len(list), list[i].offset > 0 PROVE i = 1
      <4>1. i \in 1..n \/ i = n + 1
        BY <3>3, <1>4
      <4>2. CASE i \in 1..n
        BY <4>2, <3>3, <3>6, <2>0
      <4>3. CASE i = n + 1
        BY <4>3, <3>2, <3>3, <3>6
      <4> QED
        BY <4>1, <4>2, <4>3
    <3> QED
      BY <3>3, <3>5, <3>6
  <2> QED
    BY <2>1, <2>2
<1> HIDE DEF list
<1>7. r \in [list : Lists(B), cc : Nat, last : Nat]
  <2>1. q \in [list : Lists(B), cc : Nat, last : Nat] /\ q.cc + Len(s) \in Nat
    BY <1>1, <1>4 DEF QueueIs
  <2> HIDE DEF r
  <2> QED
    BY <2>1, <1>2, <1>6
<1> HIDE DEF r
<1>8. Content(r) = Content(q) \o s
  BY <1>1, <1>3, <1>6 DEF Content
<1>9. Len(Content(r)) = r.cc
  <2>1. Len(Content(q) \o s) = Len(Content(q)) + Len(s)
    BY <1>1, ConcatProperties
  <2> QED
    BY <1>1, <1>3, <1>8, <2>1
<1>10. QueueIs(r, B)
  BY <1>3, <1>6, <1>7, <1>9 DEF QueueIs
<1> QED
  BY <1>3, <1>8, <1>10 DEF r

\* The first cc are dequeued.
LEMMA DequeuedIs ==
  ASSUME NEW B, NEW q, QueueIs(q, B), NEW cc \in 0..q.cc
  PROVE  LET r == IoqDequeue(q, cc)
         IN  QueueIs(r, B) /\ Content(r) = Drop(Content(q), cc) /\ r.cc = q.cc - cc /\ r.last = q.last
<1> DEFINE l == q.list
           n == Len(l)
           upto == [k \in 0..n |-> Len(Poured(SubSeq(l, 1, k)))]
           Is(k) == upto[k] <= cc /\ (k = n \/ upto[k + 1] > cc)
           gone == CHOOSE k \in DOMAIN upto : Is(k)
           rest == SubSeq(l, gone + 1, n)
           list == IF rest = <<>> THEN rest ELSE [rest EXCEPT ![1].offset = @ + (cc - upto[gone])]
           r == IoqDequeue(q, cc)
<1>1. l \in Lists(B) /\ q.cc \in Nat /\ q.last \in Nat /\ Content(q) \in Seq(B) /\ Len(Content(q)) = q.cc
      /\ Content(q) = Poured(l) /\ cc \in Nat /\ cc <= q.cc
  BY QueueHolds DEF Content
<1>2. r = [q EXCEPT !.list = list, !.cc = q.cc - WireMin(cc, upto[n])]
  BY DEF IoqDequeue
<1>16. DOMAIN upto = 0..n
  OBVIOUS
<1> HIDE DEF l, gone, r
<1>3. PICK f : Pours(f, l, B)
  BY <1>1, PoursExists
<1>4. n \in Nat /\ l \in Seq(Buffers(B)) /\ f[n] = Poured(l) /\ f[0] = <<>>
  BY <1>1, <1>3, PartsOf, PouredIs DEF Lists
<1>5. ASSUME NEW k \in 0..n PROVE upto[k] = Len(f[k]) /\ Len(f[k]) \in Nat /\ f[k] \in Seq(B)
  <2>1. Poured(SubSeq(l, 1, k)) = f[k]
    BY <1>1, <1>3, PouredFirst
  <2>2. f[k] \in Seq(B)
    <3>1. f \in [0..n -> Seq(B)]
      BY <1>1, <1>3, PouredIs
    <3> QED
      BY <3>1
  <2> QED
    BY <2>1, <2>2
<1> HIDE DEF upto
<1>6. upto[n] = q.cc /\ upto[0] = 0
  BY <1>1, <1>4, <1>5
<1>7. \E k \in 0..n : Is(k)
  <2> DEFINE T == {k \in 0..n : k = n \/ upto[k + 1] > cc}
  <2>1. T \in SUBSET Nat /\ n \in T
    BY <1>4
  <2> HIDE DEF T
  <2>2. PICK k \in T : \A m \in T : k <= m
    BY <2>1, LeastNat
  <2> USE DEF T
  <2>3. k \in 0..n /\ (k = n \/ upto[k + 1] > cc)
    BY <2>2
  <2>4. upto[k] <= cc
    <3>1. CASE k = 0
      BY <3>1, <1>1, <1>6
    <3>2. CASE k # 0
      <4>1. k - 1 \in 0..n /\ k - 1 # n /\ (k - 1) + 1 = k /\ ~(k <= k - 1)
        BY <3>2, <2>3, <1>4
      <4>2. k - 1 \notin T
        BY <2>2, <4>1
      <4>3. ~(upto[(k - 1) + 1] > cc)
        BY <4>1, <4>2
      <4>4. upto[k] \in Nat
        BY <2>3, <1>5
      <4>5. upto[(k - 1) + 1] = upto[k]
        BY <4>1
      <4>6. ~(upto[k] > cc)
        BY <4>3, <4>5
      <4> QED
        BY <4>4, <4>6, <1>1
    <3> QED
      BY <3>1, <3>2
  <2> QED
    BY <2>3, <2>4
<1>8. gone \in 0..n /\ Is(gone)
  <2> HIDE DEF Is
  <2> QED
    BY <1>7, <1>16 DEF gone
<1>9. WireMin(cc, upto[n]) = cc
  BY <1>1, <1>6 DEF WireMin
<1>10. r.list = list /\ r.cc = q.cc - cc /\ r.last = q.last
  <2> HIDE DEF list, n
  <2> QED
    BY <1>2, <1>9 DEF QueueIs
<1>11. list \in Lists(B) /\ Poured(list) = Drop(Poured(l), cc) /\ \A i \in 1..Len(list) : list[i].offset > 0 => i = 1
  <2>1. CASE gone = n
    <3>1. rest = <<>>
      <4>1. Drop(l, n) = <<>>
        BY <1>4, DropEnds
      <4> QED
        BY <2>1, <4>1 DEF Drop
    <3>2. list = <<>> /\ <<>> \in Lists(B)
      <4>1. <<>> \in Seq(Buffers(B)) /\ Len(<<>>) = 0
        OBVIOUS
      <4>2. <<>> \in Lists(B)
        BY <4>1 DEF Lists
      <4> QED
        BY <3>1, <4>2
    <3>3. cc = Len(Poured(l))
      BY <2>1, <1>1, <1>6, <1>8
    <3>4. Drop(Poured(l), cc) = <<>>
      BY <3>3, <1>1, DropEnds
    <3>5. Poured(<<>>) = <<>> /\ Len(<<>>) = 0
      BY <3>2, PouredType
    <3> HIDE DEF list
    <3> QED
      BY <3>2, <3>4, <3>5
  <2>2. CASE gone # n
    <3>1. gone \in 0..n - 1 /\ gone + 1 \in 0..n /\ gone \in Nat
      BY <2>2, <1>4, <1>8
    <3>2. Len(f[gone]) <= cc /\ cc < Len(f[gone + 1]) /\ upto[gone] = Len(f[gone])
      <4>1. upto[gone] = Len(f[gone]) /\ upto[gone + 1] = Len(f[gone + 1]) /\ Len(f[gone + 1]) \in Nat
        BY <3>1, <1>8, <1>5
      <4>2. upto[gone] <= cc /\ upto[gone + 1] > cc
        BY <2>2, <1>8
      <4> QED
        BY <4>1, <4>2, <1>1
    <3> HIDE DEF Is
    <3>3. LET s == Advanced(l, gone, n, cc - Len(f[gone]))
          IN  /\ SubSeq(l, gone + 1, n) # <<>>
              /\ s \in Lists(B) /\ Len(s) = n - gone
              /\ \A i \in 1..n - gone : i # 1 => s[i].offset = l[i + gone].offset
              /\ cc <= Len(f[n]) /\ Poured(s) = Drop(f[n], cc)
      <4>1. n = Len(l) /\ l \in Lists(B) /\ cc \in Nat
        BY <1>1
      <4> HIDE DEF n, list, rest
      <4> DEFINE s == Advanced(l, gone, n, cc - Len(f[gone]))
      <4>2. SubSeq(l, gone + 1, n) # <<>>
        <5>1. Drop(l, gone) # <<>>
          BY <3>1, <4>1, <1>4, DropEnds
        <5> QED
          BY <4>1, <5>1 DEF Drop
      <4>7. s = Advanced(l, gone, n, cc - Len(f[gone]))
        OBVIOUS
      <4> HIDE DEF s
      <4>8. Cuts(B, l, f, n, gone, cc, s)
        BY <3>1, <3>2, <4>1, <4>7, <1>3 DEF Cuts
      <4>3. /\ s \in Lists(B) /\ Len(s) = n - gone
            /\ \A i \in 1..n - gone : i # 1 => s[i].offset = l[i + gone].offset
            /\ cc <= Len(f[n]) /\ Poured(s) = Drop(f[n], cc)
        BY <4>8, PouredRest
      <4> QED
        BY <4>2, <4>3, <4>7
    <3>4. list = Advanced(l, gone, n, cc - Len(f[gone]))
      BY <3>2, <3>3 DEF Advanced
    <3> HIDE DEF list
    <3>5. /\ list \in Lists(B) /\ Len(list) = n - gone
          /\ \A i \in 1..n - gone : i # 1 => list[i].offset = l[i + gone].offset
          /\ Poured(list) = Drop(f[n], cc)
      BY <3>3, <3>4
    <3>6. ASSUME NEW i \in 1..Len(list), list[i].offset > 0, i # 1 PROVE FALSE
      <4>1. i + gone \in 1..n /\ i + gone # 1 /\ i \in 1..n - gone
        BY <3>1, <3>5, <3>6, <1>4
      <4>2. l[i + gone].offset > 0
        BY <4>1, <3>5, <3>6
      <4> QED
        BY <4>1, <4>2 DEF QueueIs, l
    <3> QED
      BY <3>5, <3>6, <1>4
  <2> QED
    BY <2>1, <2>2
<1> HIDE DEF list
<1>12. r \in [list : Lists(B), cc : Nat, last : Nat]
  <2>1. q \in [list : Lists(B), cc : Nat, last : Nat] /\ q.cc - cc \in Nat
    BY <1>1 DEF QueueIs
  <2> QED
    BY <2>1, <1>2, <1>9, <1>11
<1>13. Content(r) = Drop(Content(q), cc)
  BY <1>1, <1>10, <1>11 DEF Content
<1>14. Len(Content(r)) = r.cc
  <2>1. Len(Drop(Content(q), cc)) = Len(Content(q)) - cc
    BY <1>1, DropIs
  <2> QED
    BY <1>1, <1>10, <1>13, <2>1
<1>15. QueueIs(r, B)
  BY <1>10, <1>11, <1>12, <1>14 DEF QueueIs
<1> QED
  BY <1>10, <1>13, <1>15 DEF r

-----------------------------------------------------------------------------
(* Lines. *)

\* Where the first line of a sequence of tokens ends.
LEMMA FirstLine ==
  ASSUME NEW q, QueueIs(q, Input), IoqHasLine(q)
  PROVE  /\ LineLength(q) \in Nat /\ LineLength(q) + 1 \in 1..q.cc /\ LineLength(q) \in 0..Len(Content(q))
         /\ Content(q)[LineLength(q) + 1] = NL
         /\ \A i \in 1..LineLength(q) : Content(q)[i] # NL
<1> DEFINE c == Content(q)
           I == {i \in 1..Len(c) : c[i] = NL}
<1>1. c \in Seq(Input) /\ Len(c) \in Nat /\ Len(c) = q.cc /\ DOMAIN c = 1..Len(c)
  BY QueueHolds, LenProperties
<1>2. I \in SUBSET Nat /\ I # {}
  BY <1>1 DEF IoqHasLine, ToSet
<1>3. LineLength(q) = Min(I) - 1
  BY <1>2 DEF LineLength, SelectInSeq
<1> HIDE DEF c
<1>4. Min(I) \in I /\ \A m \in I : Min(I) <= m
  <2> HIDE DEF I
  <2> QED
    BY <1>2, MinOfSome
<1>5. Min(I) \in 1..Len(c) /\ c[Min(I)] = NL
  BY <1>4
<1>6. LineLength(q) + 1 = Min(I) /\ LineLength(q) \in Nat /\ LineLength(q) \in 0..Len(c)
  <2> HIDE DEF I
  <2> QED
    BY <1>1, <1>3, <1>5
<1>7. ASSUME NEW i \in 1..LineLength(q), c[i] = NL PROVE FALSE
  <2>1. i \in 1..Len(c) /\ ~(Min(I) <= i)
    <3> HIDE DEF I
    <3> QED
      BY <1>1, <1>3, <1>5, <1>6
  <2>2. i \in I
    BY <2>1, <1>7
  <2> QED
    BY <1>4, <2>1, <2>2
<1> QED
  BY <1>1, <1>5, <1>6, <1>7 DEF c

\* ioq_gets() takes the first line and its newline.
LEMMA GetsIs ==
  ASSUME NEW q, QueueIs(q, Input), IoqHasLine(q)
  PROVE  /\ IoqLine(q) \in Seq(Input) /\ Len(IoqLine(q)) = LineLength(q) /\ Len(IoqLine(q)) \in Nat
         /\ Len(IoqLine(q)) + 1 \in 1..Len(Content(q)) /\ Content(q)[Len(IoqLine(q)) + 1] = NL
         /\ \A i \in 1..Len(IoqLine(q)) : IoqLine(q)[i] = Content(q)[i] /\ Content(q)[i] # NL
         /\ QueueIs(IoqGets(q), Input) /\ IoqGets(q).last = q.last
         /\ Content(IoqGets(q)) = Drop(Content(q), Len(IoqLine(q)) + 1)
<1> DEFINE k == LineLength(q)
           c == Content(q)
<1>1. /\ k \in Nat /\ k + 1 \in 1..q.cc /\ k \in 0..Len(c)
      /\ c[k + 1] = NL /\ \A i \in 1..k : c[i] # NL
  BY FirstLine
<1>2. c \in Seq(Input) /\ Len(c) = q.cc /\ q.cc \in Nat
  BY QueueHolds
<1>3. IoqLine(q) = SubSeq(c, 1, k) /\ IoqGets(q) = IoqDequeue(q, k + 1)
  BY DEF IoqLine, IoqGets
<1> HIDE DEF k, c
<1>4. IoqLine(q) \in Seq(Input) /\ Len(IoqLine(q)) = k /\ \A i \in 1..k : IoqLine(q)[i] = c[i]
  BY <1>1, <1>2, <1>3, TakeAndDrop
<1>5. k + 1 \in 0..q.cc
  BY <1>1
<1>6. QueueIs(IoqDequeue(q, k + 1), Input)
  BY <1>5, DequeuedIs
<1>7. Content(IoqDequeue(q, k + 1)) = Drop(Content(q), k + 1)
  BY <1>5, DequeuedIs
<1>8. IoqDequeue(q, k + 1).last = q.last
  BY <1>5, DequeuedIs
<1> QED
  BY <1>1, <1>2, <1>3, <1>4, <1>6, <1>7, <1>8 DEF k, c

\* Lines of the model's own.
LEMMA Constants ==
  /\ \A x \in Lines : x \in Input /\ x # NL /\ Cookie(x) \in Seq(Input)
  /\ NL \in Input /\ <<>> \in Seq(Input) /\ <<NL>> \in Seq(Input)
  /\ \A x \in Output : <<x>> \in Seq(Output)
  /\ <<"C_REDIR", "data>">> \in Seq(Output)
BY DEF Input, Lines, NL, Cookie, Output

-----------------------------------------------------------------------------
(* What the client remembers of what it sent. *)

Memory == {r \in Seq(Input \cup {"none"}) : Len(r) <= RingSize}

\* save_input() keeps within recent_input.
LEMMA SaveKeeps ==
  ASSUME NEW r \in Memory, NEW c \in Input, RingSize \in Nat, RingSize >= 2
  PROVE  SaveInput(r, c) \in Memory
<1> DEFINE K == Input \cup {"none"}
           eol == SelectInSeq(r, LAMBDA x : x = NL)
           I == {i \in 1..Len(r) : r[i] = NL}
<1>1. r \in Seq(K) /\ Len(r) \in Nat /\ Len(r) <= RingSize /\ c \in K
  BY DEF Memory
<1>2. CASE Len(r) < RingSize
  <2>1. Append(r, c) \in Seq(K) /\ Len(Append(r, c)) = Len(r) + 1
    BY <1>1, AppendProperties
  <2> QED
    BY <1>1, <1>2, <2>1 DEF SaveInput, Memory
<1>3. CASE ~(Len(r) < RingSize)
  <2>1. SaveInput(r, c) = IF eol = 0 THEN <<"none">> ELSE Append(SubSeq(r, eol + 1, Len(r)), c)
    BY <1>3 DEF SaveInput
  <2>2. CASE eol = 0
    <3>1. <<"none">> \in Seq(K) /\ Len(<<"none">>) = 1
      OBVIOUS
    <3> QED
      BY <2>1, <2>2, <3>1 DEF Memory
  <2>3. CASE eol # 0
    <3>1. I \in SUBSET Nat /\ I # {} /\ eol = Min(I)
      BY <2>3 DEF SelectInSeq
    <3> HIDE DEF eol
    <3>2. Min(I) \in I
      <4> HIDE DEF I
      <4> QED
        BY <3>1, MinOfSome
    <3>3. eol \in 1..Len(r) /\ eol \in 0..Len(r)
      BY <1>1, <3>1, <3>2
    <3>4. Drop(r, eol) \in Seq(K) /\ Len(Drop(r, eol)) = Len(r) - eol
      BY <1>1, <3>3, DropIs
    <3>5. Append(Drop(r, eol), c) \in Seq(K) /\ Len(Append(Drop(r, eol), c)) = Len(r) - eol + 1
      BY <1>1, <3>4, AppendProperties
    <3>6. Len(r) - eol + 1 <= RingSize
      BY <1>1, <3>3
    <3>7. SaveInput(r, c) = Append(Drop(r, eol), c)
      BY <2>1, <2>3 DEF Drop
    <3> QED
      BY <3>5, <3>6, <3>7 DEF Memory
  <2> QED
    BY <2>2, <2>3
<1> QED
  BY <1>2, <1>3

\* Nor does it when it saves one token after another.
LEMMA SavedIs ==
  ASSUME NEW r \in Memory, NEW q \in Seq(Input), RingSize \in Nat, RingSize >= 2
  PROVE  FoldLeft(SaveInput, r, q) \in Memory
<1> DEFINE F == [y \in Memory |-> [c \in Input |-> SaveInput(y, c)]]
           Is(h) == h = [s \in SUBSET DOMAIN q |->
                           IF s = {} THEN r ELSE SaveInput(h[s \ {Max(s)}], q[Max(s)])]
           iter == CHOOSE h : Is(h)
<1>1. Len(q) \in Nat /\ DOMAIN q = 1..Len(q)
  BY LenProperties
<1>2. F \in [Memory -> [Input -> Memory]]
  BY SaveKeeps
<1>3. \E h : Is(h)
  <2>0. Folds(Memory, Len(q), r, F, q)
    <3> HIDE DEF F
    <3> QED
      BY <1>2, FoldExists
  <2>1. PICK h : h \in [SUBSET (1..Len(q)) -> Memory] /\ Recurs(h, Len(q), r, F, q)
    BY <2>0 DEF Folds
  <2>2. ASSUME NEW s \in SUBSET DOMAIN q, s # {}
        PROVE  h[s \ {Max(s)}] \in Memory /\ q[Max(s)] \in Input
    <3>1. Max(s) \in s
      BY <1>1, <2>2, MaxOfSome
    <3> QED
      BY <1>1, <2>1, <3>1, ElementOfSeq
  <2>3. \A s \in SUBSET DOMAIN q : s # {} => F[h[s \ {Max(s)}]][q[Max(s)]] = SaveInput(h[s \ {Max(s)}], q[Max(s)])
    BY <2>2
  <2> HIDE DEF F
  <2>4. \A s \in SUBSET DOMAIN q : h[s] = IF s = {} THEN r ELSE SaveInput(h[s \ {Max(s)}], q[Max(s)])
    BY <1>1, <2>1, <2>3 DEF Recurs
  <2> QED
    BY <1>1, <2>1, <2>4
<1>4. Is(iter)
  BY <1>3
<1>5. FoldLeft(SaveInput, r, q) = iter[1..Len(q)]
  BY <1>1 DEF FoldLeft, MapThenFoldSet
<1> HIDE DEF iter
<1> DEFINE S == {i \in 0..Len(q) : iter[1..i] \in Memory}
<1>6. 0 \in S
  <2>1. 1..0 = {} /\ {} \in SUBSET DOMAIN q /\ 0 \in 0..Len(q)
    BY <1>1
  <2> QED
    BY <1>4, <2>1
<1>7. ASSUME NEW i \in 0..Len(q), i \in S, i < Len(q) PROVE i + 1 \in S
  <2>0. i + 1 \in 1..Len(q) /\ i + 1 \in 0..Len(q) /\ (i + 1) - 1 = i
    BY <1>1, <1>7
  <2>1. 1..i + 1 \in SUBSET (1..Len(q)) /\ 1..i + 1 # {} /\ Max(1..i + 1) = i + 1 /\ (1..i + 1) \ {Max(1..i + 1)} = 1..i
    <3>1. 1..i + 1 \in SUBSET (1..Len(q)) /\ 1..i + 1 # {} /\ Max(1..i + 1) = i + 1
          /\ (1..i + 1) \ {Max(1..i + 1)} = 1..(i + 1) - 1
      BY <1>1, <2>0, UpTo
    <3> QED
      BY <2>0, <3>1
  <2>2. iter[1..i + 1] = SaveInput(iter[(1..i + 1) \ {Max(1..i + 1)}], q[Max(1..i + 1)])
    BY <1>1, <1>4, <2>1
  <2>3. iter[1..i + 1] = SaveInput(iter[1..i], q[i + 1])
    BY <2>1, <2>2
  <2>4. iter[1..i] \in Memory /\ q[i + 1] \in Input
    BY <1>7, <2>0, ElementOfSeq
  <2>5. iter[1..i + 1] \in Memory
    BY <2>3, <2>4, SaveKeeps
  <2> QED
    BY <2>0, <2>5
<1>8. 0..Len(q) \subseteq S
  <2> HIDE DEF S
  <2> QED
    BY <1>1, <1>6, <1>7, NatsBySteps
<1>9. iter[1..Len(q)] \in Memory
  BY <1>1, <1>8
<1> QED
  BY <1>5, <1>9

\* What it remembers is input unless save_input() failed.
LEMMA RememberedIs ==
  ASSUME NEW r \in Memory, "none" \notin ToSet(r)
  PROVE  r \in Seq(Input) /\ Len(r) <= RingSize
<1>1. r \in Seq(Input \cup {"none"}) /\ Len(r) <= RingSize /\ Len(r) \in Nat /\ DOMAIN r = 1..Len(r)
  BY LenProperties DEF Memory
<1>2. \A i \in 1..Len(r) : r[i] \in Input
  <2>1. \A i \in 1..Len(r) : r[i] \in Input \cup {"none"} /\ r[i] \in ToSet(r)
    BY <1>1, ElementOfSeq DEF ToSet
  <2> QED
    BY <2>1
<1>3. r \in [1..Len(r) -> Input]
  <2>1. r = [i \in 1..Len(r) |-> r[i]]
    BY <1>1
  <2> QED
    BY <1>2, <2>1
<1> QED
  BY <1>1, <1>3

-----------------------------------------------------------------------------
(* Types.  What is under way to the server, what to the client, and where  *)
(* the player's thread is or is about to be.                               *)

Up == Content(inq) \o toServer \o inbuf
Down == toClient \o Content(outq)
Place == IF spc = "output" THEN goes ELSE spc

Places == {"status", "getcmd", "getarg", "getexec", "drain", "exec", "loop", "closing", "gone"}
Cookies == {"ctld", "ctldB", "aborted"}

ClientTypes ==
  /\ cpc \in {"top", "select", "cookies", "read", "send", "recv", "gone"}
  /\ want \subseteq {"input", "out", "sock"} /\ inputFd \in {0, 1}
  /\ typed \in Seq(Input) /\ batch \in Seq(Input)
  /\ inbuf \in Seq(Input) /\ Len(inbuf) <= RingSize
  /\ recent \in Seq(Input) /\ Len(recent) <= RingSize
  /\ eof0 \in BOOLEAN /\ partial \in BOOLEAN /\ sendIntr \in BOOLEAN /\ sendEof \in {"no", "ctld", "ctldB"}
  /\ executing \in BOOLEAN /\ redir \in BOOLEAN /\ asked \in BOOLEAN

ServerTypes ==
  /\ QueueIs(inq, Input) /\ inq.last = 0 /\ QueueIs(outq, Output) /\ outq.last <= outq.cc
  /\ spc \in Places \cup {"output"} /\ goes \in Places
  /\ inExec \in BOOLEAN /\ failed \in BOOLEAN /\ commanding \in BOOLEAN
  /\ aborted \in BOOLEAN /\ gotCtld \in BOOLEAN /\ ioEof \in BOOLEAN

BetweenTypes ==
  /\ toServer \in Seq(Input) /\ Len(toServer) <= SockSize
  /\ toClient \in Seq(Output) /\ Len(toClient) <= SockSize
  /\ flow \in Seq(Input) /\ rushed \in BOOLEAN

\* A cookie ends a line that was begun; the server takes what was put into
\* the ring, in order, until it is done.
Pipes ==
  /\ partial = ~lineEnds /\ glued = FALSE
  /\ spc \in {"closing", "gone"} => ioEof
  /\ goes \in {"closing", "gone"} => ioEof
  /\ ~ioEof => Up = flow

WireInv == ClientTypes /\ ServerTypes /\ BetweenTypes /\ Pipes

\* pr_player() appends, and goes on sooner or later.
LEMMA SaidIs ==
  ASSUME ServerTypes, NEW s \in Seq(Output), NEW t \in Places, Say(s, t)
  PROVE  /\ QueueIs(outq', Output) /\ outq'.last <= outq'.cc
         /\ spc' \in Places \cup {"output"} /\ goes' \in Places
         /\ Content(outq') = Content(outq) \o s /\ Place' = t
         /\ spc' = t \/ (spc' = "output" /\ goes' = t)
         /\ goes' = t \/ goes' = goes
<1>1. QueueIs(outq, Output) /\ outq.last <= outq.cc /\ outq.last \in Nat /\ outq.cc \in Nat /\ BufSize \in Nat
  BY QueueHolds, WireAssumption DEF ServerTypes
<1>2. outq' = IoqAppend(outq, s)
  BY DEF Say
<1>3. QueueIs(outq', Output)
  BY <1>1, <1>2, AppendedIs
<1>4. Content(outq') = Content(outq) \o s
  BY <1>1, <1>2, AppendedIs
<1>5. outq'.cc = outq.cc + Len(s)
  BY <1>1, <1>2, AppendedIs
<1>6. outq'.last = outq.last
  BY <1>1, <1>2, AppendedIs
<1>7. outq'.last <= outq'.cc
  <2>1. Len(s) \in Nat
    OBVIOUS
  <2> QED
    BY <1>1, <1>5, <1>6, <2>1
<1>8. spc' = t \/ (spc' = "output" /\ goes' = t)
  BY DEF Say
<1>9. goes' = t \/ goes' = goes
  BY DEF Say
<1>10. t # "output"
  BY DEF Places
<1>11. spc' \in Places \cup {"output"} /\ goes' \in Places
  BY <1>8, <1>9 DEF ServerTypes
<1>12. Place' = t
  BY <1>8, <1>10 DEF Place
<1> QED
  BY <1>3, <1>4, <1>7, <1>8, <1>9, <1>11, <1>12

\* io_output() moves what it writes to the connection.
LEMMA WrittenIs ==
  ASSUME ServerTypes, BetweenTypes, Written
  PROVE  /\ QueueIs(outq', Output) /\ outq'.last <= outq'.cc
         /\ toClient' \in Seq(Output) /\ Len(toClient') <= SockSize
         /\ Down' = Down
<1> DEFINE n == WireMin(outq.cc, SockSize - Len(toClient))
           q == IoqDequeue(outq, n)
           c == Content(outq)
<1>1. QueueIs(outq, Output) /\ outq.cc \in Nat /\ c \in Seq(Output) /\ Len(c) = outq.cc
  BY QueueHolds DEF ServerTypes
<1>2. toClient \in Seq(Output) /\ Len(toClient) \in Nat /\ Len(toClient) <= SockSize /\ SockSize \in Nat
  BY WireAssumption DEF BetweenTypes
<1>3. toClient' = toClient \o SubSeq(c, 1, n) /\ outq' = [q EXCEPT !.last = q.cc]
  BY DEF Written
<1>4. n \in 0..outq.cc /\ n + Len(toClient) <= SockSize
  <2>1. \A a, b, e \in Nat : a <= e => LET m == IF b < e - a THEN b ELSE e - a IN m \in 0..b /\ m + a <= e
    OBVIOUS
  <2>2. n = IF outq.cc < SockSize - Len(toClient) THEN outq.cc ELSE SockSize - Len(toClient)
    BY DEF WireMin
  <2>3. LET m == IF outq.cc < SockSize - Len(toClient) THEN outq.cc ELSE SockSize - Len(toClient)
        IN m \in 0..outq.cc /\ m + Len(toClient) <= SockSize
    BY <1>1, <1>2, <2>1
  <2> QED
    BY <2>2, <2>3
<1> HIDE DEF n
<1>5. QueueIs(q, Output) /\ Content(q) = Drop(c, n)
  BY <1>1, <1>4, DequeuedIs
<1> HIDE DEF q
<1>6. q.cc \in Nat /\ q.cc = Len(Content(q)) /\ q.list \in Lists(Output)
  BY <1>5, QueueHolds
<1>7. QueueIs(outq', Output) /\ outq'.last <= outq'.cc /\ Content(outq') = Content(q)
  <2>1. q \in [list : Lists(Output), cc : Nat, last : Nat]
    BY <1>5 DEF QueueIs
  <2>2. outq' \in [list : Lists(Output), cc : Nat, last : Nat] /\ outq'.list = q.list /\ outq'.cc = q.cc /\ outq'.last = q.cc
    BY <1>3, <1>6, <2>1
  <2>3. Content(outq') = Content(q)
    BY <2>2 DEF Content
  <2>4. outq'.last <= outq'.cc
    BY <2>2, <1>6
  <2>5. \A i \in 1..Len(outq'.list) : outq'.list[i].offset > 0 => i = 1
    BY <2>2, <1>5 DEF QueueIs
  <2>6. outq'.cc = Len(Content(outq'))
    BY <2>2, <2>3, <1>6
  <2> QED
    BY <2>2, <2>3, <2>4, <2>5, <2>6 DEF QueueIs
<1>8. /\ SubSeq(c, 1, n) \o Drop(c, n) = c
      /\ SubSeq(c, 1, n) \in Seq(Output) /\ Len(SubSeq(c, 1, n)) = n /\ Drop(c, n) \in Seq(Output)
  BY <1>1, <1>4, TakeAndDrop, DropIs
<1> HIDE DEF c
<1> DEFINE u == SubSeq(c, 1, n)
           v == Drop(c, n)
<1>9. u \in Seq(Output) /\ Len(u) = n /\ v \in Seq(Output) /\ u \o v = c
  BY <1>8
<1>10. toClient' = toClient \o u /\ Content(outq') = v
  BY <1>3, <1>5, <1>7
<1> HIDE DEF u, v
<1>11. toClient' \in Seq(Output) /\ Len(toClient') = Len(toClient) + n
  BY <1>2, <1>9, <1>10, ConcatProperties
<1>12. (toClient \o u) \o v = toClient \o (u \o v)
  <2>1. \A x, y, z \in Seq(Output) : (x \o y) \o z = x \o (y \o z)
    BY ConcatAssociative
  <2> QED
    BY <2>1, <1>2, <1>9, Zenon
<1>13. Down' = Down
  BY <1>9, <1>10, <1>12 DEF Down, c
<1>14. Len(toClient') <= SockSize
  BY <1>2, <1>4, <1>11
<1> QED
  BY <1>7, <1>11, <1>13, <1>14

\* What play() puts into the ring for the cookies it has to send.
LEMMA CookiesAre ==
  ASSUME ClientTypes
  PROVE  LET p == CookiesPut(sendEof, sendIntr)
         IN  /\ p \in Seq(Input) /\ inbuf \o p \in Seq(Input) /\ Len(inbuf \o p) <= RingSize
             /\ partial /\ p # <<>> => p[1] = NL
<1> DEFINE line == IF (sendEof # "no" \/ sendIntr) /\ partial /\ Space > 0 THEN <<NL>> ELSE <<>>
           whole == ~partial \/ line # <<>>
           e == IF sendEof # "no" /\ whole /\ Space - Len(line) >= 2 THEN Cookie(sendEof) ELSE <<>>
           i == IF sendIntr /\ whole /\ Space - Len(line \o e) >= 2 THEN Cookie("aborted") ELSE <<>>
           p == CookiesPut(sendEof, sendIntr)
<1>1. p = line \o e \o i
  BY DEF CookiesPut
<1>2. /\ Len(inbuf) \in Nat /\ RingSize \in Nat /\ Space \in Nat /\ Space = RingSize - Len(inbuf)
      /\ inbuf \in Seq(Input)
  BY WireAssumption DEF ClientTypes, Space
<1>3. /\ <<>> \in Seq(Input) /\ <<NL>> \in Seq(Input) /\ Len(<<NL>>) = 1 /\ Len(<<>>) = 0
      /\ \A x \in {"ctld", "ctldB", "aborted"} : Cookie(x) \in Seq(Input) /\ Len(Cookie(x)) = 2
  <2>1. <<>> \in Seq(Input) /\ <<NL>> \in Seq(Input) /\ Len(<<NL>>) = 1 /\ Len(<<>>) = 0
    BY Constants
  <2>2. \A x \in {"ctld", "ctldB", "aborted"} : Cookie(x) \in Seq(Input)
    BY Constants DEF Lines
  <2>3. \A x \in {"ctld", "ctldB", "aborted"} : Len(Cookie(x)) = 2
    BY DEF Cookie
  <2> QED
    BY <2>1, <2>2, <2>3
<1>4. line \in Seq(Input) /\ Len(line) <= Space /\ Len(line) \in Nat /\ (line # <<>> => line = <<NL>>)
  BY <1>2, <1>3
<1> HIDE DEF line
<1>5. e \in Seq(Input) /\ (Len(e) = 0 \/ (Len(e) = 2 /\ Space - Len(line) >= 2))
      /\ (partial /\ e # <<>> => line # <<>>)
  BY <1>3 DEF ClientTypes
<1> HIDE DEF e
<1>6. line \o e \in Seq(Input) /\ Len(line \o e) = Len(line) + Len(e)
  BY <1>4, <1>5, ConcatProperties
<1>7. i \in Seq(Input) /\ (Len(i) = 0 \/ (Len(i) = 2 /\ Space - Len(line \o e) >= 2))
      /\ (partial /\ i # <<>> => line # <<>>)
  BY <1>3
<1> HIDE DEF i, whole
<1> DEFINE le == line \o e
<1>8. le \in Seq(Input) /\ Len(le) \in Nat /\ Len(le) <= Space
  <2>1. \A a, b, c \in Nat : b <= a /\ (c = 0 \/ (c = 2 /\ a - b >= 2)) => b + c \in Nat /\ b + c <= a
    OBVIOUS
  <2>2. Len(e) \in Nat
    BY <1>5
  <2>3. Len(line) + Len(e) \in Nat /\ Len(line) + Len(e) <= Space
    BY <1>2, <1>4, <1>5, <2>1, <2>2, Zenon
  <2> QED
    BY <1>6, <2>3
<1>9. Len(i) = 0 \/ (Len(i) = 2 /\ Space - Len(le) >= 2)
  BY <1>7
<1>10. p = le \o i
  BY <1>1
<1> HIDE DEF le, p
<1>11. p \in Seq(Input) /\ Len(p) = Len(le) + Len(i) /\ Len(p) \in Nat /\ Len(p) <= Space
  <2>1. p \in Seq(Input) /\ Len(p) = Len(le) + Len(i)
    BY <1>7, <1>8, <1>10, ConcatProperties
  <2> QED
    <3>1. \A a, b, c \in Nat : b <= a /\ (c = 0 \/ (c = 2 /\ a - b >= 2)) => b + c \in Nat /\ b + c <= a
      OBVIOUS
    <3>2. Len(i) \in Nat
      BY <1>7
    <3>3. Len(le) + Len(i) \in Nat /\ Len(le) + Len(i) <= Space
      BY <1>2, <1>8, <1>9, <3>1, <3>2, Zenon
    <3> QED
      BY <2>1, <3>3
<1>12. inbuf \o p \in Seq(Input) /\ Len(inbuf \o p) = Len(inbuf) + Len(p)
  BY <1>2, <1>11, ConcatProperties
<1>13. Len(inbuf \o p) <= RingSize
  BY <1>2, <1>11, <1>12
<1>14. ASSUME partial, p # <<>> PROVE p[1] = NL
  <2>1. line # <<>>
    <3>1. line = <<>> /\ e = <<>> /\ i = <<>> => p = <<>>
      BY <1>3, <1>10, ConcatEmptySeq DEF le
    <3> QED
      BY <1>5, <1>7, <1>14, <3>1
  <2>2. line = <<NL>> /\ 1 <= Len(line) /\ line[1] = NL
    BY <1>4, <2>1
  <2>3. 1 \in 1..Len(line) + Len(e) /\ Len(e) \in Nat
    BY <1>4, <1>5, <2>2
  <2>4. le[1] = line[1]
    BY <1>4, <1>5, <2>2, <2>3, ConcatProperties DEF le
  <2>5. 1 \in 1..Len(le) + Len(i) /\ 1 <= Len(le) /\ Len(i) \in Nat
    BY <1>6, <1>7, <1>8, <2>3 DEF le
  <2>6. p[1] = le[1]
    BY <1>7, <1>8, <1>10, <2>5, ConcatProperties
  <2> QED
    BY <2>2, <2>4, <2>6
<1> QED
  BY <1>11, <1>12, <1>13, <1>14 DEF p

-----------------------------------------------------------------------------
(* What is on its way. *)

\* All of it are sequences.
LEMMA WaysAre ==
  ASSUME ClientTypes, ServerTypes, BetweenTypes
  PROVE  /\ Content(inq) \in Seq(Input) /\ toServer \in Seq(Input) /\ inbuf \in Seq(Input)
         /\ Content(inq) \o toServer \in Seq(Input) /\ Up \in Seq(Input) /\ Len(Up) \in Nat
         /\ toClient \in Seq(Output) /\ Content(outq) \in Seq(Output) /\ Down \in Seq(Output) /\ Len(Down) \in Nat
<1>1. Content(inq) \in Seq(Input) /\ toServer \in Seq(Input) /\ inbuf \in Seq(Input)
  BY QueueHolds DEF ClientTypes, ServerTypes, BetweenTypes
<1>2. toClient \in Seq(Output) /\ Content(outq) \in Seq(Output)
  BY QueueHolds DEF ServerTypes, BetweenTypes
<1>3. \A x, y \in Seq(Input) : x \o y \in Seq(Input)
  BY ConcatProperties
<1>4. \A x, y \in Seq(Output) : x \o y \in Seq(Output)
  BY ConcatProperties
<1>5. Up \in Seq(Input) /\ Content(inq) \o toServer \in Seq(Input)
  BY <1>1, <1>3, Zenon DEF Up
<1>6. Down \in Seq(Output)
  BY <1>2, <1>4, Zenon DEF Down
<1> QED
  BY <1>1, <1>2, <1>5, <1>6

\* What the client puts into the ring comes last.
LEMMA UpGrows ==
  ASSUME ClientTypes, ServerTypes, BetweenTypes, NEW s \in Seq(Input), inbuf' = inbuf \o s, inq' = inq, toServer' = toServer
  PROVE  Up' = Up \o s
<1> DEFINE c == Content(inq) \o toServer
<1>1. c \in Seq(Input) /\ inbuf \in Seq(Input)
  BY WaysAre
<1>2. Up' = c \o (inbuf \o s) /\ Up = c \o inbuf
  BY DEF Up
<1> HIDE DEF c
<1>3. (c \o inbuf) \o s = c \o (inbuf \o s)
  BY <1>1, ConcatAssociative
<1> QED
  BY <1>2, <1>3

\* What the client sends stays in order.
LEMMA UpSent ==
  ASSUME ClientTypes, ServerTypes, BetweenTypes, NEW n \in 0..Len(inbuf), inq' = inq,
         toServer' = toServer \o SubSeq(inbuf, 1, n), inbuf' = SubSeq(inbuf, n + 1, Len(inbuf))
  PROVE  Up' = Up /\ Len(toServer') = Len(toServer) + n /\ toServer' \in Seq(Input)
         /\ inbuf' \in Seq(Input) /\ Len(inbuf') <= Len(inbuf)
<1> DEFINE c == Content(inq)
           u == SubSeq(inbuf, 1, n)
           v == Drop(inbuf, n)
<1>1. c \in Seq(Input) /\ toServer \in Seq(Input) /\ inbuf \in Seq(Input) /\ Len(inbuf) \in Nat /\ n \in Nat
  BY WaysAre
<1>2. u \o v = inbuf /\ u \in Seq(Input) /\ Len(u) = n
  BY <1>1, TakeAndDrop
<1>3. v \in Seq(Input) /\ Len(v) = Len(inbuf) - n
  BY <1>1, DropIs
<1>4. Up' = (c \o (toServer \o u)) \o v /\ Up = (c \o toServer) \o inbuf /\ toServer' = toServer \o u /\ inbuf' = v
  BY DEF Up, Drop
<1> HIDE DEF c, u, v
<1>5. \A x, y, z \in Seq(Input) : (x \o y) \o z = x \o (y \o z)
  BY Associates, SMTT(30)
<1>6. c \o toServer \in Seq(Input)
  BY <1>1, ConcatProperties
<1>7. (c \o toServer) \o u = c \o (toServer \o u)
  <2>1. u \in Seq(Input) /\ c \in Seq(Input) /\ toServer \in Seq(Input)
    BY <1>1, <1>2
  <2> QED
    BY <1>5, <2>1, Zenon
<1>8. ((c \o toServer) \o u) \o v = (c \o toServer) \o (u \o v)
  BY <1>2, <1>3, <1>5, <1>6, Zenon
<1>9. Up' = Up
  BY <1>2, <1>4, <1>7, <1>8, Zenon
<1>10. toServer \o u \in Seq(Input) /\ Len(toServer \o u) = Len(toServer) + Len(u)
  BY <1>1, <1>2, ConcatProperties
<1> QED
  BY <1>1, <1>2, <1>3, <1>4, <1>9, <1>10

\* What the server reads stays in order.
LEMMA UpReceived ==
  ASSUME ClientTypes, ServerTypes, BetweenTypes, Content(inq') = Content(inq) \o toServer, toServer' = <<>>, inbuf' = inbuf
  PROVE  Up' = Up
<1> DEFINE c == Content(inq) \o toServer
<1>1. c \in Seq(Input)
  BY WaysAre
<1>2. Up' = (c \o <<>>) \o inbuf /\ Up = c \o inbuf
  BY DEF Up
<1> HIDE DEF c
<1> QED
  BY <1>1, <1>2, ConcatEmptySeq

\* What it takes is the first of it.
LEMMA UpTaken ==
  ASSUME ClientTypes, ServerTypes, BetweenTypes, NEW n \in 0..Len(Content(inq)), Content(inq') = Drop(Content(inq), n),
         toServer' = toServer, inbuf' = inbuf
  PROVE  /\ Up' = Drop(Up, n) /\ n \in 0..Len(Up)
         /\ \A i \in 1..Len(Content(inq)) : i \in 1..Len(Up) /\ Up[i] = Content(inq)[i]
<1> DEFINE c == Content(inq)
<1>1. c \in Seq(Input) /\ toServer \in Seq(Input) /\ inbuf \in Seq(Input) /\ Len(c) \in Nat
  BY WaysAre
<1>2. Up' = (Drop(c, n) \o toServer) \o inbuf /\ Up = (c \o toServer) \o inbuf
  BY DEF Up
<1> HIDE DEF c
<1> DEFINE d == c \o toServer
<1>3. /\ d \in Seq(Input) /\ Len(d) = Len(c) + Len(toServer) /\ Len(toServer) \in Nat
      /\ \A i \in 1..Len(c) + Len(toServer) : d[i] = IF i <= Len(c) THEN c[i] ELSE toServer[i - Len(c)]
  BY <1>1, ConcatProperties
<1>4. n \in 0..Len(c)
  BY DEF c
<1>5. Drop(d, n) = Drop(c, n) \o toServer
  BY <1>1, <1>4, DropFirst
<1> HIDE DEF d
<1>6. n \in 0..Len(d) /\ Len(d) \in Nat
  BY <1>1, <1>3, <1>4
<1>7. Drop(d \o inbuf, n) = Drop(d, n) \o inbuf
  BY <1>1, <1>3, <1>6, DropFirst
<1>8. Up = d \o inbuf
  BY <1>2 DEF d
<1>9. /\ Len(d \o inbuf) = Len(d) + Len(inbuf) /\ Len(inbuf) \in Nat
      /\ \A i \in 1..Len(d) + Len(inbuf) : (d \o inbuf)[i] = IF i <= Len(d) THEN d[i] ELSE inbuf[i - Len(d)]
  <2>1. inbuf \in Seq(Input) /\ d \in Seq(Input)
    BY <1>1, <1>3
  <2>2. Len(inbuf) \in Nat
    BY <2>1
  <2>3. Len(d \o inbuf) = Len(d) + Len(inbuf)
    BY <2>1, ConcatProperties
  <2>4. \A i \in 1..Len(d) + Len(inbuf) : (d \o inbuf)[i] = IF i <= Len(d) THEN d[i] ELSE inbuf[i - Len(d)]
    BY <2>1, ConcatProperties
  <2> QED
    BY <2>2, <2>3, <2>4
<1>10. ASSUME NEW i \in 1..Len(c) PROVE i \in 1..Len(Up) /\ Up[i] = c[i]
  <2>1. i \in 1..Len(c) + Len(toServer) /\ i \in 1..Len(d) + Len(inbuf) /\ i <= Len(c) /\ i <= Len(d)
    BY <1>1, <1>3, <1>6, <1>9
  <2> QED
    BY <2>1, <1>3, <1>8, <1>9
<1>11. n \in 0..Len(Up)
  BY <1>6, <1>8, <1>9
<1>12. Up' = Drop(Up, n)
  BY <1>2, <1>5, <1>7, <1>8
<1> QED
  BY <1>10, <1>11, <1>12 DEF c

-----------------------------------------------------------------------------
(* The client's steps keep the types and pipes. *)

\* Steps that put nothing in and take nothing out.
LEMMA FillSetsKeeps == ASSUME WireInv, FillSets PROVE WireInv' /\ Up' = Up /\ Down' = Down /\ Place' = Place
<1>1. ServerTypes' /\ BetweenTypes' /\ Up' = Up /\ Down' = Down /\ Place' = Place
  BY DEF WireInv, FillSets, ServerTypes, BetweenTypes, serverVars, Up, Down, Content, Place
<1>2. ClientTypes'
  BY DEF WireInv, FillSets, ClientTypes
<1>3. Pipes'
  BY <1>1 DEF WireInv, FillSets, Pipes, serverVars
<1> QED
  BY <1>1, <1>2, <1>3 DEF WireInv

\* select() changes only which descriptors the client looks at.
LEMMA SelectReturnsKeeps == ASSUME WireInv, SelectReturns PROVE WireInv' /\ Up' = Up /\ Down' = Down /\ Place' = Place
<1>1. ServerTypes' /\ BetweenTypes' /\ Up' = Up /\ Down' = Down /\ Place' = Place
  BY DEF WireInv, SelectReturns, ServerTypes, BetweenTypes, serverVars, Up, Down, Content, Place
<1>2. ClientTypes'
  BY DEF WireInv, SelectReturns, ClientTypes
<1>3. Pipes'
  BY <1>1 DEF WireInv, SelectReturns, Pipes, serverVars
<1> QED
  BY <1>1, <1>2, <1>3 DEF WireInv

\* A signal asks for a cookie.
LEMMA IntrKeeps == ASSUME WireInv, Intr PROVE WireInv' /\ Up' = Up /\ Down' = Down /\ Place' = Place
<1>1. ServerTypes' /\ BetweenTypes' /\ Up' = Up /\ Down' = Down /\ Place' = Place
  BY DEF WireInv, Intr, ServerTypes, BetweenTypes, serverVars, Up, Down, Content, Place
<1>2. ClientTypes'
  BY DEF WireInv, Intr, ClientTypes
<1>3. Pipes'
  BY <1>1 DEF WireInv, Intr, Pipes, serverVars
<1> QED
  BY <1>1, <1>2, <1>3 DEF WireInv

\* Cookies go into the ring.
LEMMA PutCookiesKeeps ==
  ASSUME WireInv, PutCookies
  PROVE  WireInv' /\ Up' = Up \o CookiesPut(sendEof, sendIntr) /\ Down' = Down /\ Place' = Place
<1> DEFINE p == CookiesPut(sendEof, sendIntr)
<1>1. /\ p \in Seq(Input) /\ inbuf \o p \in Seq(Input) /\ Len(inbuf \o p) <= RingSize
      /\ (partial /\ p # <<>> => p[1] = NL)
  BY CookiesAre DEF WireInv
<1>2. /\ cpc = "cookies" /\ inbuf' = inbuf \o p /\ flow' = flow \o p
      /\ lineEnds' = (lineEnds \/ p # <<>>)
      /\ glued' = (glued \/ (~lineEnds /\ p # <<>> /\ p[1] # NL))
      /\ partial' = (partial /\ p = <<>>)
      /\ sendEof' = (IF sendEof \in ToSet(p) THEN "no" ELSE sendEof)
      /\ sendIntr' = (sendIntr /\ ~("aborted" \in ToSet(p)))
      /\ (inputFd' = 0 /\ batch' = <<>> /\ want' = want \ {"input"}) \/ UNCHANGED <<inputFd, batch, want>>
      /\ cpc' = (IF want = {} THEN "top" ELSE "read")
      /\ UNCHANGED <<typed, recent, eof0, executing, redir, gripes, opened, asked,
                     serverVars, toServer, toClient, rushed, interrupts>>
  BY DEF PutCookies
<1> HIDE DEF p
<1>3. ServerTypes' /\ Down' = Down /\ Place' = Place
  BY <1>2 DEF WireInv, ServerTypes, serverVars, Down, Content, Place
<1>4. BetweenTypes'
  <2>1. flow \o p \in Seq(Input)
    BY <1>1, ConcatProperties DEF WireInv, BetweenTypes
  <2> QED
    BY <1>2, <2>1 DEF WireInv, BetweenTypes
<1>5. ClientTypes'
  <2>1. partial' \in BOOLEAN /\ sendIntr' \in BOOLEAN
    BY <1>2 DEF WireInv, ClientTypes
  <2>2. <<>> \in Seq(Input)
    OBVIOUS
  <2>3. want' \subseteq {"input", "out", "sock"} /\ inputFd' \in {0, 1} /\ batch' \in Seq(Input)
    BY <1>2, <2>2 DEF WireInv, ClientTypes
  <2>4. inbuf' \in Seq(Input) /\ Len(inbuf') <= RingSize
    BY <1>1, <1>2
  <2> QED
    BY <1>2, <2>1, <2>3, <2>4 DEF WireInv, ClientTypes
<1>6. Up' = Up \o p
  BY <1>1, <1>2, UpGrows DEF WireInv, serverVars
<1>7. Pipes'
  <2>1. partial' = ~lineEnds'
    BY <1>2 DEF WireInv, Pipes
  <2>2. glued' = FALSE
    BY <1>1, <1>2 DEF WireInv, Pipes
  <2>3. (spc' \in {"closing", "gone"} => ioEof') /\ (goes' \in {"closing", "gone"} => ioEof')
    BY <1>2 DEF WireInv, Pipes, serverVars
  <2>4. ~ioEof' => Up' = flow'
    BY <1>2, <1>6 DEF WireInv, Pipes, serverVars
  <2> QED
    BY <2>1, <2>2, <2>3, <2>4 DEF Pipes
<1> QED
  BY <1>3, <1>4, <1>5, <1>6, <1>7 DEF WireInv, p

\* Nothing, the end or some of the input is read.
ReadNothing == UNCHANGED <<typed, batch, inputFd, inbuf, flow, lineEnds, partial, sendEof, sendIntr, eof0, asked, rushed>>
Source == IF inputFd = 0 THEN typed ELSE batch
ReadEnd ==
  /\ Source = <<>>
  /\ sendEof' = IF inputFd = 0 THEN "ctld" ELSE "ctldB"
  /\ IF inputFd = 0
     THEN eof0' = TRUE /\ sendIntr' = FALSE /\ rushed' = (rushed \/ ~asked \/ flow = <<"exec">>)
     ELSE UNCHANGED <<eof0, sendIntr, rushed>>
  /\ inputFd' = 0
  /\ UNCHANGED <<typed, batch, inbuf, flow, lineEnds, partial, asked>>
ReadSome(n, s) ==
  /\ n \in 1..WireMin(Space, Len(Source)) /\ s = SubSeq(Source, 1, n)
  /\ inbuf' = inbuf \o s /\ flow' = flow \o s /\ lineEnds' = (s[n] = NL) /\ partial' = (s[n] # NL)
  /\ IF inputFd = 0
     THEN /\ typed' = Drop(typed, n)
          /\ rushed' = (rushed \/ ~Patient(s)) /\ asked' = (asked /\ s[n] # NL)
          /\ UNCHANGED batch
     ELSE batch' = Drop(batch, n) /\ UNCHANGED <<typed, rushed, asked>>
  /\ UNCHANGED <<inputFd, sendEof, sendIntr, eof0>>

\* recv_input() reads nothing, the end, or some of what there is.
LEMMA ReadInputIs ==
  ASSUME ReadInput
  PROVE  /\ cpc = "read" /\ cpc' = "send"
         /\ UNCHANGED <<want, recent, executing, redir, gripes, glued, opened, serverVars, toServer, toClient, interrupts>>
         /\ \/ ReadNothing
            \/ "input" \in want /\ ReadEnd
            \/ "input" \in want /\ \E n, s : ReadSome(n, s)
<1>1. CASE "input" \notin want \/ Space = 0
  BY <1>1 DEF ReadInput, ReadNothing
<1>2. CASE ~("input" \notin want \/ Space = 0) /\ Source = <<>>
  BY <1>2 DEF ReadInput, ReadEnd, Source
<1>3. CASE ~("input" \notin want \/ Space = 0) /\ Source # <<>>
  <2>1. PICK n \in 1..WireMin(Space, Len(Source)) : ReadSome(n, SubSeq(Source, 1, n))
    BY <1>3 DEF ReadInput, Source, ReadSome, Drop
  <2> QED
    BY <1>3, <2>1 DEF ReadInput
<1> QED
  BY <1>1, <1>2, <1>3

\* What some of the input is.
LEMMA ReadSomeIs ==
  ASSUME ClientTypes, NEW n, NEW s, ReadSome(n, s)
  PROVE  /\ Source \in Seq(Input) /\ n \in 1..Len(Source) /\ n <= Space
         /\ s \in Seq(Input) /\ Len(s) = n /\ \A i \in 1..n : s[i] = Source[i]
         /\ Drop(Source, n) \in Seq(Input) /\ Source # <<>>
         /\ inbuf \o s \in Seq(Input) /\ Len(inbuf \o s) <= RingSize
<1>1. Source \in Seq(Input) /\ Len(Source) \in Nat /\ inbuf \in Seq(Input) /\ Len(inbuf) \in Nat
      /\ RingSize \in Nat /\ Space \in Nat /\ Space = RingSize - Len(inbuf)
  BY WireAssumption DEF ClientTypes, Source, Space
<1>2. n \in 1..WireMin(Space, Len(Source)) /\ s = SubSeq(Source, 1, n)
  BY DEF ReadSome
<1>3. n \in 1..Len(Source) /\ n <= Space /\ n \in 0..Len(Source)
  <2>1. \A a, b \in Nat : \A m \in 1..(IF a < b THEN a ELSE b) : m \in 1..b /\ m <= a /\ m \in 0..b
    OBVIOUS
  <2>2. n \in 1..(IF Space < Len(Source) THEN Space ELSE Len(Source))
    BY <1>2 DEF WireMin
  <2> QED
    BY <1>1, <2>1, <2>2, Zenon
<1>4. s \in Seq(Input) /\ Len(s) = n /\ \A i \in 1..n : s[i] = Source[i]
  BY <1>1, <1>2, <1>3, TakeAndDrop
<1>5. Drop(Source, n) \in Seq(Input)
  BY <1>1, <1>3, DropIs
<1>6. inbuf \o s \in Seq(Input) /\ Len(inbuf \o s) = Len(inbuf) + Len(s)
  BY <1>1, <1>4, ConcatProperties
<1>7. Len(inbuf \o s) <= RingSize
  BY <1>1, <1>3, <1>4, <1>6
<1>8. Source # <<>>
  BY <1>1, <1>3
<1> QED
  BY <1>1, <1>3, <1>4, <1>5, <1>6, <1>7, <1>8

\* What is read goes behind what is under way.
LEMMA ReadInputKeeps ==
  ASSUME WireInv, ReadInput
  PROVE  WireInv' /\ Down' = Down /\ Place' = Place
         /\ (ReadNothing \/ ReadEnd => Up' = Up)
         /\ \A n, s : ReadSome(n, s) => Up' = Up \o s
<1>1. /\ cpc = "read" /\ cpc' = "send"
      /\ UNCHANGED <<want, recent, executing, redir, gripes, glued, opened, serverVars, toServer, toClient, interrupts>>
      /\ ReadNothing \/ ReadEnd \/ \E n, s : ReadSome(n, s)
  BY ReadInputIs
<1>2. ServerTypes' /\ Down' = Down /\ Place' = Place
  BY <1>1 DEF WireInv, ServerTypes, serverVars, Down, Content, Place
<1>3. (spc' \in {"closing", "gone"} => ioEof') /\ (goes' \in {"closing", "gone"} => ioEof') /\ glued' = FALSE
  BY <1>1 DEF WireInv, Pipes, serverVars
<1>4. ASSUME ReadNothing \/ ReadEnd PROVE WireInv' /\ Up' = Up
  <2>1. Up' = Up
    BY <1>1, <1>4 DEF ReadNothing, ReadEnd, Up, serverVars, Content
  <2>2. flow' = flow /\ lineEnds' = lineEnds /\ partial' = partial
    BY <1>4 DEF ReadNothing, ReadEnd
  <2>3. rushed' \in BOOLEAN
    BY <1>4 DEF ReadNothing, ReadEnd, WireInv, BetweenTypes
  <2>4. BetweenTypes'
    BY <1>1, <2>2, <2>3 DEF WireInv, BetweenTypes
  <2>5. ClientTypes'
    BY <1>1, <1>4 DEF ReadNothing, ReadEnd, WireInv, ClientTypes
  <2>6. Pipes'
    BY <1>1, <1>3, <2>1, <2>2 DEF WireInv, Pipes, serverVars
  <2> QED
    BY <1>2, <2>1, <2>4, <2>5, <2>6 DEF WireInv
<1>5. ASSUME NEW n, NEW s, ReadSome(n, s) PROVE WireInv' /\ Up' = Up \o s
  <2>1. /\ n \in 1..Len(Source) /\ s \in Seq(Input)
        /\ Drop(Source, n) \in Seq(Input)
        /\ inbuf \o s \in Seq(Input) /\ Len(inbuf \o s) <= RingSize
    BY <1>5, ReadSomeIs DEF WireInv
  <2>2. inbuf' = inbuf \o s /\ flow' = flow \o s /\ lineEnds' = (s[n] = NL) /\ partial' = (s[n] # NL)
        /\ UNCHANGED <<inputFd, sendEof, sendIntr, eof0>>
    BY <1>5 DEF ReadSome
  <2>3. Up' = Up \o s
    BY <1>1, <2>1, <2>2, UpGrows DEF WireInv, serverVars
  <2>4. asked' \in BOOLEAN /\ rushed' \in BOOLEAN
    BY <1>5 DEF ReadSome, WireInv, ClientTypes, BetweenTypes
  <2>5. typed' \in Seq(Input) /\ batch' \in Seq(Input)
    BY <1>5, <2>1 DEF ReadSome, Source, WireInv, ClientTypes
  <2>6. ClientTypes'
    BY <1>1, <2>1, <2>2, <2>4, <2>5 DEF WireInv, ClientTypes
  <2>7. BetweenTypes'
    <3>1. flow \o s \in Seq(Input)
      BY <2>1, ConcatProperties DEF WireInv, BetweenTypes
    <3> QED
      BY <1>1, <2>2, <2>4, <3>1 DEF WireInv, BetweenTypes
  <2>8. Pipes'
    <3>1. ~ioEof' => Up' = flow'
      BY <1>1, <2>2, <2>3 DEF WireInv, Pipes, serverVars
    <3>2. partial' = ~lineEnds'
      BY <2>2
    <3> QED
      BY <1>3, <3>1, <3>2 DEF Pipes
  <2> QED
    BY <1>2, <2>3, <2>6, <2>7, <2>8 DEF WireInv
<1> QED
  BY <1>1, <1>2, <1>4, <1>5

\* The client sends.
LEMMA SendInputKeeps ==
  ASSUME WireInv, SendInput
  PROVE  WireInv' /\ Up' = Up /\ Down' = Down /\ Place' = Place
<1>1. /\ cpc = "send"
      /\ UNCHANGED <<want, typed, batch, inputFd, eof0, partial, sendEof, sendIntr, executing, redir,
                     flow, lineEnds, glued, opened, asked, serverVars, toClient, rushed, interrupts>>
  BY DEF SendInput
<1>2. ServerTypes' /\ Down' = Down /\ Place' = Place
  BY <1>1 DEF WireInv, ServerTypes, serverVars, Down, Content, Place
<1>3. ASSUME Up' = Up, inbuf' \in Seq(Input), Len(inbuf') <= RingSize, recent' \in Seq(Input), Len(recent') <= RingSize,
             cpc' \in {"recv", "send", "gone"}, toServer' \in Seq(Input), Len(toServer') <= SockSize
      PROVE  WireInv'
  <2>1. ClientTypes'
    BY <1>1, <1>3 DEF WireInv, ClientTypes
  <2>2. BetweenTypes'
    BY <1>1, <1>3 DEF WireInv, BetweenTypes
  <2>3. Pipes'
    BY <1>1, <1>3 DEF WireInv, Pipes, serverVars
  <2> QED
    BY <1>2, <2>1, <2>2, <2>3 DEF WireInv
<1>4. CASE "out" \notin want
  <2>1. cpc' = "recv" /\ UNCHANGED <<inbuf, recent, toServer, gripes>>
    BY <1>4 DEF SendInput
  <2>2. Up' = Up
    BY <1>1, <2>1 DEF Up, serverVars, Content
  <2> QED
    BY <1>2, <1>3, <2>1, <2>2 DEF WireInv, ClientTypes, BetweenTypes
<1>5. CASE "out" \in want
  <2> DEFINE n == WireMin(Len(inbuf), SockSize - Len(toServer))
             saved == FoldLeft(SaveInput, recent, SubSeq(inbuf, 1, n))
             lost == "none" \in ToSet(saved)
  <2>1. /\ toServer' = toServer \o SubSeq(inbuf, 1, n)
        /\ inbuf' = SubSeq(inbuf, n + 1, Len(inbuf))
        /\ recent' = IF lost THEN <<>> ELSE saved
        /\ cpc' = CASE lost -> "gone" [] n = Len(inbuf) -> "recv" [] OTHER -> "send"
    BY <1>5 DEF SendInput
  <2>2. cpc' \in {"recv", "send", "gone"}
    BY <2>1
  <2>3. /\ inbuf \in Seq(Input) /\ Len(inbuf) \in Nat /\ Len(inbuf) <= RingSize /\ RingSize \in Nat /\ RingSize >= 2
        /\ toServer \in Seq(Input) /\ Len(toServer) \in Nat /\ Len(toServer) <= SockSize /\ SockSize \in Nat
        /\ recent \in Seq(Input) /\ Len(recent) <= RingSize /\ Len(recent) \in Nat
    BY WireAssumption DEF WireInv, ClientTypes, BetweenTypes
  <2> HIDE DEF lost
  <2>4. n \in 0..Len(inbuf) /\ Len(toServer) + n <= SockSize
    <3>1. \A a, b, e \in Nat : a <= e => LET m == IF b < e - a THEN b ELSE e - a IN m \in 0..b /\ a + m <= e
      OBVIOUS
    <3>2. n = IF Len(inbuf) < SockSize - Len(toServer) THEN Len(inbuf) ELSE SockSize - Len(toServer)
      BY DEF WireMin
    <3>3. LET m == IF Len(inbuf) < SockSize - Len(toServer) THEN Len(inbuf) ELSE SockSize - Len(toServer)
          IN m \in 0..Len(inbuf) /\ Len(toServer) + m <= SockSize
      BY <2>3, <3>1
    <3> QED
      BY <3>2, <3>3
  <2> HIDE DEF n
  <2>5. SubSeq(inbuf, 1, n) \in Seq(Input)
    BY <2>3, <2>4, TakeAndDrop
  <2>6. saved \in Memory
    <3>1. recent \in Memory
      <4>1. Input \subseteq Input \cup {"none"}
        OBVIOUS
      <4>2. recent \in Seq(Input \cup {"none"})
        <5>1. recent \in [1..Len(recent) -> Input]
          BY <2>3, LenProperties
        <5> QED
          BY <2>3, <5>1
      <4> QED
        BY <2>3, <4>2 DEF Memory
    <3> QED
      BY <2>3, <2>5, <3>1, SavedIs
  <2> HIDE DEF saved
  <2>7. recent' \in Seq(Input) /\ Len(recent') <= RingSize
    <3>1. CASE lost
      <4>1. <<>> \in Seq(Input) /\ Len(<<>>) = 0
        OBVIOUS
      <4> QED
        BY <2>1, <2>3, <3>1, <4>1
    <3>2. CASE ~lost
      BY <2>1, <2>6, <3>2, RememberedIs DEF lost
    <3> QED
      BY <3>1, <3>2
  <2>8. inq' = inq
    BY <1>1 DEF serverVars
  <2>9. Up' = Up /\ Len(toServer') = Len(toServer) + n /\ toServer' \in Seq(Input)
        /\ inbuf' \in Seq(Input) /\ Len(inbuf') <= Len(inbuf)
    BY <2>1, <2>4, <2>8, UpSent DEF WireInv
  <2>10. Len(toServer') <= SockSize
    BY <2>4, <2>9
  <2>11. Len(inbuf') <= RingSize
    <3>1. Len(inbuf') \in Nat
      BY <2>9
    <3> QED
      BY <2>3, <2>9, <3>1
  <2> QED
    BY <1>2, <1>3, <2>2, <2>7, <2>9, <2>10, <2>11
<1> QED
  BY <1>4, <1>5

\* The client reads a line of the server's.
LEMMA RecvOutputKeeps ==
  ASSUME WireInv, RecvOutput
  PROVE  /\ WireInv' /\ Up' = Up /\ Place' = Place
         /\ toClient' = toClient => Down' = Down
         /\ toClient' # toClient => /\ toClient # <<>> /\ Down # <<>> /\ Head(Down) = Head(toClient)
                                    /\ toClient' = Tail(toClient) /\ Down' = Tail(Down)
<1>1. /\ cpc = "recv" /\ cpc' \in {"top", "gone"}
      /\ UNCHANGED <<want, typed, inbuf, recent, eof0, partial, sendEof, flow, lineEnds, glued,
                     serverVars, toServer, rushed, interrupts>>
  BY DEF RecvOutput
<1>2. Up' = Up /\ Place' = Place /\ ServerTypes'
  BY <1>1 DEF WireInv, Up, Place, ServerTypes, serverVars, Content
<1>3. (toClient' = toClient) \/ (toClient # <<>> /\ toClient' = Tail(toClient))
  BY DEF RecvOutput
<1>4. toClient \in Seq(Output) /\ Len(toClient) \in Nat /\ Len(toClient) <= SockSize /\ SockSize \in Nat
      /\ Content(outq) \in Seq(Output) /\ outq' = outq
  BY <1>1, WaysAre, WireAssumption DEF WireInv, BetweenTypes, serverVars
<1>5. ASSUME toClient # <<>>
      PROVE  Tail(toClient) \in Seq(Output) /\ Len(Tail(toClient)) = Len(toClient) - 1
             /\ Down # <<>> /\ Head(Down) = Head(toClient) /\ Tail(toClient) \o Content(outq) = Tail(Down)
  <2>1. Tail(toClient) \in Seq(Output) /\ Len(Tail(toClient)) = Len(toClient) - 1 /\ Len(toClient) >= 1
    BY <1>4, <1>5, HeadTailProperties
  <2> DEFINE o == Content(outq)
  <2>2. o \in Seq(Output) /\ Len(o) \in Nat
    BY <1>4
  <2>3. Down = toClient \o o
    BY DEF Down
  <2> HIDE DEF o
  <2>4. Down \in Seq(Output) /\ Len(Down) = Len(toClient) + Len(o) /\ Len(Down) >= 1 /\ Down # <<>>
    <3>1. Down \in Seq(Output) /\ Len(Down) = Len(toClient) + Len(o)
      BY <1>4, <2>2, <2>3, ConcatProperties
    <3>2. Len(Down) >= 1
      BY <1>4, <2>1, <2>2, <3>1
    <3> QED
      BY <3>1, <3>2
  <2>5. Head(Down) = Down[1] /\ Head(toClient) = toClient[1]
    BY <1>4, <1>5, <2>4
  <2>6. Down[1] = toClient[1]
    <3>1. 1 \in 1..Len(toClient) + Len(o) /\ 1 <= Len(toClient)
      BY <1>4, <2>1, <2>2
    <3> QED
      BY <1>4, <2>2, <2>3, <3>1, ConcatProperties
  <2>7. Tail(toClient) = Drop(toClient, 1) /\ Tail(Down) = Drop(Down, 1)
    BY <1>4, <1>5, <2>4, TailIsSubSeq DEF Drop
  <2>8. 1 \in 0..Len(toClient)
    BY <1>4, <2>1
  <2>9. Drop(toClient \o o, 1) = Drop(toClient, 1) \o o
    BY <1>4, <2>2, <2>8, DropFirst
  <2> QED
    BY <2>1, <2>3, <2>4, <2>5, <2>6, <2>7, <2>9 DEF o
<1>6. toClient' = toClient => Down' = Down
  BY <1>4 DEF Down, Content
<1>7. toClient' # toClient => /\ toClient # <<>> /\ Down # <<>> /\ Head(Down) = Head(toClient)
                              /\ toClient' = Tail(toClient) /\ Down' = Tail(Down)
  <2>1. Down' = toClient' \o Content(outq)
    BY <1>4 DEF Down
  <2> QED
    BY <1>3, <1>5, <2>1
<1>8. BetweenTypes'
  <2>1. toClient' \in Seq(Output) /\ Len(toClient') <= SockSize
    <3>1. CASE toClient' = toClient
      BY <1>4, <3>1
    <3>2. CASE toClient # <<>> /\ toClient' = Tail(toClient)
      BY <1>4, <1>5, <3>2
    <3> QED
      BY <1>3, <3>1, <3>2
  <2> QED
    BY <1>1, <2>1 DEF WireInv, BetweenTypes
<1>9. ClientTypes'
  <2>1. /\ redir' \in BOOLEAN /\ executing' \in BOOLEAN /\ asked' \in BOOLEAN /\ inputFd' \in {0, 1}
        /\ sendIntr' \in BOOLEAN /\ (batch' = batch \/ batch' = <<>> \/ batch' \in Batches)
    BY DEF RecvOutput, ShowPrompt, DoExecute, WireInv, ClientTypes
  <2>2. batch' \in Seq(Input)
    <3>1. <<>> \in Seq(Input)
      OBVIOUS
    <3> QED
      BY <2>1, <3>1, InputAssumption DEF WireInv, ClientTypes
  <2> QED
    BY <1>1, <2>1, <2>2 DEF WireInv, ClientTypes
<1>10. Pipes'
  BY <1>1, <1>2 DEF WireInv, Pipes, serverVars
<1> QED
  BY <1>2, <1>6, <1>7, <1>8, <1>9, <1>10 DEF WireInv

-----------------------------------------------------------------------------
(* So do the server's. *)

\* Up and Down are what the queues and the connection hold.
LEMMA WaysStay ==
  /\ inq' = inq /\ toServer' = toServer /\ inbuf' = inbuf => Up' = Up
  /\ outq' = outq /\ toClient' = toClient => Down' = Down
  /\ spc' = spc /\ goes' = goes => Place' = Place
BY DEF Up, Down, Content, Place

\* What is said comes last.
LEMMA DownGrows ==
  ASSUME ServerTypes, BetweenTypes, ClientTypes, NEW s \in Seq(Output), Content(outq') = Content(outq) \o s, toClient' = toClient
  PROVE  Down' = Down \o s
<1> DEFINE c == Content(outq)
<1>1. c \in Seq(Output) /\ toClient \in Seq(Output)
  BY WaysAre
<1>2. Down' = toClient \o (c \o s) /\ Down = toClient \o c
  BY DEF Down
<1> HIDE DEF c
<1>3. (toClient \o c) \o s = toClient \o (c \o s)
  BY <1>1, ConcatAssociative
<1> QED
  BY <1>2, <1>3

\* Steps of the server leave the client's types.
LEMMA ClientStays == ASSUME ClientTypes, UNCHANGED clientVars PROVE ClientTypes' /\ inbuf' = inbuf /\ partial' = partial /\ lineEnds' = lineEnds /\ glued' = glued
BY DEF ClientTypes, clientVars

\* The server writes some of its output.
LEMMA OutputSomeKeeps ==
  ASSUME WireInv, OutputSome
  PROVE  WireInv' /\ Up' = Up /\ Down' = Down /\ Place' = Place
<1>1. /\ spc = "output"
      /\ UNCHANGED <<inq, inExec, failed, commanding, aborted, gotCtld, ioEof, flow, clientVars, toServer, rushed, interrupts>>
  BY DEF OutputSome
<1>2. ClientTypes' /\ inbuf' = inbuf /\ partial' = partial /\ lineEnds' = lineEnds /\ glued' = glued
  BY <1>1, ClientStays DEF WireInv
<1>3. Up' = Up
  BY <1>1, <1>2, WaysStay
<1>4. CASE Written /\ UNCHANGED <<spc, goes>>
  <2>1. /\ QueueIs(outq', Output) /\ outq'.last <= outq'.cc
        /\ toClient' \in Seq(Output) /\ Len(toClient') <= SockSize
        /\ Down' = Down
    BY <1>4, WrittenIs DEF WireInv
  <2>2. Place' = Place
    BY <1>4, WaysStay
  <2>3. ServerTypes' /\ BetweenTypes'
    BY <1>1, <1>4, <2>1 DEF WireInv, ServerTypes, BetweenTypes
  <2>4. Pipes'
    BY <1>1, <1>2, <1>3, <1>4 DEF WireInv, Pipes
  <2> QED
    BY <1>2, <1>3, <2>1, <2>2, <2>3, <2>4 DEF WireInv
<1>5. CASE spc' = goes /\ UNCHANGED <<goes, outq, toClient>>
  <2>1. Down' = Down
    BY <1>5, WaysStay
  <2>2. Place' = Place
    <3>1. goes # "output"
      BY DEF WireInv, ServerTypes, Places
    <3> QED
      BY <1>1, <1>5, <3>1 DEF Place
  <2>3. ServerTypes' /\ BetweenTypes'
    BY <1>1, <1>5 DEF WireInv, ServerTypes, BetweenTypes
  <2>4. Pipes'
    <3>1. spc' \in {"closing", "gone"} => ioEof'
      BY <1>1, <1>5 DEF WireInv, Pipes
    <3>2. goes' \in {"closing", "gone"} => ioEof'
      BY <1>1, <1>5 DEF WireInv, Pipes
    <3> QED
      BY <1>1, <1>2, <1>3, <3>1, <3>2 DEF WireInv, Pipes
  <2> QED
    BY <1>2, <1>3, <2>1, <2>2, <2>3, <2>4 DEF WireInv
<1> QED
  BY <1>4, <1>5 DEF OutputSome

\* What a step of the server is that says s and goes on at t, but for the
\* rest of the server's state.
LEMMA SayingKeeps ==
  ASSUME WireInv, NEW s \in Seq(Output), NEW t \in Places, Say(s, t), t \in {"closing", "gone"} => ioEof',
         UNCHANGED <<ioEof, clientVars, toServer, toClient, rushed>>,
         QueueIs(inq', Input), inq'.last = 0, ~ioEof => Up' = flow', flow' \in Seq(Input),
         inExec' \in BOOLEAN, failed' \in BOOLEAN, commanding' \in BOOLEAN, aborted' \in BOOLEAN, gotCtld' \in BOOLEAN
  PROVE  WireInv' /\ Down' = Down \o s /\ Place' = t
<1>1. /\ QueueIs(outq', Output) /\ outq'.last <= outq'.cc
      /\ spc' \in Places \cup {"output"} /\ goes' \in Places
      /\ Content(outq') = Content(outq) \o s /\ Place' = t
      /\ spc' = t \/ (spc' = "output" /\ goes' = t)
      /\ goes' = t \/ goes' = goes
  BY SaidIs DEF WireInv
<1>2. ClientTypes' /\ inbuf' = inbuf /\ partial' = partial /\ lineEnds' = lineEnds /\ glued' = glued
  BY ClientStays DEF WireInv
<1>3. Down' = Down \o s
  BY <1>1, DownGrows DEF WireInv
<1>4. ServerTypes'
  BY <1>1 DEF WireInv, ServerTypes
<1>5. BetweenTypes'
  BY DEF WireInv, BetweenTypes
<1>6. Pipes'
  <2>1. spc' \in {"closing", "gone"} => ioEof'
    BY <1>1
  <2>2. goes' \in {"closing", "gone"} => ioEof'
    BY <1>1 DEF WireInv, Pipes
  <2> QED
    BY <1>2, <2>1, <2>2 DEF WireInv, Pipes
<1> QED
  BY <1>1, <1>2, <1>3, <1>4, <1>5, <1>6 DEF WireInv

\* The same of a step that says nothing.
LEMMA SilentKeeps ==
  ASSUME WireInv, UNCHANGED <<outq, clientVars, toClient>>, spc' \in Places, goes' = goes,
         spc' \in {"closing", "gone"} => ioEof', ioEof => ioEof', ioEof' \in BOOLEAN, rushed' \in BOOLEAN,
         toServer' \in Seq(Input), Len(toServer') <= SockSize,
         QueueIs(inq', Input), inq'.last = 0, ~ioEof' => Up' = flow', flow' \in Seq(Input),
         inExec' \in BOOLEAN, failed' \in BOOLEAN, commanding' \in BOOLEAN, aborted' \in BOOLEAN, gotCtld' \in BOOLEAN
  PROVE  WireInv' /\ Down' = Down /\ Place' = spc'
<1>1. ClientTypes' /\ inbuf' = inbuf /\ partial' = partial /\ lineEnds' = lineEnds /\ glued' = glued
  BY ClientStays DEF WireInv
<1>2. Down' = Down
  BY WaysStay
<1>3. ServerTypes'
  BY DEF WireInv, ServerTypes
<1>4. BetweenTypes'
  BY DEF WireInv, BetweenTypes
<1>5. Pipes'
  BY <1>1 DEF WireInv, Pipes
<1>6. Place' = spc'
  BY DEF Place, Places
<1> QED
  BY <1>1, <1>2, <1>3, <1>4, <1>5, <1>6 DEF WireInv

\* What commands print, and where they go on.
LEMMA Sayings ==
  /\ <<"data">> \in Seq(Output) /\ <<"C_PROMPT">> \in Seq(Output) /\ <<"C_FLUSH">> \in Seq(Output)
  /\ <<"C_EXECUTE">> \in Seq(Output) /\ <<"C_REDIR", "data>">> \in Seq(Output)
  /\ Back \in {"exec", "loop"} /\ Back \in Places
  /\ Places \cap {"closing", "gone"} = {"closing", "gone"} /\ "output" \notin Places
BY DEF Output, Back, Places

\* The prompt of the command loop.
LEMMA PromptKeeps ==
  ASSUME WireInv, Prompt
  PROVE  /\ WireInv' /\ Up' = Up
         /\ ioEof => Down' = Down \o <<"data">> /\ Place' = "closing"
         /\ ~ioEof => Down' = Down \o <<"C_PROMPT">> /\ Place' = "getcmd"
<1>1. /\ spc = "status"
      /\ UNCHANGED <<inq, inExec, failed, commanding, aborted, gotCtld, ioEof,
                     flow, clientVars, toServer, toClient, rushed, interrupts>>
  BY DEF Prompt
<1>2. inbuf' = inbuf
  BY <1>1 DEF clientVars
<1>3. Up' = Up
  BY <1>1, <1>2, WaysStay
<1>4. QueueIs(inq', Input) /\ inq'.last = 0 /\ (~ioEof => Up' = flow') /\ flow' \in Seq(Input)
      /\ inExec' \in BOOLEAN /\ failed' \in BOOLEAN /\ commanding' \in BOOLEAN /\ aborted' \in BOOLEAN /\ gotCtld' \in BOOLEAN
  BY <1>1, <1>3 DEF WireInv, ServerTypes, BetweenTypes, Pipes
<1>5. CASE ioEof
  <2>1. Say(<<"data">>, "closing") /\ "closing" \in Places /\ <<"data">> \in Seq(Output)
    BY <1>5, Sayings DEF Prompt, Places
  <2>2. WireInv' /\ Down' = Down \o <<"data">> /\ Place' = "closing"
    BY <1>1, <1>4, <1>5, <2>1, SayingKeeps
  <2> QED
    BY <1>3, <1>5, <2>2
<1>6. CASE ~ioEof
  <2>1. Say(<<"C_PROMPT">>, "getcmd") /\ "getcmd" \in Places /\ <<"C_PROMPT">> \in Seq(Output)
    BY <1>6, Sayings DEF Prompt, Places
  <2>2. WireInv' /\ Down' = Down \o <<"C_PROMPT">> /\ Place' = "getcmd"
    BY <1>1, <1>4, <2>1, SayingKeeps
  <2> QED
    BY <1>3, <1>6, <2>2
<1> QED
  BY <1>5, <1>6

\* What the command loop does after a command.
LEMMA LoopKeeps ==
  ASSUME WireInv, Loop
  PROVE  /\ WireInv' /\ Down' = Down /\ Place' = "status"
         /\ ~gotCtld => Up' = Up
         /\ gotCtld => Content(inq') = <<>>
<1>1. /\ spc = "loop" /\ spc' = "status"
      /\ ioEof' = (ioEof \/ gotCtld)
      /\ inq' = (IF gotCtld THEN IoqDrain(inq) ELSE inq)
      /\ aborted' = FALSE
      /\ UNCHANGED <<outq, goes, inExec, failed, commanding, gotCtld, flow, clientVars, toServer, toClient, rushed, interrupts>>
  BY DEF Loop
<1>2. inbuf' = inbuf
  BY <1>1 DEF clientVars
<1>3. ~gotCtld => Up' = Up
  BY <1>1, <1>2, WaysStay
<1>4. gotCtld => inq' = EmptyQueue
  BY <1>1 DEF IoqDrain
<1>5. gotCtld => Content(inq') = <<>>
  BY <1>4, EmptyQueueIs
<1>6. QueueIs(inq', Input) /\ inq'.last = 0
  BY <1>1, <1>4, EmptyQueueIs DEF WireInv, ServerTypes
<1>7. ~ioEof' => Up' = flow'
  BY <1>1, <1>3 DEF WireInv, Pipes, ServerTypes
<1>8. /\ toServer' \in Seq(Input) /\ Len(toServer') <= SockSize /\ flow' \in Seq(Input) /\ rushed' \in BOOLEAN
      /\ ioEof' \in BOOLEAN /\ (ioEof => ioEof')
      /\ inExec' \in BOOLEAN /\ failed' \in BOOLEAN /\ commanding' \in BOOLEAN /\ aborted' \in BOOLEAN /\ gotCtld' \in BOOLEAN
  BY <1>1 DEF WireInv, ServerTypes, BetweenTypes
<1>9. spc' \in Places /\ ~(spc' \in {"closing", "gone"})
  BY <1>1 DEF Places
<1>10. WireInv' /\ Down' = Down /\ Place' = spc'
  BY <1>1, <1>6, <1>7, <1>8, <1>9, SilentKeeps
<1> QED
  BY <1>1, <1>3, <1>5, <1>10

\* All output is written before the server waits for input.
LEMMA FlushOutputKeeps ==
  ASSUME WireInv, FlushOutput
  PROVE  WireInv' /\ Up' = Up /\ Down' = Down /\ Place' = Place
<1>1. Written /\ UNCHANGED <<inq, spc, goes, inExec, failed, commanding, aborted, gotCtld, ioEof, flow, clientVars, toServer, rushed, interrupts>>
  BY DEF FlushOutput
<1>2. ClientTypes' /\ inbuf' = inbuf /\ partial' = partial /\ lineEnds' = lineEnds /\ glued' = glued
  BY <1>1, ClientStays DEF WireInv
<1>3. Up' = Up /\ Place' = Place
  BY <1>1, <1>2, WaysStay
<1>4. /\ QueueIs(outq', Output) /\ outq'.last <= outq'.cc
      /\ toClient' \in Seq(Output) /\ Len(toClient') <= SockSize
      /\ Down' = Down
  BY <1>1, WrittenIs DEF WireInv
<1>5. ServerTypes' /\ BetweenTypes'
  BY <1>1, <1>4 DEF WireInv, ServerTypes, BetweenTypes
<1>6. Pipes'
  BY <1>1, <1>2, <1>3 DEF WireInv, Pipes
<1> QED
  BY <1>2, <1>3, <1>4, <1>5, <1>6 DEF WireInv

\* Input is read, or its end.
LEMMA IoInputKeeps ==
  ASSUME WireInv, IoInput
  PROVE  WireInv' /\ Up' = Up /\ Down' = Down /\ Place' = Place /\ Place = spc /\ spc \in Gets
<1>1. UNCHANGED <<outq, spc, goes, inExec, failed, commanding, gotCtld, flow, clientVars, toClient, rushed, interrupts>>
  BY DEF IoInput
<1>2. inbuf' = inbuf
  BY <1>1 DEF clientVars
<1>3. Place' = Place /\ Place = spc /\ spc \in Places /\ spc \in Gets
  BY <1>1, WaysStay DEF IoInput, Waits, Gets, Place, Places
<1>4. CASE inq' = IoqAppend(inq, toServer) /\ toServer' = <<>> /\ UNCHANGED <<ioEof, aborted>>
  <2>1. QueueIs(inq, Input) /\ toServer \in Seq(Input) /\ BufSize \in Nat
    BY WireAssumption DEF WireInv, ServerTypes, BetweenTypes
  <2>2. QueueIs(inq', Input) /\ inq'.last = inq.last
    BY <1>4, <2>1, AppendedIs
  <2>3. Content(inq') = Content(inq) \o toServer
    BY <1>4, <2>1, AppendedIs
  <2>4. Up' = Up
    BY <1>2, <1>4, <2>3, UpReceived DEF WireInv
  <2>5. toServer' \in Seq(Input) /\ Len(toServer') <= SockSize
    <3>1. <<>> \in Seq(Input) /\ Len(<<>>) = 0
      OBVIOUS
    <3> QED
      BY <1>4, <3>1, WireAssumption
  <2>6. QueueIs(inq', Input) /\ inq'.last = 0 /\ (~ioEof' => Up' = flow') /\ flow' \in Seq(Input)
        /\ ioEof' \in BOOLEAN /\ (ioEof => ioEof') /\ rushed' \in BOOLEAN
        /\ inExec' \in BOOLEAN /\ failed' \in BOOLEAN /\ commanding' \in BOOLEAN /\ aborted' \in BOOLEAN /\ gotCtld' \in BOOLEAN
    BY <1>1, <1>4, <2>2, <2>4 DEF WireInv, ServerTypes, BetweenTypes, Pipes
  <2>7. spc' \in Places /\ ~(spc' \in {"closing", "gone"}) /\ goes' = goes
    BY <1>1, <1>3 DEF Gets
  <2>8. WireInv' /\ Down' = Down
    BY <1>1, <2>5, <2>6, <2>7, SilentKeeps
  <2> QED
    BY <1>3, <2>4, <2>8
<1>5. CASE ioEof' = TRUE /\ aborted' = TRUE /\ UNCHANGED <<inq, toServer>>
  <2>1. Up' = Up
    BY <1>2, <1>5, WaysStay
  <2>2. /\ QueueIs(inq', Input) /\ inq'.last = 0 /\ (~ioEof' => Up' = flow') /\ flow' \in Seq(Input)
        /\ ioEof' \in BOOLEAN /\ (ioEof => ioEof') /\ rushed' \in BOOLEAN
        /\ inExec' \in BOOLEAN /\ failed' \in BOOLEAN /\ commanding' \in BOOLEAN /\ aborted' \in BOOLEAN /\ gotCtld' \in BOOLEAN
        /\ toServer' \in Seq(Input) /\ Len(toServer') <= SockSize
    BY <1>1, <1>5 DEF WireInv, ServerTypes, BetweenTypes, Pipes
  <2>3. spc' \in Places /\ ~(spc' \in {"closing", "gone"}) /\ goes' = goes
    BY <1>1, <1>3 DEF Gets
  <2>4. WireInv' /\ Down' = Down
    BY <1>1, <2>2, <2>3, SilentKeeps
  <2> QED
    BY <1>3, <2>1, <2>4
<1> QED
  BY <1>4, <1>5 DEF IoInput

\* The loop of c_execute().
LEMMA ExecuteKeeps ==
  ASSUME WireInv, Execute
  PROVE  /\ WireInv' /\ Up' = Up /\ spc = "exec" /\ Place = "exec"
         /\ UNCHANGED <<inq, aborted, ioEof, flow, clientVars, toServer, toClient, rushed, interrupts>>
         /\ \/ /\ failed \/ (~ioEof /\ ~gotCtld)
               /\ Down' = Down /\ Place' = (IF failed THEN "drain" ELSE "getexec")
               /\ UNCHANGED <<inExec, failed, commanding, gotCtld>>
            \/ /\ ~failed /\ (ioEof \/ gotCtld)
               /\ Down' = Down \o <<"data">> /\ Place' = "loop"
               /\ inExec' = FALSE /\ failed' = FALSE /\ commanding' = FALSE /\ gotCtld' = FALSE
<1>1. /\ spc = "exec"
      /\ UNCHANGED <<inq, aborted, ioEof, flow, clientVars, toServer, toClient, rushed, interrupts>>
  BY DEF Execute
<1>2. inbuf' = inbuf
  BY <1>1 DEF clientVars
<1>3. Up' = Up /\ Place = "exec"
  BY <1>1, <1>2, WaysStay DEF Place
<1>4. /\ QueueIs(inq', Input) /\ inq'.last = 0 /\ (~ioEof' => Up' = flow') /\ flow' \in Seq(Input)
      /\ ioEof' \in BOOLEAN /\ (ioEof => ioEof') /\ rushed' \in BOOLEAN /\ aborted' \in BOOLEAN /\ (~ioEof => Up' = flow')
      /\ toServer' \in Seq(Input) /\ Len(toServer') <= SockSize
  BY <1>1, <1>3 DEF WireInv, ServerTypes, BetweenTypes, Pipes
<1>5. CASE failed \/ (~ioEof /\ ~gotCtld)
  <2>1. spc' = (IF failed THEN "drain" ELSE "getexec") /\ UNCHANGED <<outq, goes, inExec, failed, commanding, gotCtld>>
    BY <1>5 DEF Execute
  <2>2. spc' \in Places /\ ~(spc' \in {"closing", "gone"})
    BY <2>1 DEF Places
  <2>3. inExec' \in BOOLEAN /\ failed' \in BOOLEAN /\ commanding' \in BOOLEAN /\ gotCtld' \in BOOLEAN
    BY <2>1 DEF WireInv, ServerTypes
  <2>4. WireInv' /\ Down' = Down /\ Place' = spc'
    BY <1>1, <1>4, <2>1, <2>2, <2>3, SilentKeeps
  <2> QED
    BY <1>1, <1>3, <1>5, <2>1, <2>4
<1>6. CASE ~(failed \/ (~ioEof /\ ~gotCtld))
  <2>1. Say(<<"data">>, "loop") /\ inExec' = FALSE /\ failed' = FALSE /\ commanding' = FALSE /\ gotCtld' = FALSE
    BY <1>6 DEF Execute, Terminate
  <2>2. <<"data">> \in Seq(Output) /\ "loop" \in Places
    BY Sayings DEF Places
  <2>3. WireInv' /\ Down' = Down \o <<"data">> /\ Place' = "loop"
    BY <1>1, <1>4, <2>1, <2>2, SayingKeeps
  <2> QED
    BY <1>1, <1>3, <1>6, <2>1, <2>3 DEF WireInv, ServerTypes
<1> QED
  BY <1>5, <1>6

\* The server aborts the player.
LEMMA ServerAbortsKeeps ==
  ASSUME WireInv, ServerAborts
  PROVE  WireInv' /\ Up' = Up /\ Down' = Down /\ Place' = Place /\ rushed'
<1>1. /\ aborted' = TRUE /\ rushed' = TRUE
      /\ UNCHANGED <<inq, outq, spc, goes, inExec, failed, commanding, gotCtld, ioEof, flow, clientVars, toServer, toClient>>
  BY DEF ServerAborts
<1>2. ClientTypes' /\ inbuf' = inbuf /\ partial' = partial /\ lineEnds' = lineEnds /\ glued' = glued
  BY <1>1, ClientStays DEF WireInv
<1>3. Up' = Up /\ Down' = Down /\ Place' = Place
  BY <1>1, <1>2, WaysStay
<1>4. ServerTypes' /\ BetweenTypes'
  BY <1>1 DEF WireInv, ServerTypes, BetweenTypes
<1>5. Pipes'
  BY <1>1, <1>2, <1>3 DEF WireInv, Pipes
<1> QED
  BY <1>1, <1>2, <1>3, <1>4, <1>5 DEF WireInv

\* The connection is closed.
LEMMA CloseKeeps ==
  ASSUME WireInv, Close
  PROVE  WireInv' /\ Down' = Down /\ spc = "closing" /\ Place = "closing" /\ Place' \in {"closing", "gone"}
         /\ UNCHANGED <<inq, goes, inExec, failed, commanding, aborted, gotCtld, ioEof, flow, clientVars, rushed, interrupts>>
         /\ toServer' \in {toServer, <<>>}
<1>1. /\ spc = "closing" /\ ioEof
      /\ UNCHANGED <<inq, goes, inExec, failed, commanding, aborted, gotCtld, ioEof, flow, clientVars, rushed, interrupts>>
  BY DEF Close, WireInv, Pipes
<1>2. ClientTypes' /\ inbuf' = inbuf /\ partial' = partial /\ lineEnds' = lineEnds /\ glued' = glued
  BY <1>1, ClientStays DEF WireInv
<1>3. Place = "closing" /\ (spc' \in {"closing", "gone"} => Place' = spc')
  BY <1>1 DEF Place
<1>4. Pipes'
  BY <1>1, <1>2 DEF WireInv, Pipes
<1>5. CASE Written /\ UNCHANGED <<toServer, spc>>
  <2>1. /\ QueueIs(outq', Output) /\ outq'.last <= outq'.cc
        /\ toClient' \in Seq(Output) /\ Len(toClient') <= SockSize
        /\ Down' = Down
    BY <1>5, WrittenIs DEF WireInv
  <2>2. ServerTypes' /\ BetweenTypes'
    BY <1>1, <1>5, <2>1 DEF WireInv, ServerTypes, BetweenTypes
  <2> QED
    BY <1>1, <1>2, <1>3, <1>4, <1>5, <2>1, <2>2 DEF WireInv
<1>6. CASE toServer' \in {toServer, <<>>} /\ spc' \in {"closing", "gone"} /\ UNCHANGED <<outq, toClient>>
  <2>1. Down' = Down
    BY <1>6, WaysStay
  <2>2. toServer' \in Seq(Input) /\ Len(toServer') <= SockSize
    <3>1. toServer' = toServer \/ toServer' = <<>>
      BY <1>6
    <3>2. ASSUME toServer' = <<>>
          PROVE  toServer' \in Seq(Input) /\ Len(toServer') <= SockSize
      <4>1. <<>> \in Seq(Input) /\ Len(<<>>) = 0 /\ 0 <= SockSize
        BY WireAssumption
      <4> QED
        BY <3>2, <4>1
    <3> QED
      BY <3>1, <3>2 DEF WireInv, BetweenTypes
  <2>3. ServerTypes' /\ BetweenTypes'
    BY <1>1, <1>6, <2>2 DEF WireInv, ServerTypes, BetweenTypes, Places
  <2> QED
    BY <1>1, <1>2, <1>3, <1>4, <1>6, <2>1, <2>3 DEF WireInv
<1>7. \/ Written /\ UNCHANGED <<toServer, spc>>
      \/ toServer' \in {toServer, <<>>} /\ spc' \in {"closing", "gone"} /\ UNCHANGED <<outq, toClient>>
  BY DEF Close
<1> QED
  BY <1>5, <1>6, <1>7

\* recvclient() fails.
LEMMA TakeNothingKeeps ==
  ASSUME WireInv, TakeNothing
  PROVE  /\ WireInv' /\ Up' = Up /\ spc \in Gets /\ Place = spc /\ aborted
         /\ UNCHANGED <<aborted, ioEof, flow, clientVars, rushed>>
         /\ \/ /\ spc = "getcmd" /\ Down' = Down /\ Place' = "loop" /\ UNCHANGED <<inExec, failed, gotCtld>>
            \/ /\ spc = "getarg" /\ Down' = Down /\ Place' = Back /\ UNCHANGED <<inExec, failed, gotCtld>>
            \/ /\ spc \in {"getexec", "drain"} /\ Down' = Down \o <<"data">> /\ Place' = "loop"
               /\ inExec' = FALSE /\ failed' = FALSE /\ gotCtld' = FALSE
<1>1. /\ spc \in Gets /\ aborted
      /\ UNCHANGED <<inq, aborted, ioEof, flow, clientVars, toServer, toClient, rushed>>
  BY DEF TakeNothing
<1>2. inbuf' = inbuf
  BY <1>1 DEF clientVars
<1>3. Up' = Up /\ Place = spc
  BY <1>1, <1>2, WaysStay DEF Place, Gets
<1>4. /\ QueueIs(inq', Input) /\ inq'.last = 0 /\ flow' \in Seq(Input)
      /\ ioEof' \in BOOLEAN /\ rushed' \in BOOLEAN /\ aborted' \in BOOLEAN /\ (ioEof => ioEof')
      /\ toServer' \in Seq(Input) /\ Len(toServer') <= SockSize
  BY <1>1 DEF WireInv, ServerTypes, BetweenTypes
<1>5. (~ioEof => Up' = flow') /\ (~ioEof' => Up' = flow')
  BY <1>1, <1>3 DEF WireInv, Pipes
<1>6. ASSUME NEW t \in {"loop", "exec"}, spc' = t, UNCHANGED <<outq, goes, inExec, failed, gotCtld>>, commanding' \in BOOLEAN
      PROVE  WireInv' /\ Down' = Down /\ Place' = t
  <2>1. spc' \in Places /\ ~(spc' \in {"closing", "gone"})
    BY <1>6 DEF Places
  <2>2. inExec' \in BOOLEAN /\ failed' \in BOOLEAN /\ gotCtld' \in BOOLEAN
    BY <1>6 DEF WireInv, ServerTypes
  <2>3. WireInv' /\ Down' = Down /\ Place' = spc'
    BY <1>1, <1>4, <1>5, <1>6, <2>1, <2>2, SilentKeeps
  <2> QED
    BY <1>6, <2>3
<1>7. CASE spc = "getcmd" /\ spc' = "loop" /\ UNCHANGED <<outq, goes, inExec, failed, commanding, gotCtld>>
  <2>1. commanding' \in BOOLEAN
    BY <1>7 DEF WireInv, ServerTypes
  <2>2. WireInv' /\ Down' = Down /\ Place' = "loop"
    BY <1>6, <1>7, <2>1
  <2> QED
    BY <1>1, <1>3, <1>7, <2>2
<1>8. CASE spc = "getarg" /\ spc' = Back /\ commanding' = FALSE /\ UNCHANGED <<outq, goes, inExec, failed, gotCtld>>
  <2>1. Back \in {"loop", "exec"}
    BY Sayings
  <2>2. WireInv' /\ Down' = Down /\ Place' = Back
    BY <1>6, <1>8, <2>1
  <2> QED
    BY <1>1, <1>3, <1>8, <2>2
<1>9. CASE spc \in {"getexec", "drain"} /\ Terminate /\ gotCtld' = FALSE
  <2>1. Say(<<"data">>, "loop") /\ inExec' = FALSE /\ failed' = FALSE /\ commanding' = FALSE /\ gotCtld' = FALSE
    BY <1>9 DEF Terminate
  <2>2. <<"data">> \in Seq(Output) /\ "loop" \in Places
    BY Sayings DEF Places
  <2>3. WireInv' /\ Down' = Down \o <<"data">> /\ Place' = "loop"
    BY <1>1, <1>4, <1>5, <2>1, <2>2, SayingKeeps
  <2> QED
    BY <1>1, <1>3, <1>9, <2>1, <2>3
<1> QED
  BY <1>7, <1>8, <1>9 DEF TakeNothing

-----------------------------------------------------------------------------
(* A line is taken. *)

\* What dispatch() of it prints, and where the player's thread goes.
Dispatched(line) ==
  \/ /\ line = <<"cmd">> /\ Down' = Down \o <<"data">> /\ Place' = Back
     /\ UNCHANGED <<inExec, failed>>
  \/ /\ line = <<"ask">> /\ Down' = Down \o <<"C_FLUSH">> /\ Place' = "getarg"
     /\ UNCHANGED <<inExec, failed>>
  \/ /\ line = <<"redir">> /\ ~inExec /\ Down' = Down \o <<"C_REDIR", "data>">> /\ Place' = Back
     /\ UNCHANGED <<inExec, failed>>
  \/ /\ line = <<"exec">> /\ ~inExec /\ Down' = Down \o <<"C_EXECUTE">> /\ Place' = "exec"
     /\ inExec' = TRUE /\ failed' = FALSE
  \/ /\ line \in {<<"redir">>, <<"exec">>} /\ inExec /\ Down' = Down \o <<"data">> /\ Place' = Back
     /\ failed' = TRUE /\ UNCHANGED inExec
  \/ /\ line \notin {<<"cmd">>, <<"ask">>, <<"redir">>, <<"exec">>}
     /\ Down' = Down \o <<"data">> /\ Place' = Back
     /\ failed' = inExec /\ UNCHANGED inExec

\* The line is the first of what is under way, and nothing else is taken.
FirstIs(line) ==
  /\ Len(line) \in Nat /\ Len(line) + 1 \in 1..Len(Up) /\ Up[Len(line) + 1] = NL
  /\ \A i \in 1..Len(line) : Up[i] = line[i] /\ Up[i] # NL
  /\ Up' = Drop(Up, Len(line) + 1)

\* ioq_gets() takes a line from the front of what is under way.
LEMMA LineIs ==
  ASSUME WireInv, TakeLine, NEW line, line = IoqLine(inq)
  PROVE  /\ FirstIs(line) /\ line \in Seq(Input)
         /\ QueueIs(inq', Input) /\ inq'.last = 0 /\ flow' \in Seq(Input) /\ (~ioEof => Up' = flow')
         /\ spc \in Gets /\ ~aborted /\ GotLine(line)
         /\ UNCHANGED <<ioEof, clientVars, toServer, toClient, rushed>>
<1>1. /\ IoqHasLine(inq) /\ inq' = IoqGets(inq) /\ flow' = SubSeq(flow, Len(line) + 2, Len(flow))
      /\ spc \in Gets /\ ~aborted /\ GotLine(line)
      /\ UNCHANGED <<ioEof, clientVars, toServer, toClient, rushed>>
  BY DEF TakeLine
<1>2. QueueIs(inq, Input) /\ inq.last = 0 /\ flow \in Seq(Input)
  BY DEF WireInv, ServerTypes, BetweenTypes
<1>3. /\ line \in Seq(Input) /\ Len(line) \in Nat
      /\ Len(line) + 1 \in 1..Len(Content(inq)) /\ Content(inq)[Len(line) + 1] = NL
      /\ \A i \in 1..Len(line) : Content(inq)[i] = line[i] /\ Content(inq)[i] # NL
      /\ QueueIs(inq', Input) /\ inq'.last = 0
      /\ Content(inq') = Drop(Content(inq), Len(line) + 1)
  <2>1. /\ line \in Seq(Input) /\ Len(line) \in Nat
        /\ Len(line) + 1 \in 1..Len(Content(inq)) /\ Content(inq)[Len(line) + 1] = NL
        /\ \A i \in 1..Len(line) : Content(inq)[i] = line[i] /\ Content(inq)[i] # NL
        /\ QueueIs(IoqGets(inq), Input) /\ IoqGets(inq).last = inq.last
        /\ Content(IoqGets(inq)) = Drop(Content(inq), Len(line) + 1)
    BY <1>1, <1>2, GetsIs
  <2>2. Content(inq') = Content(IoqGets(inq))
    BY <1>1 DEF Content
  <2> QED
    BY <1>1, <1>2, <2>1, <2>2
<1>4. Content(inq) \in Seq(Input) /\ Len(Content(inq)) \in Nat /\ Up \in Seq(Input) /\ Len(Up) \in Nat
  BY WaysAre DEF WireInv
<1>5. Len(line) + 1 \in 0..Len(Content(inq)) /\ toServer' = toServer /\ inbuf' = inbuf
  BY <1>1, <1>3, <1>4 DEF clientVars
<1>6. /\ Up' = Drop(Up, Len(line) + 1) /\ Len(line) + 1 \in 0..Len(Up)
      /\ \A i \in 1..Len(Content(inq)) : i \in 1..Len(Up) /\ Up[i] = Content(inq)[i]
  BY <1>3, <1>5, UpTaken DEF WireInv
<1>7. FirstIs(line)
  <2>1. Len(line) + 1 \in 1..Len(Up) /\ Up[Len(line) + 1] = NL
    BY <1>3, <1>6
  <2>2. ASSUME NEW i \in 1..Len(line) PROVE Up[i] = line[i] /\ Up[i] # NL
    <3>1. i \in 1..Len(Content(inq))
      BY <1>3, <1>4
    <3> QED
      BY <1>3, <1>6, <3>1
  <2> QED
    BY <1>3, <1>6, <2>1, <2>2 DEF FirstIs
<1>8. flow' \in Seq(Input) /\ (~ioEof => Up' = flow')
  <2>1. flow' = Drop(flow, Len(line) + 1)
    BY <1>1, <1>3 DEF Drop
  <2>2. ~ioEof => Up = flow
    BY DEF WireInv, Pipes
  <2>3. flow' \in Seq(Input)
    <3>1. Len(flow) \in Nat /\ (Len(line) + 1) + 1 \in Nat \ {0}
      BY <1>2, <1>3
    <3> QED
      BY <1>2, <2>1, <3>1, SubSeqProperties DEF Drop
  <2> QED
    BY <1>6, <2>1, <2>2, <2>3
<1> QED
  BY <1>1, <1>3, <1>7, <1>8

\* The output of a line that is taken.
LEMMA AnswerKeeps ==
  ASSUME WireInv, TakeLine, NEW s \in Seq(Output), NEW t \in Places \ {"closing", "gone"}, Say(s, t),
         inExec' \in BOOLEAN, failed' \in BOOLEAN, commanding' \in BOOLEAN
  PROVE  WireInv' /\ Down' = Down \o s /\ Place' = t
<1> DEFINE line == IoqLine(inq)
<1>1. /\ QueueIs(inq', Input) /\ inq'.last = 0 /\ flow' \in Seq(Input) /\ (~ioEof => Up' = flow')
      /\ GotLine(line)
      /\ UNCHANGED <<ioEof, clientVars, toServer, toClient, rushed>>
  BY LineIs
<1>2. aborted' \in BOOLEAN /\ gotCtld' \in BOOLEAN
  BY <1>1 DEF GotLine, WireInv, ServerTypes
<1>3. ~(t \in {"closing", "gone"}) /\ t \in Places
  OBVIOUS
<1> QED
  BY <1>1, <1>2, <1>3, SayingKeeps

\* A line that is taken without output.
LEMMA TakenKeeps ==
  ASSUME WireInv, TakeLine, UNCHANGED <<outq, spc, goes, inExec, failed, commanding>>
  PROVE  WireInv' /\ Down' = Down /\ Place' = Place
<1> DEFINE line == IoqLine(inq)
<1>1. /\ QueueIs(inq', Input) /\ inq'.last = 0 /\ flow' \in Seq(Input) /\ (~ioEof => Up' = flow')
      /\ GotLine(line) /\ spc \in Gets
      /\ UNCHANGED <<ioEof, clientVars, toServer, toClient, rushed>>
  BY LineIs
<1>2. aborted' \in BOOLEAN /\ gotCtld' \in BOOLEAN
  BY <1>1 DEF GotLine, WireInv, ServerTypes
<1>3. spc' \in Places /\ ~(spc' \in {"closing", "gone"}) /\ Place = spc
  BY <1>1 DEF Gets, Places, Place
<1>4. ioEof' \in BOOLEAN /\ rushed' \in BOOLEAN /\ (ioEof => ioEof')
      /\ toServer' \in Seq(Input) /\ Len(toServer') <= SockSize /\ (~ioEof' => Up' = flow')
  BY <1>1 DEF WireInv, ServerTypes, BetweenTypes
<1>5. inExec' \in BOOLEAN /\ failed' \in BOOLEAN /\ commanding' \in BOOLEAN
  BY DEF WireInv, ServerTypes
<1>6. WireInv' /\ Down' = Down /\ Place' = spc'
  BY <1>1, <1>2, <1>3, <1>4, <1>5, SilentKeeps
<1> QED
  BY <1>3, <1>6

\* dispatch() of a line.
LEMMA DispatchKeeps ==
  ASSUME WireInv, TakeLine, NEW line, DoCommand(line)
  PROVE  WireInv' /\ Dispatched(line)
<1>1. inExec \in BOOLEAN /\ failed \in BOOLEAN /\ commanding \in BOOLEAN
  BY DEF WireInv, ServerTypes
<1>2. /\ <<"data">> \in Seq(Output) /\ <<"C_FLUSH">> \in Seq(Output)
      /\ <<"C_EXECUTE">> \in Seq(Output) /\ <<"C_REDIR", "data>">> \in Seq(Output)
      /\ Back \in Places \ {"closing", "gone"} /\ "getarg" \in Places \ {"closing", "gone"}
      /\ "exec" \in Places \ {"closing", "gone"}
  BY Sayings DEF Places
<1>3. CASE line = <<"cmd">> /\ Say(<<"data">>, Back) /\ commanding' = FALSE /\ UNCHANGED <<inExec, failed>>
  <2>1. WireInv' /\ Down' = Down \o <<"data">> /\ Place' = Back
    BY <1>1, <1>2, <1>3, AnswerKeeps
  <2> QED
    BY <1>3, <2>1 DEF Dispatched
<1>4. CASE line = <<"ask">> /\ Say(<<"C_FLUSH">>, "getarg") /\ commanding' = TRUE /\ UNCHANGED <<inExec, failed>>
  <2>1. WireInv' /\ Down' = Down \o <<"C_FLUSH">> /\ Place' = "getarg"
    BY <1>1, <1>2, <1>4, AnswerKeeps
  <2> QED
    BY <1>4, <2>1 DEF Dispatched
<1>5. CASE line = <<"redir">> /\ ~inExec /\ Say(<<"C_REDIR", "data>">>, Back) /\ commanding' = FALSE /\ UNCHANGED <<inExec, failed>>
  <2>1. WireInv' /\ Down' = Down \o <<"C_REDIR", "data>">> /\ Place' = Back
    BY <1>1, <1>2, <1>5, AnswerKeeps
  <2> QED
    BY <1>5, <2>1 DEF Dispatched
<1>6. CASE line = <<"exec">> /\ ~inExec /\ Say(<<"C_EXECUTE">>, "exec") /\ commanding' = TRUE /\ inExec' = TRUE /\ failed' = FALSE
  <2>1. WireInv' /\ Down' = Down \o <<"C_EXECUTE">> /\ Place' = "exec"
    BY <1>1, <1>2, <1>6, AnswerKeeps
  <2> QED
    BY <1>6, <2>1 DEF Dispatched
<1>7. CASE line \in {<<"redir">>, <<"exec">>} /\ inExec /\ Say(<<"data">>, Back) /\ failed' = TRUE /\ UNCHANGED <<commanding, inExec>>
  <2>1. WireInv' /\ Down' = Down \o <<"data">> /\ Place' = Back
    BY <1>1, <1>2, <1>7, AnswerKeeps
  <2> QED
    BY <1>7, <2>1 DEF Dispatched
<1>8. CASE /\ line \notin {<<"cmd">>, <<"ask">>, <<"redir">>, <<"exec">>}
           /\ Say(<<"data">>, Back) /\ failed' = inExec /\ UNCHANGED <<commanding, inExec>>
  <2>1. WireInv' /\ Down' = Down \o <<"data">> /\ Place' = Back
    BY <1>1, <1>2, <1>8, AnswerKeeps
  <2> QED
    BY <1>8, <2>1 DEF Dispatched
<1> QED
  BY <1>3, <1>4, <1>5, <1>6, <1>7, <1>8 DEF DoCommand

\* What comes of a line.
TakenLine(line) ==
  \/ /\ aborted' /\ Down' = Down /\ Place' = Place /\ UNCHANGED <<inExec, failed>>
  \/ /\ ~aborted' /\ spc \in {"getcmd", "getexec"} /\ Dispatched(line)
  \/ /\ ~aborted' /\ spc = "getarg" /\ Down' = Down \o <<"data">> /\ Place' = Back
     /\ UNCHANGED <<inExec, failed>>
  \/ /\ ~aborted' /\ spc = "drain" /\ Down' = Down /\ Place' = Place
     /\ UNCHANGED <<inExec, failed>>

\* recvclient() takes a line.
LEMMA TakeLineKeeps ==
  ASSUME WireInv, TakeLine
  PROVE  WireInv' /\ TakenLine(IoqLine(inq))
<1>1. /\ spc \in Gets
      /\ \/ aborted' /\ UNCHANGED <<outq, spc, goes, inExec, failed, commanding>>
         \/ ~aborted' /\ spc \in {"getcmd", "getexec"} /\ DoCommand(IoqLine(inq))
         \/ ~aborted' /\ spc = "getarg" /\ Say(<<"data">>, Back) /\ commanding' = FALSE /\ UNCHANGED <<inExec, failed>>
         \/ ~aborted' /\ spc = "drain" /\ UNCHANGED <<outq, spc, goes, inExec, failed, commanding>>
  BY DEF TakeLine
<1>2. CASE aborted' /\ UNCHANGED <<outq, spc, goes, inExec, failed, commanding>>
  BY <1>2, TakenKeeps DEF TakenLine
<1>3. CASE ~aborted' /\ spc \in {"getcmd", "getexec"} /\ DoCommand(IoqLine(inq))
  <2>1. WireInv' /\ Dispatched(IoqLine(inq))
    BY <1>3, DispatchKeeps
  <2> QED
    BY <1>3, <2>1 DEF TakenLine
<1>4. CASE ~aborted' /\ spc = "getarg" /\ Say(<<"data">>, Back) /\ commanding' = FALSE /\ UNCHANGED <<inExec, failed>>
  <2>1. <<"data">> \in Seq(Output) /\ Back \in Places \ {"closing", "gone"}
    BY Sayings
  <2>2. inExec' \in BOOLEAN /\ failed' \in BOOLEAN /\ commanding' \in BOOLEAN
    BY <1>4 DEF WireInv, ServerTypes
  <2>3. WireInv' /\ Down' = Down \o <<"data">> /\ Place' = Back
    BY <1>4, <2>1, <2>2, AnswerKeeps
  <2> QED
    BY <1>4, <2>3 DEF TakenLine
<1>5. CASE ~aborted' /\ spc = "drain" /\ UNCHANGED <<outq, spc, goes, inExec, failed, commanding>>
  BY <1>5, TakenKeeps DEF TakenLine
<1> QED
  BY <1>1, <1>2, <1>3, <1>4, <1>5

-----------------------------------------------------------------------------
\* Nothing is under way at first.
LEMMA StartKeeps == ASSUME WireInit PROVE WireInv /\ Up = <<>> /\ Down = <<>> /\ Place = "status"
<1>1. /\ QueueIs(inq, Input) /\ inq.last = 0 /\ Content(inq) = <<>>
      /\ QueueIs(outq, Output) /\ outq.last = 0 /\ outq.cc = 0 /\ Content(outq) = <<>>
  BY EmptyQueueIs DEF WireInit, WireAtRest
<1>2. typed \in Seq(Input)
  BY InputAssumption DEF WireInit
<1>3. /\ \A S : <<>> \in Seq(S)
      /\ Len(<<>>) = 0
  OBVIOUS
<1>4. RingSize \in Nat /\ SockSize \in Nat /\ 0 <= RingSize /\ 0 <= SockSize
  BY WireAssumption
<1>5. ClientTypes
  BY <1>2, <1>3, <1>4 DEF WireInit, WireAtRest, ClientTypes
<1>6. ServerTypes
  <2>1. outq.last <= outq.cc
    BY <1>1
  <2>2. spc \in Places \cup {"output"} /\ goes \in Places
    BY DEF WireInit, WireAtRest, Places
  <2>3. /\ inExec \in BOOLEAN /\ failed \in BOOLEAN /\ commanding \in BOOLEAN
        /\ aborted \in BOOLEAN /\ gotCtld \in BOOLEAN /\ ioEof \in BOOLEAN
    BY DEF WireInit, WireAtRest
  <2> QED
    BY <1>1, <2>1, <2>2, <2>3 DEF ServerTypes
<1>7. BetweenTypes
  BY <1>3, <1>4 DEF WireInit, WireAtRest, BetweenTypes
<1>8. Up = <<>> /\ Down = <<>> /\ Place = "status"
  <2>1. <<>> \o <<>> \o <<>> = <<>> /\ <<>> \o <<>> = <<>>
    OBVIOUS
  <2> QED
    BY <1>1, <2>1 DEF WireInit, WireAtRest, Up, Down, Place
<1>9. Pipes
  BY <1>8 DEF WireInit, WireAtRest, Pipes
<1> QED
  BY <1>5, <1>6, <1>7, <1>8, <1>9 DEF WireInv

\* Nothing happens.
LEMMA StutterKeeps == ASSUME WireInv, UNCHANGED wireVars PROVE WireInv' /\ Up' = Up /\ Down' = Down /\ Place' = Place
<1>1. UNCHANGED <<clientVars, serverVars, flow, toServer, toClient, rushed, interrupts>>
  BY DEF wireVars
<1>2. UNCHANGED <<inq, outq, spc, goes, inExec, failed, commanding, aborted, gotCtld, ioEof>>
  BY <1>1 DEF serverVars
<1>3. ClientTypes' /\ inbuf' = inbuf /\ partial' = partial /\ lineEnds' = lineEnds /\ glued' = glued
  BY <1>1, ClientStays DEF WireInv
<1>4. Up' = Up /\ Down' = Down /\ Place' = Place
  BY <1>1, <1>2, <1>3, WaysStay
<1>5. ServerTypes' /\ BetweenTypes'
  BY <1>1, <1>2 DEF WireInv, ServerTypes, BetweenTypes
<1>6. Pipes'
  BY <1>1, <1>2, <1>3, <1>4 DEF WireInv, Pipes
<1> QED
  BY <1>3, <1>4, <1>5, <1>6 DEF WireInv

\* Every step keeps types and pipes.
LEMMA StepKeeps == ASSUME WireInv, [WireNext]_wireVars PROVE WireInv'
<1>1. CASE WireNext
  BY <1>1, FillSetsKeeps, SelectReturnsKeeps, IntrKeeps, PutCookiesKeeps, ReadInputKeeps, SendInputKeeps,
     RecvOutputKeeps, OutputSomeKeeps, PromptKeeps, LoopKeeps, FlushOutputKeeps, IoInputKeeps, TakeLineKeeps,
     TakeNothingKeeps, ExecuteKeeps, ServerAbortsKeeps, CloseKeeps DEF WireNext
<1>2. CASE UNCHANGED wireVars
  BY <1>2, StutterKeeps
<1> QED
  BY <1>1, <1>2

\* The invariant: the I/O queues are what ioqueue.c makes them, types, and
\* what is under way to the server is what was put into the ring (play(),
\* recv_input(), io_input(), ioq_gets()).
THEOREM Carries == WireSpec => []WireInv
<1>1. WireInit => WireInv
  BY StartKeeps
<1>2. WireInv /\ [WireNext]_wireVars => WireInv'
  BY StepKeeps
<1> QED
  BY <1>1, <1>2, PTL DEF WireSpec

\* Queues, buffers and connection hold what they can (WireTypeOK), cookies
\* are lines of their own (CookiesStandAlone), and what was put into the ring
\* arrives in order (InputArrives).
THEOREM InputAsTyped == WireSpec => [](WireTypeOK /\ CookiesStandAlone /\ InputArrives)
<1>1. WireInv => WireTypeOK /\ CookiesStandAlone /\ InputArrives
  <2> SUFFICES ASSUME WireInv PROVE WireTypeOK /\ CookiesStandAlone /\ InputArrives
    OBVIOUS
  <2>1. QueueOK(inq, Input) /\ QueueOK(outq, Output)
    <3>1. QueueIs(inq, Input) /\ QueueIs(outq, Output) /\ inq.last <= inq.cc /\ outq.last <= outq.cc
      <4>1. QueueIs(inq, Input) /\ QueueIs(outq, Output) /\ inq.last = 0 /\ outq.last <= outq.cc
        BY DEF WireInv, ServerTypes
      <4>2. inq.cc \in Nat
        BY <4>1, QueueHolds
      <4> QED
        BY <4>1, <4>2
    <3> QED
      BY <3>1, QueueHolds
  <2>2. /\ toClient \in Seq(Output) /\ Len(toClient) <= SockSize
    BY DEF WireInv, BetweenTypes
  <2>3. WireTypeOK
    BY <2>1, <2>2 DEF WireTypeOK, WireInv, ClientTypes, BetweenTypes
  <2>4. CookiesStandAlone /\ InputArrives
    BY DEF CookiesStandAlone, InputArrives, WireInv, Pipes, Up
  <2> QED
    BY <2>3, <2>4
<1> QED
  BY <1>1, Carries, PTL

-----------------------------------------------------------------------------
(* Where the player's thread can be, and when it is told of EOF *)

Server ==
  /\ inExec => Place \in {"exec", "getexec", "getarg", "drain"}
  /\ ~inExec => Place \in {"status", "getcmd", "getarg", "loop", "closing", "gone"}
  /\ gotCtld => inExec \/ aborted \/ ioEof
  /\ ioEof => aborted \/ Place \in {"status", "closing", "gone"}

\* What the client does does not move the server.
LEMMA ServerStays ==
  ASSUME Server, UNCHANGED <<inExec, gotCtld, aborted, ioEof>>, Place' = Place
  PROVE  Server'
BY DEF Server

\* What the client does
ClientStep == FillSets \/ SelectReturns \/ Intr \/ PutCookies \/ ReadInput \/ SendInput \/ RecvOutput

\* The client's steps leave the server's variables alone.
LEMMA ClientSteps ==
  ASSUME WireInv, ClientStep
  PROVE  /\ Place' = Place
         /\ UNCHANGED <<inq, outq, spc, goes, inExec, failed, commanding, aborted, gotCtld, ioEof>>
<1>1. UNCHANGED serverVars
  BY DEF ClientStep, FillSets, SelectReturns, Intr, PutCookies, ReadInput, SendInput, RecvOutput
<1>2. UNCHANGED <<inq, outq, spc, goes, inExec, failed, commanding, aborted, gotCtld, ioEof>>
  BY <1>1 DEF serverVars
<1> QED
  BY <1>2, WaysStay

\* What lines and their ends do to the server (recvclient(), dispatch()).
LEMMA ServerKeeps == ASSUME WireInv, Server, [WireNext]_wireVars PROVE Server'
<1>0. /\ inExec \in BOOLEAN /\ gotCtld \in BOOLEAN /\ aborted \in BOOLEAN /\ ioEof \in BOOLEAN
  BY DEF WireInv, ServerTypes
<1>1. CASE ClientStep
  BY <1>1, ClientSteps, ServerStays
<1>2. CASE OutputSome
  <2>1. Place' = Place /\ UNCHANGED <<inExec, gotCtld, aborted, ioEof>>
    BY <1>2, OutputSomeKeeps DEF OutputSome
  <2> QED
    BY <2>1, ServerStays
<1>3. CASE Prompt
  <2>1. UNCHANGED <<inExec, gotCtld, aborted, ioEof>> /\ spc = "status" /\ Place = "status"
    BY <1>3 DEF Prompt, Place
  <2>2. (ioEof => Place' = "closing") /\ (~ioEof => Place' = "getcmd")
    BY <1>3, PromptKeeps
  <2> QED
    BY <1>0, <2>1, <2>2 DEF Server
<1>4. CASE Loop
  <2>1. UNCHANGED <<inExec, gotCtld>> /\ Place = "loop" /\ ioEof' = (ioEof \/ gotCtld) /\ aborted' = FALSE
    BY <1>4 DEF Loop, Place
  <2>2. Place' = "status"
    BY <1>4, LoopKeeps
  <2>3. ~inExec
    BY <2>1 DEF Server
  <2>4. gotCtld => ioEof'
    BY <2>1
  <2> QED
    BY <1>0, <2>1, <2>2, <2>3, <2>4 DEF Server
<1>5. CASE FlushOutput
  <2>1. Place' = Place /\ UNCHANGED <<inExec, gotCtld, aborted, ioEof>>
    BY <1>5, FlushOutputKeeps DEF FlushOutput
  <2> QED
    BY <2>1, ServerStays
<1>6. CASE IoInput
  <2>1. Place' = Place /\ UNCHANGED <<inExec, gotCtld>> /\ ~aborted
    BY <1>6, IoInputKeeps DEF IoInput, Waits
  <2>2. UNCHANGED <<ioEof, aborted>> \/ (ioEof' = TRUE /\ aborted' = TRUE)
    BY <1>6 DEF IoInput
  <2> QED
    BY <1>0, <2>1, <2>2 DEF Server
<1>7. CASE TakeLine
  <2> DEFINE line == IoqLine(inq)
  <2>1. spc \in Gets /\ ~aborted /\ GotLine(line) /\ UNCHANGED ioEof /\ TakenLine(line)
    BY <1>7, LineIs, TakeLineKeeps
  <2>2. Place = spc /\ ~ioEof /\ ~ioEof'
    BY <2>1 DEF Place, Gets, Server
  <2>3. gotCtld => inExec
    BY <2>1, <2>2 DEF Server
  <2>4. gotCtld' => gotCtld \/ aborted'
    BY <2>1 DEF GotLine
  <2>5. /\ (inExec => Place \in {"exec", "getexec", "getarg", "drain"})
        /\ (~inExec => Place \in {"status", "getcmd", "getarg", "loop", "closing", "gone"})
    BY DEF Server
  <2> HIDE DEF line
  <2>6. CASE aborted' /\ Place' = Place /\ UNCHANGED <<inExec, failed>>
    BY <1>0, <2>2, <2>3, <2>4, <2>5, <2>6 DEF Server
  <2>7. CASE ~aborted' /\ spc \in {"getcmd", "getexec"} /\ Dispatched(line)
    <3>1. (inExec => inExec') /\ (Place' \in {Back, "getarg", "exec"})
      BY <2>7 DEF Dispatched
    <3>2. inExec' = inExec \/ (inExec' = TRUE /\ Place' = "exec")
      BY <2>7 DEF Dispatched
    <3>3. Place' = "exec" => inExec'
      BY <2>7, <3>2 DEF Dispatched, Back
    <3> QED
      BY <1>0, <2>2, <2>3, <2>4, <2>7, <3>1, <3>2, <3>3 DEF Server, Back
  <2>8. CASE ~aborted' /\ spc = "getarg" /\ Place' = Back /\ UNCHANGED <<inExec, failed>>
    BY <1>0, <2>2, <2>3, <2>4, <2>8 DEF Server, Back
  <2>9. CASE ~aborted' /\ spc = "drain" /\ Place' = Place /\ UNCHANGED <<inExec, failed>>
    BY <1>0, <2>2, <2>3, <2>4, <2>5, <2>9 DEF Server
  <2> QED
    BY <2>1, <2>6, <2>7, <2>8, <2>9 DEF TakenLine
<1>8. CASE TakeNothing
  <2>1. /\ spc \in Gets /\ Place = spc /\ aborted /\ UNCHANGED <<aborted, ioEof>>
        /\ \/ spc = "getcmd" /\ Place' = "loop" /\ UNCHANGED <<inExec, gotCtld>>
           \/ spc = "getarg" /\ Place' = Back /\ UNCHANGED <<inExec, gotCtld>>
           \/ spc \in {"getexec", "drain"} /\ Place' = "loop" /\ inExec' = FALSE /\ gotCtld' = FALSE
    BY <1>8, TakeNothingKeeps
  <2> QED
    BY <1>0, <2>1 DEF Server, Back
<1>9. CASE Execute
  <2>1. /\ Place = "exec" /\ UNCHANGED <<aborted, ioEof>>
        /\ \/ Place' = (IF failed THEN "drain" ELSE "getexec") /\ UNCHANGED <<inExec, gotCtld>>
           \/ (ioEof \/ gotCtld) /\ Place' = "loop" /\ inExec' = FALSE /\ gotCtld' = FALSE
    BY <1>9, ExecuteKeeps
  <2>2. inExec /\ (ioEof => aborted)
    BY <2>1 DEF Server
  <2> QED
    BY <1>0, <2>1, <2>2 DEF Server
<1>10. CASE ServerAborts
  <2>1. Place' = Place /\ UNCHANGED <<inExec, gotCtld, ioEof>> /\ aborted' = TRUE
    BY <1>10, ServerAbortsKeeps DEF ServerAborts
  <2> QED
    BY <1>0, <2>1 DEF Server
<1>11. CASE Close
  <2>1. Place = "closing" /\ Place' \in {"closing", "gone"} /\ UNCHANGED <<inExec, gotCtld, aborted, ioEof>>
    BY <1>11, CloseKeeps
  <2> QED
    BY <1>0, <2>1 DEF Server
<1>12. CASE UNCHANGED wireVars
  <2>1. Place' = Place /\ UNCHANGED <<inExec, gotCtld, aborted, ioEof>>
    BY <1>12, StutterKeeps DEF wireVars, serverVars
  <2> QED
    BY <2>1, ServerStays
<1> QED
  BY <1>1, <1>2, <1>3, <1>4, <1>5, <1>6, <1>7, <1>8, <1>9, <1>10, <1>11, <1>12 DEF WireNext, ClientStep

-----------------------------------------------------------------------------
(* Redirection.  The client may be redirecting output when it has seen the *)
(* first k of what is under way to it: it is now, or a C_REDIR is among    *)
(* them, and no prompt behind that.                                        *)

MayRedirect(r, d, k) ==
  \/ r /\ \A i \in 1..k : d[i] # "C_PROMPT"
  \/ \E i \in 1..k : d[i] = "C_REDIR" /\ \A j \in i..k : d[j] # "C_PROMPT"

Clean(r, d) == \A k \in 1..Len(d) : d[k] = "data" => ~MayRedirect(r, d, k)

\* What is said comes last.
LEMMA CleanGrows ==
  ASSUME NEW r \in BOOLEAN, NEW d \in Seq(Output), NEW x \in Output, NEW e, e = Append(d, x), Clean(r, d),
         x = "data" => ~MayRedirect(r, d, Len(d))
  PROVE  /\ Clean(r, e) /\ e \in Seq(Output)
         /\ MayRedirect(r, e, Len(e)) => x = "C_REDIR" \/ (x # "C_PROMPT" /\ MayRedirect(r, d, Len(d)))
<1>1. /\ e \in Seq(Output) /\ Len(e) = Len(d) + 1 /\ Len(d) \in Nat
      /\ \A i \in 1..Len(d) : e[i] = d[i]
      /\ e[Len(d) + 1] = x
  OBVIOUS
<1>2. \A k \in 0..Len(d) : MayRedirect(r, e, k) <=> MayRedirect(r, d, k)
  <2> TAKE k \in 0..Len(d)
  <2>1. \A i \in 1..k : i \in 1..Len(d) /\ \A j \in i..k : j \in 1..Len(d)
    BY <1>1
  <2>2. \A i \in 1..k : e[i] = d[i] /\ \A j \in i..k : e[j] = d[j]
    BY <1>1, <2>1
  <2>3. (\A i \in 1..k : e[i] # "C_PROMPT") <=> (\A i \in 1..k : d[i] # "C_PROMPT")
    BY <2>2
  <2>4. ASSUME NEW i \in 1..k
        PROVE  (e[i] = "C_REDIR" /\ \A j \in i..k : e[j] # "C_PROMPT") <=> (d[i] = "C_REDIR" /\ \A j \in i..k : d[j] # "C_PROMPT")
    BY <2>2
  <2> QED
    BY <2>3, <2>4 DEF MayRedirect
<1>3. MayRedirect(r, e, Len(d) + 1) => x = "C_REDIR" \/ (x # "C_PROMPT" /\ MayRedirect(r, e, Len(d)))
  <2> SUFFICES ASSUME MayRedirect(r, e, Len(d) + 1), x # "C_REDIR"
               PROVE  x # "C_PROMPT" /\ MayRedirect(r, e, Len(d))
    OBVIOUS
  <2>1. CASE r /\ \A i \in 1..Len(d) + 1 : e[i] # "C_PROMPT"
    <3>1. Len(d) + 1 \in 1..Len(d) + 1 /\ \A i \in 1..Len(d) : i \in 1..Len(d) + 1
      BY <1>1
    <3> QED
      BY <1>1, <2>1, <3>1 DEF MayRedirect
  <2>2. CASE \E i \in 1..Len(d) + 1 : e[i] = "C_REDIR" /\ \A j \in i..Len(d) + 1 : e[j] # "C_PROMPT"
    <3>1. PICK i \in 1..Len(d) + 1 : e[i] = "C_REDIR" /\ \A j \in i..Len(d) + 1 : e[j] # "C_PROMPT"
      BY <2>2
    <3>2. i # Len(d) + 1
      BY <1>1, <3>1
    <3>3. i \in 1..Len(d) /\ Len(d) + 1 \in i..Len(d) + 1 /\ \A j \in i..Len(d) : j \in i..Len(d) + 1
      BY <1>1, <3>1, <3>2
    <3> QED
      BY <1>1, <3>1, <3>3 DEF MayRedirect
  <2> QED
    BY <2>1, <2>2 DEF MayRedirect
<1>4. Len(d) \in 0..Len(d)
  BY <1>1
<1>5. ASSUME NEW k \in 1..Len(e), e[k] = "data" PROVE ~MayRedirect(r, e, k)
  <2>1. CASE k \in 1..Len(d)
    <3>1. k \in 0..Len(d) /\ d[k] = "data"
      BY <1>1, <1>5, <2>1
    <3> QED
      BY <1>2, <2>1, <3>1 DEF Clean
  <2>2. CASE k = Len(d) + 1
    <3>1. x = "data"
      BY <1>1, <1>5, <2>2
    <3> QED
      BY <1>2, <1>3, <1>4, <2>2, <3>1
  <2> QED
    BY <1>1, <2>1, <2>2
<1> QED
  BY <1>1, <1>2, <1>3, <1>4, <1>5 DEF Clean

\* The client sees the first of it (servercmd()).
LEMMA CleanSeen ==
  ASSUME NEW r \in BOOLEAN, NEW d \in Seq(Output), d # <<>>, Clean(r, d), NEW p \in BOOLEAN,
         p => d[1] = "C_REDIR" \/ (r /\ d[1] # "C_PROMPT")
  PROVE  /\ Clean(p, Tail(d))
         /\ MayRedirect(p, Tail(d), Len(Tail(d))) => MayRedirect(r, d, Len(d))
<1> DEFINE e == Tail(d)
<1>1. /\ Len(d) \in Nat \ {0} /\ Len(e) = Len(d) - 1 /\ Len(e) \in Nat
      /\ \A i \in 1..Len(e) : e[i] = d[i + 1] /\ i + 1 \in 1..Len(d)
  OBVIOUS
<1> HIDE DEF e
<1>2. ASSUME NEW k \in 0..Len(e), MayRedirect(p, e, k) PROVE MayRedirect(r, d, k + 1)
  <2>1. CASE p /\ \A i \in 1..k : e[i] # "C_PROMPT"
    <3>1. ASSUME NEW j \in 2..k + 1 PROVE d[j] # "C_PROMPT"
      <4>1. PICK i \in 1..k : i + 1 = j
        <5>1. j - 1 \in 1..k /\ (j - 1) + 1 = j
          BY <1>1
        <5> QED
          BY <5>1
      <4>2. i \in 1..Len(e)
        BY <1>1
      <4> QED
        BY <1>1, <2>1, <4>1, <4>2
    <3>2. d[1] # "C_PROMPT"
      BY <2>1
    <3>3. \A j \in 1..k + 1 : d[j] # "C_PROMPT"
      <4>1. \A j \in 1..k + 1 : j = 1 \/ j \in 2..k + 1
        BY <1>1
      <4> QED
        BY <3>1, <3>2, <4>1
    <3>4. 1 \in 1..k + 1
      BY <1>1
    <3> QED
      BY <2>1, <3>3, <3>4 DEF MayRedirect
  <2>2. CASE \E i \in 1..k : e[i] = "C_REDIR" /\ \A j \in i..k : e[j] # "C_PROMPT"
    <3>1. PICK i \in 1..k : e[i] = "C_REDIR" /\ \A j \in i..k : e[j] # "C_PROMPT"
      BY <2>2
    <3>2. i + 1 \in 1..k + 1 /\ i \in 1..Len(e)
      BY <1>1
    <3>3. ASSUME NEW j \in i + 1..k + 1 PROVE d[j] # "C_PROMPT"
      <4>1. PICK h \in i..k : h + 1 = j
        <5>1. j - 1 \in i..k /\ (j - 1) + 1 = j
          BY <1>1
        <5> QED
          BY <5>1
      <4>2. h \in 1..Len(e)
        BY <1>1
      <4> QED
        BY <1>1, <3>1, <4>1, <4>2
    <3>4. d[i + 1] = "C_REDIR"
      BY <1>1, <3>1, <3>2
    <3> QED
      BY <3>2, <3>3, <3>4 DEF MayRedirect
  <2> QED
    BY <1>2, <2>1, <2>2 DEF MayRedirect
<1>3. Clean(p, e)
  <2> SUFFICES ASSUME NEW k \in 1..Len(e), e[k] = "data" PROVE ~MayRedirect(p, e, k)
    BY DEF Clean
  <2>1. k + 1 \in 1..Len(d) /\ d[k + 1] = "data" /\ k \in 0..Len(e)
    BY <1>1
  <2> QED
    BY <1>2, <2>1 DEF Clean
<1>4. Len(e) \in 0..Len(e) /\ Len(e) + 1 = Len(d)
  BY <1>1
<1> QED
  BY <1>2, <1>3, <1>4 DEF e

\* The server is where nothing is redirected any more when it next reads.
Resting == Place \in {"status", "loop"} /\ ~gotCtld /\ ~ioEof /\ ~inExec

RedirInv ==
  /\ Clean(redir, Down)
  /\ MayRedirect(redir, Down, Len(Down)) => Resting

\* A step without output
LEMMA RedirStays ==
  ASSUME RedirInv, Down' = Down, redir' = redir, Resting => Resting'
  PROVE  RedirInv'
BY DEF RedirInv

\* What is said while output cannot be redirected, or the end of what is.
LEMMA RedirSays ==
  ASSUME WireInv, RedirInv, redir' = redir, NEW x \in Output \ {"C_REDIR"}, Down' = Down \o <<x>>, x = "C_PROMPT" \/ ~Resting
  PROVE  RedirInv' /\ ~MayRedirect(redir', Down', Len(Down'))
<1>1. redir \in BOOLEAN /\ Down \in Seq(Output)
  BY WaysAre DEF WireInv, ClientTypes
<1>2. Down' = Append(Down, x)
  BY <1>1, AppendIsConcat
<1>3. Clean(redir, Down) /\ (x = "C_PROMPT" \/ ~MayRedirect(redir, Down, Len(Down)))
  BY DEF RedirInv
<1>4. x = "data" => ~MayRedirect(redir, Down, Len(Down))
  BY <1>3
<1>5. /\ Clean(redir, Down')
      /\ MayRedirect(redir, Down', Len(Down')) => x = "C_REDIR" \/ (x # "C_PROMPT" /\ MayRedirect(redir, Down, Len(Down)))
  BY <1>1, <1>2, <1>3, <1>4, CleanGrows
<1> QED
  BY <1>3, <1>5 DEF RedirInv

\* servercmd() gets a line of output at a time, the first of what is under way.
Gotten ==
  \/ /\ Head(Down) \in {"data", "data>"}
     /\ UNCHANGED <<redir, executing, asked, inputFd, batch, sendIntr, gripes, opened>>
  \/ /\ Head(Down) = "C_PROMPT" /\ ShowPrompt
     /\ UNCHANGED <<inputFd, batch, sendIntr, gripes, opened>>
  \/ /\ Head(Down) = "C_FLUSH" /\ asked' = (asked \/ ~executing)
     /\ UNCHANGED <<redir, executing, inputFd, batch, sendIntr, gripes, opened>>
  \/ /\ Head(Down) = "C_REDIR"
     /\ \E opens \in BOOLEAN : redir' = (redir \/ (RedirAuthorized /\ opens))
     /\ UNCHANGED <<executing, asked, inputFd, batch, sendIntr, gripes, opened>>
  \/ /\ Head(Down) = "C_EXECUTE"
     /\ \E opens \in BOOLEAN : DoExecute(opens)
     /\ UNCHANGED <<redir, asked>>

\* What recv_output() does with it.
LEMMA GottenIs ==
  ASSUME WireInv, RecvOutput
  PROVE  \/ /\ Down' = Down /\ toClient' = toClient
            /\ UNCHANGED <<redir, executing, asked, inputFd, batch, sendIntr, gripes, opened>>
            /\ "sock" \in want => cpc' = "gone"
            /\ "sock" \notin want => cpc' = "top"
         \/ /\ Down # <<>> /\ Down' = Tail(Down) /\ Gotten
            /\ cpc' = IF gripes' = {} THEN "top" ELSE "gone"
<1>1. CASE "sock" \notin want \/ toClient = <<>>
  <2>1. /\ toClient' = toClient /\ ("sock" \in want => cpc' = "gone") /\ ("sock" \notin want => cpc' = "top")
        /\ UNCHANGED <<redir, executing, asked, inputFd, batch, sendIntr, gripes, opened>>
    BY <1>1 DEF RecvOutput
  <2> QED
    BY <2>1, RecvOutputKeeps
<1>2. CASE "sock" \in want /\ toClient # <<>>
  <2>1. toClient' = Tail(toClient)
    BY <1>2 DEF RecvOutput
  <2>2. toClient \in Seq(Output)
    BY DEF WireInv, BetweenTypes
  <2>3. Len(Tail(toClient)) = Len(toClient) - 1 /\ Len(toClient) \in Nat
    BY <1>2, <2>2, HeadTailProperties
  <2>4. toClient' # toClient
    BY <2>1, <2>3
  <2>5. Down # <<>> /\ Down' = Tail(Down) /\ Head(Down) = Head(toClient)
    BY <2>1, <2>4, RecvOutputKeeps
  <2>6. cpc' = (IF gripes' = {} THEN "top" ELSE "gone")
    BY <1>2 DEF RecvOutput
  <2>7. Gotten
    BY <1>2, <2>5 DEF RecvOutput, Gotten
  <2> QED
    BY <2>5, <2>6, <2>7
<1> QED
  BY <1>1, <1>2

\* Output is redirected between a prompt and the next only.
LEMMA RedirKeeps == ASSUME WireInv, Server, RedirInv, [WireNext]_wireVars PROVE RedirInv'
<1>0. redir \in BOOLEAN /\ redir' \in BOOLEAN /\ Down \in Seq(Output) /\ Len(Down) \in Nat
  <2>1. WireInv'
    BY StepKeeps
  <2> QED
    BY <2>1, WaysAre DEF WireInv, ClientTypes
<1>1. CASE ClientStep
  <2>1. Place' = Place /\ UNCHANGED <<gotCtld, ioEof, inExec>>
    BY <1>1, ClientSteps
  <2>2. Resting' = Resting
    BY <2>1 DEF Resting
  <2>3. CASE FillSets \/ SelectReturns \/ Intr \/ PutCookies \/ ReadInput \/ SendInput
    <3>1. redir' = redir
      BY <2>3 DEF FillSets, SelectReturns, Intr, PutCookies, ReadInput, SendInput
    <3>2. Down' = Down
      BY <2>3, FillSetsKeeps, SelectReturnsKeeps, IntrKeeps, PutCookiesKeeps, ReadInputKeeps, SendInputKeeps
    <3> QED
      BY <2>2, <3>1, <3>2, RedirStays
  <2>4. CASE RecvOutput /\ Down' = Down /\ redir' = redir
    BY <2>2, <2>4, RedirStays
  <2>5. CASE Down # <<>> /\ Down' = Tail(Down) /\ Gotten
    <3>1. redir' => Head(Down) = "C_REDIR" \/ (redir /\ Head(Down) # "C_PROMPT")
      BY <1>0, <2>5 DEF Gotten, ShowPrompt
    <3>2. Head(Down) = Down[1]
      OBVIOUS
    <3>3. Clean(redir, Down)
      BY DEF RedirInv
    <3>4. Clean(redir', Tail(Down)) /\ (MayRedirect(redir', Tail(Down), Len(Tail(Down))) => MayRedirect(redir, Down, Len(Down)))
      BY <1>0, <2>5, <3>1, <3>2, <3>3, CleanSeen
    <3> QED
      BY <2>2, <2>5, <3>4 DEF RedirInv
  <2> QED
    BY <1>1, <2>3, <2>4, <2>5, GottenIs DEF ClientStep
<1>2. CASE OutputSome \/ FlushOutput \/ ServerAborts
  <2>1. Down' = Down /\ Place' = Place /\ UNCHANGED <<gotCtld, ioEof, inExec, clientVars>>
    BY <1>2, OutputSomeKeeps, FlushOutputKeeps, ServerAbortsKeeps DEF OutputSome, FlushOutput, ServerAborts
  <2> QED
    BY <2>1, RedirStays DEF Resting, clientVars
<1>3. CASE Prompt
  <2>1. UNCHANGED <<inExec, gotCtld, ioEof, clientVars>> /\ (ioEof => Down' = Down \o <<"data">>)
        /\ (~ioEof => Down' = Down \o <<"C_PROMPT">>)
    BY <1>3, PromptKeeps DEF Prompt
  <2>2. redir' = redir
    BY <2>1 DEF clientVars
  <2>3. "data" \in Output \ {"C_REDIR"} /\ "C_PROMPT" \in Output \ {"C_REDIR"}
    BY DEF Output
  <2>4. ioEof => ~Resting
    BY DEF Resting
  <2> QED
    BY <2>1, <2>2, <2>3, <2>4, RedirSays
<1>4. CASE Loop
  <2>1. UNCHANGED <<inExec, gotCtld, clientVars>> /\ ioEof' = (ioEof \/ gotCtld) /\ Down' = Down /\ Place' = "status"
    BY <1>4, LoopKeeps DEF Loop
  <2> QED
    BY <2>1, RedirStays DEF Resting, clientVars
<1>5. CASE IoInput
  <2>1. Down' = Down /\ redir' = redir /\ ~Resting
    BY <1>5, IoInputKeeps DEF Resting, Gets, IoInput, clientVars
  <2> QED
    BY <2>1, RedirStays
<1>6. CASE TakeLine
  <2> DEFINE line == IoqLine(inq)
  <2>1. spc \in Gets /\ ~aborted /\ GotLine(line) /\ UNCHANGED ioEof /\ TakenLine(line) /\ redir' = redir
    BY <1>6, LineIs, TakeLineKeeps DEF clientVars
  <2> HIDE DEF line
  <2>2. Place = spc /\ ~ioEof /\ ~Resting
    BY <2>1 DEF Place, Gets, Server, Resting
  <2>3. CASE Down' = Down
    BY <2>1, <2>2, <2>3, RedirStays
  <2>4. ASSUME NEW x \in {"data", "C_FLUSH", "C_EXECUTE"}, Down' = Down \o <<x>>
        PROVE  RedirInv'
    <3>1. x \in Output \ {"C_REDIR"}
      BY DEF Output
    <3> QED
      BY <2>1, <2>2, <2>4, <3>1, RedirSays
  <2>5. CASE ~aborted' /\ line = <<"redir">> /\ ~inExec /\ Down' = Down \o <<"C_REDIR", "data>">> /\ Place' = Back /\ UNCHANGED inExec
    <3>1. ~gotCtld
      BY <2>1, <2>2, <2>5 DEF Server
    <3>2. ~gotCtld'
      BY <2>1, <2>5, <3>1 DEF GotLine
    <3>3. Resting'
      BY <2>1, <2>2, <2>5, <3>2 DEF Resting, Back
    <3> DEFINE e == Append(Down, "C_REDIR")
    <3>4. Clean(redir, Down) /\ ~MayRedirect(redir, Down, Len(Down))
      BY <2>2 DEF RedirInv
    <3>5. "C_REDIR" \in Output /\ "data>" \in Output
      BY DEF Output
    <3>6. Clean(redir, e) /\ e \in Seq(Output)
      BY <1>0, <3>4, <3>5, CleanGrows
    <3>7. Down' = Append(e, "data>")
      BY <1>0, <2>5, <3>5
    <3> HIDE DEF e
    <3>8. Clean(redir, Down')
      BY <1>0, <3>5, <3>6, <3>7, CleanGrows
    <3> QED
      BY <2>1, <3>3, <3>8 DEF RedirInv
  <2>6. ASSUME Dispatched(line), ~aborted' PROVE RedirInv'
    BY <2>4, <2>5, <2>6 DEF Dispatched
  <2> QED
    BY <2>1, <2>3, <2>4, <2>6 DEF TakenLine
<1>7. CASE TakeNothing
  <2>1. spc \in Gets /\ Place = spc /\ (Down' = Down \/ Down' = Down \o <<"data">>) /\ UNCHANGED clientVars
    BY <1>7, TakeNothingKeeps
  <2>2. ~Resting /\ redir' = redir
    BY <2>1 DEF Resting, Gets, clientVars
  <2>3. "data" \in Output \ {"C_REDIR"}
    BY DEF Output
  <2> QED
    BY <2>1, <2>2, <2>3, RedirStays, RedirSays
<1>8. CASE Execute
  <2>1. Place = "exec" /\ (Down' = Down \/ Down' = Down \o <<"data">>) /\ UNCHANGED clientVars
    BY <1>8, ExecuteKeeps DEF Execute
  <2>2. ~Resting /\ redir' = redir
    BY <2>1 DEF Resting, clientVars
  <2>3. "data" \in Output \ {"C_REDIR"}
    BY DEF Output
  <2> QED
    BY <2>1, <2>2, <2>3, RedirStays, RedirSays
<1>9. CASE Close
  <2>1. Down' = Down /\ Place = "closing" /\ UNCHANGED clientVars
    BY <1>9, CloseKeeps
  <2> QED
    BY <2>1, RedirStays DEF Resting, clientVars
<1>10. CASE UNCHANGED wireVars
  <2>1. Down' = Down /\ Place' = Place /\ UNCHANGED <<gotCtld, ioEof, inExec, redir>>
    BY <1>10, StutterKeeps DEF wireVars, serverVars, clientVars
  <2> QED
    BY <2>1, RedirStays DEF Resting
<1> QED
  BY <1>1, <1>2, <1>3, <1>4, <1>5, <1>6, <1>7, <1>8, <1>9, <1>10 DEF WireNext, ClientStep

\* The invariant with where the server is, and what it may redirect.
THEOREM WireInvariance == WireSpec => [](WireInv /\ Server /\ RedirInv)
<1>1. WireInit => WireInv /\ Server /\ RedirInv
  <2> SUFFICES ASSUME WireInit PROVE WireInv /\ Server /\ RedirInv
    OBVIOUS
  <2>1. WireInv /\ Down = <<>> /\ Place = "status"
    BY StartKeeps
  <2>2. ~redir /\ ~inExec /\ ~gotCtld /\ ~ioEof
    BY DEF WireInit, WireAtRest
  <2>3. Server
    BY <2>1, <2>2 DEF Server
  <2>4. Len(Down) = 0 /\ Resting
    BY <2>1, <2>2 DEF Resting
  <2>5. RedirInv
    BY <2>4 DEF RedirInv, Clean
  <2> QED
    BY <2>1, <2>3, <2>5
<1>2. WireInv /\ Server /\ RedirInv /\ [WireNext]_wireVars => (WireInv /\ Server /\ RedirInv)'
  BY StepKeeps, ServerKeeps, RedirKeeps
<1> QED
  BY <1>1, <1>2, PTL DEF WireSpec

\* Output that was not asked to be redirected is never written to a file
\* (servercmd(), dispatch()).
THEOREM RedirectsAsAsked == WireSpec => RedirAsAsked
<1>1. WireInv /\ RedirInv => (toClient # <<>> => (Head(toClient) = "data" => ~redir))
  <2> SUFFICES ASSUME WireInv, RedirInv, toClient # <<>>, Head(toClient) = "data" PROVE ~redir
    OBVIOUS
  <2>1. toClient \in Seq(Output) /\ Content(outq) \in Seq(Output) /\ Len(toClient) \in Nat /\ Len(Content(outq)) \in Nat
    BY WaysAre DEF WireInv
  <2>2. Len(toClient) >= 1 /\ toClient[1] = "data"
    BY <2>1
  <2>3. Down \in Seq(Output) /\ Len(Down) = Len(toClient) + Len(Content(outq)) /\ Down[1] = toClient[1]
    <3>1. 1 \in 1..Len(toClient) + Len(Content(outq)) /\ 1 <= Len(toClient)
      BY <2>1, <2>2
    <3> QED
      BY <2>1, <3>1, ConcatProperties DEF Down
  <2>4. 1 \in 1..Len(Down) /\ Down[1] = "data"
    BY <2>1, <2>2, <2>3
  <2>5. ~MayRedirect(redir, Down, 1)
    BY <2>4 DEF RedirInv, Clean
  <2>6. \A i \in 1..1 : Down[i] # "C_PROMPT"
    BY <2>4
  <2> QED
    BY <2>5, <2>6 DEF MayRedirect
<1>2. (toClient # <<>> => (Head(toClient) = "data" => ~redir)) =>
        [(toClient # <<>> /\ toClient' = Tail(toClient)) => (Head(toClient) = "data" => ~redir)]_wireVars
  OBVIOUS
<1> QED
  BY <1>1, <1>2, WireInvariance, PTL DEF RedirAsAsked

-----------------------------------------------------------------------------
(* What is under way: no such tokens, one line, a batch file's end, nothing *)
(* that would be executed.                                                 *)

Lacks(u, T) == \A i \in 1..Len(u) : u[i] \notin T

OneLine(u) ==
  /\ u # <<>> /\ u[Len(u)] = NL
  /\ \A i \in 1..Len(u) - 1 : u[i] \notin Cookies \cup {NL}

BatchEnds(u) ==
  /\ Len(u) >= 2 /\ u[Len(u) - 1] = "ctldB" /\ u[Len(u)] = NL
  /\ \A i \in 1..Len(u) - 2 : u[i] \notin Cookies
  /\ Len(u) = 2 \/ u[Len(u) - 2] = NL

NoExec(u) ==
  /\ ~(u # <<>> /\ u[1] = "exec" /\ (Len(u) = 1 \/ u[2] = NL))
  /\ \A i \in 1..Len(u) - 1 : u[i] = NL => u[i + 1] # "exec"

\* A line is cut off.
CutOff(u, line, v) ==
  /\ Len(line) \in Nat /\ Len(line) + 1 \in 1..Len(u) /\ u[Len(line) + 1] = NL
  /\ \A i \in 1..Len(line) : u[i] = line[i] /\ u[i] # NL
  /\ v = Drop(u, Len(line) + 1)

CookieLines == {<<"ctld">>, <<"ctldB">>, <<"aborted">>}

\* More of them lacks what they lack.
LacksMore ==
  \A B, T : \A u, s \in Seq(B) : Lacks(u, T) /\ Lacks(s, T) => Lacks(u \o s, T)

\* So it is.
LEMMA LackingMore == LacksMore
<1> SUFFICES ASSUME NEW B, NEW T, NEW u \in Seq(B), NEW s \in Seq(B), Lacks(u, T), Lacks(s, T)
             PROVE  Lacks(u \o s, T)
  BY DEF LacksMore
<1>1. /\ Len(u) \in Nat /\ Len(s) \in Nat /\ Len(u \o s) = Len(u) + Len(s)
      /\ \A i \in 1..Len(u) + Len(s) : (u \o s)[i] = IF i <= Len(u) THEN u[i] ELSE s[i - Len(u)]
  BY ConcatProperties
<1>2. ASSUME NEW i \in 1..Len(u) + Len(s) PROVE (u \o s)[i] \notin T
  <2>1. CASE i <= Len(u)
    <3>1. i \in 1..Len(u)
      BY <1>1, <2>1
    <3> QED
      BY <1>1, <2>1, <3>1 DEF Lacks
  <2>2. CASE ~(i <= Len(u))
    <3>1. i - Len(u) \in 1..Len(s)
      BY <1>1, <2>2
    <3> QED
      BY <1>1, <2>2, <3>1 DEF Lacks
  <2> QED
    BY <2>1, <2>2
<1> QED
  BY <1>1, <1>2 DEF Lacks

\* The rest of it lacks it too.
LEMMA LacksRest ==
  ASSUME NEW B, NEW u \in Seq(B), NEW n \in 0..Len(u), NEW T, Lacks(u, T)
  PROVE  Lacks(Drop(u, n), T)
<1>1. /\ Len(Drop(u, n)) = Len(u) - n /\ Len(u) \in Nat
      /\ \A i \in 1..Len(u) - n : Drop(u, n)[i] = u[i + n]
  BY DropIs
<1>2. \A i \in 1..Len(u) - n : i + n \in 1..Len(u)
  BY <1>1
<1> QED
  BY <1>1, <1>2 DEF Lacks

\* Nothing lacks everything.
LEMMA LacksNothing == \A T : Lacks(<<>>, T)
BY DEF Lacks

\* The end of what one reads from stays in place.
LEMMA EndOf ==
  ASSUME NEW B, NEW u \in Seq(B), NEW s \in Seq(B), s # <<>>
  PROVE  /\ u \o s \in Seq(B) /\ u \o s # <<>> /\ Len(u \o s) = Len(u) + Len(s)
         /\ (u \o s)[Len(u \o s)] = s[Len(s)]
         /\ Len(u) \in Nat /\ Len(s) \in Nat \ {0}
<1>1. /\ Len(u) \in Nat /\ Len(s) \in Nat \ {0} /\ Len(u \o s) = Len(u) + Len(s) /\ u \o s \in Seq(B)
      /\ \A i \in 1..Len(u) + Len(s) : (u \o s)[i] = IF i <= Len(u) THEN u[i] ELSE s[i - Len(u)]
  BY ConcatProperties
<1>2. /\ Len(u) + Len(s) \in 1..Len(u) + Len(s) /\ ~(Len(u) + Len(s) <= Len(u))
      /\ (Len(u) + Len(s)) - Len(u) = Len(s)
  BY <1>1
<1>3. (u \o s)[Len(u) + Len(s)] = s[Len(s)]
  BY <1>1, <1>2
<1>4. u \o s # <<>>
  BY <1>1
<1> QED
  BY <1>1, <1>3, <1>4

\* A line made of its beginning and its end.
LEMMA LineMade ==
  ASSUME NEW u \in Seq(Input), Lacks(u, Cookies \cup {NL}), NEW s \in Seq(Input), s # <<>>, Lacks(s, Cookies),
         \A i \in 1..Len(s) : s[i] = NL => i = Len(s)
  PROVE  /\ s[Len(s)] = NL => OneLine(u \o s)
         /\ s[Len(s)] # NL => Lacks(u \o s, Cookies \cup {NL})
<1>1. /\ u \o s \in Seq(Input) /\ u \o s # <<>> /\ Len(u \o s) = Len(u) + Len(s)
      /\ (u \o s)[Len(u \o s)] = s[Len(s)] /\ Len(u) \in Nat /\ Len(s) \in Nat \ {0}
  BY EndOf
<1>2. \A i \in 1..Len(u) + Len(s) : (u \o s)[i] = IF i <= Len(u) THEN u[i] ELSE s[i - Len(u)]
  BY ConcatProperties
<1>3. ASSUME NEW i \in 1..Len(u) + Len(s), i # Len(u) + Len(s) \/ s[Len(s)] # NL
      PROVE  (u \o s)[i] \notin Cookies \cup {NL}
  <2>1. CASE i <= Len(u)
    <3>1. i \in 1..Len(u)
      BY <1>1, <2>1
    <3> QED
      BY <1>2, <2>1, <3>1 DEF Lacks
  <2>2. CASE ~(i <= Len(u))
    <3> DEFINE j == i - Len(u)
    <3>1. j \in 1..Len(s) /\ (i # Len(u) + Len(s) => j # Len(s))
      BY <1>1, <2>2
    <3>2. (u \o s)[i] = s[j]
      BY <1>2, <2>2
    <3> HIDE DEF j
    <3>3. s[j] # NL
      BY <1>3, <3>1
    <3> QED
      BY <3>1, <3>2, <3>3 DEF Lacks
  <2> QED
    BY <2>1, <2>2
<1>4. ASSUME s[Len(s)] = NL PROVE OneLine(u \o s)
  <2>1. \A i \in 1..Len(u \o s) - 1 : i \in 1..Len(u) + Len(s) /\ i # Len(u) + Len(s)
    BY <1>1
  <2> QED
    BY <1>1, <1>3, <1>4, <2>1 DEF OneLine
<1>5. ASSUME s[Len(s)] # NL PROVE Lacks(u \o s, Cookies \cup {NL})
  BY <1>1, <1>3, <1>5 DEF Lacks
<1> QED
  BY <1>4, <1>5

\* What is put at the end
LEMMA OneMore ==
  ASSUME NEW B, NEW u \in Seq(B), NEW x \in B, NEW v, v = u \o <<x>>
  PROVE  /\ v \in Seq(B) /\ Len(v) = Len(u) + 1 /\ Len(u) \in Nat
         /\ \A i \in 1..Len(u) : v[i] = u[i]
         /\ v[Len(u) + 1] = x
<1>1. v = Append(u, x)
  BY AppendIsConcat
<1> QED
  BY <1>1

\* The cookie at the end of a batch file
LEMMA BatchEnded ==
  ASSUME NEW u \in Seq(Input), Lacks(u, Cookies), u # <<>> => u[Len(u)] = NL
  PROVE  BatchEnds(u \o <<"ctldB", NL>>)
<1> DEFINE v == u \o <<"ctldB">>
           w == v \o <<NL>>
<1>1. "ctldB" \in Input /\ NL \in Input
  BY DEF Input, Lines
<1>2. /\ v \in Seq(Input) /\ Len(v) = Len(u) + 1 /\ Len(u) \in Nat
      /\ (\A i \in 1..Len(u) : v[i] = u[i]) /\ v[Len(u) + 1] = "ctldB"
  BY <1>1, OneMore
<1> HIDE DEF v
<1>3. /\ Len(w) = Len(v) + 1 /\ (\A i \in 1..Len(v) : w[i] = v[i]) /\ w[Len(v) + 1] = NL
  BY <1>1, <1>2, OneMore
<1>4. u \o <<"ctldB", NL>> = w
  <2>1. <<"ctldB", NL>> = <<"ctldB">> \o <<NL>> /\ <<"ctldB">> \in Seq(Input) /\ <<NL>> \in Seq(Input)
    BY <1>1
  <2>2. \A x, y, z \in Seq(Input) : (x \o y) \o z = x \o (y \o z)
    BY Associates, SMTT(30)
  <2> QED
    <3>1. (u \o <<"ctldB">>) \o <<NL>> = u \o (<<"ctldB">> \o <<NL>>)
      BY <2>1, <2>2, Zenon
    <3> QED
      BY <2>1, <3>1, Zenon DEF v
<1> HIDE DEF w
<1>5. /\ Len(w) = Len(u) + 2 /\ Len(w) - 1 = Len(u) + 1 /\ Len(w) - 2 = Len(u) /\ Len(u) + 2 = Len(v) + 1
      /\ Len(u) + 1 \in 1..Len(v)
  BY <1>2, <1>3
<1>6. w[Len(w) - 1] = "ctldB" /\ w[Len(w)] = NL
  BY <1>2, <1>3, <1>5
<1>7. \A i \in 1..Len(u) : w[i] = u[i]
  BY <1>2, <1>3
<1>8. Len(w) = 2 \/ w[Len(w) - 2] = NL
  <2>1. CASE u = <<>>
    BY <1>5, <2>1
  <2>2. CASE u # <<>>
    <3>1. Len(u) \in 1..Len(u)
      BY <1>2, <2>2
    <3> QED
      BY <1>5, <1>7, <2>2, <3>1
  <2> QED
    BY <2>1, <2>2
<1>9. Len(w) >= 2
  BY <1>2, <1>5
<1> QED
  BY <1>4, <1>5, <1>6, <1>7, <1>8, <1>9 DEF BatchEnds, Lacks

\* What is put behind the end of the player's input is not executed.
LEMMA NoExecMore ==
  ASSUME NEW u \in Seq(Input), NoExec(u), NEW x \in Input \ {"exec"}
  PROVE  NoExec(u \o <<x>>)
<1> DEFINE v == u \o <<x>>
<1>1. /\ v \in Seq(Input) /\ Len(v) = Len(u) + 1 /\ Len(u) \in Nat
      /\ (\A i \in 1..Len(u) : v[i] = u[i]) /\ v[Len(u) + 1] = x
  BY OneMore
<1> HIDE DEF v
<1>2. ~(v # <<>> /\ v[1] = "exec" /\ (Len(v) = 1 \/ v[2] = NL))
  <2>1. CASE Len(u) = 0
    BY <1>1, <2>1
  <2>2. CASE Len(u) = 1
    <3>1. 1 \in 1..Len(u) /\ u # <<>>
      <4>1. 1 \in 1..1 /\ Len(<<>>) = 0 /\ 1 # 0
        OBVIOUS
      <4>2. u # <<>>
        BY <2>2, <4>1, Zenon
      <4>3. 1 \in 1..Len(u)
        BY <2>2, <4>1, Zenon
      <4> QED
        BY <4>2, <4>3
    <3>2. u[1] # "exec"
      BY <2>2, <3>1 DEF NoExec
    <3> QED
      BY <1>1, <3>1, <3>2
  <2>3. CASE Len(u) > 1
    <3>1. 1 \in 1..Len(u) /\ 2 \in 1..Len(u) /\ u # <<>>
      BY <1>1, <2>3
    <3> QED
      BY <1>1, <2>3, <3>1 DEF NoExec
  <2>4. Len(u) = 0 \/ Len(u) = 1 \/ Len(u) > 1
    <3>1. Len(u) \in Nat
      BY <1>1
    <3>2. \A a \in Nat : a = 0 \/ a = 1 \/ a > 1
      OBVIOUS
    <3> QED
      BY <3>1, <3>2, Zenon
  <2> QED
    BY <2>1, <2>2, <2>3, <2>4
<1>3. ASSUME NEW i \in 1..Len(v) - 1, v[i] = NL PROVE v[i + 1] # "exec"
  <2>1. i \in 1..Len(u)
    BY <1>1
  <2>2. CASE i = Len(u)
    BY <1>1, <2>2
  <2>3. CASE i # Len(u)
    <3>1. i \in 1..Len(u) - 1 /\ i + 1 \in 1..Len(u)
      BY <1>1, <2>1, <2>3
    <3> QED
      BY <1>1, <1>3, <2>1, <3>1 DEF NoExec
  <2> QED
    BY <2>2, <2>3
<1> QED
  BY <1>2, <1>3 DEF NoExec, v

\* Without a newline no line is cut off.
LEMMA NoLine ==
  ASSUME NEW u \in Seq(Input), Lacks(u, Cookies \cup {NL}) \/ u = <<>>, NEW line, NEW v, CutOff(u, line, v)
  PROVE  FALSE
<1>1. Len(line) + 1 \in 1..Len(u) /\ u[Len(line) + 1] = NL
  BY DEF CutOff
<1> QED
  BY <1>1 DEF Lacks

\* A line that is a cookie begins with it.
LEMMA CookieCut ==
  ASSUME NEW u \in Seq(Input), NEW line \in Seq(Input), NEW v, CutOff(u, line, v), NEW c, line = <<c>>
  PROVE  u[1] = c /\ u[2] = NL /\ 2 \in 1..Len(u) /\ Len(u) \in Nat
<1>1. Len(line) = 1 /\ line[1] = c /\ 1 \in 1..Len(line) /\ Len(line) + 1 = 2
  OBVIOUS
<1> QED
  BY <1>1 DEF CutOff

\* The only line is taken.
LEMMA CutOne ==
  ASSUME NEW u \in Seq(Input), OneLine(u), NEW line \in Seq(Input), NEW v, CutOff(u, line, v)
  PROVE  v = <<>> /\ line \notin CookieLines
<1>1. Len(line) \in Nat /\ Len(line) + 1 \in 1..Len(u) /\ u[Len(line) + 1] = NL /\ Len(u) \in Nat /\ v = Drop(u, Len(line) + 1)
  BY DEF CutOff
<1>2. Len(line) + 1 = Len(u)
  <2>1. Len(line) + 1 # Len(u) => Len(line) + 1 \in 1..Len(u) - 1
    BY <1>1
  <2> QED
    BY <1>1, <2>1 DEF OneLine
<1>3. v = <<>>
  BY <1>1, <1>2, DropEnds
<1>4. ASSUME line \in CookieLines PROVE FALSE
  <2>1. PICK c \in Cookies : line = <<c>>
    BY <1>4 DEF CookieLines, Cookies
  <2>2. u[1] = c /\ 2 \in 1..Len(u)
    BY <2>1, CookieCut
  <2>3. 1 \in 1..Len(u) - 1
    BY <1>1, <2>2
  <2> QED
    BY <2>1, <2>2, <2>3 DEF OneLine
<1> QED
  BY <1>3, <1>4

\* A line of plain text is taken.
LEMMA CutPlain ==
  ASSUME NEW u \in Seq(Input), Lacks(u, Cookies), NEW line \in Seq(Input), NEW v, CutOff(u, line, v)
  PROVE  Lacks(v, Cookies) /\ line \notin CookieLines
<1>1. Len(line) \in Nat /\ Len(line) + 1 \in 0..Len(u) /\ Len(u) \in Nat /\ v = Drop(u, Len(line) + 1)
  BY DEF CutOff
<1>2. Lacks(v, Cookies)
  BY <1>1, LacksRest
<1>3. ASSUME line \in CookieLines PROVE FALSE
  <2>1. PICK c \in Cookies : line = <<c>>
    BY <1>3 DEF CookieLines, Cookies
  <2>2. u[1] = c /\ 2 \in 1..Len(u)
    BY <2>1, CookieCut
  <2>3. 1 \in 1..Len(u)
    BY <1>1, <2>2
  <2> QED
    BY <2>1, <2>2, <2>3 DEF Lacks
<1> QED
  BY <1>2, <1>3

\* A line of a batch file that has ended is taken, or its end.
LEMMA CutEnds ==
  ASSUME NEW u \in Seq(Input), BatchEnds(u), NEW line \in Seq(Input), NEW v, CutOff(u, line, v)
  PROVE  \/ v = <<>> /\ line = <<"ctldB">>
         \/ BatchEnds(v) /\ line \notin CookieLines
<1> DEFINE k == Len(line) + 1
<1>1. /\ Len(line) \in Nat /\ k \in 1..Len(u) /\ u[k] = NL /\ Len(u) \in Nat /\ v = Drop(u, k)
      /\ \A i \in 1..Len(line) : u[i] = line[i] /\ u[i] # NL
  BY DEF CutOff
<1>2. Len(u) >= 2 /\ u[Len(u) - 1] = "ctldB" /\ u[Len(u)] = NL
  BY DEF BatchEnds
<1>3. CASE Len(u) = 2
  <2>1. k = 2
    <3>1. u[1] = "ctldB" /\ NL # "ctldB"
      BY <1>2, <1>3 DEF NL
    <3>2. k # 1
      BY <1>1, <3>1
    <3> QED
      BY <1>1, <1>3, <3>2
  <2>2. v = <<>>
    BY <1>1, <1>3, <2>1, DropEnds
  <2>3. Len(line) = 1
    <3>1. Len(line) \in Nat
      BY <1>1
    <3>2. \A a \in Nat : a + 1 = 2 => a = 1
      OBVIOUS
    <3> QED
      BY <2>1, <3>1, <3>2, Zenon
  <2>4. line[1] = "ctldB"
    BY <1>1, <1>2, <1>3, <2>3
  <2>5. line = <<"ctldB">>
    BY <2>3, <2>4
  <2> QED
    BY <2>2, <2>5
<1>4. CASE Len(u) # 2
  <2> DEFINE m == Len(u) - 2
  <2>1. u[m] = NL /\ m \in 1..Len(u) /\ m \in Nat
    <3>1. u[m] = NL
      BY <1>4 DEF BatchEnds
    <3>2. Len(u) \in Nat /\ Len(u) >= 2
      BY <1>1, <1>2
    <3>3. \A a \in Nat : a >= 2 /\ a # 2 => a - 2 \in 1..a /\ a - 2 \in Nat
      OBVIOUS
    <3> QED
      BY <1>4, <3>1, <3>2, <3>3, Zenon
  <2>2. k <= m
    <3>1. ~(k <= m) => m \in 1..Len(line)
      BY <1>1, <2>1
    <3> QED
      BY <1>1, <2>1, <3>1
  <2>3. k \in 0..Len(u)
    BY <1>1
  <2>4. /\ Len(v) = Len(u) - k /\ \A i \in 1..Len(u) - k : v[i] = u[i + k]
    BY <1>1, <2>3, DropIs
  <2>5. /\ Len(v) >= 2 /\ Len(v) - 1 \in 1..Len(u) - k /\ Len(v) \in 1..Len(u) - k
        /\ (Len(v) - 1) + k = Len(u) - 1 /\ Len(v) + k = Len(u)
    BY <1>1, <2>1, <2>2, <2>4
  <2>6. v[Len(v) - 1] = "ctldB" /\ v[Len(v)] = NL
    BY <1>2, <2>4, <2>5
  <2>7. ASSUME NEW i \in 1..Len(v) - 2 PROVE v[i] \notin Cookies
    <3>1. i \in 1..Len(u) - k /\ i + k \in 1..Len(u) - 2
      BY <1>1, <2>4, <2>5
    <3> QED
      BY <2>4, <3>1 DEF BatchEnds
  <2>8. Len(v) = 2 \/ v[Len(v) - 2] = NL
    <3>1. Len(v) = Len(u) - k /\ Len(v) >= 2 /\ Len(u) \in Nat /\ k \in Nat
      BY <1>1, <2>4, <2>5
    <3> HIDE DEF k
    <3>2. Len(v) # 2 => Len(v) - 2 \in 1..Len(u) - k /\ (Len(v) - 2) + k = m
      BY <3>1
    <3> HIDE DEF m
    <3> QED
      BY <2>1, <2>4, <3>2
  <2>9. BatchEnds(v)
    BY <2>5, <2>6, <2>7, <2>8 DEF BatchEnds
  <2>10. ASSUME line \in CookieLines PROVE FALSE
    <3>1. PICK c \in Cookies : line = <<c>>
      BY <2>10 DEF CookieLines, Cookies
    <3>2. u[1] = c
      BY <3>1, CookieCut
    <3>3. 1 \in 1..Len(u) - 2
      BY <1>1, <2>1
    <3> QED
      BY <3>1, <3>2, <3>3 DEF BatchEnds
  <2> QED
    BY <2>9, <2>10
<1> QED
  BY <1>3, <1>4

\* A line of what is not executed is taken.
LEMMA CutFinal ==
  ASSUME NEW u \in Seq(Input), NoExec(u), NEW line \in Seq(Input), NEW v, CutOff(u, line, v)
  PROVE  NoExec(v) /\ line # <<"exec">>
<1> DEFINE k == Len(line) + 1
<1>1. /\ Len(line) \in Nat /\ k \in 1..Len(u) /\ k \in 0..Len(u) /\ u[k] = NL /\ Len(u) \in Nat /\ v = Drop(u, k)
  BY DEF CutOff
<1>2. /\ Len(v) = Len(u) - k /\ v \in Seq(Input) /\ \A i \in 1..Len(u) - k : v[i] = u[i + k]
  BY <1>1, DropIs
<1> HIDE DEF k
<1>3. ASSUME v # <<>> PROVE v[1] # "exec"
  <2>1. 1 \in 1..Len(u) - k /\ k \in 1..Len(u) - 1 /\ 1 + k = k + 1
    BY <1>1, <1>2, <1>3
  <2> QED
    BY <1>1, <1>2, <2>1 DEF NoExec
<1>4. ASSUME NEW i \in 1..Len(v) - 1, v[i] = NL PROVE v[i + 1] # "exec"
  <2>1. /\ i \in 1..Len(u) - k /\ i + 1 \in 1..Len(u) - k /\ i + k \in 1..Len(u) - 1 /\ (i + 1) + k = (i + k) + 1
    BY <1>1, <1>2
  <2> QED
    BY <1>2, <1>4, <2>1 DEF NoExec
<1>5. ASSUME line = <<"exec">> PROVE FALSE
  <2>1. u[1] = "exec" /\ u[2] = NL /\ 2 \in 1..Len(u)
    BY <1>5, CookieCut
  <2>2. u # <<>>
    BY <1>1, <2>1
  <2> QED
    BY <2>1, <2>2 DEF NoExec
<1> QED
  BY <1>3, <1>4, <1>5 DEF NoExec

\* The interrupt's cookie is taken.
LEMMA CutCookie ==
  ASSUME NEW line \in Seq(Input), NEW v, CutOff(<<"aborted", NL>>, line, v)
  PROVE  v = <<>> /\ line = <<"aborted">>
<1> DEFINE u == <<"aborted", NL>>
<1>1. u \in Seq(Input) /\ Len(u) = 2 /\ u[1] = "aborted" /\ u[2] = NL
  BY DEF Input, Lines
<1> HIDE DEF u
<1>2. /\ Len(line) \in Nat /\ Len(line) + 1 \in 1..Len(u) /\ u[Len(line) + 1] = NL /\ v = Drop(u, Len(line) + 1)
      /\ \A i \in 1..Len(line) : u[i] = line[i]
  BY DEF CutOff, u
<1>3. Len(line) = 1
  <2>1. NL # "aborted" /\ Len(line) + 1 # 1
    <3>1. NL # "aborted"
      BY DEF NL
    <3> QED
      BY <1>1, <1>2, <3>1
  <2>2. Len(line) \in Nat /\ Len(line) + 1 \in 1..2
    BY <1>1, <1>2
  <2>3. \A a \in Nat : a + 1 \in 1..2 /\ a + 1 # 1 => a = 1
    OBVIOUS
  <2> QED
    BY <2>1, <2>2, <2>3, Zenon
<1>4. line[1] = "aborted"
  BY <1>1, <1>2, <1>3
<1>5. line = <<"aborted">>
  BY <1>3, <1>4
<1>6. v = <<>>
  <2>1. v = Drop(u, Len(u))
    BY <1>1, <1>2, <1>3
  <2> QED
    BY <1>1, <2>1, DropEnds
<1> QED
  BY <1>5, <1>6

\* Output without and with a call for input
Controls(e) == {"C_PROMPT", "C_EXECUTE"} \cup (IF e THEN {} ELSE {"C_FLUSH"})
Quiet(e, d) == Lacks(d, Controls(e))
Calling(e, d, x) == d # <<>> /\ d[Len(d)] = x /\ \A i \in 1..Len(d) - 1 : d[i] \notin Controls(e)

\* What is said
LEMMA QuietSays ==
  ASSUME NEW e, NEW d \in Seq(Output), Quiet(e, d), NEW x \in Output
  PROVE  /\ Calling(e, d \o <<x>>, x)
         /\ x \notin Controls(e) => Quiet(e, d \o <<x>>)
<1> DEFINE v == d \o <<x>>
<1>1. /\ v \in Seq(Output) /\ Len(v) = Len(d) + 1 /\ Len(d) \in Nat
      /\ (\A i \in 1..Len(d) : v[i] = d[i]) /\ v[Len(d) + 1] = x
  BY OneMore
<1> HIDE DEF v
<1>2. v # <<>> /\ Len(v) - 1 = Len(d)
  BY <1>1
<1>3. Calling(e, v, x)
  BY <1>1, <1>2 DEF Calling, Quiet, Lacks
<1>4. ASSUME x \notin Controls(e), NEW i \in 1..Len(v) PROVE v[i] \notin Controls(e)
  <2>1. i \in 1..Len(d) \/ i = Len(d) + 1
    BY <1>1
  <2> QED
    BY <1>1, <1>4, <2>1 DEF Quiet, Lacks
<1> QED
  BY <1>3, <1>4 DEF Quiet, Lacks, v

\* What is seen
LEMMA QuietSeen ==
  ASSUME NEW e, NEW d \in Seq(Output), d # <<>>
  PROVE  /\ Quiet(e, d) => Head(d) \notin Controls(e) /\ Quiet(e, Tail(d))
         /\ \A x : Calling(e, d, x) => \/ Head(d) \notin Controls(e) /\ Calling(e, Tail(d), x)
                                       \/ Head(d) = x /\ Tail(d) = <<>>
<1> DEFINE t == Tail(d)
<1>1. /\ Len(d) \in Nat \ {0} /\ Len(t) = Len(d) - 1 /\ Len(t) \in Nat /\ Head(d) = d[1]
      /\ \A i \in 1..Len(t) : t[i] = d[i + 1] /\ i + 1 \in 1..Len(d)
  OBVIOUS
<1> HIDE DEF t
<1>2. ASSUME Quiet(e, d) PROVE Head(d) \notin Controls(e) /\ Quiet(e, t)
  <2>1. 1 \in 1..Len(d)
    BY <1>1
  <2> QED
    BY <1>1, <1>2, <2>1 DEF Quiet, Lacks
<1>3. ASSUME NEW x, Calling(e, d, x)
      PROVE  (Head(d) \notin Controls(e) /\ Calling(e, t, x)) \/ (Head(d) = x /\ t = <<>>)
  <2>1. d[Len(d)] = x /\ \A i \in 1..Len(d) - 1 : d[i] \notin Controls(e)
    BY <1>3 DEF Calling
  <2>2. CASE Len(d) = 1
    <3>1. t = <<>> /\ Head(d) = x
      BY <1>1, <2>1, <2>2 DEF t
    <3> QED
      BY <3>1
  <2>3. CASE Len(d) # 1
    <3>1. 1 \in 1..Len(d) - 1 /\ Len(t) \in 1..Len(t) /\ Len(t) + 1 = Len(d) /\ t # <<>>
      BY <1>1, <2>3
    <3>2. t[Len(t)] = x
      BY <1>1, <2>1, <3>1
    <3>3. \A i \in 1..Len(t) - 1 : i \in 1..Len(t) /\ i + 1 \in 1..Len(d) - 1
      BY <1>1
    <3> QED
      BY <1>1, <2>1, <3>1, <3>2, <3>3 DEF Calling
  <2> QED
    BY <2>2, <2>3
<1> QED
  BY <1>2, <1>3 DEF t

-----------------------------------------------------------------------------
(* Client and server in step.  Nobody types cookies, nor writes them into  *)
(* a batch file.                                                           *)

Plain == \A s \in Typings \cup Batches : Lacks(s, Cookies)

TextInv ==
  /\ Lacks(typed, Cookies) /\ Lacks(batch, Cookies)
  /\ flow # <<>> /\ lineEnds => flow[Len(flow)] = NL

\* A cookie behind the end of a line
LEMMA LineEnded == ASSUME NEW x, NEW y, NEW z PROVE <<y>> \o <<x, z>> = <<y, x, z>>
<1> DEFINE S == {x, y, z}
           w == <<y>> \o <<x, z>>
<1>1. <<y>> \in Seq(S) /\ <<x, z>> \in Seq(S) /\ Len(<<y>>) = 1 /\ Len(<<x, z>>) = 2
  OBVIOUS
<1>2. w \in Seq(S) /\ Len(w) = 3
  BY <1>1, ConcatProperties
<1>3. \A i \in 1..3 : w[i] = IF i <= 1 THEN <<y>>[i] ELSE <<x, z>>[i - 1]
  BY <1>1, ConcatProperties
<1>4. w[1] = y /\ w[2] = x /\ w[3] = z
  <2>1. w[1] = y
    BY <1>3
  <2>2. w[2] = <<x, z>>[2 - 1] /\ w[3] = <<x, z>>[3 - 1]
    BY <1>3
  <2>3. 2 - 1 = 1 /\ 3 - 1 = 2
    OBVIOUS
  <2> QED
    BY <2>1, <2>2, <2>3
<1> HIDE DEF w
<1>5. w = <<y, x, z>>
  BY <1>2, <1>4
<1> QED
  BY <1>5 DEF w

\* What play() puts into the ring besides input.
LEMMA PutIs ==
  ASSUME WireInv, NEW p, p = CookiesPut(sendEof, sendIntr)
  PROVE  /\ p # <<>> => p[Len(p)] = NL
         /\ sendEof = "no" /\ ~sendIntr => p = <<>>
         /\ ~sendIntr => \/ p = <<>> \/ p = <<NL>>
                         \/ p = <<sendEof, NL>> /\ sendEof # "no" /\ ~partial
                         \/ p = <<NL, sendEof, NL>> /\ sendEof # "no"
         /\ sendEof = "no" /\ sendIntr /\ ~partial /\ inbuf = <<>> => p = <<"aborted", NL>>
<1> DEFINE line == IF (sendEof # "no" \/ sendIntr) /\ partial /\ Space > 0 THEN <<NL>> ELSE <<>>
           whole == ~partial \/ line # <<>>
           e == IF sendEof # "no" /\ whole /\ Space - Len(line) >= 2 THEN Cookie(sendEof) ELSE <<>>
           i == IF sendIntr /\ whole /\ Space - Len(line \o e) >= 2 THEN Cookie("aborted") ELSE <<>>
<1>1. p = line \o e \o i
  BY DEF CookiesPut
<1>2. line = <<>> \/ line = <<NL>>
  OBVIOUS
<1>3. e = <<>> \/ (e = Cookie(sendEof) /\ sendEof # "no" /\ whole)
  OBVIOUS
<1>4. i = <<>> \/ i = Cookie("aborted")
  OBVIOUS
<1>5. ~sendIntr => i = <<>>
  OBVIOUS
<1>6. sendEof = "no" => e = <<>>
  OBVIOUS
<1>7. (sendEof = "no" /\ ~sendIntr => line = <<>>) /\ (~partial => line = <<>>)
  OBVIOUS
<1>8. sendEof = "no" /\ sendIntr /\ ~partial /\ inbuf = <<>> => i = Cookie("aborted")
  <2> SUFFICES ASSUME sendEof = "no", sendIntr, ~partial, inbuf = <<>> PROVE i = Cookie("aborted")
    OBVIOUS
  <2>1. line = <<>> /\ e = <<>> /\ whole
    BY <1>6, <1>7
  <2>2. Space - Len(line \o e) >= 2
    <3>1. Len(<<>> \o <<>>) = 0 /\ Len(<<>>) = 0
      OBVIOUS
    <3>2. RingSize \in Nat /\ RingSize >= 2
      BY WireAssumption
    <3>3. Space = RingSize
      BY <3>1, <3>2 DEF Space
    <3> QED
      BY <2>1, <3>1, <3>2, <3>3
  <2> QED
    BY <2>1, <2>2
<1>9. Cookie("aborted") = <<"aborted", NL>> /\ Cookie(sendEof) = <<sendEof, NL>>
  BY DEF Cookie
<1>10. whole => ~partial \/ line = <<NL>>
  BY <1>2
<1>11. /\ line \in Seq(Input) /\ e \in Seq(Input) /\ i \in Seq(Input)
  <2>1. /\ <<>> \in Seq(Input) /\ <<NL>> \in Seq(Input)
        /\ \A x \in {"ctld", "ctldB", "aborted"} : <<x, NL>> \in Seq(Input)
    BY Constants DEF Lines, Cookie
  <2> QED
    BY <1>2, <1>3, <1>4, <1>9, <2>1 DEF WireInv, ClientTypes
<1> HIDE DEF line, whole, e, i
<1>12. ~sendIntr => p = line \o e
  BY <1>1, <1>5, <1>11, ConcatEmptySeq, ConcatProperties
<1>13. /\ <<>> \o <<>> = <<>> /\ <<NL>> \o <<>> = <<NL>>
       /\ \A x : <<>> \o <<x, NL>> = <<x, NL>> /\ <<NL>> \o <<x, NL>> = <<NL, x, NL>>
  <2>1. <<>> \o <<>> = <<>> /\ <<NL>> \o <<>> = <<NL>>
    OBVIOUS
  <2>2. ASSUME NEW x PROVE <<>> \o <<x, NL>> = <<x, NL>>
    OBVIOUS
  <2>3. ASSUME NEW x PROVE <<NL>> \o <<x, NL>> = <<NL, x, NL>>
    BY LineEnded
  <2> QED
    BY <2>1, <2>2, <2>3
<1>14. ~sendIntr => \/ p = <<>> \/ p = <<NL>>
                    \/ p = <<sendEof, NL>> /\ sendEof # "no" /\ ~partial
                    \/ p = <<NL, sendEof, NL>> /\ sendEof # "no"
  <2> SUFFICES ASSUME ~sendIntr
               PROVE  \/ p = <<>> \/ p = <<NL>>
                      \/ p = <<sendEof, NL>> /\ sendEof # "no" /\ ~partial
                      \/ p = <<NL, sendEof, NL>> /\ sendEof # "no"
    OBVIOUS
  <2>1. p = line \o e
    BY <1>12
  <2>2. CASE e = <<>>
    BY <1>2, <1>13, <2>1, <2>2
  <2>3. CASE e = <<sendEof, NL>> /\ sendEof # "no" /\ whole
    <3>1. CASE line = <<NL>>
      BY <1>13, <2>1, <2>3, <3>1
    <3>2. CASE line = <<>>
      <4>1. ~partial
        BY <1>10, <2>3, <3>2
      <4> QED
        BY <1>13, <2>1, <2>3, <3>2, <4>1
    <3> QED
      BY <1>2, <3>1, <3>2
  <2> QED
    BY <1>3, <1>9, <2>2, <2>3
<1>15. sendEof = "no" /\ ~sendIntr => p = <<>>
  BY <1>6, <1>7, <1>12, <1>13
<1>16. sendEof = "no" /\ sendIntr /\ ~partial /\ inbuf = <<>> => p = <<"aborted", NL>>
  BY <1>1, <1>6, <1>7, <1>8, <1>9, <1>13
<1>17. p # <<>> => p[Len(p)] = NL
  <2>1. line \o e \in Seq(Input)
    BY <1>11, ConcatProperties
  <2>2. \A x : Len(<<x, NL>>) = 2 /\ <<x, NL>>[2] = NL
    OBVIOUS
  <2>3. CASE i # <<>>
    <3>1. i[Len(i)] = NL
      BY <1>4, <1>9, <2>2, <2>3
    <3>2. p[Len(p)] = i[Len(i)]
      BY <1>1, <1>11, <2>1, <2>3, EndOf
    <3> QED
      BY <3>1, <3>2
  <2>4. CASE i = <<>>
    <3>1. p = line \o e
      BY <1>1, <1>11, <2>1, <2>4, ConcatEmptySeq, ConcatProperties
    <3>2. CASE e # <<>>
      <4>1. e[Len(e)] = NL
        BY <1>3, <1>9, <2>2, <3>2
      <4>2. p[Len(p)] = e[Len(e)]
        BY <1>11, <3>1, <3>2, EndOf
      <4> QED
        BY <4>1, <4>2
    <3>3. CASE e = <<>>
      <4>1. p = <<>> \/ p = <<NL>>
        BY <1>2, <1>13, <3>1, <3>3
      <4>2. Len(<<NL>>) = 1 /\ <<NL>>[1] = NL
        OBVIOUS
      <4> QED
        BY <4>1, <4>2
    <3> QED
      BY <3>2, <3>3
  <2> QED
    BY <2>3, <2>4
<1> QED
  BY <1>14, <1>15, <1>16, <1>17

\* Flow and its end stay in step.
LEMMA TextStays ==
  ASSUME TextInv, UNCHANGED <<flow, lineEnds, typed>>, batch' = batch \/ batch' = <<>>
  PROVE  TextInv'
BY LacksNothing DEF TextInv

\* Neither what is typed nor a batch file has cookies, and a line is ended
\* when the last token is its end.
LEMMA TextKeeps == ASSUME Plain, WireInv, Server, TextInv, [WireNext]_wireVars PROVE TextInv'
<1>1. CASE FillSets \/ SelectReturns \/ Intr \/ SendInput
  <2>1. UNCHANGED <<flow, lineEnds, typed, batch>>
    BY <1>1 DEF FillSets, SelectReturns, Intr, SendInput
  <2> QED
    BY <2>1, TextStays
<1>2. CASE PutCookies
  <2> DEFINE p == CookiesPut(sendEof, sendIntr)
  <2>1. /\ flow' = flow \o p /\ lineEnds' = (lineEnds \/ p # <<>>) /\ typed' = typed
        /\ batch' = batch \/ batch' = <<>>
    BY <1>2 DEF PutCookies
  <2>2. p \in Seq(Input) /\ (p # <<>> => p[Len(p)] = NL) /\ flow \in Seq(Input)
    BY CookiesAre, PutIs DEF WireInv, BetweenTypes
  <2> HIDE DEF p
  <2>3. CASE p = <<>>
    <3>1. flow' = flow /\ (lineEnds' <=> lineEnds)
      BY <2>1, <2>2, <2>3, ConcatEmptySeq
    <3> QED
      BY <2>1, <3>1, LacksNothing DEF TextInv
  <2>4. CASE p # <<>>
    <3>1. flow'[Len(flow')] = NL
      BY <2>1, <2>2, <2>4, EndOf
    <3> QED
      BY <2>1, <3>1, LacksNothing DEF TextInv
  <2> QED
    BY <2>3, <2>4
<1>3. CASE ReadInput
  <2>1. CASE ReadNothing \/ ReadEnd
    BY <2>1, TextStays DEF ReadNothing, ReadEnd
  <2>2. ASSUME NEW n, NEW s, ReadSome(n, s) PROVE TextInv'
    <3>1. /\ flow' = flow \o s /\ lineEnds' = (s[n] = NL)
          /\ (inputFd = 0 /\ typed' = Drop(typed, n) /\ batch' = batch) \/ (inputFd # 0 /\ batch' = Drop(batch, n) /\ typed' = typed)
      BY <2>2 DEF ReadSome
    <3>2. Source \in Seq(Input) /\ n \in 1..Len(Source) /\ s \in Seq(Input) /\ Len(s) = n /\ Len(Source) \in Nat
      BY <2>2, ReadSomeIs DEF WireInv
    <3>3. typed \in Seq(Input) /\ batch \in Seq(Input) /\ flow \in Seq(Input)
      BY DEF WireInv, ClientTypes, BetweenTypes
    <3>4. Lacks(typed', Cookies)
      <4>1. CASE inputFd = 0
        <5>1. n \in 0..Len(typed)
          BY <3>2, <4>1 DEF Source
        <5> QED
          BY <3>1, <3>3, <4>1, <5>1, LacksRest DEF TextInv
      <4>2. CASE inputFd # 0
        BY <3>1, <4>2 DEF TextInv
      <4> QED
        BY <4>1, <4>2
    <3>5. Lacks(batch', Cookies)
      <4>1. CASE inputFd # 0
        <5>1. n \in 0..Len(batch)
          BY <3>2, <4>1 DEF Source
        <5> QED
          BY <3>1, <3>3, <4>1, <5>1, LacksRest DEF TextInv
      <4>2. CASE inputFd = 0
        BY <3>1, <4>2 DEF TextInv
      <4> QED
        BY <4>1, <4>2
    <3>6. lineEnds' => flow'[Len(flow')] = NL
      <4>1. s # <<>>
        BY <3>2
      <4>2. flow'[Len(flow')] = s[Len(s)]
        BY <3>1, <3>2, <3>3, <4>1, EndOf
      <4> QED
        BY <3>1, <3>2, <4>2
    <3> QED
      BY <3>4, <3>5, <3>6 DEF TextInv
  <2> QED
    BY <1>3, <2>1, <2>2, ReadInputIs
<1>4. CASE RecvOutput
  <2>1. UNCHANGED <<flow, lineEnds, typed>>
    BY <1>4 DEF RecvOutput
  <2>2. batch' = batch \/ batch' = <<>> \/ batch' \in Batches
    BY <1>4 DEF RecvOutput, DoExecute
  <2>3. batch' \in Batches => Lacks(batch', Cookies)
    BY DEF Plain
  <2> QED
    BY <2>1, <2>2, <2>3, TextStays DEF TextInv
<1>5. CASE TakeLine
  <2> DEFINE line == IoqLine(inq)
             k == Len(line) + 1
  <2>1. /\ FirstIs(line) /\ ~aborted /\ spc \in Gets /\ UNCHANGED clientVars
        /\ flow' = SubSeq(flow, Len(line) + 2, Len(flow))
    BY <1>5, LineIs DEF TakeLine
  <2>2. ~ioEof
    BY <2>1 DEF Server, Place, Gets
  <2>3. Up = flow /\ flow \in Seq(Input)
    BY <2>2 DEF WireInv, Pipes, BetweenTypes
  <2>4. k \in 1..Len(flow) /\ Len(line) \in Nat /\ Len(flow) \in Nat
    BY <2>1, <2>3 DEF FirstIs
  <2>5. flow' = Drop(flow, k)
    BY <2>1, <2>4 DEF Drop
  <2> HIDE DEF line, k
  <2>6. /\ Len(flow') = Len(flow) - k /\ \A i \in 1..Len(flow) - k : flow'[i] = flow[i + k]
    <3>1. k \in 0..Len(flow)
      BY <2>4
    <3> QED
      BY <2>3, <2>5, <3>1, DropIs
  <2>7. flow' # <<>> => flow'[Len(flow')] = flow[Len(flow)] /\ flow # <<>>
    <3> SUFFICES ASSUME flow' # <<>> PROVE flow'[Len(flow')] = flow[Len(flow)] /\ flow # <<>>
      OBVIOUS
    <3>1. Len(flow') # 0 /\ flow # <<>>
      <4>1. flow' \in Seq(Input)
        BY <1>5, LineIs
      <4> QED
        BY <2>3, <2>4, <4>1
    <3>2. Len(flow') \in 1..Len(flow) - k /\ Len(flow') + k = Len(flow)
      BY <2>4, <2>6, <3>1
    <3> QED
      BY <2>6, <3>1, <3>2
  <2>8. UNCHANGED <<typed, batch, lineEnds>>
    BY <2>1 DEF clientVars
  <2> QED
    BY <2>7, <2>8 DEF TextInv
<1>6. CASE OutputSome \/ Prompt \/ Loop \/ FlushOutput \/ IoInput \/ TakeNothing \/ Execute \/ ServerAborts \/ Close
  <2>1. UNCHANGED <<flow, clientVars>>
    BY <1>6 DEF OutputSome, Prompt, Loop, FlushOutput, IoInput, TakeNothing, Execute, ServerAborts, Close
  <2> QED
    BY <2>1, TextStays DEF clientVars
<1>7. CASE UNCHANGED wireVars
  BY <1>7, TextStays DEF wireVars, clientVars
<1> QED
  BY <1>1, <1>2, <1>3, <1>4, <1>5, <1>6, <1>7 DEF WireNext

-----------------------------------------------------------------------------
(* The phases of a patient player's session: who is to act, and what is    *)
(* under way.  Each ends when what is under way has arrived.               *)

Idle == inputFd = 0 /\ sendEof = "no" /\ ~sendIntr /\ lineEnds
Live == ~aborted /\ ~gotCtld
InBatch == inExec /\ Place \in {"exec", "getexec", "getarg", "drain"} /\ ~asked
Fresh == inExec /\ Place \in {"exec", "getexec"} /\ ~failed /\ Live /\ ~asked /\ ~executing

\* The server works on a command, has prompted for one or for an argument,
\* or the player has seen that, or has answered.
Working ==
  /\ ~inExec /\ Place \in {"status", "loop"} /\ ~gotCtld /\ (Place = "status" => ~aborted)
  /\ ~asked /\ Idle /\ Up = <<>> /\ Quiet(executing, Down)
Prompting ==
  ~inExec /\ Place = "getcmd" /\ Live /\ ~asked /\ Idle /\ Up = <<>> /\ Calling(executing, Down, "C_PROMPT")
Flushing ==
  /\ ~inExec /\ Place = "getarg" /\ Live /\ ~asked /\ ~executing /\ Idle /\ Up = <<>>
  /\ Calling(executing, Down, "C_FLUSH")
Asking ==
  /\ ~inExec /\ Place \in {"getcmd", "getarg"} /\ Live /\ asked /\ ~executing
  /\ inputFd = 0 /\ sendEof = "no" /\ ~sendIntr /\ Quiet(executing, Down) /\ Lacks(Up, Cookies \cup {NL})
Answered ==
  /\ ~inExec /\ Place \in {"getcmd", "getarg"} /\ Live /\ ~asked /\ ~executing
  /\ Idle /\ Quiet(executing, Down) /\ OneLine(Up)

\* The client is to open the batch file, or has not done so and will signal
\* that; it reads it, or has read it and signals the end; the server has
\* seen one of these signals.
Opening == Fresh /\ Idle /\ Up = <<>> /\ Calling(executing, Down, "C_EXECUTE")
Refused ==
  /\ Fresh /\ inputFd = 0 /\ sendEof = "no" /\ sendIntr /\ lineEnds /\ Up = <<>>
  /\ Quiet(executing, Down)
Refusing == Fresh /\ Idle /\ Up = <<"aborted", NL>> /\ Quiet(executing, Down)
Reading ==
  /\ InBatch /\ executing /\ Live /\ inputFd = 1 /\ sendEof = "no" /\ ~sendIntr
  /\ Lacks(Up, Cookies) /\ Quiet(executing, Down)
Ended ==
  /\ InBatch /\ executing /\ Live /\ inputFd = 0 /\ sendEof = "ctldB" /\ ~sendIntr
  /\ Lacks(Up, Cookies) /\ Quiet(executing, Down)
Ending == InBatch /\ executing /\ Live /\ Idle /\ BatchEnds(Up) /\ Quiet(executing, Down)
Stopped == InBatch /\ Idle /\ aborted /\ Up = <<>> /\ Quiet(executing, Down)

\* The player is done, and nothing that is under way is executed.
Final ==
  /\ eof0 /\ typed = <<>> /\ inputFd = 0 /\ sendEof # "ctldB" /\ ~sendIntr /\ ~inExec
  /\ Lacks(Down, {"C_EXECUTE"}) /\ Lacks(Up, {"ctldB"})
  /\ ~ioEof => NoExec(Up)

Commanding == Working \/ Prompting \/ Flushing \/ Asking \/ Answered
Executing == Opening \/ Refused \/ Refusing \/ Reading \/ Ended \/ Ending \/ Stopped
InStep == Final \/ (~eof0 /\ ~ioEof /\ (Commanding \/ Executing))
Sync == ~rushed /\ cpc # "gone" => InStep

\* What matters to the phases
Unmoved ==
  /\ UNCHANGED <<executing, asked, inputFd, sendEof, sendIntr, typed, eof0, ioEof, inExec, failed, aborted, gotCtld>>
  /\ Up' = Up /\ Down' = Down /\ Place' = Place
  /\ lineEnds => lineEnds'

\* They do not change by themselves.
LEMMA InStepStays == ASSUME InStep, Unmoved PROVE InStep'
<1>1. /\ Quiet(executing', Down') = Quiet(executing, Down)
      /\ \A x : Calling(executing', Down', x) = Calling(executing, Down, x)
  BY DEF Unmoved
<1>2. (Idle => Idle') /\ (Live => Live') /\ (InBatch => InBatch') /\ (Fresh => Fresh')
  BY DEF Unmoved, Idle, Live, InBatch, Fresh
<1>3. CASE Final
  BY <1>3 DEF Unmoved, Final, InStep
<1>4. CASE Commanding
  <2>1. Commanding'
    BY <1>1, <1>2, <1>4 DEF Unmoved, Commanding, Working, Prompting, Flushing, Asking, Answered
  <2> QED
    BY <1>3, <2>1 DEF Unmoved, InStep
<1>5. CASE Executing
  <2>1. Executing'
    BY <1>1, <1>2, <1>5 DEF Unmoved, Executing, Opening, Refused, Refusing, Reading, Ended, Ending, Stopped
  <2> QED
    BY <1>3, <2>1 DEF Unmoved, InStep
<1> QED
  BY <1>3, <1>4, <1>5 DEF InStep

\* The whole lacks what its parts lack.
LEMMA LacksAdded ==
  ASSUME NEW B, NEW u \in Seq(B), NEW s \in Seq(B), NEW T, Lacks(u, T), Lacks(s, T)
  PROVE  Lacks(u \o s, T)
BY LackingMore DEF LacksMore

\* ... and its parts what it lacks.
LEMMA LacksParts ==
  ASSUME NEW B, NEW u \in Seq(B), NEW s \in Seq(B), NEW T, Lacks(u \o s, T)
  PROVE  Lacks(u, T) /\ Lacks(s, T)
<1>1. /\ Len(u) \in Nat /\ Len(s) \in Nat /\ Len(u \o s) = Len(u) + Len(s)
      /\ \A i \in 1..Len(u) + Len(s) : (u \o s)[i] = IF i <= Len(u) THEN u[i] ELSE s[i - Len(u)]
  BY ConcatProperties
<1>2. ASSUME NEW i \in 1..Len(u) PROVE u[i] \notin T
  <2>1. i \in 1..Len(u) + Len(s) /\ i <= Len(u)
    BY <1>1
  <2> QED
    BY <1>1, <2>1 DEF Lacks
<1>3. ASSUME NEW i \in 1..Len(s) PROVE s[i] \notin T
  <2>1. i + Len(u) \in 1..Len(u) + Len(s) /\ ~(i + Len(u) <= Len(u)) /\ (i + Len(u)) - Len(u) = i
    BY <1>1
  <2> QED
    BY <1>1, <2>1 DEF Lacks
<1> QED
  BY <1>2, <1>3 DEF Lacks

\* Who lacks more lacks less.
LEMMA LacksSome ==
  ASSUME NEW u, NEW T, NEW S, Lacks(u, T), S \subseteq T
  PROVE  Lacks(u, S)
BY DEF Lacks

\* What play() puts into the ring: nothing unless it has a cookie to send,
\* an interrupt when the batch file could not be opened, or EOF.
LEMMA PutCookiesInStep ==
  ASSUME WireInv, TextInv, InStep, PutCookies
  PROVE  InStep'
<1> DEFINE p == CookiesPut(sendEof, sendIntr)
<1>1. /\ Up' = Up \o p /\ Down' = Down /\ Place' = Place
      /\ UNCHANGED <<executing, asked, typed, eof0, ioEof, inExec, failed, aborted, gotCtld>>
  BY PutCookiesKeeps DEF PutCookies, serverVars
<1>2. /\ lineEnds' = (lineEnds \/ p # <<>>)
      /\ sendEof' = IF sendEof \in ToSet(p) THEN "no" ELSE sendEof
      /\ sendIntr' = (sendIntr /\ ~("aborted" \in ToSet(p)))
      /\ inputFd = 0 \/ "aborted" \notin ToSet(p) => inputFd' = inputFd
  BY DEF PutCookies
<1>3. /\ sendEof = "no" /\ ~sendIntr => p = <<>>
      /\ ~sendIntr => \/ p = <<>> \/ p = <<NL>>
                      \/ p = <<sendEof, NL>> /\ sendEof # "no" /\ ~partial
                      \/ p = <<NL, sendEof, NL>> /\ sendEof # "no"
      /\ sendEof = "no" /\ sendIntr /\ ~partial /\ inbuf = <<>> => p = <<"aborted", NL>>
  BY PutIs
<1> HIDE DEF p
<1>4. Up \in Seq(Input) /\ partial = ~lineEnds /\ sendIntr \in BOOLEAN /\ sendEof \in {"no", "ctld", "ctldB"}
  BY WaysAre DEF WireInv, ClientTypes, Pipes
<1>5. /\ ToSet(<<>>) = {} /\ ToSet(<<NL>>) = {NL}
      /\ \A x : ToSet(<<x, NL>>) = {x, NL} /\ ToSet(<<NL, x, NL>>) = {x, NL}
  BY DEF ToSet
<1>6. NL \in Input /\ <<NL>> \in Seq(Input) /\ {"ctld", "ctldB", "aborted"} \subseteq Input
  BY Constants DEF Lines
<1>7. CASE sendEof = "no" /\ ~sendIntr
  <2>1. p = <<>> /\ ToSet(p) = {}
    BY <1>3, <1>5, <1>7
  <2>2. Up' = Up
    BY <1>1, <1>4, <2>1, ConcatEmptySeq
  <2>3. Unmoved
    BY <1>1, <1>2, <1>4, <1>7, <2>1, <2>2 DEF Unmoved
  <2> QED
    BY <2>3, InStepStays
<1>8. CASE Refused /\ ~eof0 /\ ~ioEof
  <2>1. Up = <<>> /\ sendEof = "no" /\ sendIntr /\ lineEnds /\ inputFd = 0 /\ Fresh /\ Quiet(executing, Down)
    BY <1>8 DEF Refused
  <2>2. inbuf = <<>>
    <3>1. /\ Content(inq) \o toServer \in Seq(Input) /\ inbuf \in Seq(Input)
          /\ (Content(inq) \o toServer) \o inbuf = <<>>
      BY <2>1, WaysAre DEF WireInv, Up
    <3> HIDE DEF Up
    <3>2. \A u, v \in Seq(Input) : u \o v = <<>> => v = <<>>
      <4> SUFFICES ASSUME NEW u \in Seq(Input), NEW v \in Seq(Input), v # <<>> PROVE u \o v # <<>>
        OBVIOUS
      <4> QED
        BY EndOf
    <3> QED
      BY <3>1, <3>2
  <2>3. p = <<"aborted", NL>>
    BY <1>3, <1>4, <2>1, <2>2
  <2>4. "aborted" \in ToSet(p) /\ ToSet(p) = {"aborted", NL}
    BY <1>5, <2>3
  <2>5. Up' = <<"aborted", NL>>
    <3>1. <<"aborted", NL>> \in Seq(Input)
      BY <1>6
    <3> QED
      BY <1>1, <2>1, <2>3, <3>1, ConcatEmptySeq
  <2>6. lineEnds' /\ sendEof' = "no" /\ ~sendIntr' /\ inputFd' = 0
    BY <1>2, <2>1, <2>4
  <2>7. Fresh' /\ Quiet(executing', Down')
    <3>1. UNCHANGED <<inExec, failed, aborted, gotCtld, asked, executing>> /\ Place' = Place /\ Down' = Down
      BY <1>1
    <3> QED
      BY <2>1, <3>1 DEF Fresh, Live
  <2>8. Refusing'
    BY <2>5, <2>6, <2>7 DEF Refusing, Idle
  <2> QED
    BY <1>1, <1>8, <2>8 DEF InStep, Executing
<1>9. CASE Ended /\ ~eof0 /\ ~ioEof
  <2>1. /\ inExec /\ Place \in {"exec", "getexec", "getarg", "drain"} /\ ~asked /\ executing /\ Live
        /\ inputFd = 0 /\ sendEof = "ctldB" /\ ~sendIntr /\ Lacks(Up, Cookies) /\ Quiet(executing, Down)
    BY <1>9 DEF Ended, InBatch
  <2>2. InBatch' /\ Live' /\ Quiet(executing', Down') /\ executing' /\ ~eof0' /\ ~ioEof'
    <3>1. UNCHANGED <<inExec, aborted, gotCtld, asked, executing, eof0, ioEof>> /\ Place' = Place /\ Down' = Down
      BY <1>1
    <3> QED
      BY <1>9, <2>1, <3>1 DEF InBatch, Live
  <2>3. ~sendIntr' /\ Lacks(<<NL>>, Cookies) /\ Up \o <<NL>> \in Seq(Input) /\ Lacks(Up \o <<NL>>, Cookies)
    <3>1. ~sendIntr'
      BY <1>2, <2>1
    <3>2. Lacks(<<NL>>, Cookies)
      BY DEF Lacks, Cookies, NL
    <3> QED
      BY <1>4, <1>6, <2>1, <3>1, <3>2, LacksAdded, ConcatProperties
  <2>4. "aborted" \notin ToSet(p) => inputFd' = 0
    BY <1>2, <2>1
  <2>5. CASE p = <<>> \/ p = <<NL>>
    <3>1. "aborted" \notin ToSet(p) /\ "ctldB" \notin ToSet(p)
      BY <1>5, <2>5 DEF NL
    <3>2. sendEof' = "ctldB" /\ inputFd' = 0
      BY <1>2, <2>1, <2>4, <3>1
    <3>3. Lacks(Up', Cookies)
      <4>1. Up' = Up \/ Up' = Up \o <<NL>>
        BY <1>1, <1>4, <2>5, ConcatEmptySeq
      <4> QED
        BY <2>1, <2>3, <4>1
    <3>4. Ended'
      BY <2>2, <2>3, <3>2, <3>3 DEF Ended
    <3> QED
      BY <2>2, <3>4 DEF InStep, Executing
  <2>6. ASSUME "ctldB" \in ToSet(p), ToSet(p) = {"ctldB", NL}, BatchEnds(Up'), p # <<>> PROVE InStep'
    <3>1. "aborted" \notin ToSet(p)
      BY <2>6 DEF NL
    <3>2. inputFd' = 0 /\ sendEof' = "no" /\ lineEnds'
      BY <1>2, <2>1, <2>4, <2>6, <3>1
    <3>3. Ending'
      BY <2>2, <2>3, <2>6, <3>2 DEF Ending, Idle
    <3> QED
      BY <2>2, <3>3 DEF InStep, Executing
  <2>7. CASE p = <<"ctldB", NL>> /\ ~partial
    <3>1. Up # <<>> => Up[Len(Up)] = NL
      BY <1>4, <1>9, <2>7 DEF TextInv, WireInv, Pipes
    <3>2. BatchEnds(Up')
      BY <1>1, <1>4, <2>1, <2>7, <3>1, BatchEnded
    <3>3. ToSet(p) = {"ctldB", NL} /\ p # <<>>
      BY <1>5, <2>7
    <3> QED
      BY <2>6, <3>2, <3>3
  <2>8. CASE p = <<NL, "ctldB", NL>>
    <3>1. Up' = (Up \o <<NL>>) \o <<"ctldB", NL>>
      <4>1. p = <<NL>> \o <<"ctldB", NL>>
        BY <2>8, LineEnded
      <4>2. <<"ctldB", NL>> \in Seq(Input)
        BY <1>6
      <4>3. (Up \o <<NL>>) \o <<"ctldB", NL>> = Up \o (<<NL>> \o <<"ctldB", NL>>)
        BY <1>4, <1>6, <4>2, Associates
      <4> QED
        BY <1>1, <4>1, <4>3
    <3>2. (Up \o <<NL>>)[Len(Up \o <<NL>>)] = NL
      <4>1. Len(<<NL>>) = 1 /\ <<NL>>[1] = NL /\ <<NL>> # <<>>
        OBVIOUS
      <4> QED
        BY <1>4, <1>6, <4>1, EndOf
    <3>3. BatchEnds(Up')
      BY <2>3, <3>1, <3>2, BatchEnded
    <3>4. ToSet(p) = {"ctldB", NL} /\ p # <<>>
      BY <1>5, <2>8
    <3> QED
      BY <2>6, <3>3, <3>4
  <2> QED
    BY <1>3, <2>1, <2>5, <2>7, <2>8
<1>10. CASE Final
  <2>1. /\ eof0 /\ typed = <<>> /\ inputFd = 0 /\ sendEof # "ctldB" /\ ~sendIntr /\ ~inExec
        /\ Lacks(Down, {"C_EXECUTE"}) /\ Lacks(Up, {"ctldB"}) /\ (~ioEof => NoExec(Up))
    BY <1>10 DEF Final
  <2>2. /\ eof0' /\ typed' = <<>> /\ ~inExec' /\ ~sendIntr' /\ Lacks(Down', {"C_EXECUTE"}) /\ sendEof' # "ctldB"
    <3>1. ~sendIntr' /\ sendEof' \in {"no", sendEof}
      BY <1>2, <2>1
    <3>2. eof0' = eof0 /\ typed' = typed /\ inExec' = inExec /\ Down' = Down
      BY <1>1
    <3> QED
      BY <2>1, <3>1, <3>2
  <2>3. p = <<>> \/ p = <<NL>> \/ p = <<"ctld", NL>> \/ p = <<NL, "ctld", NL>>
    BY <1>3, <1>4, <2>1
  <2>4. inputFd' = 0
    BY <1>2, <2>1
  <2>5. ASSUME NEW u \in Seq(Input), Lacks(u, {"ctldB"}), ~ioEof => NoExec(u), NEW x \in {NL, "ctld"}, NEW v, v = u \o <<x>>
        PROVE  v \in Seq(Input) /\ Lacks(v, {"ctldB"}) /\ (~ioEof => NoExec(v))
    <3>1. x \in Input \ {"exec"} /\ <<x>> \in Seq(Input)
      BY <1>6 DEF NL
    <3>2. Lacks(<<x>>, {"ctldB"})
      BY DEF Lacks, NL
    <3>3. v \in Seq(Input) /\ Lacks(v, {"ctldB"})
      BY <2>5, <3>1, <3>2, LacksAdded, ConcatProperties
    <3>4. ~ioEof => NoExec(v)
      BY <2>5, <3>1, NoExecMore
    <3> QED
      BY <3>3, <3>4
  <2>6. ASSUME NEW u \in Seq(Input), Lacks(u, {"ctldB"}), ~ioEof => NoExec(u), NEW v, v = u \o <<"ctld", NL>>
        PROVE  v \in Seq(Input) /\ Lacks(v, {"ctldB"}) /\ (~ioEof => NoExec(v))
    <3>1. v = (u \o <<"ctld">>) \o <<NL>>
      <4>1. <<"ctld">> \in Seq(Input) /\ <<"ctld", NL>> = <<"ctld">> \o <<NL>>
        BY <1>6
      <4> QED
        BY <1>6, <2>6, <4>1, Associates
    <3>2. u \o <<"ctld">> \in Seq(Input) /\ Lacks(u \o <<"ctld">>, {"ctldB"}) /\ (~ioEof => NoExec(u \o <<"ctld">>))
      BY <2>5, <2>6
    <3> QED
      BY <2>5, <3>1, <3>2
  <2>7. Lacks(Up', {"ctldB"}) /\ (~ioEof => NoExec(Up'))
    <3>1. CASE p = <<>>
      BY <1>1, <1>4, <2>1, <3>1, ConcatEmptySeq
    <3>2. CASE p = <<NL>>
      BY <1>1, <1>4, <2>1, <2>5, <3>2
    <3>3. CASE p = <<"ctld", NL>>
      BY <1>1, <1>4, <2>1, <2>6, <3>3
    <3>4. CASE p = <<NL, "ctld", NL>>
      <4>1. Up' = (Up \o <<NL>>) \o <<"ctld", NL>>
        <5>1. p = <<NL>> \o <<"ctld", NL>>
          BY <3>4, LineEnded
        <5>2. <<"ctld", NL>> \in Seq(Input)
          BY <1>6
        <5>3. (Up \o <<NL>>) \o <<"ctld", NL>> = Up \o (<<NL>> \o <<"ctld", NL>>)
          BY <1>4, <1>6, <5>2, Associates
        <5> QED
          BY <1>1, <5>1, <5>3
      <4>2. Up \o <<NL>> \in Seq(Input) /\ Lacks(Up \o <<NL>>, {"ctldB"}) /\ (~ioEof => NoExec(Up \o <<NL>>))
        BY <1>4, <2>1, <2>5
      <4> QED
        BY <2>6, <4>1, <4>2
    <3> QED
      BY <2>3, <3>1, <3>2, <3>3, <3>4
  <2>8. ioEof' = ioEof
    BY <1>1
  <2>9. Final'
    BY <2>2, <2>4, <2>7, <2>8 DEF Final
  <2> QED
    BY <2>9 DEF InStep
<1>11. ASSUME Commanding \/ Executing PROVE (sendEof = "no" /\ ~sendIntr) \/ Refused \/ Ended
  BY <1>11 DEF Commanding, Working, Prompting, Flushing, Asking, Answered,
               Executing, Opening, Refused, Refusing, Reading, Ended, Ending, Stopped, Idle
<1> QED
  BY <1>7, <1>8, <1>9, <1>10, <1>11 DEF InStep

\* The rest lacks what it lacks.
LEMMA LacksTail ==
  ASSUME NEW B, NEW u \in Seq(B), u # <<>>, NEW T, Lacks(u, T)
  PROVE  Lacks(Tail(u), T) /\ Head(u) \notin T
<1>1. /\ Len(u) \in Nat \ {0} /\ Len(Tail(u)) = Len(u) - 1 /\ Head(u) = u[1]
      /\ \A i \in 1..Len(u) - 1 : Tail(u)[i] = u[i + 1] /\ i + 1 \in 1..Len(u)
  OBVIOUS
<1>2. 1 \in 1..Len(u)
  BY <1>1
<1> QED
  BY <1>1, <1>2 DEF Lacks

\* What recv_input() reads: the answer to a prompt or a part of it, the end
\* instead of an answer, a batch file or its end.
LEMMA ReadInputInStep ==
  ASSUME WireInv, TextInv, InStep, ReadInput, ~rushed'
  PROVE  InStep'
<1>1. /\ Down' = Down /\ Place' = Place
      /\ (ReadNothing \/ ReadEnd => Up' = Up) /\ (\A n, s : ReadSome(n, s) => Up' = Up \o s)
      /\ UNCHANGED <<executing, ioEof, inExec, failed, aborted, gotCtld>>
  BY ReadInputKeeps, ReadInputIs DEF serverVars
<1>2. /\ Up \in Seq(Input) /\ inputFd \in {0, 1} /\ (~ioEof => Up = flow) /\ Len(Up) \in Nat
  BY WaysAre DEF WireInv, ClientTypes, Pipes
<1>3. CASE ReadNothing
  <2>1. Unmoved
    BY <1>1, <1>3 DEF Unmoved, ReadNothing
  <2> QED
    BY <2>1, InStepStays
<1>4. InBatch => InBatch' \/ asked' # asked
  BY <1>1 DEF InBatch
<1>5. /\ Quiet(executing, Down) = Quiet(executing', Down') /\ (Live => Live')
  BY <1>1 DEF Live
<1>6. CASE ReadEnd
  <2>1. /\ Source = <<>> /\ sendEof' = (IF inputFd = 0 THEN "ctld" ELSE "ctldB") /\ inputFd' = 0
        /\ inputFd = 0 => eof0' = TRUE /\ sendIntr' = FALSE /\ asked /\ flow # <<"exec">>
        /\ inputFd # 0 => UNCHANGED <<eof0, sendIntr>>
        /\ UNCHANGED <<typed, lineEnds, asked>> /\ Up' = Up
    BY <1>1, <1>6 DEF ReadEnd
  <2>2. CASE inputFd = 0
    <3>1. typed' = <<>> /\ eof0' /\ ~sendIntr' /\ sendEof' # "ctldB"
      BY <2>1, <2>2 DEF Source
    <3>2. CASE Final
      <4>1. Final'
        BY <1>1, <2>1, <3>1, <3>2 DEF Final
      <4> QED
        BY <4>1 DEF InStep
    <3>3. CASE Asking /\ ~ioEof
      <4>1. Lacks(Up, Cookies \cup {NL}) /\ Quiet(executing, Down) /\ ~inExec
        BY <3>3 DEF Asking
      <4>2. Lacks(Down, {"C_EXECUTE"})
        BY <4>1, LacksSome DEF Quiet, Controls
      <4>3. Lacks(Up, {"ctldB"}) /\ Lacks(Up, {NL})
        BY <4>1, LacksSome DEF Cookies
      <4>4. NoExec(Up)
        <5>1. \A i \in 1..Len(Up) : Up[i] # NL
          BY <4>3 DEF Lacks
        <5>2. \A i \in 1..Len(Up) - 1 : i \in 1..Len(Up)
          BY <1>2
        <5>3. Up # <<>> /\ Len(Up) # 1 => 2 \in 1..Len(Up)
          <6>1. Up # <<>> => Len(Up) # 0
            BY <1>2, EmptySeq
          <6>2. \A a \in Nat : a # 0 /\ a # 1 => 2 \in 1..a
            OBVIOUS
          <6> QED
            BY <1>2, <6>1, <6>2, Zenon
        <5>4. Len(Up) = 1 => Up[1] # "exec"
          <6> SUFFICES ASSUME Len(Up) = 1, Up[1] = "exec" PROVE FALSE
            OBVIOUS
          <6>1. \A u \in Seq(Input) : Len(u) = 1 /\ u[1] = "exec" => u = <<"exec">>
            OBVIOUS
          <6>2. Up = <<"exec">>
            BY <1>2, <6>1, Zenon
          <6> QED
            BY <1>2, <2>1, <2>2, <3>3, <6>2
        <5> QED
          BY <5>1, <5>2, <5>3, <5>4 DEF NoExec
      <4>5. Final'
        BY <1>1, <2>1, <3>1, <4>1, <4>2, <4>3, <4>4 DEF Final
      <4> QED
        BY <4>5 DEF InStep
    <3>4. ASSUME Commanding \/ Executing, asked PROVE Asking
      BY <3>4 DEF Commanding, Working, Prompting, Flushing, Asking, Answered,
                  Executing, Opening, Refused, Refusing, Reading, Ended, Ending, Stopped, InBatch, Fresh
    <3> QED
      BY <2>1, <2>2, <3>2, <3>3, <3>4 DEF InStep
  <2>3. CASE inputFd # 0
    <3>1. Reading /\ ~eof0 /\ ~ioEof
      BY <2>3 DEF InStep, Final, Commanding, Working, Prompting, Flushing, Asking, Answered,
                  Executing, Opening, Refused, Refusing, Reading, Ended, Ending, Stopped, Idle
    <3>2. /\ InBatch /\ executing /\ Live /\ ~sendIntr /\ Lacks(Up, Cookies) /\ Quiet(executing, Down)
      BY <3>1 DEF Reading
    <3>3. InBatch' /\ executing' /\ Live' /\ Quiet(executing', Down')
      BY <1>1, <1>4, <1>5, <2>1, <3>2
    <3>4. inputFd' = 0 /\ sendEof' = "ctldB" /\ ~sendIntr' /\ Lacks(Up', Cookies)
      BY <2>1, <2>3, <3>2
    <3>5. Ended'
      BY <3>3, <3>4 DEF Ended
    <3>6. ~eof0' /\ ~ioEof'
      BY <1>1, <2>1, <2>3, <3>1
    <3> QED
      BY <3>5, <3>6 DEF InStep, Executing
  <2> QED
    BY <2>2, <2>3
<1>7. ASSUME NEW n, NEW s, ReadSome(n, s) PROVE InStep'
  <2>1. /\ Source # <<>> /\ s \in Seq(Input) /\ Len(s) = n /\ s # <<>> /\ Len(Source) \in Nat /\ n \in 1..Len(Source)
        /\ \A i \in 1..n : s[i] = Source[i]
    <3>1. /\ Source \in Seq(Input) /\ n \in 1..Len(Source) /\ s \in Seq(Input) /\ Len(s) = n /\ Source # <<>>
          /\ \A i \in 1..n : s[i] = Source[i]
      BY <1>7, ReadSomeIs DEF WireInv
    <3>2. s # <<>>
      BY <3>1
    <3> QED
      BY <3>1, <3>2
  <2>2. /\ lineEnds' = (s[n] = NL) /\ UNCHANGED <<inputFd, sendEof, sendIntr, eof0>> /\ Up' = Up \o s
        /\ inputFd = 0 => Patient(s) /\ asked' = (asked /\ s[n] # NL)
        /\ inputFd # 0 => asked' = asked
    BY <1>1, <1>7 DEF ReadSome
  <2>3. Lacks(s, Cookies)
    <3>1. Lacks(Source, Cookies)
      BY DEF Source, TextInv
    <3>2. \A i \in 1..n : i \in 1..Len(Source)
      BY <2>1
    <3> QED
      BY <2>1, <3>1, <3>2 DEF Lacks
  <2>4. CASE inputFd # 0
    <3>1. Reading /\ ~eof0 /\ ~ioEof
      BY <2>4 DEF InStep, Final, Commanding, Working, Prompting, Flushing, Asking, Answered,
                  Executing, Opening, Refused, Refusing, Reading, Ended, Ending, Stopped, Idle
    <3>2. Lacks(Up', Cookies)
      <4>1. Lacks(Up, Cookies)
        BY <3>1 DEF Reading
      <4> QED
        BY <1>2, <2>1, <2>2, <2>3, <4>1, LacksAdded
    <3>3. Reading'
      BY <1>1, <1>4, <1>5, <2>2, <2>4, <3>1, <3>2 DEF Reading
    <3> QED
      BY <1>1, <2>2, <3>1, <3>3 DEF InStep, Executing
  <2>5. CASE inputFd = 0
    <3>1. asked /\ typed # <<>> /\ \A i \in 1..Len(s) : s[i] = NL => i = Len(s)
      <4>1. asked /\ \A i \in DOMAIN s : s[i] = NL => i = Len(s)
        BY <2>2, <2>5 DEF Patient
      <4>2. DOMAIN s = 1..Len(s)
        BY <2>1
      <4>3. typed # <<>>
        BY <2>1, <2>5 DEF Source
      <4> QED
        BY <4>1, <4>2, <4>3
    <3>2. Asking /\ ~eof0 /\ ~ioEof
      BY <3>1 DEF InStep, Final, Commanding, Working, Prompting, Flushing, Asking, Answered,
                  Executing, Opening, Refused, Refusing, Reading, Ended, Ending, Stopped, InBatch, Fresh
    <3>3. /\ s[Len(s)] = NL => OneLine(Up')
          /\ s[Len(s)] # NL => Lacks(Up', Cookies \cup {NL})
      <4>1. Lacks(Up, Cookies \cup {NL})
        BY <3>2 DEF Asking
      <4> QED
        BY <1>2, <2>1, <2>2, <2>3, <3>1, <4>1, LineMade
    <3>4. CASE s[n] = NL
      <4>1. ~asked' /\ lineEnds' /\ OneLine(Up')
        BY <2>1, <2>2, <2>5, <3>3, <3>4
      <4>2. Answered'
        BY <1>1, <1>5, <2>2, <3>2, <4>1 DEF Asking, Answered, Idle
      <4> QED
        BY <1>1, <2>2, <3>2, <4>2 DEF InStep, Commanding
    <3>5. CASE s[n] # NL
      <4>1. asked' /\ Lacks(Up', Cookies \cup {NL})
        BY <2>1, <2>2, <2>5, <3>1, <3>3, <3>5
      <4>2. Asking'
        BY <1>1, <1>5, <2>2, <3>2, <4>1 DEF Asking
      <4> QED
        BY <1>1, <2>2, <3>2, <4>2 DEF InStep, Commanding
    <3> QED
      BY <3>4, <3>5
  <2> QED
    BY <2>4, <2>5
<1> QED
  BY <1>3, <1>6, <1>7, ReadInputIs

\* What the client sees: a prompt, that it is to open a batch file, which it
\* may not do, or other output.
LEMMA RecvOutputInStep ==
  ASSUME WireInv, InStep, RecvOutput, Down' = Down \/ (Down # <<>> /\ Down' = Tail(Down) /\ Gotten)
  PROVE  InStep' \/ cpc' = "gone"
<1>1. /\ Up' = Up /\ Place' = Place
      /\ UNCHANGED <<sendEof, typed, eof0, lineEnds, ioEof, inExec, failed, aborted, gotCtld>>
  BY RecvOutputKeeps DEF RecvOutput, serverVars
<1>2. Down \in Seq(Output) /\ executing \in BOOLEAN /\ asked \in BOOLEAN
  BY WaysAre DEF WireInv, ClientTypes
<1>3. /\ (Live => Live')
  BY <1>1 DEF Live
<1>4. CASE Down' = Down /\ UNCHANGED <<executing, asked, inputFd, sendIntr>>
  <2>1. Unmoved
    BY <1>1, <1>4 DEF Unmoved
  <2> QED
    BY <2>1, InStepStays
<1>5. CASE Down # <<>> /\ Down' = Tail(Down) /\ Gotten
  <2> DEFINE x == Head(Down)
  <2>1. /\ Quiet(executing, Down) => x \notin Controls(executing) /\ Quiet(executing, Down')
        /\ \A c : Calling(executing, Down, c) => \/ x \notin Controls(executing) /\ Calling(executing, Down', c)
                                                 \/ x = c /\ Down' = <<>>
    BY <1>2, <1>5, QuietSeen
  <2>2. /\ x \notin Controls(executing) => UNCHANGED <<executing, inputFd, sendIntr>> /\ (asked' <=> asked)
        /\ x = "C_PROMPT" => executing' = FALSE /\ asked' = TRUE /\ UNCHANGED <<inputFd, sendIntr>>
        /\ x = "C_FLUSH" => asked' = (asked \/ ~executing) /\ UNCHANGED <<executing, inputFd, sendIntr>>
        /\ x = "C_EXECUTE" => /\ asked' = asked
                              /\ \/ executing' = TRUE /\ inputFd' = 1 /\ UNCHANGED sendIntr
                                 \/ inputFd' = 0 /\ sendIntr' = TRUE /\ UNCHANGED executing
    BY <1>2, <1>5 DEF Gotten, ShowPrompt, DoExecute, Controls
  <2>3. asked' \in BOOLEAN
    BY RecvOutputKeeps DEF WireInv, ClientTypes
  <2> HIDE DEF x
  <2>4. CASE x \notin Controls(executing)
    <3>1. UNCHANGED <<executing, asked, inputFd, sendIntr>>
      BY <1>2, <2>2, <2>3, <2>4
    <3>2. (Idle => Idle') /\ (InBatch => InBatch') /\ (Fresh => Fresh')
      BY <1>1, <3>1 DEF Idle, InBatch, Fresh, Live
    <3>3. /\ Quiet(executing, Down) => Quiet(executing', Down')
          /\ \A c \in Controls(executing) : Calling(executing, Down, c) => Calling(executing', Down', c)
      BY <2>1, <2>4, <3>1
    <3>4. "C_PROMPT" \in Controls(executing) /\ "C_EXECUTE" \in Controls(executing) /\ (~executing => "C_FLUSH" \in Controls(executing))
      BY DEF Controls
    <3>5. Commanding => Commanding'
      BY <1>1, <1>3, <3>1, <3>2, <3>3, <3>4 DEF Commanding, Working, Prompting, Flushing, Asking, Answered
    <3>6. Executing => Executing'
      BY <1>1, <1>3, <3>1, <3>2, <3>3, <3>4 DEF Executing, Opening, Refused, Refusing, Reading, Ended, Ending, Stopped
    <3>7. Final => Final'
      <4> SUFFICES ASSUME Final PROVE Final'
        OBVIOUS
      <4>1. Lacks(Down, {"C_EXECUTE"})
        BY DEF Final
      <4>2. Lacks(Down', {"C_EXECUTE"})
        BY <1>2, <1>5, <4>1, LacksTail
      <4> QED
        BY <1>1, <3>1, <4>2 DEF Final
    <3> QED
      BY <1>1, <3>5, <3>6, <3>7 DEF InStep
  <2>5. CASE Final
    <3>1. Lacks(Down', {"C_EXECUTE"}) /\ x # "C_EXECUTE"
      BY <1>2, <1>5, <2>5, LacksTail DEF Final, x
    <3>2. UNCHANGED <<inputFd, sendIntr>>
      BY <2>2, <3>1 DEF Controls
    <3>3. Final'
      BY <1>1, <2>5, <3>1, <3>2 DEF Final
    <3> QED
      BY <3>3 DEF InStep
  <2>6. CASE x = "C_PROMPT" /\ Prompting /\ Down' = <<>> /\ ~ioEof /\ ~eof0
    <3>1. executing' = FALSE /\ asked' = TRUE /\ UNCHANGED <<inputFd, sendIntr>>
      BY <2>2, <2>6
    <3>2. Quiet(FALSE, Down')
      BY <2>6, LacksNothing DEF Quiet
    <3>3. Lacks(Up', Cookies \cup {NL})
      BY <1>1, <2>6, LacksNothing DEF Prompting
    <3>4. Asking'
      BY <1>1, <1>3, <2>6, <3>1, <3>2, <3>3 DEF Prompting, Asking, Idle
    <3> QED
      BY <1>1, <2>6, <3>4 DEF InStep, Commanding
  <2>7. CASE x = "C_FLUSH" /\ Flushing /\ Down' = <<>> /\ ~ioEof /\ ~eof0
    <3>1. ~executing' /\ asked' /\ UNCHANGED <<executing, inputFd, sendIntr>>
      <4>1. ~executing
        BY <2>7 DEF Flushing
      <4>2. asked' = (asked \/ ~executing) /\ UNCHANGED <<executing, inputFd, sendIntr>>
        BY <2>2, <2>7
      <4> QED
        BY <4>1, <4>2
    <3>2. Quiet(executing', Down') /\ Lacks(Up', Cookies \cup {NL})
      BY <1>1, <2>7, LacksNothing DEF Flushing, Quiet
    <3>3. Asking'
      BY <1>1, <1>3, <2>7, <3>1, <3>2 DEF Flushing, Asking, Idle
    <3> QED
      BY <1>1, <2>7, <3>3 DEF InStep, Commanding
  <2>8. CASE x = "C_EXECUTE" /\ Opening /\ Down' = <<>> /\ ~ioEof /\ ~eof0
    <3>1. /\ inExec /\ Place \in {"exec", "getexec"} /\ ~failed /\ Live /\ ~asked /\ ~executing
          /\ Idle /\ Up = <<>>
      BY <2>8 DEF Opening, Fresh
    <3>2. asked' = asked
      BY <2>2, <2>8
    <3>3. CASE executing' = TRUE /\ inputFd' = 1 /\ UNCHANGED sendIntr
      <4>1. InBatch' /\ Live'
        BY <1>1, <1>3, <3>1, <3>2 DEF InBatch
      <4>2. Lacks(Up', Cookies)
        BY <1>1, <3>1, LacksNothing
      <4>3. Quiet(executing', Down')
        BY <2>8, LacksNothing DEF Quiet
      <4>4. sendEof' = "no" /\ ~sendIntr'
        BY <1>1, <3>1, <3>3 DEF Idle
      <4>5. Reading'
        BY <3>3, <4>1, <4>2, <4>3, <4>4 DEF Reading
      <4> QED
        BY <1>1, <2>8, <4>5 DEF InStep, Executing
    <3>4. CASE inputFd' = 0 /\ sendIntr' = TRUE /\ UNCHANGED executing
      <4>1. Fresh'
        BY <1>1, <1>3, <3>1, <3>2, <3>4 DEF Fresh
        <4>2. Quiet(executing', Down')
        BY <2>8, LacksNothing DEF Quiet
      <4>3. Refused'
        BY <1>1, <2>8, <3>1, <3>4, <4>1, <4>2 DEF Refused, Idle
      <4> QED
        BY <1>1, <2>8, <4>3 DEF InStep, Executing
    <3> QED
      BY <2>2, <2>8, <3>3, <3>4
  <2>9. ASSUME Commanding \/ Executing
        PROVE  \/ x \notin Controls(executing)
               \/ x = "C_PROMPT" /\ Prompting /\ Down' = <<>>
               \/ x = "C_FLUSH" /\ Flushing /\ Down' = <<>>
               \/ x = "C_EXECUTE" /\ Opening /\ Down' = <<>>
    BY <2>1, <2>9 DEF Commanding, Working, Prompting, Flushing, Asking, Answered,
                  Executing, Opening, Refused, Refusing, Reading, Ended, Ending, Stopped
  <2> QED
    BY <2>4, <2>5, <2>6, <2>7, <2>8, <2>9 DEF InStep
<1> QED
  BY <1>4, <1>5, GottenIs

\* The server prompts for a command.
LEMMA PromptInStep == ASSUME WireInv, InStep, Prompt PROVE InStep'
<1>1. /\ Place = "status" /\ Up' = Up /\ Down \in Seq(Output)
      /\ UNCHANGED <<inExec, failed, aborted, gotCtld, ioEof, clientVars>>
      /\ (ioEof => Down' = Down \o <<"data">>) /\ (~ioEof => Down' = Down \o <<"C_PROMPT">> /\ Place' = "getcmd")
  BY PromptKeeps, WaysAre DEF Prompt, Place, WireInv
<1>2. UNCHANGED <<executing, asked, inputFd, sendEof, sendIntr, typed, eof0, lineEnds>>
  BY <1>1 DEF clientVars
<1>3. CASE Final
  <2>1. Lacks(Down', {"C_EXECUTE"})
    <3>1. \A x \in {"data", "C_PROMPT"} : Lacks(<<x>>, {"C_EXECUTE"}) /\ <<x>> \in Seq(Output)
      BY Sayings DEF Lacks
    <3>2. Lacks(Down, {"C_EXECUTE"}) /\ \E x \in {"data", "C_PROMPT"} : Down' = Down \o <<x>>
      BY <1>1, <1>3 DEF Final
    <3>3. PICK x \in {"data", "C_PROMPT"} : Down' = Down \o <<x>>
      BY <3>2
    <3>4. Lacks(Down \o <<x>>, {"C_EXECUTE"})
      BY <1>1, <3>1, <3>2, LacksAdded
    <3> QED
      BY <3>3, <3>4
  <2>2. Final'
    BY <1>1, <1>2, <1>3, <2>1 DEF Final
  <2> QED
    BY <2>2 DEF InStep
<1>4. CASE Working /\ ~eof0 /\ ~ioEof
  <2>1. Calling(executing', Down', "C_PROMPT")
    <3>1. Quiet(executing, Down) /\ "C_PROMPT" \in Output
      BY <1>4 DEF Working, Output
    <3> QED
      BY <1>1, <1>2, <1>4, <3>1, QuietSays
  <2>2. Prompting'
    BY <1>1, <1>2, <1>4, <2>1 DEF Working, Prompting, Idle, Live
  <2> QED
    BY <1>1, <1>2, <1>4, <2>2 DEF InStep, Commanding
<1>5. Commanding \/ Executing => Working
  BY <1>1 DEF Commanding, Prompting, Flushing, Asking, Answered,
              Executing, Opening, Refused, Refusing, Reading, Ended, Ending, Stopped, InBatch, Fresh
<1> QED
  BY <1>3, <1>4, <1>5 DEF InStep

\* The command loop goes on, or the session ends.
LEMMA LoopInStep == ASSUME WireInv, InStep, Loop PROVE InStep'
<1>1. /\ Place = "loop" /\ Down' = Down /\ Place' = "status" /\ aborted' = FALSE
      /\ ioEof' = (ioEof \/ gotCtld) /\ UNCHANGED <<inExec, failed, gotCtld, clientVars, toServer>>
      /\ (~gotCtld => Up' = Up) /\ (gotCtld => Content(inq') = <<>>)
  BY LoopKeeps DEF Loop, Place
<1>2. UNCHANGED <<executing, asked, inputFd, sendEof, sendIntr, typed, eof0, lineEnds, inbuf>>
  BY <1>1 DEF clientVars
<1>3. ioEof \in BOOLEAN /\ gotCtld \in BOOLEAN
  BY DEF WireInv, ServerTypes
<1>4. CASE Final
  <2>1. Lacks(Up', {"ctldB"})
    <3>1. CASE gotCtld
      <4>1. /\ Content(inq) \in Seq(Input) /\ Up \in Seq(Input) /\ ClientTypes /\ ServerTypes /\ BetweenTypes
        BY WaysAre DEF WireInv
      <4>2. Content(inq') = Drop(Content(inq), Len(Content(inq))) /\ Len(Content(inq)) \in 0..Len(Content(inq))
        BY <1>1, <3>1, <4>1, DropEnds
      <4>3. Up' = Drop(Up, Len(Content(inq))) /\ Len(Content(inq)) \in 0..Len(Up)
        BY <1>1, <1>2, <4>1, <4>2, UpTaken
      <4> QED
        BY <1>4, <4>1, <4>3, LacksRest DEF Final
    <3>2. CASE ~gotCtld
      BY <1>1, <1>4, <3>2 DEF Final
    <3> QED
      BY <3>1, <3>2
  <2>2. ~ioEof' => NoExec(Up')
    BY <1>1, <1>4 DEF Final
  <2>3. Final'
    BY <1>1, <1>2, <1>4, <2>1, <2>2 DEF Final
  <2> QED
    BY <2>3 DEF InStep
<1>5. CASE Working /\ ~eof0 /\ ~ioEof
  <2>1. ~gotCtld /\ Up' = Up /\ ~ioEof'
    BY <1>1, <1>5 DEF Working
  <2>2. Working'
    BY <1>1, <1>2, <1>5, <2>1 DEF Working, Idle
  <2> QED
    BY <1>2, <1>5, <2>1, <2>2 DEF InStep, Commanding
<1>6. Commanding \/ Executing => Working
  BY <1>1 DEF Commanding, Prompting, Flushing, Asking, Answered,
              Executing, Opening, Refused, Refusing, Reading, Ended, Ending, Stopped, InBatch, Fresh
<1> QED
  BY <1>4, <1>5, <1>6 DEF InStep

\* A command is told that its input ended or was interrupted, and the
\* execute command ends.
LEMMA TakeNothingInStep == ASSUME WireInv, InStep, TakeNothing PROVE InStep'
<1>1. /\ Place \in Gets /\ aborted /\ UNCHANGED <<aborted, ioEof, clientVars>> /\ Up' = Up /\ Down \in Seq(Output)
      /\ \/ Place = "getcmd" /\ Down' = Down /\ UNCHANGED <<inExec, gotCtld>>
         \/ Place = "getarg" /\ Down' = Down /\ Place' = Back /\ UNCHANGED <<inExec, gotCtld>>
         \/ Down' = Down \o <<"data">> /\ Place' = "loop" /\ inExec' = FALSE /\ gotCtld' = FALSE
  BY TakeNothingKeeps, WaysAre DEF WireInv
<1>2. UNCHANGED <<executing, asked, inputFd, sendEof, sendIntr, typed, eof0, lineEnds>>
  BY <1>1 DEF clientVars
<1>3. CASE Final
  <2>1. Lacks(Down', {"C_EXECUTE"})
    <3>1. Lacks(<<"data">>, {"C_EXECUTE"}) /\ <<"data">> \in Seq(Output)
      BY Sayings DEF Lacks
    <3>2. Lacks(Down, {"C_EXECUTE"})
      BY <1>3 DEF Final
    <3>3. Lacks(Down \o <<"data">>, {"C_EXECUTE"})
      BY <1>1, <3>1, <3>2, LacksAdded
    <3> QED
      BY <1>1, <3>2, <3>3
  <2>2. ~inExec'
    BY <1>1, <1>3 DEF Final
  <2>3. Final'
    BY <1>1, <1>2, <1>3, <2>1, <2>2 DEF Final
  <2> QED
    BY <2>3 DEF InStep
<1>4. CASE Stopped /\ ~eof0 /\ ~ioEof
  <2>1. ~eof0' /\ ~ioEof' /\ Idle' /\ ~asked' /\ Up' = <<>>
    BY <1>1, <1>2, <1>4 DEF Stopped, Idle, InBatch
  <2>2. CASE Place = "getarg" /\ Down' = Down /\ Place' = Back /\ UNCHANGED <<inExec, gotCtld>>
    <3>1. inExec /\ Place' = "exec" /\ Quiet(executing', Down')
      BY <1>2, <1>4, <2>2 DEF Stopped, InBatch, Back
    <3>2. Stopped'
      BY <1>1, <2>1, <2>2, <3>1 DEF Stopped, InBatch
    <3> QED
      BY <2>1, <3>2 DEF InStep, Executing
  <2>3. CASE Down' = Down \o <<"data">> /\ Place' = "loop" /\ inExec' = FALSE /\ gotCtld' = FALSE
    <3>1. Quiet(executing, Down) /\ "data" \in Output /\ "data" \notin Controls(executing)
      BY <1>4 DEF Stopped, Output, Controls
    <3>2. Quiet(executing', Down')
      BY <1>1, <1>2, <2>3, <3>1, QuietSays
    <3>3. Working'
      BY <2>1, <2>3, <3>2 DEF Working
    <3> QED
      BY <2>1, <3>3 DEF InStep, Commanding
  <2>4. Place # "getcmd"
    BY <1>4 DEF Stopped, InBatch
  <2> QED
    BY <1>1, <2>2, <2>3, <2>4
<1>5. Commanding \/ Executing => Stopped
  BY <1>1 DEF Commanding, Working, Prompting, Flushing, Asking, Answered, Gets, Live,
              Executing, Opening, Refused, Refusing, Reading, Ended, Ending, InBatch, Fresh
<1> QED
  BY <1>3, <1>4, <1>5 DEF InStep

\* The execute command asks for the next line, or ends.
LEMMA ExecuteInStep == ASSUME WireInv, Server, InStep, Execute PROVE InStep'
<1>1. /\ Place = "exec" /\ inExec /\ Up' = Up /\ UNCHANGED <<aborted, ioEof, clientVars>> /\ Down \in Seq(Output)
      /\ \/ /\ Down' = Down /\ Place' = (IF failed THEN "drain" ELSE "getexec") /\ UNCHANGED <<inExec, failed, gotCtld>>
         \/ /\ ~failed /\ (ioEof \/ gotCtld) /\ Down' = Down \o <<"data">> /\ Place' = "loop"
            /\ inExec' = FALSE /\ gotCtld' = FALSE
  BY ExecuteKeeps, WaysAre DEF WireInv, Server
<1>2. UNCHANGED <<executing, asked, inputFd, sendEof, sendIntr, typed, eof0, lineEnds>>
  BY <1>1 DEF clientVars
<1>3. Executing /\ ~eof0 /\ ~ioEof
  BY <1>1 DEF InStep, Final, Commanding, Working, Prompting, Flushing, Asking, Answered
<1>4. ~eof0' /\ ~ioEof'
  BY <1>1, <1>2, <1>3
<1>5. CASE Down' = Down /\ Place' = (IF failed THEN "drain" ELSE "getexec") /\ UNCHANGED <<inExec, failed, gotCtld>>
  <2>1. /\ (Idle => Idle') /\ (Live => Live') /\ (InBatch => InBatch') /\ (Fresh => Fresh')
    BY <1>1, <1>2, <1>5 DEF Idle, Live, InBatch, Fresh
  <2>2. Quiet(executing', Down') = Quiet(executing, Down) /\ Calling(executing', Down', "C_EXECUTE") = Calling(executing, Down, "C_EXECUTE")
    BY <1>2, <1>5
  <2>3. Executing'
    BY <1>1, <1>2, <1>3, <2>1, <2>2 DEF Executing, Opening, Refused, Refusing, Reading, Ended, Ending, Stopped
  <2> QED
    BY <1>4, <2>3 DEF InStep
<1>6. CASE gotCtld /\ Down' = Down \o <<"data">> /\ Place' = "loop" /\ inExec' = FALSE /\ gotCtld' = FALSE
  <2>1. Stopped
    BY <1>3, <1>6 DEF Executing, Opening, Refused, Refusing, Reading, Ended, Ending, Fresh, Live
  <2>2. Idle' /\ ~asked' /\ Up' = <<>>
    BY <1>1, <1>2, <2>1 DEF Stopped, Idle, InBatch
  <2>3. Quiet(executing, Down) /\ "data" \in Output /\ "data" \notin Controls(executing)
    BY <2>1 DEF Stopped, Output, Controls
  <2>4. Quiet(executing', Down')
    BY <1>1, <1>2, <1>6, <2>3, QuietSays
  <2>5. Working'
    BY <1>6, <2>2, <2>4 DEF Working
  <2> QED
    BY <1>4, <2>5 DEF InStep, Commanding
<1> QED
  BY <1>1, <1>3, <1>5, <1>6

\* The server closes the connection.
LEMMA CloseInStep == ASSUME WireInv, InStep, Close PROVE InStep'
<1>1. /\ Down' = Down /\ spc = "closing" /\ UNCHANGED <<inq, inExec, failed, aborted, gotCtld, ioEof, clientVars>>
      /\ toServer' \in {toServer, <<>>}
  BY CloseKeeps
<1>2. UNCHANGED <<executing, asked, inputFd, sendEof, sendIntr, typed, eof0, lineEnds, inbuf>>
  BY <1>1 DEF clientVars
<1>3. ioEof
  BY <1>1 DEF WireInv, Pipes
<1>4. Final
  BY <1>3 DEF InStep
<1>5. Lacks(Up', {"ctldB"})
  <2>1. /\ Content(inq) \in Seq(Input) /\ toServer \in Seq(Input) /\ inbuf \in Seq(Input)
        /\ Content(inq) \o toServer \in Seq(Input)
    BY WaysAre DEF WireInv
  <2>2. Lacks((Content(inq) \o toServer) \o inbuf, {"ctldB"})
    BY <1>4 DEF Final, Up
  <2>3. Lacks(Content(inq) \o toServer, {"ctldB"}) /\ Lacks(inbuf, {"ctldB"})
    BY <2>1, <2>2, LacksParts
  <2>4. Lacks(Content(inq), {"ctldB"})
    BY <2>1, <2>3, LacksParts
  <2>5. Content(inq') = Content(inq) /\ inbuf' = inbuf
    BY <1>1, <1>2
  <2>6. CASE toServer' = toServer
    BY <2>2, <2>5, <2>6 DEF Up
  <2>7. CASE toServer' = <<>>
    <3>1. Lacks(Content(inq) \o inbuf, {"ctldB"})
      BY <2>1, <2>3, <2>4, LacksAdded
    <3>2. (Content(inq) \o <<>>) \o inbuf = Content(inq) \o inbuf
      BY <2>1, ConcatEmptySeq
    <3> QED
      BY <2>5, <2>7, <3>1, <3>2 DEF Up
  <2> QED
    BY <1>1, <2>6, <2>7
<1>6. Final'
  BY <1>1, <1>2, <1>3, <1>4, <1>5 DEF Final
<1> QED
  BY <1>6 DEF InStep

\* What the command loop, a command's prompt or the execute command makes
\* of a line: a line of a batch file
LEMMA BatchLine ==
  ASSUME WireInv, NEW line, TakenLine(line), InBatch, Place = spc, executing, Quiet(executing, Down), ~aborted', UNCHANGED clientVars
  PROVE  InBatch' /\ Quiet(executing', Down')
<1>1. /\ inExec /\ Place \in {"exec", "getexec", "getarg", "drain"} /\ ~asked /\ executing /\ asked' = asked /\ executing' = executing
      /\ Down \in Seq(Output)
  BY WaysAre DEF InBatch, clientVars, WireInv
<1>2. /\ inExec' = inExec /\ Place' \in {"exec", "getarg", "drain"}
      /\ Down' = Down \/ Down' = Down \o <<"data">> \/ Down' = Down \o <<"C_FLUSH">>
  BY <1>1 DEF TakenLine, Dispatched, Back
<1>3. InBatch'
  BY <1>1, <1>2 DEF InBatch
<1>4. Quiet(executing, Down')
  <2>1. \A x \in {"data", "C_FLUSH"} : x \in Output /\ x \notin Controls(executing)
    BY <1>1 DEF Output, Controls
  <2>2. \A x \in {"data", "C_FLUSH"} : Quiet(executing, Down \o <<x>>)
    BY <1>1, <2>1, QuietSays
  <2> QED
    BY <1>2, <2>2
<1> QED
  BY <1>1, <1>3, <1>4

\* ... the answer to a prompt
LEMMA AnswerTaken ==
  ASSUME WireInv, NEW line, TakenLine(line), Answered, Place = spc, ~aborted', ~gotCtld', UNCHANGED clientVars, Up' = <<>>
  PROVE  Working' \/ Flushing' \/ Opening'
<1>1. /\ ~inExec /\ Place \in {"getcmd", "getarg"} /\ ~asked /\ ~executing /\ Idle /\ Quiet(executing, Down)
  BY DEF Answered
<1>2. UNCHANGED <<executing, asked, inputFd, sendEof, sendIntr, lineEnds>> /\ Down \in Seq(Output)
  BY WaysAre DEF clientVars, WireInv
<1>3. Idle' /\ Live' /\ ~asked' /\ ~executing' /\ executing' = executing
  BY <1>1, <1>2 DEF Idle, Live
<1>4. /\ \A x \in Output : Calling(executing, Down \o <<x>>, x)
      /\ \A x \in Output : x \notin Controls(executing) => Quiet(executing, Down \o <<x>>)
  BY <1>1, <1>2, QuietSays
<1>5. "data" \in Output \ Controls(executing) /\ "C_FLUSH" \in Output /\ "C_EXECUTE" \in Output
  BY DEF Output, Controls
<1>6. Quiet(executing, Down \o <<"C_REDIR", "data>">>)
  <2>1. <<"C_REDIR", "data>">> \in Seq(Output) /\ Lacks(<<"C_REDIR", "data>">>, Controls(executing))
    BY Sayings DEF Lacks, Controls
  <2> QED
    BY <1>1, <1>2, <2>1, LacksAdded DEF Quiet
<1>7. \/ Place' = "loop" /\ ~inExec' /\ (Down' = Down \o <<"data">> \/ Down' = Down \o <<"C_REDIR", "data>">>)
      \/ Place' = "getarg" /\ ~inExec' /\ Down' = Down \o <<"C_FLUSH">>
      \/ Place' = "exec" /\ inExec' /\ ~failed' /\ Down' = Down \o <<"C_EXECUTE">>
  BY <1>1 DEF TakenLine, Dispatched, Back
<1>8. CASE Place' = "loop" /\ ~inExec' /\ (Down' = Down \o <<"data">> \/ Down' = Down \o <<"C_REDIR", "data>">>)
  <2>1. Quiet(executing', Down')
    BY <1>3, <1>4, <1>5, <1>6, <1>8
  <2> QED
    BY <1>3, <1>8, <2>1 DEF Working, Live
<1>9. CASE Place' = "getarg" /\ ~inExec' /\ Down' = Down \o <<"C_FLUSH">>
  <2>1. Calling(executing', Down', "C_FLUSH")
    BY <1>3, <1>4, <1>5, <1>9
  <2> QED
    BY <1>3, <1>9, <2>1 DEF Flushing
<1>10. CASE Place' = "exec" /\ inExec' /\ ~failed' /\ Down' = Down \o <<"C_EXECUTE">>
  <2>1. Calling(executing', Down', "C_EXECUTE")
    BY <1>3, <1>4, <1>5, <1>10
  <2> QED
    BY <1>3, <1>10, <2>1 DEF Opening, Fresh
<1> QED
  BY <1>7, <1>8, <1>9, <1>10

\* The server takes a line.
LEMMA TakeLineInStep == ASSUME WireInv, Server, InStep, TakeLine PROVE InStep'
<1> DEFINE line == IoqLine(inq)
<1>1. /\ FirstIs(line) /\ line \in Seq(Input) /\ spc \in Gets /\ ~aborted /\ GotLine(line)
      /\ UNCHANGED <<ioEof, clientVars>> /\ TakenLine(line)
  BY LineIs, TakeLineKeeps
<1> HIDE DEF line
<1>2. Place = spc /\ ~ioEof
  BY <1>1 DEF Place, Gets, Server
<1>3. UNCHANGED <<executing, asked, inputFd, sendEof, sendIntr, typed, eof0, lineEnds>>
  BY <1>1 DEF clientVars
<1>4. Up \in Seq(Input) /\ Down \in Seq(Output) /\ gotCtld \in BOOLEAN
  BY WaysAre DEF WireInv, ServerTypes
<1>5. CutOff(Up, line, Up')
  BY <1>1 DEF FirstIs, CutOff
<1>6. /\ line \notin CookieLines => ~aborted' /\ (gotCtld' <=> gotCtld)
      /\ line \in CookieLines => aborted' /\ Down' = Down /\ Place' = Place /\ UNCHANGED inExec
  BY <1>1, <1>4 DEF GotLine, CookieLines, TakenLine
<1>7. Idle => Idle'
  BY <1>3 DEF Idle
<1>8. CASE Final
  <2>1. NoExec(Up') /\ line # <<"exec">>
    BY <1>2, <1>4, <1>5, <1>1, <1>8, CutFinal DEF Final
  <2>2. Lacks(Up', {"ctldB"})
    <3>1. Up' = Drop(Up, Len(line) + 1) /\ Len(line) \in Nat /\ Len(line) + 1 \in 1..Len(Up)
      BY <1>5 DEF CutOff
    <3>2. Len(line) + 1 \in 0..Len(Up)
      BY <3>1
    <3> QED
      BY <1>4, <1>8, <3>1, <3>2, LacksRest DEF Final
  <2>3. /\ ~inExec' /\ (\/ Down' = Down \/ \E s \in {<<"data">>, <<"C_FLUSH">>, <<"C_REDIR", "data>">>} : Down' = Down \o s)
    BY <1>1, <1>8, <2>1 DEF TakenLine, Dispatched, Final
  <2>4. Lacks(Down', {"C_EXECUTE"})
    <3>1. Lacks(Down, {"C_EXECUTE"})
      BY <1>8 DEF Final
    <3>2. ASSUME NEW s \in {<<"data">>, <<"C_FLUSH">>, <<"C_REDIR", "data>">>}, Down' = Down \o s PROVE Lacks(Down', {"C_EXECUTE"})
      <4>1. s \in Seq(Output)
        BY Sayings
      <4>2. Lacks(s, {"C_EXECUTE"})
        BY DEF Lacks
      <4> QED
        BY <1>4, <3>1, <3>2, <4>1, <4>2, LacksAdded
    <3> QED
      BY <2>3, <3>1, <3>2
  <2>5. Final'
    BY <1>3, <1>8, <2>1, <2>2, <2>3, <2>4 DEF Final
  <2> QED
    BY <2>5 DEF InStep
<1>9. ASSUME ~Final PROVE ~eof0' /\ ~ioEof' /\ (Commanding \/ Executing)
  BY <1>1, <1>3, <1>9 DEF InStep
<1>10. CASE Answered /\ ~Final
  <2>1. Up' = <<>> /\ line \notin CookieLines
    BY <1>1, <1>4, <1>5, <1>10, CutOne DEF Answered
  <2>2. ~aborted' /\ ~gotCtld'
    BY <1>6, <1>10, <2>1 DEF Answered, Live
  <2>3. Working' \/ Flushing' \/ Opening'
    BY <1>1, <1>2, <1>10, <2>1, <2>2, AnswerTaken
  <2> QED
    BY <1>9, <1>10, <2>3 DEF InStep, Commanding, Executing
<1>11. CASE Refusing /\ ~Final
  <2>1. Up' = <<>> /\ line \in CookieLines
    BY <1>1, <1>5, <1>11, CutCookie DEF Refusing, CookieLines
  <2>2. InBatch' /\ Quiet(executing', Down') /\ aborted'
    BY <1>3, <1>6, <1>11, <2>1 DEF Refusing, Fresh, InBatch
  <2>3. Stopped'
    BY <1>7, <1>11, <2>1, <2>2 DEF Refusing, Stopped
  <2> QED
    BY <1>9, <1>11, <2>3 DEF InStep, Executing
<1>12. CASE (Reading \/ Ended) /\ ~Final
  <2>1. /\ Lacks(Up, Cookies) /\ InBatch /\ executing /\ Quiet(executing, Down) /\ ~gotCtld
    BY <1>12 DEF Reading, Ended, Live
  <2>2. Lacks(Up', Cookies) /\ line \notin CookieLines
    BY <1>1, <1>4, <1>5, <2>1, CutPlain
  <2>3. ~aborted' /\ ~gotCtld'
    BY <1>6, <2>1, <2>2
  <2>4. InBatch' /\ Quiet(executing', Down') /\ Live'
    BY <1>1, <1>2, <2>1, <2>3, BatchLine DEF Live
  <2>5. Reading' \/ Ended'
    BY <1>3, <1>12, <2>2, <2>4 DEF Reading, Ended
  <2> QED
    BY <1>9, <1>12, <2>5 DEF InStep, Executing
<1>13. CASE Ending /\ ~Final
  <2>1. /\ BatchEnds(Up) /\ InBatch /\ executing /\ Quiet(executing, Down) /\ ~gotCtld /\ Idle'
    BY <1>7, <1>13 DEF Ending, Live
  <2>2. \/ Up' = <<>> /\ line = <<"ctldB">>
        \/ BatchEnds(Up') /\ line \notin CookieLines
    BY <1>1, <1>4, <1>5, <2>1, CutEnds
  <2>3. CASE Up' = <<>> /\ line = <<"ctldB">>
    <3>1. line \in CookieLines
      BY <2>3 DEF CookieLines
    <3>2. InBatch' /\ Quiet(executing', Down') /\ aborted'
      BY <1>3, <1>6, <2>1, <3>1 DEF InBatch
    <3>3. Stopped'
      BY <2>1, <2>3, <3>2 DEF Stopped
    <3> QED
      BY <1>9, <1>13, <3>3 DEF InStep, Executing
  <2>4. CASE BatchEnds(Up') /\ line \notin CookieLines
    <3>1. ~aborted' /\ ~gotCtld'
      BY <1>6, <2>1, <2>4
    <3>2. InBatch' /\ Quiet(executing', Down') /\ Live'
      BY <1>1, <1>2, <2>1, <3>1, BatchLine DEF Live
    <3>3. Ending'
      BY <1>3, <2>1, <2>4, <3>2 DEF Ending
    <3> QED
      BY <1>9, <1>13, <3>3 DEF InStep, Executing
  <2> QED
    BY <2>2, <2>3, <2>4
<1>14. ASSUME ~Final PROVE Answered \/ Refusing \/ Reading \/ Ended \/ Ending
  <2>1. ~(Up = <<>>) /\ ~Lacks(Up, Cookies \cup {NL})
    BY <1>4, <1>5, NoLine
  <2> QED
    BY <1>1, <1>2, <1>9, <1>14, <2>1 DEF Commanding, Working, Prompting, Flushing, Asking,
       Executing, Opening, Refused, Stopped, Gets
<1> QED
  BY <1>8, <1>10, <1>11, <1>12, <1>13, <1>14

\* The other steps change nothing that matters, or the player or the server
\* was not patient.
LEMMA OthersInStep ==
  ASSUME WireInv, Server, InStep, cpc # "gone", ~rushed',
         \/ FillSets \/ SelectReturns \/ SendInput \/ OutputSome \/ FlushOutput \/ IoInput
         \/ Intr \/ ServerAborts \/ UNCHANGED wireVars
  PROVE  InStep'
<1>1. Up' = Up /\ Down' = Down /\ Place' = Place
  BY FillSetsKeeps, SelectReturnsKeeps, SendInputKeeps, OutputSomeKeeps, FlushOutputKeeps, IoInputKeeps,
     IntrKeeps, ServerAbortsKeeps, StutterKeeps
<1>2. ~Intr /\ ~ServerAborts
  BY DEF Intr, ServerAborts
<1>3. IoInput => UNCHANGED <<ioEof, aborted>>
  <2> SUFFICES ASSUME IoInput, ioEof PROVE FALSE
    BY DEF IoInput
  <2>1. Place \in Gets /\ ~aborted
    BY IoInputKeeps DEF IoInput, Waits
  <2> QED
    BY <2>1 DEF Server, Gets
<1>4. UNCHANGED <<executing, asked, inputFd, sendEof, sendIntr, typed, eof0, ioEof, inExec, failed, aborted, gotCtld, lineEnds>>
  BY <1>2, <1>3 DEF FillSets, SelectReturns, SendInput, OutputSome, FlushOutput, IoInput, clientVars, serverVars, wireVars
<1>5. Unmoved
  BY <1>1, <1>4 DEF Unmoved
<1> QED
  BY <1>5, InStepStays

\* Client and server stay in step.
LEMMA SyncKeeps ==
  ASSUME WireInv, Server, TextInv, Sync, [WireNext]_wireVars
  PROVE  Sync'
<1> SUFFICES ASSUME ~rushed', cpc' # "gone" PROVE InStep'
  BY DEF Sync
<1>1. rushed \in BOOLEAN
  BY DEF WireInv, BetweenTypes
<1>2. ~rushed /\ cpc # "gone"
  <2>1. CASE FillSets \/ SelectReturns \/ Intr \/ PutCookies \/ SendInput \/ RecvOutput
    BY <2>1 DEF FillSets, SelectReturns, Intr, PutCookies, SendInput, RecvOutput
  <2>2. CASE ReadInput
    BY <1>1, <2>2, ReadInputIs DEF ReadNothing, ReadEnd, ReadSome
  <2>3. CASE \/ OutputSome \/ Prompt \/ Loop \/ FlushOutput \/ IoInput \/ TakeLine \/ TakeNothing
             \/ Execute \/ ServerAborts \/ Close \/ UNCHANGED wireVars
    <3>1. UNCHANGED clientVars /\ (rushed' => rushed \/ ServerAborts) /\ (rushed' = rushed \/ ServerAborts)
      BY <2>3 DEF OutputSome, Prompt, Loop, FlushOutput, IoInput, TakeLine, TakeNothing,
                  Execute, ServerAborts, Close, wireVars
    <3> QED
      BY <3>1 DEF clientVars, ServerAborts
  <2> QED
    BY <2>1, <2>2, <2>3 DEF WireNext
<1>3. InStep
  BY <1>2 DEF Sync
<1>4. CASE \/ FillSets \/ SelectReturns \/ SendInput \/ OutputSome \/ FlushOutput \/ IoInput
           \/ Intr \/ ServerAborts \/ UNCHANGED wireVars
  BY <1>2, <1>3, <1>4, OthersInStep
<1>5. CASE PutCookies
  BY <1>3, <1>5, PutCookiesInStep
<1>6. CASE ReadInput
  BY <1>3, <1>6, ReadInputInStep
<1>7. CASE RecvOutput
  <2>1. Down' = Down \/ (Down # <<>> /\ Down' = Tail(Down) /\ Gotten)
    BY <1>7, GottenIs
  <2> QED
    BY <1>3, <1>7, <2>1, RecvOutputInStep
<1>8. CASE Prompt \/ Loop \/ TakeNothing \/ Execute \/ Close
  BY <1>3, <1>8, PromptInStep, LoopInStep, TakeNothingInStep, ExecuteInStep, CloseInStep
<1>9. CASE TakeLine
  BY <1>3, <1>9, TakeLineInStep
<1> QED
  BY <1>4, <1>5, <1>6, <1>7, <1>8, <1>9 DEF WireNext

\* A session begins in step.
LEMMA SyncStarts == ASSUME Plain, WireInit PROVE TextInv /\ Sync
<1>1. Up = <<>> /\ Down = <<>> /\ Place = "status"
  BY StartKeeps
<1>2. Quiet(executing, Down) /\ Lacks(<<>>, Cookies)
  BY <1>1, LacksNothing DEF Quiet
<1>3. Working /\ ~eof0 /\ ~ioEof
  BY <1>1, <1>2 DEF WireInit, WireAtRest, Working, Idle
<1>4. typed \in Typings /\ batch = <<>> /\ flow = <<>>
  BY DEF WireInit, WireAtRest
<1>5. TextInv
  BY <1>2, <1>4 DEF TextInv, Plain
<1> QED
  BY <1>3, <1>5 DEF Sync, InStep, Commanding

\* In step, nothing of a batch file is under way to the command loop.
LEMMA SyncSays ==
  ASSUME WireInv, Sync
  PROVE  BatchInStep
<1> SUFFICES ASSUME ~rushed, cpc # "gone", spc \in {"status", "getcmd"}
             PROVE  inputFd = 0 /\ sendEof # "ctldB" /\ "ctldB" \notin ToSet(Up)
  BY DEF BatchInStep, Up
<1>1. InStep /\ Place \in {"status", "getcmd"}
  BY DEF Sync, Place
<1>2. Up \in Seq(Input) /\ Len(Up) \in Nat
  BY WaysAre DEF WireInv
<1>3. \/ Final \/ Working \/ Prompting \/ Asking \/ Answered
  BY <1>1 DEF InStep, Commanding, Flushing, Executing, Opening, Refused, Refusing, Reading, Ended, Ending, Stopped, InBatch, Fresh
<1>4. inputFd = 0 /\ sendEof # "ctldB"
  BY <1>3 DEF Final, Working, Prompting, Asking, Answered, Idle
<1>5. Lacks(Up, {"ctldB"})
  <2>1. CASE Final
    BY <2>1 DEF Final
  <2>2. CASE Working \/ Prompting
    BY <2>2, LacksNothing DEF Working, Prompting
  <2>3. CASE Asking
    BY <2>3, LacksSome DEF Asking, Cookies
  <2>4. CASE Answered
    <3>1. /\ Up[Len(Up)] = NL /\ \A i \in 1..Len(Up) - 1 : Up[i] \notin Cookies \cup {NL}
      BY <2>4 DEF Answered, OneLine
    <3>2. ASSUME NEW i \in 1..Len(Up) PROVE Up[i] # "ctldB"
      <4>1. i = Len(Up) \/ i \in 1..Len(Up) - 1
        BY <1>2
      <4> QED
        BY <3>1, <4>1 DEF Cookies, NL
    <3> QED
      BY <3>2 DEF Lacks
  <2> QED
    BY <1>3, <2>1, <2>2, <2>3, <2>4
<1>6. "ctldB" \notin ToSet(Up)
  BY <1>2, <1>5 DEF ToSet, Lacks
<1> QED
  BY <1>4, <1>6

\* All of the session's invariant: when nobody types what stands for EOF or
\* an interrupt, nor writes it into a batch file, both ends agree on who reads
\* the batch file, whatever fails (play(), servercmd(), c_execute()).
THEOREM BatchesInStep == Plain => (WireSpec => []WireStateOK)
<1> SUFFICES ASSUME Plain PROVE WireSpec => []WireStateOK
  OBVIOUS
<1>1. WireInit => TextInv /\ Sync
  BY SyncStarts
<1>2. /\ WireInv /\ Server /\ TextInv /\ Sync /\ [WireNext]_wireVars => (TextInv /\ Sync)'
  BY TextKeeps, SyncKeeps
<1>3. WireInv /\ Sync => BatchInStep
  BY SyncSays
<1>4. WireSpec => [](WireInv /\ Server)
  BY WireInvariance, PTL
<1>5. WireSpec => [](TextInv /\ Sync)
  BY <1>1, <1>2, <1>4, PTL DEF WireSpec
<1>6. WireTypeOK /\ CookiesStandAlone /\ InputArrives /\ BatchInStep => WireStateOK
  BY DEF WireStateOK
<1> QED
  BY <1>3, <1>4, <1>5, <1>6, InputAsTyped, PTL

=============================================================================
