------------------------------ MODULE EmpLemmas ------------------------------
(***************************************************************************)
(* What the proofs of several modules need: induction on the natural       *)
(* numbers by sets of them, remainders, the function a fold recurs on,     *)
(* sums and queues.                                                        *)
(***************************************************************************)
EXTENDS SequencesExt, FiniteSetsExt, FiniteSetTheorems, SequenceTheorems, TLAPS

-----------------------------------------------------------------------------
(* Natural numbers. *)

\* A set of natural numbers has a least.
LEMMA LeastNat ==
  ASSUME NEW T \in SUBSET Nat, T # {}
  PROVE  \E n \in T : \A m \in T : n <= m
<1> DEFINE R == OpToRel(<, Nat)
<1>1. IsWellFoundedOn(R, Nat)
  BY NatLessThanWellFounded
<1>2. \A m, n \in Nat : m < n => <<m, n>> \in R
  BY DEF OpToRel
<1> HIDE DEF R
<1>3. \E n \in T : \A m \in T : <<m, n>> \notin R
  BY <1>1, WFMin
<1>4. PICK n \in T : \A m \in T : <<m, n>> \notin R
  BY <1>3
<1>5. \A m \in T : ~(m < n)
  BY <1>2, <1>4
<1>6. \A m \in T : n <= m
  BY <1>5
<1> QED
  BY <1>6

\* A set with 0 and with the next of each of its numbers has them all, up to n.
LEMMA NatsBySteps ==
  ASSUME NEW n \in Nat, NEW S, 0 \in S, \A i \in 0..n : i \in S /\ i < n => i + 1 \in S
  PROVE  0..n \subseteq S
<1>1. SUFFICES ASSUME (0..n) \ S # {} PROVE FALSE
  OBVIOUS
<1>2. (0..n) \ S \in SUBSET Nat
  OBVIOUS
<1>3. PICK i \in (0..n) \ S : \A m \in (0..n) \ S : i <= m
  BY <1>1, <1>2, LeastNat
<1>4. i - 1 \in 0..n /\ i - 1 \in S
  BY <1>3
<1> QED
  BY <1>3, <1>4

\* The maximum of a set of numbers is the member that none exceeds.
LEMMA MaxIs ==
  ASSUME NEW S \in SUBSET Nat, NEW n \in S, \A m \in S : n >= m
  PROVE  Max(S) = n
<1>1. \A x \in S : (\A y \in S : x >= y) => x = n
  OBVIOUS
<1> QED
  BY <1>1 DEF Max

\* A set of some of the first n numbers has a maximum.
LEMMA MaxOfSome ==
  ASSUME NEW n \in Nat, NEW S \in SUBSET (1..n), S # {}
  PROVE  Max(S) \in S /\ \A m \in S : Max(S) >= m
<1> DEFINE T == {m \in 0..n : n - m \in S}
<1>1. T \in SUBSET Nat
  OBVIOUS
<1>2. PICK x \in S : TRUE
  OBVIOUS
<1>3. n - x \in T
  BY <1>2
<1> HIDE DEF T
<1>4. PICK m \in T : \A l \in T : m <= l
  BY <1>1, <1>3, LeastNat
<1> USE DEF T
<1>5. n - m \in S /\ m \in 0..n
  BY <1>4
<1>6. \A y \in S : n - m >= y
  <2> TAKE y \in S
  <2>1. n - (n - y) = y /\ n - y \in 0..n
    OBVIOUS
  <2>2. n - y \in T
    BY <2>1
  <2> QED
    BY <1>4, <1>5, <2>2
<1> QED
  BY <1>5, <1>6, MaxIs

\* A set of natural numbers has a minimum.
LEMMA MinOfSome ==
  ASSUME NEW S \in SUBSET Nat, S # {}
  PROVE  Min(S) \in S /\ \A m \in S : Min(S) <= m
<1>1. PICK n \in S : \A m \in S : n <= m
  BY LeastNat
<1>2. \E x \in S : \A y \in S : x <= y
  BY <1>1
<1> QED
  BY <1>2 DEF Min

\* The last of the numbers from 1 to i is i.
LEMMA UpTo ==
  ASSUME NEW n \in Nat, NEW i \in 1..n
  PROVE  /\ 1..i \in SUBSET (1..n) /\ 1..i # {}
         /\ Max(1..i) = i /\ (1..i) \ {Max(1..i)} = 1..i - 1
<1>1. i \in 1..i /\ 1..i \in SUBSET Nat /\ \A m \in 1..i : i >= m
  OBVIOUS
<1>2. Max(1..i) = i
  BY <1>1, MaxIs
<1>3. (1..i) \ {i} = 1..i - 1
  OBVIOUS
<1> QED
  BY <1>1, <1>2, <1>3

(***************************************************************************)
(* h is the function that a fold over a sequence q recurs on, up to n.     *)
(***************************************************************************)
Recurs(h, n, base, F, q) ==
  \A s \in SUBSET (1..n) : h[s] = IF s = {} THEN base ELSE F[h[s \ {Max(s)}]][q[Max(s)]]

Folds(K, n, base, F, q) ==
  \E h : h \in [SUBSET (1..n) -> K] /\ Recurs(h, n, base, F, q)

\* An interval less its last number.
LEMMA ShorterInterval ==
  \A i \in Nat : \A x \in 1..i + 1 : x # i + 1 => x \in 1..i
OBVIOUS

\* A fold over the first i elements goes on to the next.
LEMMA FoldsFurther ==
  ASSUME NEW K, NEW B, NEW base \in K, NEW F, F \in [K -> [B -> K]], NEW i \in Nat, NEW q, q[i + 1] \in B,
         Folds(K, i, base, F, q)
  PROVE  Folds(K, i + 1, base, F, q)
<1>0. PICK g : g \in [SUBSET (1..i) -> K] /\ Recurs(g, i, base, F, q)
  BY DEF Folds
<1>1. \A s \in SUBSET (1..i + 1) : s \ {i + 1} \in SUBSET (1..i) /\ s \ {i + 1} \in SUBSET (1..i + 1)
  <2> TAKE s \in SUBSET (1..i + 1)
  <2>1. \A x \in 1..i + 1 : x # i + 1 => x \in 1..i
    BY ShorterInterval
  <2> QED
    BY <2>1
<1> DEFINE h == [s \in SUBSET (1..i + 1) |-> IF i + 1 \in s THEN F[g[s \ {i + 1}]][q[i + 1]] ELSE g[s]]
<1>2. \A s \in SUBSET (1..i + 1) : i + 1 \notin s => s \in SUBSET (1..i)
  BY <1>1
<1>3. \A s \in SUBSET (1..i) : g[s] \in K
  BY <1>0
<1>4. h \in [SUBSET (1..i + 1) -> K]
  <2>1. \A s \in SUBSET (1..i + 1) : F[g[s \ {i + 1}]] \in [B -> K]
    BY <1>1, <1>3
  <2> HIDE DEF h
  <2>a. \A f \in [B -> K] : f[q[i + 1]] \in K
    OBVIOUS
  <2>2. \A s \in SUBSET (1..i + 1) : F[g[s \ {i + 1}]][q[i + 1]] \in K
    BY <2>1, <2>a, Zenon
  <2> USE DEF h
  <2>3. \A s \in SUBSET (1..i + 1) : (IF i + 1 \in s THEN F[g[s \ {i + 1}]][q[i + 1]] ELSE g[s]) \in K
    BY <2>2, <1>2, <1>3
  <2> QED
    BY <2>3
<1>5. ASSUME NEW s \in SUBSET (1..i + 1)
      PROVE  h[s] = IF s = {} THEN base ELSE F[h[s \ {Max(s)}]][q[Max(s)]]
  <2>1. CASE i + 1 \in s
    <3>1. s \in SUBSET Nat /\ \A m \in s : i + 1 >= m
      OBVIOUS
    <3>2. Max(s) = i + 1
      BY <2>1, <3>1, MaxIs
    <3>3. h[s \ {i + 1}] = g[s \ {i + 1}]
      BY <1>1
    <3>4. h[s] = F[g[s \ {i + 1}]][q[i + 1]]
      BY <2>1, SubSeqProperties, Zenon
    <3> QED
      BY <2>1, <3>2, <3>3, <3>4
  <2>2. CASE i + 1 \notin s
    <3>1. s \in SUBSET (1..i) /\ h[s] = g[s]
      BY <2>2, <1>2
    <3>2. s \ {Max(s)} \in SUBSET (1..i) /\ s \ {Max(s)} \in SUBSET (1..i + 1) /\ i + 1 \notin s \ {Max(s)}
      BY <3>1, <2>2
    <3>3. h[s \ {Max(s)}] = g[s \ {Max(s)}]
      BY <3>2
    <3> QED
      BY <1>0, <3>1, <3>3 DEF Recurs
  <2> QED
    BY <2>1, <2>2
<1> HIDE DEF h
<1>6. Recurs(h, i + 1, base, F, q)
  BY <1>5 DEF Recurs
<1> QED
  BY <1>4, <1>6 DEF Folds

\* Every fold over a sequence has the function it recurs on.
LEMMA FoldExists ==
  ASSUME NEW K, NEW B, NEW base \in K, NEW q \in Seq(B), NEW F \in [K -> [B -> K]]
  PROVE  Folds(K, Len(q), base, F, q)
<1> DEFINE S == {i \in 0..Len(q) : Folds(K, i, base, F, q)}
<1>1. Len(q) \in Nat
  OBVIOUS
<1>2. 0 \in S
  <2> DEFINE h == [s \in SUBSET (1..0) |-> base]
  <2>1. \A s \in SUBSET (1..0) : s = {}
    OBVIOUS
  <2>2. h \in [SUBSET (1..0) -> K]
    OBVIOUS
  <2>3. Recurs(h, 0, base, F, q)
    BY <2>1 DEF Recurs
  <2> HIDE DEF h
  <2>4. Folds(K, 0, base, F, q)
    BY <2>2, <2>3 DEF Folds
  <2> QED
    BY <1>1, <2>4
<1>3. \A i \in 0..Len(q) : i \in S /\ i < Len(q) => i + 1 \in S
  <2> TAKE i \in 0..Len(q)
  <2> HAVE i \in S /\ i < Len(q)
  <2>1. Folds(K, i, base, F, q)
    OBVIOUS
  <2>2. i \in Nat /\ i + 1 \in 0..Len(q) /\ q[i + 1] \in B
    BY <1>1
  <2>3. Folds(K, i + 1, base, F, q)
    BY <2>1, <2>2, FoldsFurther
  <2> QED
    BY <2>2, <2>3
<1> HIDE DEF S
<1>4. 0..Len(q) \subseteq S
  BY <1>1, <1>2, <1>3, NatsBySteps
<1>5. Len(q) \in S
  BY <1>1, <1>4
<1> QED
  BY <1>5 DEF S

\* Two multiples of m that differ, differ by m at least.
LEMMA MultipleGap ==
  ASSUME NEW m \in Nat \ {0}, NEW p \in Int, NEW q \in Int, m * q - m * p > 0
  PROVE  m * q - m * p >= m
<1>1. m * q - m * p = m * (q - p)
  OBVIOUS
<1>2. CASE q - p <= 0
  <2>1. m * (q - p) <= 0
    BY <1>2
  <2> QED BY <2>1, <1>1
<1>3. CASE q - p >= 1
  <2>1. m * (q - p) >= m
    BY <1>3
  <2> QED BY <2>1, <1>1
<1> QED BY <1>2, <1>3

\* So do two numbers with the same remainder.
LEMMA ModGap ==
  ASSUME NEW m \in Nat \ {0}, NEW a \in Nat, NEW b \in Nat, a < b, a % m = b % m
  PROVE  b - a >= m
<1>1. PICK p \in Int : a = m * p + (a % m)
  <2>1. a = m * (a \div m) + (a % m) /\ a \div m \in Int
    BY SMT
  <2> QED BY <2>1
<1>2. PICK q \in Int : b = m * q + (b % m)
  <2>1. b = m * (b \div m) + (b % m) /\ b \div m \in Int
    BY SMT
  <2> QED BY <2>1
<1>r. a % m \in Int
  OBVIOUS
<1> DEFINE r == a % m
           mp == m * p
           mq == m * q
<1>m. mp \in Int /\ mq \in Int /\ r \in Int
  BY <1>r
<1>3. a = mp + r /\ b = mq + r
  BY <1>1, <1>2
<1> HIDE DEF r, mp, mq
<1>4. b - a = mq - mp /\ mq - mp > 0
  BY <1>3, <1>m
<1>5. mq - mp >= m
  BY <1>4, MultipleGap DEF mp, mq
<1> QED
  BY <1>4, <1>5

\* What is left when a number a little over m is divided by it.
LEMMA Remainder ==
  ASSUME NEW m \in Nat \ {0}, NEW a \in Nat
  PROVE  /\ a % m \in 0..m - 1 /\ (a < m => a % m = a) /\ (a + m) % m = a % m
<1>1. a % m \in 0..m - 1 /\ (a + m) % m \in 0..m - 1 /\ (a < m => a % m = a)
  BY SMT
<1>2. PICK p \in Int : a = m * p + (a % m)
  <2>1. a = m * (a \div m) + (a % m) /\ a \div m \in Int
    BY SMT
  <2> QED BY <2>1
<1>3. PICK q \in Int : a + m = m * q + ((a + m) % m)
  <2>1. ASSUME NEW b \in Nat PROVE \E q \in Int : b = m * q + (b % m)
    <3>1. b = m * (b \div m) + (b % m) /\ b \div m \in Int
      BY SMT
    <3> QED BY <3>1
  <2>2. a + m \in Nat
    OBVIOUS
  <2> QED BY <2>1, <2>2
<1> DEFINE r == a % m
           s == (a + m) % m
           mp == m * p
           mq == m * q
           mn == m * (p + 1)
<1>4. mp \in Int /\ mq \in Int /\ mn = mp + m /\ r \in 0..m - 1 /\ s \in 0..m - 1 /\ p + 1 \in Int
  BY <1>1
<1>5. a = mp + r /\ a + m = mq + s
  BY <1>2, <1>3
<1>6. mq - mn > 0 => mq - mn >= m
  BY <1>4, MultipleGap
<1>7. mn - mq > 0 => mn - mq >= m
  BY <1>4, MultipleGap
<1>8. r = s
  <2> HIDE DEF r, s, mp, mq, mn
  <2> QED
    BY <1>4, <1>5, <1>6, <1>7
<1> QED
  BY <1>1, <1>8

-----------------------------------------------------------------------------
(* Queues: sequences in which nothing comes twice. *)

Queue(S) == {q \in Seq(S) : \A i, j \in 1 .. Len(q) : q[i] = q[j] => i = j}

\* The empty queue holds nobody.
LEMMA EmptyIsQueue == ASSUME NEW S PROVE <<>> \in Queue(S) /\ ToSet(<<>>) = {}
BY DEF Queue, ToSet

\* A queue of one holds that one.
LEMMA QueueOfOne ==
  ASSUME NEW S, NEW t \in S
  PROVE  <<t>> \in Queue(S) /\ ToSet(<<t>>) = {t}
<1>1. <<t>> \in Seq(S) /\ Len(<<t>>) = 1 /\ DOMAIN <<t>> = {1} /\ <<t>>[1] = t
  OBVIOUS
<1> QED
  BY <1>1 DEF Queue, ToSet

\* A queue is empty when nobody is in it.
LEMMA QueueIsEmpty ==
  ASSUME NEW S, NEW q \in Queue(S)
  PROVE  ToSet(q) \subseteq S /\ (q = <<>> <=> ToSet(q) = {})
<1>1. q \in Seq(S) /\ Len(q) \in Nat /\ DOMAIN q = 1 .. Len(q)
  BY LenProperties DEF Queue
<1>2. \A i \in 1 .. Len(q) : q[i] \in S
  BY <1>1, ElementOfSeq
<1>3. q # <<>> => 1 \in 1 .. Len(q)
  BY <1>1, EmptySeq
<1> QED
  BY <1>1, <1>2, <1>3, EmptyIsQueue DEF ToSet

\* Who is not in a queue may join at its end.
LEMMA AppendQueue ==
  ASSUME NEW S, NEW q \in Queue(S), NEW t \in S, t \notin ToSet(q)
  PROVE  Append(q, t) \in Queue(S) /\ ToSet(Append(q, t)) = ToSet(q) \cup {t}
<1> DEFINE a == Append(q, t)
<1>1. q \in Seq(S) /\ Len(q) \in Nat /\ DOMAIN q = 1 .. Len(q)
  BY LenProperties DEF Queue
<1>2. /\ a \in Seq(S) /\ Len(a) = Len(q) + 1 /\ DOMAIN a = 1 .. Len(q) + 1
      /\ \A i \in 1 .. Len(q) : a[i] = q[i]
      /\ a[Len(q) + 1] = t
  BY <1>1
<1> HIDE DEF a
<1>3. \A i \in 1 .. Len(q) : q[i] # t
  BY <1>1 DEF ToSet
<1>4. \A i, j \in 1 .. Len(a) : a[i] = a[j] => i = j
  <2> SUFFICES ASSUME NEW i \in 1 .. Len(q) + 1, NEW j \in 1 .. Len(q) + 1, a[i] = a[j]
               PROVE  i = j
    BY <1>2
  <2>1. CASE i \in 1 .. Len(q) /\ j \in 1 .. Len(q)
    BY <1>2, <2>1 DEF Queue
  <2>2. CASE i \notin 1 .. Len(q) \/ j \notin 1 .. Len(q)
    BY <1>1, <1>2, <1>3, <2>2
  <2> QED
    BY <2>1, <2>2
<1>5. ToSet(a) = ToSet(q) \cup {t}
  <2>1. \A i \in 1 .. Len(q) + 1 : i \in 1 .. Len(q) \/ i = Len(q) + 1
    BY <1>1
  <2>2. \A i \in 1 .. Len(q) : i \in 1 .. Len(q) + 1
    BY <1>1
  <2>3. Len(q) + 1 \in 1 .. Len(q) + 1
    BY <1>1
  <2> QED
    BY <1>1, <1>2, <2>1, <2>2, <2>3 DEF ToSet
<1> QED
  BY <1>2, <1>4, <1>5 DEF Queue, a

\* The first of a queue leaves it.
LEMMA TailQueue ==
  ASSUME NEW S, NEW q \in Queue(S), q # <<>>
  PROVE  /\ Head(q) \in S /\ Tail(q) \in Queue(S)
         /\ Head(q) \in ToSet(q) /\ ToSet(Tail(q)) = ToSet(q) \ {Head(q)}
<1> DEFINE r == Tail(q)
<1>1. q \in Seq(S) /\ Len(q) \in Nat \ {0} /\ DOMAIN q = 1 .. Len(q) /\ Head(q) = q[1]
  BY LenProperties, EmptySeq DEF Queue
<1>2. /\ Head(q) \in S /\ r \in Seq(S) /\ Len(r) = Len(q) - 1
      /\ DOMAIN r = 1 .. Len(q) - 1 /\ \A i \in 1 .. Len(q) - 1 : r[i] = q[i + 1]
  BY <1>1, HeadTailProperties, LenProperties
<1> HIDE DEF r
<1>3. \A i \in 1 .. Len(q) - 1 : i + 1 \in 1 .. Len(q) /\ i + 1 # 1
  BY <1>1
<1>4. \A i \in 1 .. Len(q) : i = 1 \/ (i - 1 \in 1 .. Len(q) - 1 /\ (i - 1) + 1 = i)
  BY <1>1
<1>5. 1 \in 1 .. Len(q)
  BY <1>1
<1>6. \A i, j \in 1 .. Len(r) : r[i] = r[j] => i = j
  <2> SUFFICES ASSUME NEW i \in 1 .. Len(q) - 1, NEW j \in 1 .. Len(q) - 1, r[i] = r[j]
               PROVE  i = j
    BY <1>2
  <2>1. q[i + 1] = q[j + 1]
    BY <1>2
  <2>2. i + 1 = j + 1
    BY <1>3, <2>1 DEF Queue
  <2> QED
    BY <2>2
<1>7. ToSet(r) = ToSet(q) \ {Head(q)}
  <2>1. \A i \in 1 .. Len(q) : q[i] = q[1] => i = 1
    BY <1>5 DEF Queue
  <2>2. ASSUME NEW i \in 1 .. Len(q) - 1 PROVE r[i] \in ToSet(q) \ {Head(q)}
    BY <1>1, <1>2, <1>3, <2>1 DEF ToSet
  <2>3. ASSUME NEW i \in 1 .. Len(q), q[i] # Head(q) PROVE q[i] \in ToSet(r)
    <3>1. i - 1 \in 1 .. Len(q) - 1 /\ r[i - 1] = q[i]
      BY <1>1, <1>2, <1>4, <2>3
    <3> QED
      BY <1>2, <3>1 DEF ToSet
  <2> QED
    BY <1>1, <1>2, <2>2, <2>3 DEF ToSet
<1> QED
  BY <1>1, <1>2, <1>5, <1>6, <1>7 DEF Queue, ToSet, r

\* Two queues that share nobody make one.
LEMMA ConcatQueue ==
  ASSUME NEW S, NEW q \in Queue(S), NEW r \in Queue(S), ToSet(q) \cap ToSet(r) = {}
  PROVE  q \o r \in Queue(S) /\ ToSet(q \o r) = ToSet(q) \cup ToSet(r)
<1> DEFINE c == q \o r
<1>1. /\ q \in Seq(S) /\ Len(q) \in Nat /\ DOMAIN q = 1 .. Len(q)
      /\ r \in Seq(S) /\ Len(r) \in Nat /\ DOMAIN r = 1 .. Len(r)
  BY LenProperties DEF Queue
<1>2. /\ c \in Seq(S) /\ Len(c) = Len(q) + Len(r)
      /\ \A i \in 1 .. Len(q) + Len(r) : c[i] = IF i <= Len(q) THEN q[i] ELSE r[i - Len(q)]
  BY <1>1, ConcatProperties
<1>3. DOMAIN c = 1 .. Len(q) + Len(r)
  BY <1>2, LenProperties
<1> HIDE DEF c
<1>4. \A i \in 1 .. Len(q) + Len(r) :
        \/ i \in 1 .. Len(q) /\ c[i] = q[i]
        \/ i - Len(q) \in 1 .. Len(r) /\ c[i] = r[i - Len(q)]
  BY <1>1, <1>2
<1>5. \A i \in 1 .. Len(q) : i \in 1 .. Len(q) + Len(r) /\ c[i] = q[i]
  BY <1>1, <1>2
<1>6. \A i \in 1 .. Len(r) : i + Len(q) \in 1 .. Len(q) + Len(r) /\ c[i + Len(q)] = r[i]
  <2> SUFFICES ASSUME NEW i \in 1 .. Len(r)
               PROVE  i + Len(q) \in 1 .. Len(q) + Len(r) /\ c[i + Len(q)] = r[i]
    OBVIOUS
  <2>1. i + Len(q) \in 1 .. Len(q) + Len(r) /\ ~(i + Len(q) <= Len(q)) /\ (i + Len(q)) - Len(q) = i
    BY <1>1
  <2> QED
    BY <1>2, <2>1
<1>7. ToSet(c) = ToSet(q) \cup ToSet(r)
  <2>1. ASSUME NEW i \in 1 .. Len(q) + Len(r) PROVE c[i] \in ToSet(q) \cup ToSet(r)
    BY <1>1, <1>4 DEF ToSet
  <2>2. ASSUME NEW i \in 1 .. Len(q) PROVE q[i] \in ToSet(c)
    BY <1>3, <1>5 DEF ToSet
  <2>3. ASSUME NEW i \in 1 .. Len(r) PROVE r[i] \in ToSet(c)
    BY <1>3, <1>6 DEF ToSet
  <2> QED
    BY <1>1, <1>3, <2>1, <2>2, <2>3 DEF ToSet
<1>8. \A i \in 1 .. Len(q), j \in 1 .. Len(r) : q[i] # r[j]
  BY <1>1 DEF ToSet
<1>9. \A i, j \in 1 .. Len(c) : c[i] = c[j] => i = j
  <2> SUFFICES ASSUME NEW i \in 1 .. Len(q) + Len(r), NEW j \in 1 .. Len(q) + Len(r), c[i] = c[j]
               PROVE  i = j
    BY <1>2
  <2>1. CASE i \in 1 .. Len(q) /\ j \in 1 .. Len(q)
    BY <1>5, <2>1 DEF Queue
  <2>2. CASE i - Len(q) \in 1 .. Len(r) /\ j - Len(q) \in 1 .. Len(r) /\ c[i] = r[i - Len(q)] /\ c[j] = r[j - Len(q)]
    <3>1. i - Len(q) = j - Len(q)
      BY <2>2 DEF Queue
    <3> QED
      BY <1>1, <3>1
  <2> QED
    BY <1>4, <1>8, <2>1, <2>2
<1> QED
  BY <1>2, <1>7, <1>9 DEF Queue, c

\* Arithmetic of a sequence of length l that is split after its n-th element.
LEMMA Splits ==
  ASSUME NEW n \in Nat, NEW l \in Nat, n <= l
  PROVE  /\ n + 1 \in Int /\ l \in Int /\ l - n \in Nat
         /\ (IF n + 1 <= l THEN l - (n + 1) + 1 ELSE 0) = l - n
         /\ l - (n + 1) + 1 = l - n
         /\ \A i \in 1..l - n : n + 1 + i - 1 = i + n
         /\ \A i \in n + 1..l : i \in 1..l
         /\ n < l => 1 \in 1..l - n
         /\ n < l => n # l
         /\ l - n = 0 => n = l
         /\ 1 + n = n + 1
OBVIOUS

\* What comes after the n-th element of a sequence.
LEMMA RestOfSeq ==
  ASSUME NEW S, NEW q \in Seq(S), NEW n \in Nat, n <= Len(q)
  PROVE  /\ SubSeq(q, n + 1, Len(q)) \in Seq(S) /\ Len(SubSeq(q, n + 1, Len(q))) = Len(q) - n
         /\ \A i \in 1..Len(q) - n : SubSeq(q, n + 1, Len(q))[i] = q[n + 1 + i - 1]
<1>1. SubSeq(q, n + 1, Len(q)) \in Seq(S)
  OBVIOUS
<1>2. Len(SubSeq(q, n + 1, Len(q))) = Len(q) - n
  OBVIOUS
<1>3. ASSUME NEW i \in 1..Len(q) - n PROVE SubSeq(q, n + 1, Len(q))[i] = q[n + 1 + i - 1]
  OBVIOUS
<1> QED
  BY <1>1, <1>2, <1>3

\* A queue that is split after its n-th makes two that share nobody.
LEMMA SplitQueue ==
  ASSUME NEW S, NEW q \in Queue(S), NEW n \in 0..Len(q)
  PROVE  /\ SubSeq(q, 1, n) \in Queue(S) /\ SubSeq(q, n + 1, Len(q)) \in Queue(S)
         /\ ToSet(SubSeq(q, 1, n)) = {q[i] : i \in 1..n}
         /\ ToSet(SubSeq(q, n + 1, Len(q))) = ToSet(q) \ ToSet(SubSeq(q, 1, n))
         /\ ToSet(SubSeq(q, 1, n)) \subseteq ToSet(q)
         /\ SubSeq(q, n + 1, Len(q)) = <<>> <=> n = Len(q)
         /\ n < Len(q) => Head(SubSeq(q, n + 1, Len(q))) = q[n + 1]
<1> DEFINE a == SubSeq(q, 1, n)
           b == SubSeq(q, n + 1, Len(q))
<1>1. q \in Seq(S) /\ Len(q) \in Nat /\ DOMAIN q = 1 .. Len(q) /\ n \in Nat /\ n <= Len(q)
  BY LenProperties DEF Queue
<1>2. \A i \in 1..Len(q) : q[i] \in S
  BY <1>1, ElementOfSeq
<1>3. /\ a \in Seq(S) /\ Len(a) = n /\ DOMAIN a = 1..n /\ \A i \in 1..n : a[i] = q[i]
  <2>1. \A i \in 1..n : q[i] \in S
    BY <1>1, <1>2
  <2> QED
    BY <1>1, <2>1
<1>4. /\ b \in Seq(S) /\ Len(b) = Len(q) - n /\ DOMAIN b = 1..Len(q) - n
      /\ \A i \in 1..Len(q) - n : b[i] = q[i + n]
  <2>1. /\ \A i \in n + 1..Len(q) : q[i] \in S
        /\ n + 1 \in Int /\ Len(q) \in Int
        /\ (IF n + 1 <= Len(q) THEN Len(q) - (n + 1) + 1 ELSE 0) = Len(q) - n
        /\ Len(q) - (n + 1) + 1 = Len(q) - n /\ Len(q) - n \in Nat
        /\ \A i \in 1..Len(q) - n : n + 1 + i - 1 = i + n
    BY <1>1, <1>2, Splits
  <2>2. /\ b \in Seq(S) /\ Len(b) = Len(q) - n
        /\ \A i \in 1..Len(q) - n : b[i] = q[n + 1 + i - 1]
    BY <1>1, <2>1, RestOfSeq DEF b
  <2> HIDE DEF b
  <2>3. DOMAIN b = 1..Len(q) - n
    BY <2>2, LenProperties
  <2> QED
    BY <2>1, <2>2, <2>3
<1> HIDE DEF a, b
<1>5. \A i, j \in 1..Len(q) : q[i] = q[j] => i = j
  BY DEF Queue
<1>6. \A i \in 1..n : i \in 1..Len(q)
  BY <1>1
<1>7. \A i \in 1..Len(q) - n : i + n \in 1..Len(q) /\ i + n \notin 1..n
  BY <1>1
<1>8. a \in Queue(S)
  BY <1>3, <1>5, <1>6 DEF Queue
<1>9. b \in Queue(S)
  <2>1. ASSUME NEW i \in 1..Len(q) - n, NEW j \in 1..Len(q) - n, b[i] = b[j] PROVE i = j
    <3>1. i + n = j + n
      BY <1>4, <1>5, <1>7, <2>1
    <3> QED
      BY <1>1, <3>1
  <2> QED
    BY <1>4, <2>1 DEF Queue
<1>10. ToSet(a) = {q[i] : i \in 1..n}
  BY <1>3 DEF ToSet
<1>11. ToSet(a) \subseteq ToSet(q)
  BY <1>1, <1>6, <1>10 DEF ToSet
<1>12. ToSet(b) = ToSet(q) \ ToSet(a)
  <2>1. ASSUME NEW i \in 1..Len(q) - n PROVE b[i] \in ToSet(q) \ ToSet(a)
    <3>1. b[i] = q[i + n] /\ i + n \in 1..Len(q) /\ i + n \notin 1..n
      BY <1>4, <1>7
    <3>2. \A j \in 1..n : q[j] # q[i + n]
      BY <1>5, <1>6, <3>1
    <3> QED
      BY <1>1, <1>10, <3>1, <3>2 DEF ToSet
  <2>2. ASSUME NEW i \in 1..Len(q), i \notin 1..n PROVE q[i] \in ToSet(b)
    <3>1. i - n \in 1..Len(q) - n /\ (i - n) + n = i
      BY <1>1, <2>2
    <3>2. b[i - n] = q[i]
      BY <1>4, <3>1
    <3> QED
      BY <1>4, <3>1, <3>2 DEF ToSet
  <2> QED
    BY <1>1, <1>4, <1>10, <2>1, <2>2 DEF ToSet
<1>13. b = <<>> <=> n = Len(q)
  <2>1. b = <<>> <=> Len(b) = 0
    BY <1>4, EmptySeq
  <2>2. Len(q) - n = 0 <=> n = Len(q)
    BY <1>1, Splits
  <2> QED
    BY <1>4, <2>1, <2>2
<1>14. n < Len(q) => Head(b) = q[n + 1]
  <2>1. n < Len(q) => 1 \in 1..Len(q) - n /\ n # Len(q)
    BY <1>1, Splits
  <2>2. b # <<>> => Head(b) = b[1]
    BY <1>4
  <2>3. 1 + n = n + 1
    BY <1>1
  <2> QED
    BY <1>4, <1>13, <2>1, <2>2, <2>3
<1> QED
  BY <1>8, <1>9, <1>10, <1>11, <1>12, <1>13, <1>14 DEF a, b

\* A finite set put in some order is a queue of its members.
LEMMA SetToSeqIs ==
  ASSUME NEW T, NEW S \in SUBSET T, IsFiniteSet(S)
  PROVE  SetToSeq(S) \in Queue(T) /\ ToSet(SetToSeq(S)) = S
<1> DEFINE n == Cardinality(S)
           f == SetToSeq(S)
           Is(g) == g \in [1..n -> S] /\ IsInjective(g)
<1>1. n \in Nat /\ ExistsBijection(1..n, S)
  BY FS_CardinalityType
<1>2. PICK g : g \in Bijection(1..n, S)
  BY <1>1 DEF ExistsBijection
<1>3. Is(g)
  BY <1>2 DEF Bijection, Injection
<1>4. f = CHOOSE h \in [1..n -> S] : IsInjective(h)
  BY DEF SetToSeq
<1>5. f \in [1..n -> S] /\ IsInjective(f)
  <2> HIDE DEF f, n
  <2> QED
    BY <1>3, <1>4
<1> HIDE DEF f
<1>6. f \in Injection(1..n, S)
  BY <1>5 DEF Injection
<1>7. f \in Surjection(1..n, S)
  <2>1. IsFiniteSet(1..n) /\ Cardinality(1..n) = n
    BY <1>1, FS_Interval
  <2> HIDE DEF n
  <2>2. Cardinality(1..n) = Cardinality(S)
    BY <2>1 DEF n
  <2> QED
    BY <1>6, <2>2, FS_Injection
<1>8. f \in Seq(T) /\ Len(f) = n /\ DOMAIN f = 1..n
  BY <1>1, <1>5
<1>9. ToSet(f) = S
  BY <1>5, <1>7, <1>8 DEF ToSet, Surjection
<1>10. f \in Queue(T)
  BY <1>5, <1>8 DEF Queue, IsInjective
<1> QED
  BY <1>9, <1>10 DEF f

-----------------------------------------------------------------------------
(* Sums of functions over finite sets. *)

\* A set less one of its members.
LEMMA LessOne ==
  ASSUME NEW S, IsFiniteSet(S), NEW s \in SUBSET S, NEW x \in s
  PROVE  /\ s \ {x} \in SUBSET S /\ IsFiniteSet(s) /\ Cardinality(s) \in Nat \ {0}
         /\ Cardinality(s \ {x}) = Cardinality(s) - 1
<1>1. IsFiniteSet(s)
  BY FS_Subset
<1>2. Cardinality(s) \in Nat /\ Cardinality(s) # 0
  BY <1>1, FS_CardinalityType, FS_EmptySet
<1> QED
  BY <1>1, <1>2, FS_RemoveElement

\* A set Q that has a subset of S when it has it less any one member has them all.
LEMMA SubsetsBySteps ==
  ASSUME NEW S, IsFiniteSet(S), NEW Q,
         \A s \in SUBSET S : (\A x \in s : s \ {x} \in Q) => s \in Q
  PROVE  SUBSET S \subseteq Q
<1> DEFINE T == {n \in 0..Cardinality(S) : \A s \in SUBSET S : Cardinality(s) <= n => s \in Q}
<1>0. Cardinality(S) \in Nat
  BY FS_CardinalityType
<1>1. \A s \in SUBSET S : IsFiniteSet(s) /\ Cardinality(s) \in Nat /\ Cardinality(s) <= Cardinality(S)
  BY FS_Subset, FS_CardinalityType
<1>2. 0 \in T
  <2>1. \A s \in SUBSET S : Cardinality(s) <= 0 => s = {}
    BY <1>1, FS_EmptySet
  <2> QED
    BY <1>0, <2>1
<1>3. ASSUME NEW n \in 0..Cardinality(S), n \in T, n < Cardinality(S) PROVE n + 1 \in T
  <2>1. ASSUME NEW s \in SUBSET S, Cardinality(s) <= n + 1
        PROVE  s \in Q
    <3>1. ASSUME NEW x \in s PROVE s \ {x} \in Q
      <4>1. s \ {x} \in SUBSET S /\ Cardinality(s \ {x}) = Cardinality(s) - 1 /\ Cardinality(s) \in Nat
        BY LessOne
      <4> QED
        BY <1>3, <2>1, <4>1
    <3> QED
      BY <3>1
  <2>2. n + 1 \in 0..Cardinality(S)
    BY <1>0, <1>3
  <2> QED
    BY <2>1, <2>2
<1> HIDE DEF T
<1>4. Cardinality(S) \in T
  BY <1>0, <1>2, <1>3, NatsBySteps
<1> QED
  BY <1>1, <1>4 DEF T

Some(s) == CHOOSE x \in s : TRUE

\* g is what a sum of f over the subsets of S recurs on.
AddsUp(g, f, S) ==
  g = [s \in SUBSET S |-> IF s = {} THEN 0 ELSE f[Some(s)] + g[s \ {Some(s)}]]

\* There is such a g for every finite set.
LEMMA AddsUpExists ==
  ASSUME NEW S, IsFiniteSet(S), NEW f, \A x \in S : f[x] \in Int
  PROVE  \E g : AddsUp(g, f, S) /\ g \in [SUBSET S -> Int]
<1> DEFINE Small(n) == {s \in SUBSET S : Cardinality(s) <= n}
           P(n) == \E g \in [Small(n) -> Int] :
                      \A s \in Small(n) : g[s] = IF s = {} THEN 0 ELSE f[Some(s)] + g[s \ {Some(s)}]
           T == {n \in 0..Cardinality(S) : P(n)}
<1>0. Cardinality(S) \in Nat
  BY FS_CardinalityType
<1>a. \A s \in SUBSET S : s # {} => Some(s) \in s
  BY DEF Some
<1>b. \A s \in SUBSET S : IsFiniteSet(s) /\ Cardinality(s) \in Nat /\ Cardinality(s) <= Cardinality(S)
  BY FS_Subset, FS_CardinalityType
<1>1. 0 \in T
  <2>1. \A s \in Small(0) : s = {}
    BY <1>b, FS_EmptySet
  <2>2. [s \in Small(0) |-> 0] \in [Small(0) -> Int]
    OBVIOUS
  <2>3. P(0)
    BY <2>1, <2>2
  <2> HIDE DEF P
  <2> QED
    BY <1>0, <2>3
<1>2. ASSUME NEW n \in 0..Cardinality(S), n \in T, n < Cardinality(S) PROVE n + 1 \in T
  <2>1. PICK g \in [Small(n) -> Int] :
           \A s \in Small(n) : g[s] = IF s = {} THEN 0 ELSE f[Some(s)] + g[s \ {Some(s)}]
    BY <1>2
  <2>2. ASSUME NEW s \in Small(n + 1), s # {}
        PROVE  Some(s) \in S /\ s \ {Some(s)} \in Small(n)
    <3>1. Some(s) \in s /\ s \in SUBSET S
      BY <1>a, <2>2
    <3>2. s \ {Some(s)} \in SUBSET S /\ Cardinality(s \ {Some(s)}) = Cardinality(s) - 1 /\ Cardinality(s) \in Nat
      BY <3>1, LessOne
    <3> QED
      BY <1>0, <3>1, <3>2
  <2> DEFINE h == [s \in Small(n + 1) |-> IF s = {} THEN 0 ELSE f[Some(s)] + g[s \ {Some(s)}]]
  <2>3. h \in [Small(n + 1) -> Int]
    BY <2>2
  <2>4. \A s \in Small(n) : s \in Small(n + 1)
    BY <1>0, <1>b
  <2>5. \A s \in Small(n) : h[s] = g[s]
    BY <2>1, <2>4
  <2>6. \A s \in Small(n + 1) : h[s] = IF s = {} THEN 0 ELSE f[Some(s)] + h[s \ {Some(s)}]
    BY <2>2, <2>5
  <2> HIDE DEF h
  <2>7. P(n + 1)
    BY <2>3, <2>6
  <2> HIDE DEF P
  <2>8. n + 1 \in 0..Cardinality(S)
    BY <1>0, <1>2
  <2> QED
    BY <2>7, <2>8
<1> HIDE DEF T
<1>3. Cardinality(S) \in T
  BY <1>0, <1>1, <1>2, NatsBySteps
<1>4. P(Cardinality(S))
  BY <1>3 DEF T
<1>5. Small(Cardinality(S)) = SUBSET S
  BY <1>b
<1> QED
  BY <1>4, <1>5 DEF AddsUp

\* Whatever set a sum recurs on, it is the same.
LEMMA SameSum ==
  ASSUME NEW S, IsFiniteSet(S), NEW R \in SUBSET S, NEW f, NEW g, NEW h,
         AddsUp(g, f, S), AddsUp(h, f, R)
  PROVE  \A s \in SUBSET R : g[s] = h[s]
<1> DEFINE Q == {s \in SUBSET R : g[s] = h[s]}
<1>1. IsFiniteSet(R)
  BY FS_Subset
<1>2. ASSUME NEW s \in SUBSET R, \A x \in s : s \ {x} \in Q PROVE s \in Q
  <2>1. CASE s = {}
    BY <2>1 DEF AddsUp
  <2>2. CASE s # {}
    <3>1. Some(s) \in s
      BY <2>2 DEF Some
    <3>2. g[s \ {Some(s)}] = h[s \ {Some(s)}]
      BY <1>2, <3>1
    <3> QED
      BY <2>2, <3>2 DEF AddsUp
  <2> QED
    BY <2>1, <2>2
<1> HIDE DEF Q
<1>3. SUBSET R \subseteq Q
  BY <1>1, <1>2, SubsetsBySteps
<1> QED
  BY <1>3 DEF Q

\* The sums of f over the subsets of S.
SumsOf(f, S) == [s \in SUBSET S |-> SumFunctionOnSet(f, s)]

\* What a sum recurs on.
LEMMA SumRecurs ==
  ASSUME NEW S, IsFiniteSet(S), NEW f, \A x \in S : f[x] \in Int
  PROVE  /\ SumsOf(f, S) \in [SUBSET S -> Int]
         /\ AddsUp(SumsOf(f, S), f, S)
<1>1. ASSUME NEW R \in SUBSET S
      PROVE  \E g : AddsUp(g, f, R) /\ g \in [SUBSET R -> Int] /\ SumFunctionOnSet(f, R) = g[R]
  <2> DEFINE g == CHOOSE g : g = [s \in SUBSET R |-> IF s = {} THEN 0 ELSE f[Some(s)] + g[s \ {Some(s)}]]
  <2>0. PICK h : AddsUp(h, f, R) /\ h \in [SUBSET R -> Int]
    BY AddsUpExists, FS_Subset
  <2>1. \E k : k = [s \in SUBSET R |-> IF s = {} THEN 0 ELSE f[Some(s)] + k[s \ {Some(s)}]]
    BY <2>0 DEF AddsUp
  <2>2. AddsUp(g, f, R)
    BY <2>1 DEF AddsUp
  <2>3. SumFunctionOnSet(f, R) = g[R]
    BY DEF SumFunctionOnSet, FoldFunctionOnSet, MapThenFoldSet, Some
  <2> HIDE DEF g
  <2>4. \A s \in SUBSET R : g[s] = h[s]
    BY <2>0, <2>2, SameSum, FS_Subset
  <2>5. g = [s \in SUBSET R |-> g[s]]
    BY <2>2 DEF AddsUp
  <2> QED
    BY <2>0, <2>2, <2>3, <2>4, <2>5
<1>2. PICK g : AddsUp(g, f, S) /\ g \in [SUBSET S -> Int]
  BY <1>1
<1>3. \A s \in SUBSET S : SumFunctionOnSet(f, s) = g[s]
  <2> TAKE s \in SUBSET S
  <2>1. PICK h : AddsUp(h, f, s) /\ SumFunctionOnSet(f, s) = h[s]
    BY <1>1
  <2> QED
    BY <1>2, <2>1, SameSum
<1>4. SumsOf(f, S) = g
  BY <1>2, <1>3 DEF SumsOf
<1> QED
  BY <1>2, <1>4

\* A sum over a finite set is a number, 0 over the empty set, and any member
\* may be taken out first.
LEMMA SumLessOne ==
  ASSUME NEW S, IsFiniteSet(S), NEW f, \A x \in S : f[x] \in Int
  PROVE  /\ SumFunctionOnSet(f, {}) = 0
         /\ \A s \in SUBSET S : SumFunctionOnSet(f, s) \in Int
         /\ \A s \in SUBSET S : \A x \in s :
               SumFunctionOnSet(f, s) = f[x] + SumFunctionOnSet(f, s \ {x})
<1> DEFINE g == SumsOf(f, S)
           Q == {s \in SUBSET S : \A x \in s : g[s] = f[x] + g[s \ {x}]}
<1>1. g \in [SUBSET S -> Int] /\ AddsUp(g, f, S)
  BY SumRecurs
<1>2. \A s \in SUBSET S : g[s] = SumFunctionOnSet(f, s)
  BY DEF SumsOf
<1> HIDE DEF g
<1>3. ASSUME NEW s \in SUBSET S, \A x \in s : s \ {x} \in Q PROVE s \in Q
  <2>1. ASSUME NEW x \in s PROVE g[s] = f[x] + g[s \ {x}]
    <3> DEFINE y == Some(s)
    <3>1. y \in s
      BY DEF Some
    <3>2. g[s] = f[y] + g[s \ {y}]
      BY <1>1 DEF AddsUp
    <3> HIDE DEF y
    <3>3. CASE x = y
      BY <3>2, <3>3
    <3>4. CASE x # y
      <4> DEFINE z == (s \ {y}) \ {x}
      <4>1. g[s \ {y}] = f[x] + g[z]
        BY <1>3, <3>1, <3>4
      <4>2. z = (s \ {x}) \ {y} /\ z \in SUBSET S
        OBVIOUS
      <4>3. g[s \ {x}] = f[y] + g[z]
        BY <1>3, <3>1, <3>4, <4>2
      <4>4. g[z] \in Int /\ f[x] \in Int /\ f[y] \in Int
        BY <1>1, <3>1, <4>2
      <4> HIDE DEF z
      <4> QED
        BY <3>2, <4>1, <4>3, <4>4
    <3> QED
      BY <3>3, <3>4
  <2> QED
    BY <2>1
<1> HIDE DEF Q
<1>4. SUBSET S \subseteq Q
  BY <1>3, SubsetsBySteps
<1>5. SumFunctionOnSet(f, {}) = 0
  BY <1>1, <1>2 DEF AddsUp
<1>6. \A s \in SUBSET S : \A x \in s : s \ {x} \in SUBSET S
  OBVIOUS
<1> QED
  BY <1>1, <1>2, <1>4, <1>5, <1>6 DEF Q

\* A sum of more is more, and is no less than 0 if none of it is.
LEMMA SumMonotone ==
  ASSUME NEW S, IsFiniteSet(S), NEW f, NEW g,
         \A x \in S : f[x] \in Int /\ g[x] \in Int /\ f[x] <= g[x]
  PROVE  SumFunctionOnSet(f, S) <= SumFunctionOnSet(g, S)
<1> DEFINE F(s) == SumFunctionOnSet(f, s)
           G(s) == SumFunctionOnSet(g, s)
           Q == {s \in SUBSET S : F(s) <= G(s)}
<1>1. /\ F({}) = 0 /\ \A s \in SUBSET S : F(s) \in Int /\ \A x \in s : F(s) = f[x] + F(s \ {x})
      /\ G({}) = 0 /\ \A s \in SUBSET S : G(s) \in Int /\ \A x \in s : G(s) = g[x] + G(s \ {x})
  BY SumLessOne
<1> HIDE DEF F, G
<1>2. ASSUME NEW s \in SUBSET S, \A x \in s : s \ {x} \in Q PROVE s \in Q
  <2>1. CASE s = {}
    BY <1>1, <2>1
  <2>2. ASSUME NEW x \in s PROVE F(s) <= G(s)
    <3>1. F(s \ {x}) <= G(s \ {x}) /\ s \ {x} \in SUBSET S
      BY <1>2
    <3>2. F(s) = f[x] + F(s \ {x}) /\ G(s) = g[x] + G(s \ {x})
      BY <1>1
    <3>3. F(s \ {x}) \in Int /\ G(s \ {x}) \in Int /\ f[x] \in Int /\ g[x] \in Int /\ f[x] <= g[x]
      BY <1>1, <3>1
    <3> QED
      BY <3>1, <3>2, <3>3
  <2> QED
    BY <2>1, <2>2
<1> HIDE DEF Q
<1>3. SUBSET S \subseteq Q
  BY <1>2, SubsetsBySteps
<1> QED
  BY <1>3 DEF F, G, Q

\* Functions that agree on a set have the same sum over it.
LEMMA SumAgree ==
  ASSUME NEW S, IsFiniteSet(S), NEW f, NEW g, \A x \in S : f[x] \in Int /\ f[x] = g[x]
  PROVE  SumFunctionOnSet(f, S) = SumFunctionOnSet(g, S)
<1>1. SumFunctionOnSet(f, S) <= SumFunctionOnSet(g, S) /\ SumFunctionOnSet(g, S) <= SumFunctionOnSet(f, S)
  BY SumMonotone
<1>2. SumFunctionOnSet(f, S) \in Int /\ SumFunctionOnSet(g, S) \in Int
  BY SumLessOne
<1> QED
  BY <1>1, <1>2

\* Sums that differ at most at x differ by what they have there.
LEMMA SumDiffersAt ==
  ASSUME NEW f, NEW g, NEW x, IsFiniteSet(DOMAIN f), IsFiniteSet(DOMAIN g),
         \A y \in DOMAIN f : f[y] \in Int, \A y \in DOMAIN g : g[y] \in Int,
         DOMAIN f \ {x} = DOMAIN g \ {x}, \A y \in DOMAIN f \ {x} : f[y] = g[y]
  PROVE  /\ SumFunction(f) \in Int /\ SumFunction(g) \in Int
         /\ SumFunction(g) = SumFunction(f) - (IF x \in DOMAIN f THEN f[x] ELSE 0)
                                            + (IF x \in DOMAIN g THEN g[x] ELSE 0)
<1> DEFINE S == DOMAIN f  T == DOMAIN g  R == S \ {x}
           a == IF x \in S THEN f[x] ELSE 0
           b == IF x \in T THEN g[x] ELSE 0
<1>1. IsFiniteSet(R) /\ R \in SUBSET S /\ R \in SUBSET T
  BY FS_Subset
<1>2. SumFunctionOnSet(f, R) = SumFunctionOnSet(g, R)
  BY <1>1, SumAgree
<1>3. SumFunctionOnSet(f, R) \in Int /\ SumFunctionOnSet(f, S) \in Int /\ SumFunctionOnSet(g, T) \in Int
  BY <1>1, SumLessOne
<1>4. SumFunctionOnSet(f, S) = a + SumFunctionOnSet(f, R)
  <2>1. CASE x \in S
    BY <2>1, SumLessOne
  <2>2. CASE x \notin S
    <3>1. R = S
      BY <2>2
    <3> QED
      BY <1>3, <2>2, <3>1
  <2> QED
    BY <2>1, <2>2
<1>5. SumFunctionOnSet(g, T) = b + SumFunctionOnSet(f, R)
  <2>1. CASE x \in T
    <3>1. T \ {x} = R
      OBVIOUS
    <3>2. SumFunctionOnSet(g, T) = g[x] + SumFunctionOnSet(g, T \ {x})
      BY <2>1, SumLessOne
    <3> QED
      BY <1>2, <2>1, <3>1, <3>2
  <2>2. CASE x \notin T
    <3>1. R = T
      BY <2>2
    <3> QED
      BY <1>2, <1>3, <2>2, <3>1
  <2> QED
    BY <2>1, <2>2
<1>6. SumFunction(f) = a + SumFunctionOnSet(f, R) /\ SumFunction(g) = b + SumFunctionOnSet(f, R)
  BY <1>4, <1>5 DEF SumFunction
<1>7. a \in Int /\ b \in Int
  OBVIOUS
<1> HIDE DEF a, b, R, S, T
<1>8. SumFunction(g) = SumFunction(f) - a + b /\ SumFunction(f) \in Int /\ SumFunction(g) \in Int
  BY <1>3, <1>6, <1>7
<1> QED
  BY <1>8 DEF a, b, S, T

\* A sum of natural numbers is one, and no less than any of them.
LEMMA SumIsNat ==
  ASSUME NEW f, IsFiniteSet(DOMAIN f), \A y \in DOMAIN f : f[y] \in Nat
  PROVE  SumFunction(f) \in Nat /\ \A x \in DOMAIN f : f[x] <= SumFunction(f)
<1> DEFINE S == DOMAIN f
           F(s) == SumFunctionOnSet(f, s)
           Q == {s \in SUBSET S : F(s) \in Nat}
<1>0. IsFiniteSet(S) /\ \A x \in S : f[x] \in Nat
  OBVIOUS
<1> HIDE DEF S
<1>1. F({}) = 0 /\ \A s \in SUBSET S : F(s) \in Int /\ \A x \in s : F(s) = f[x] + F(s \ {x})
  BY <1>0, SumLessOne
<1> HIDE DEF F
<1>2. ASSUME NEW s \in SUBSET S, \A x \in s : s \ {x} \in Q PROVE s \in Q
  <2>1. CASE s = {}
    BY <1>1, <2>1
  <2>2. ASSUME NEW x \in s PROVE F(s) \in Nat
    <3>1. F(s) = f[x] + F(s \ {x}) /\ f[x] \in Nat /\ F(s \ {x}) \in Nat
      BY <1>0, <1>1, <1>2
    <3> QED
      BY <3>1
  <2> QED
    BY <2>1, <2>2
<1> HIDE DEF Q
<1>3. SUBSET S \subseteq Q
  BY <1>0, <1>2, SubsetsBySteps
<1>4. \A s \in SUBSET S : F(s) \in Nat
  BY <1>3 DEF Q
<1>5. ASSUME NEW x \in S PROVE f[x] <= F(S)
  <2>1. F(S) = f[x] + F(S \ {x}) /\ f[x] \in Nat /\ F(S \ {x}) \in Nat /\ F(S) \in Nat
    BY <1>0, <1>1, <1>4
  <2> QED
    BY <2>1
<1> QED
  BY <1>4, <1>5 DEF F, S, SumFunction

\* Nothing adds up to 0.
LEMMA SumOfNone ==
  ASSUME NEW f, DOMAIN f = {}
  PROVE  SumFunction(f) = 0
<1>1. IsFiniteSet({})
  BY FS_EmptySet
<1>2. SumFunctionOnSet(f, {}) = 0
  BY <1>1, SumLessOne
<1> QED
  BY <1>2 DEF SumFunction

\* Two elements in order are the first with the second appended.
LEMMA PairIsAppend ==
  ASSUME NEW S, NEW x \in S, NEW t \in S
  PROVE  Append(<<x>>, t) = <<x, t>>
<1> DEFINE e == Append(<<x>>, t)
           f == <<x, t>>
<1>1. <<x>> \in Seq(S) /\ Len(<<x>>) = 1 /\ <<x>>[1] = x
  OBVIOUS
<1>2. f \in Seq(S) /\ Len(f) = 2 /\ f[1] = x /\ f[2] = t
  OBVIOUS
<1>3. e \in Seq(S) /\ Len(e) = 2 /\ e[1] = x /\ e[2] = t
  BY <1>1, AppendProperties
<1> HIDE DEF e, f
<1>4. \A i \in 1..Len(e) : e[i] = f[i]
  BY <1>2, <1>3
<1>5. e = f
  BY <1>2, <1>3, <1>4, SeqEqual
<1> QED
  BY <1>5 DEF e, f

=============================================================================
