------------------------------- MODULE DataLemmas -------------------------------
(***************************************************************************)
(* What the proofs about data need: least numbers, which stand in for      *)
(* induction, powers of two and of ten, numbers by their digits, pieces of *)
(* sequences, and sequences one behind the other.                          *)
(***************************************************************************)
EXTENDS Integers, FiniteSetTheorems, SequenceTheorems, WellFoundedInduction, TLAPS

-----------------------------------------------------------------------------
(* Numbers                                                                 *)

\* A set of numbers has a least one.
LEMMA Least ==
    ASSUME NEW T \in SUBSET Nat, T # {}
    PROVE  \E x \in T : \A y \in T : x <= y
<1>1. PICK x \in T : \A y \in T : ~(<<y, x>> \in OpToRel(<, Nat))
  BY WFMin, NatLessThanWellFounded
<1>2. \A y \in T : ~(y < x)
  BY <1>1 DEF OpToRel
<1> QED
  BY <1>2

\* There are 2 ^ n sets of n things, and with one more thing twice as many.
LEMMA PowerCounts ==
    ASSUME NEW n \in Nat
    PROVE  /\ IsFiniteSet(SUBSET (1 .. n)) /\ Cardinality(SUBSET (1 .. n)) = 2 ^ n
           /\ 2 ^ n \in Nat
<1>1. IsFiniteSet(1 .. n) /\ Cardinality(1 .. n) = n
  BY FS_Interval
<1>2. IsFiniteSet(SUBSET (1 .. n)) /\ Cardinality(SUBSET (1 .. n)) = 2 ^ n
  BY <1>1, FS_SUBSET
<1> QED
  BY <1>2, FS_CardinalityType

\* Every set of n things is also one with the new thing.
LEMMA PowerDoubles ==
    ASSUME NEW n \in Nat
    PROVE  2 ^ (n + 1) = 2 ^ n + 2 ^ n
<1> DEFINE S == SUBSET (1 .. n)
           T == {A \cup {n + 1} : A \in S}
           f == [A \in S |-> A \cup {n + 1}]
<1>1. n + 1 \notin 1 .. n /\ 1 .. n + 1 = 1 .. n \cup {n + 1}
  OBVIOUS
<1>2. SUBSET (1 .. n + 1) = S \cup T
  <2>1. ASSUME NEW A \in SUBSET (1 .. n + 1) PROVE A \in S \cup T
    <3>1. CASE n + 1 \in A
      <4>1. A = (A \ {n + 1}) \cup {n + 1} /\ A \ {n + 1} \in S
        BY <1>1, <3>1
      <4> QED
        BY <4>1
    <3>2. CASE n + 1 \notin A
      BY <1>1, <3>2
    <3> QED
      BY <3>1, <3>2
  <2>2. S \cup T \subseteq SUBSET (1 .. n + 1)
    BY <1>1
  <2> QED
    BY <2>1, <2>2
<1>3. S \cap T = {}
  BY <1>1
<1>4. ExistsBijection(S, T)
  <2>1. f \in [S -> T] /\ \A t \in T : \E A \in S : f[A] = t
    OBVIOUS
  <2>2. \A A, B \in S : f[A] = f[B] => A = B
    BY <1>1
  <2> QED
    BY <2>1, <2>2, Zenon DEF ExistsBijection, Bijection, Injection, Surjection, IsInjective
<1> DEFINE p == 2 ^ n
           q == 2 ^ (n + 1)
<1>5. IsFiniteSet(S) /\ Cardinality(S) = p /\ p \in Nat
  BY PowerCounts
<1>6. Cardinality(SUBSET (1 .. n + 1)) = q
  BY PowerCounts
<1> HIDE DEF S, T, f, p, q
<1>7. IsFiniteSet(T) /\ Cardinality(T) = p
  BY <1>4, <1>5, FS_Bijection
<1>8. Cardinality(S \cup T) = Cardinality(S) + Cardinality(T) - Cardinality(S \cap T)
  BY <1>5, <1>7, FS_Union
<1>9. Cardinality(S \cap T) = 0
  BY <1>3, FS_EmptySet
<1>10. Cardinality(S \cup T) = q
  BY <1>2, <1>6, Zenon
<1>11. q = p + p - 0
  BY <1>5, <1>7, <1>8, <1>9, <1>10, Zenon
<1>12. q = p + p
  BY <1>5, <1>11
<1> QED
  BY <1>12 DEF p, q

\* Powers of two by a name, so that the provers take them for mere numbers.
Power(n) == 2 ^ n

LEMMA Powers ==
    /\ Power(0) = 1
    /\ \A n \in Nat : Power(n) \in Nat /\ Power(n + 1) = 2 * Power(n)
    /\ \A n \in Nat : Power(n) >= n + 1
<1>1. Power(0) = 1
  BY DEF Power
<1>2. \A n \in Nat : Power(n) \in Nat
  BY PowerCounts DEF Power
<1>3. \A n \in Nat : Power(n + 1) = Power(n) + Power(n)
  BY PowerDoubles DEF Power
<1>4. \A n \in Nat : Power(n) >= n + 1
  <2> DEFINE T == {n \in Nat : ~(Power(n) >= n + 1)}
  <2> SUFFICES ASSUME T # {} PROVE FALSE
    OBVIOUS
  <2>1. PICK n \in T : \A m \in T : n <= m
    BY Least
  <2>2. n # 0
    BY <1>1, <2>1
  <2>3. n - 1 \in Nat /\ n - 1 \notin T /\ (n - 1) + 1 = n
    BY <2>1, <2>2
  <2>4. Power(n - 1) >= n /\ Power(n - 1) \in Nat
    BY <1>2, <2>3
  <2>5. Power(n) = Power(n - 1) + Power(n - 1)
    BY <1>3, <2>3
  <2>6. Power(n) >= n + 1
    BY <2>1, <2>2, <2>4, <2>5
  <2> QED
    BY <2>1, <2>6
<1>5. \A n \in Nat : Power(n + 1) = 2 * Power(n)
  BY <1>2, <1>3
<1> QED
  BY <1>1, <1>2, <1>4, <1>5

LEMMA PowerMonotone ==
    ASSUME NEW m \in Nat, NEW n \in Nat, m <= n
    PROVE  Power(m) <= Power(n)
<1>1. SUBSET (1 .. m) \in SUBSET (SUBSET (1 .. n))
  OBVIOUS
<1>2. Cardinality(SUBSET (1 .. m)) <= Cardinality(SUBSET (1 .. n))
  BY <1>1, PowerCounts, FS_Subset
<1> QED
  BY <1>2, PowerCounts DEF Power

\* A quotient is the one number whose multiple is close below.
LEMMA Quotient ==
    ASSUME NEW m \in Nat, NEW p \in Nat \ {0}, NEW q \in Nat
    PROVE  q = m \div p <=> p * q <= m /\ m < p * q + p
OBVIOUS

\* Dividing by twice as much leaves the quotient without its last bit.
LEMMA Halves ==
    ASSUME NEW m \in Nat, NEW p \in Nat \ {0}
    PROVE  /\ m \div (2 * p) \in Nat
           /\ m \div p = 2 * (m \div (2 * p)) + ((m \div p) % 2)
<1> DEFINE q == m \div p
           b == q \div 2
<1>1. q \in Nat /\ p * q <= m /\ m < p * q + p
  BY Quotient
<1>2. b \in Nat /\ q = 2 * b + (q % 2) /\ q % 2 \in {0, 1}
  BY <1>1
<1>3. p * (2 * b) \in Nat /\ p * (2 * b) = (2 * p) * b
  BY <1>2
<1>4. p * q = p * (2 * b) + p * (q % 2)
  BY <1>2
<1>5. p * (q % 2) \in {0, p}
  BY <1>2
<1>6. (2 * p) * b <= m /\ m < (2 * p) * b + 2 * p
  BY <1>1, <1>3, <1>4, <1>5
<1>7. b = m \div (2 * p)
  BY <1>2, <1>6, Quotient
<1> QED
  BY <1>2, <1>7

-----------------------------------------------------------------------------
(* Sequences                                                               *)

\* The n elements behind the first a ones.
LEMMA Piece ==
    ASSUME NEW S, NEW s, NEW a \in Nat, NEW n \in Nat,
           \A i \in 1 .. n : s[a + i] \in S
    PROVE  /\ SubSeq(s, a + 1, a + n) \in Seq(S)
           /\ Len(SubSeq(s, a + 1, a + n)) = n
           /\ \A i \in 1 .. n : SubSeq(s, a + 1, a + n)[i] = s[a + i]
<1> DEFINE from == a + 1
           to == a + n
<1>1. from \in Int /\ to \in Int /\ to - from + 1 = n
  OBVIOUS
<1>2. \A i \in from .. to : s[i] \in S
  <2>1. ASSUME NEW i \in from .. to PROVE i - a \in 1 .. n /\ a + (i - a) = i
    OBVIOUS
  <2> HIDE DEF from, to
  <2> QED
    BY <2>1
<1>3. (IF from <= to THEN to - from + 1 ELSE 0) = n
  OBVIOUS
<1>4. \A i \in 1 .. n : from + i - 1 = a + i
  OBVIOUS
<1> HIDE DEF from, to
<1>5. /\ SubSeq(s, from, to) \in Seq(S)
      /\ Len(SubSeq(s, from, to)) = IF from <= to THEN to - from + 1 ELSE 0
      /\ \A i \in 1 .. to - from + 1 : SubSeq(s, from, to)[i] = s[from + i - 1]
  BY <1>1, <1>2, SubSeqProperties
<1>6. /\ SubSeq(s, from, to) \in Seq(S) /\ Len(SubSeq(s, from, to)) = n
      /\ \A i \in 1 .. n : SubSeq(s, from, to)[i] = s[a + i]
  BY <1>1, <1>3, <1>4, <1>5
<1> QED
  BY <1>6 DEF from, to


-----------------------------------------------------------------------------
(* Numbers by their digits, the highest first                              *)

\* f[i] is the number that the first i digits of s make.
IsValue(f, base, s, w) ==
    f = [i \in 0 .. w |-> IF i = 0 THEN 0 ELSE base * f[i - 1] + s[i]]

\* There is such a function: the shortest word without one would have one.
LEMMA ValueThere ==
    ASSUME NEW base, NEW s, NEW w \in Nat
    PROVE  \E f : IsValue(f, base, s, w)
<1> DEFINE Has(k) == \E f : IsValue(f, base, s, k)
           T == {k \in Nat : ~Has(k)}
<1>1. Has(0)
  <2> DEFINE f == [i \in 0 .. 0 |-> 0]
  <2>1. f = [i \in 0 .. 0 |-> IF i = 0 THEN 0 ELSE base * f[i - 1] + s[i]]
    OBVIOUS
  <2> QED
    BY <2>1 DEF IsValue
<1>2. ASSUME NEW k \in Nat, Has(k) PROVE Has(k + 1)
  <2>1. PICK f : IsValue(f, base, s, k)
    BY <1>2
  <2> DEFINE next == base * f[k] + s[k + 1]
             g == [i \in 0 .. k + 1 |-> IF i = k + 1 THEN next ELSE f[i]]
  <2>2. \A i \in 0 .. k : g[i] = f[i]
    OBVIOUS
  <2>3. g[k + 1] = base * g[k] + s[k + 1]
    OBVIOUS
  <2>4. ASSUME NEW i \in 0 .. k
        PROVE  f[i] = IF i = 0 THEN 0 ELSE base * f[i - 1] + s[i]
    BY <2>1, <2>4 DEF IsValue
  <2> HIDE DEF next
  <2>5. ASSUME NEW i \in 0 .. k + 1
        PROVE  g[i] = IF i = 0 THEN 0 ELSE base * g[i - 1] + s[i]
    <3>1. CASE i = k + 1
      <4>1. i # 0 /\ i - 1 = k
        BY <3>1
      <4> HIDE DEF g
      <4> QED
        BY <2>3, <3>1, <4>1
    <3>2. CASE i \in 0 .. k /\ i # 0
      <4>1. i - 1 \in 0 .. k
        BY <3>2
      <4> HIDE DEF g
      <4>2. g[i] = f[i] /\ g[i - 1] = f[i - 1]
        BY <2>2, <3>2, <4>1
      <4> QED
        BY <2>4, <3>2, <4>2
    <3>3. CASE i = 0
      <4> HIDE DEF g
      <4> QED
        BY <2>2, <2>4, <3>3
    <3> QED
      BY <3>1, <3>2, <3>3
  <2>6. g = [i \in 0 .. k + 1 |-> g[i]]
    OBVIOUS
  <2> HIDE DEF g
  <2>7. g = [i \in 0 .. k + 1 |-> IF i = 0 THEN 0 ELSE base * g[i - 1] + s[i]]
    BY <2>5, <2>6
  <2> QED
    BY <2>7 DEF IsValue
<1> HIDE DEF Has
<1>3. T = {}
  <2> SUFFICES ASSUME T # {} PROVE FALSE
    OBVIOUS
  <2>1. PICK k \in T : \A m \in T : k <= m
    BY Least
  <2>2. k # 0 /\ k - 1 \in Nat /\ k - 1 \notin T /\ (k - 1) + 1 = k
    BY <1>1, <2>1
  <2> QED
    BY <1>2, <2>1, <2>2
<1> QED
  BY <1>3 DEF Has

\* Step by step: with digits below the base the numbers stay below its powers.
LEMMA ValueSteps ==
    ASSUME NEW base \in Nat, NEW w \in Nat, NEW s, NEW f, IsValue(f, base, s, w),
           \A i \in 1 .. w : s[i] \in Nat
    PROVE  /\ f[0] = 0
           /\ \A i \in 0 .. w : f[i] \in Nat
           /\ \A i \in 1 .. w : f[i] = base * f[i - 1] + s[i]
<1>1. f[0] = 0
  BY DEF IsValue
<1>2. ASSUME NEW i \in 1 .. w PROVE f[i] = base * f[i - 1] + s[i]
  BY DEF IsValue
<1>3. \A i \in 0 .. w : f[i] \in Nat
  <2> DEFINE T == {i \in 0 .. w : f[i] \notin Nat}
  <2> SUFFICES ASSUME T # {} PROVE FALSE
    OBVIOUS
  <2>5. T \in SUBSET Nat
    OBVIOUS
  <2>1. PICK i \in T : \A m \in T : i <= m
    BY <2>5, Least, Zenon
  <2>2. i # 0 /\ i \in 1 .. w /\ i - 1 \in 0 .. w /\ i - 1 \notin T
    BY <1>1, <2>1
  <2>3. f[i - 1] \in Nat /\ s[i] \in Nat
    BY <2>2
  <2>4. base * f[i - 1] + s[i] \in Nat
    BY <2>3
  <2> QED
    BY <1>2, <2>1, <2>2, <2>4
<1> QED
  BY <1>1, <1>2, <1>3


\* One word has one number.
LEMMA ValueUnique ==
    ASSUME NEW base \in Nat, NEW w \in Nat, NEW s, NEW f, NEW h,
           \A i \in 1 .. w : s[i] \in Nat,
           IsValue(f, base, s, w), IsValue(h, base, s, w)
    PROVE  f[w] = h[w]
<1>1. /\ f[0] = 0 /\ \A i \in 1 .. w : f[i] = base * f[i - 1] + s[i]
  BY ValueSteps
<1>2. /\ h[0] = 0 /\ \A i \in 1 .. w : h[i] = base * h[i - 1] + s[i]
  BY ValueSteps
<1> DEFINE T == {i \in 0 .. w : f[i] # h[i]}
<1> SUFFICES ASSUME T # {} PROVE FALSE
  OBVIOUS
<1>3. T \in SUBSET Nat
  OBVIOUS
<1>4. PICK i \in T : \A j \in T : i <= j
  BY <1>3, Least, Zenon
<1>5. i # 0 /\ i \in 0 .. w
  BY <1>1, <1>2, <1>4
<1>6. i \in 1 .. w /\ i - 1 \in 0 .. w /\ ~(i <= i - 1)
  BY <1>5
<1>7. f[i - 1] = h[i - 1]
  BY <1>4, <1>6
<1> QED
  BY <1>1, <1>2, <1>4, <1>6, <1>7

\* A power with every digit.
IsBound(bound, base, w) ==
    bound[0] = 1 /\ \A i \in 1 .. w : bound[i] \in Nat /\ bound[i] = base * bound[i - 1]

\* One digit more, and the number it gives is below as many times the base.
LEMMA OneDigit ==
    ASSUME NEW base \in Nat, NEW a \in Nat, NEW b \in Nat, a < b, NEW d \in 0 .. base - 1
    PROVE  base * a + d \in Nat /\ base * a + d < base * b /\ base * b \in Nat
<1>1. PICK c \in Nat : b = a + 1 + c
  <2>1. b - a - 1 \in Nat /\ b = a + 1 + (b - a - 1)
    OBVIOUS
  <2> QED
    BY <2>1
<1>2. base * a \in Nat /\ base * c \in Nat /\ base * b \in Nat
  BY <1>1
<1>3. base * b = base * a + base + base * c
  BY <1>1
<1> QED
  BY <1>2, <1>3

\* The last digit and what is before it are known by the number.
LEMMA DigitUnique ==
    ASSUME NEW base \in Nat, NEW a \in Nat, NEW b \in Nat,
           NEW d \in 0 .. base - 1, NEW e \in 0 .. base - 1, NEW x,
           x = base * a + d, x = base * b + e
    PROVE  a = b /\ d = e
<1>1. base * a \in Nat /\ base * b \in Nat
  OBVIOUS
<1>2. ~(a < b)
  <2>1. SUFFICES ASSUME a < b PROVE FALSE
    OBVIOUS
  <2>2. base * a + d < base * b
    BY <2>1, OneDigit
  <2> QED
    BY <1>1, <2>2
<1>3. ~(b < a)
  <2>1. SUFFICES ASSUME b < a PROVE FALSE
    OBVIOUS
  <2>2. base * b + e < base * a
    BY <2>1, OneDigit
  <2> QED
    BY <1>1, <2>2
<1>4. a = b
  BY <1>2, <1>3
<1> QED
  BY <1>1, <1>4

LEMMA ValueBelow ==
    ASSUME NEW base \in Nat, NEW w \in Nat, NEW s, NEW f, IsValue(f, base, s, w),
           \A i \in 1 .. w : s[i] \in 0 .. base - 1, NEW bound, IsBound(bound, base, w)
    PROVE  \A i \in 0 .. w : f[i] \in Nat /\ bound[i] \in Nat /\ f[i] < bound[i]
<1>1. /\ f[0] = 0 /\ \A i \in 0 .. w : f[i] \in Nat
      /\ \A i \in 1 .. w : f[i] = base * f[i - 1] + s[i]
  <2>1. \A i \in 1 .. w : s[i] \in Nat
    OBVIOUS
  <2> QED
    BY <2>1, ValueSteps
<1>2. /\ bound[0] = 1
      /\ \A i \in 1 .. w : bound[i] \in Nat /\ bound[i] = base * bound[i - 1]
  BY DEF IsBound
<1>3. \A i \in 0 .. w : bound[i] \in Nat
  BY <1>2
<1> DEFINE T == {i \in 0 .. w : ~(f[i] < bound[i])}
<1>4. SUFFICES ASSUME T # {} PROVE FALSE
  BY <1>1, <1>3
<1>5. T \in SUBSET Nat
  OBVIOUS
<1>6. PICK i \in T : \A m \in T : i <= m
  BY <1>4, <1>5, Least, Zenon
<1>7. i # 0 /\ i \in 1 .. w /\ i - 1 \in 0 .. w
  BY <1>1, <1>2, <1>6
<1>8. f[i - 1] < bound[i - 1]
  <2>1. i - 1 \notin T
    BY <1>6
  <2> QED
    BY <1>7, <2>1
<1>9. base * f[i - 1] + s[i] < base * bound[i - 1]
  BY <1>1, <1>3, <1>7, <1>8, OneDigit
<1>10. f[i] < bound[i]
  BY <1>1, <1>2, <1>7, <1>9, Zenon
<1> QED
  BY <1>6, <1>10

\* Words of the same length with the same value are the same.
LEMMA ValueInjective ==
    ASSUME NEW base \in Nat, NEW w \in Nat, NEW s, NEW t, NEW f, NEW g,
           \A i \in 1 .. w : s[i] \in 0 .. base - 1, \A i \in 1 .. w : t[i] \in 0 .. base - 1,
           IsValue(f, base, s, w), IsValue(g, base, t, w), f[w] = g[w]
    PROVE  \A i \in 1 .. w : s[i] = t[i]
<1>1. /\ \A i \in 0 .. w : f[i] \in Nat /\ g[i] \in Nat
      /\ \A i \in 1 .. w : f[i] = base * f[i - 1] + s[i] /\ g[i] = base * g[i - 1] + t[i]
  <2>1. \A i \in 1 .. w : s[i] \in Nat
    OBVIOUS
  <2>4. \A i \in 1 .. w : t[i] \in Nat
    OBVIOUS
  <2>2. /\ \A i \in 0 .. w : f[i] \in Nat
        /\ \A i \in 1 .. w : f[i] = base * f[i - 1] + s[i]
    BY <2>1, ValueSteps
  <2>3. /\ \A i \in 0 .. w : g[i] \in Nat
        /\ \A i \in 1 .. w : g[i] = base * g[i - 1] + t[i]
    BY <2>4, ValueSteps
  <2> QED
    BY <2>2, <2>3
<1>2. ASSUME NEW i \in 1 .. w, f[i] = g[i]
      PROVE  f[i - 1] = g[i - 1] /\ s[i] = t[i]
  <2> DEFINE a == f[i - 1]
             b == g[i - 1]
             d == s[i]
             e == t[i]
  <2>1. i - 1 \in 0 .. w
    OBVIOUS
  <2>2. a \in Nat /\ b \in Nat /\ d \in 0 .. base - 1 /\ e \in 0 .. base - 1
    BY <1>1, <2>1
  <2> DEFINE x == f[i]
  <2>3. x = base * a + d /\ x = base * b + e
    BY <1>1, <1>2
  <2> HIDE DEF a, b, d, e, x
  <2>4. a = b /\ d = e
    BY <2>2, <2>3, DigitUnique
  <2> QED
    BY <2>4 DEF a, b, d, e
<1> DEFINE T == {j \in 0 .. w : f[w - j] # g[w - j]}
<1>3. T = {}
  <2> SUFFICES ASSUME T # {} PROVE FALSE
    OBVIOUS
  <2>1. T \in SUBSET Nat
    OBVIOUS
  <2>2. PICK j \in T : \A m \in T : j <= m
    BY <2>1, Least, Zenon
  <2>3. w - 0 = w
    OBVIOUS
  <2>4. j # 0
    BY <2>2, <2>3
  <2>5. j - 1 \in 0 .. w /\ w - (j - 1) \in 1 .. w /\ (w - (j - 1)) - 1 = w - j
    <3>1. j \in 0 .. w
      BY <2>2
    <3> QED
      BY <2>4, <3>1
  <2>6. f[w - (j - 1)] = g[w - (j - 1)]
    <3>1. ~(j <= j - 1)
      BY <2>1, <2>2
    <3>2. j - 1 \notin T
      BY <2>2, <3>1
    <3> QED
      BY <2>5, <3>2
  <2>7. f[w - j] = g[w - j]
    BY <1>2, <2>5, <2>6
  <2> QED
    BY <2>2, <2>7
<1>4. \A i \in 0 .. w : f[i] = g[i]
  <2> TAKE i \in 0 .. w
  <2>1. w - i \in 0 .. w /\ w - (w - i) = i
    OBVIOUS
  <2>2. w - i \notin T
    BY <1>3
  <2> QED
    BY <2>1, <2>2
<1> QED
  BY <1>2, <1>4

HasWord(base, w, v) ==
    \E s \in [1 .. w -> 0 .. base - 1] : \E f : IsValue(f, base, s, w) /\ f[w] = v

\* Every number below the bound has its word.
LEMMA ValueOnto ==
    ASSUME NEW base \in Nat \ {0}, NEW w \in Nat, NEW bound, IsBound(bound, base, w),
           NEW v \in Nat, v < bound[w]
    PROVE  HasWord(base, w, v)
<1> DEFINE Has(k, x) == \E s \in [1 .. k -> 0 .. base - 1] : \E f : IsValue(f, base, s, k) /\ f[k] = x
           T == {k \in 0 .. w : ~\A x \in Nat : x < bound[k] => Has(k, x)}
<1>1. /\ bound[0] = 1 /\ \A i \in 1 .. w : bound[i] = base * bound[i - 1]
      /\ \A i \in 0 .. w : bound[i] \in Nat
  BY DEF IsBound
<1>2. ASSUME NEW x \in Nat, x < bound[0] PROVE Has(0, x)
  <2>1. x = 0
    BY <1>1, <1>2
  <2> DEFINE s == [i \in 1 .. 0 |-> 0]
  <2>2. PICK f : IsValue(f, base, s, 0)
    BY ValueThere
  <2>3. f[0] = 0
    BY <2>2 DEF IsValue
  <2>4. s \in [1 .. 0 -> 0 .. base - 1]
    OBVIOUS
  <2> QED
    BY <2>1, <2>2, <2>3, <2>4
<1>3. ASSUME NEW k \in 1 .. w, \A x \in Nat : x < bound[k - 1] => Has(k - 1, x),
             NEW x \in Nat, x < bound[k]
      PROVE  Has(k, x)
  <2> DEFINE q == x \div base
             d == x % base
  <2>1. q \in Nat /\ d \in 0 .. base - 1 /\ x = base * q + d
    OBVIOUS
  <2>2. k - 1 \in 0 .. w /\ k - 1 \in Nat /\ bound[k - 1] \in Nat /\ bound[k] = base * bound[k - 1]
    BY <1>1
  <2> HIDE DEF q, d
  <2>3. q < bound[k - 1]
    <3> DEFINE b == bound[k - 1]
    <3>1. SUFFICES ASSUME b <= q PROVE FALSE
      BY <2>1, <2>2
    <3>2. b \in Nat /\ x < base * b
      BY <1>3, <2>2
    <3> HIDE DEF b
    <3>3. PICK c \in Nat : q = b + c
      <4>1. q - b \in Nat /\ q = b + (q - b)
        BY <2>1, <3>1, <3>2
      <4> QED
        BY <4>1
    <3>4. base * q = base * b + base * c /\ base * c \in Nat /\ base * b \in Nat
      BY <3>2, <3>3
    <3> QED
      BY <2>1, <3>2, <3>4
  <2>4. Has(k - 1, q)
    BY <1>3, <2>1, <2>3
  <2>5. PICK s \in [1 .. k - 1 -> 0 .. base - 1] : \E f : IsValue(f, base, s, k - 1) /\ f[k - 1] = q
    BY <2>4
  <2>6. PICK f : IsValue(f, base, s, k - 1) /\ f[k - 1] = q
    BY <2>5
  <2> DEFINE t == [i \in 1 .. k |-> IF i = k THEN d ELSE s[i]]
  <2>7. t \in [1 .. k -> 0 .. base - 1] /\ t[k] = d /\ \A i \in 1 .. k - 1 : t[i] = s[i]
    BY <2>1
  <2> HIDE DEF t
  <2>8. PICK g : IsValue(g, base, t, k)
    <3>1. k \in Nat
      OBVIOUS
    <3> QED
      BY <3>1, ValueThere, Zenon
  <2>9. /\ \A i \in 0 .. k - 1 : f[i] = IF i = 0 THEN 0 ELSE base * f[i - 1] + s[i]
        /\ \A i \in 0 .. k : g[i] = IF i = 0 THEN 0 ELSE base * g[i - 1] + t[i]
    <3>1. ASSUME NEW i \in 0 .. k - 1 PROVE f[i] = IF i = 0 THEN 0 ELSE base * f[i - 1] + s[i]
      BY <2>6 DEF IsValue
    <3>2. ASSUME NEW i \in 0 .. k PROVE g[i] = IF i = 0 THEN 0 ELSE base * g[i - 1] + t[i]
      BY <2>8 DEF IsValue
    <3> QED
      BY <3>1, <3>2
  <2> DEFINE D == {i \in 0 .. k - 1 : g[i] # f[i]}
  <2>10. D = {}
    <3> SUFFICES ASSUME D # {} PROVE FALSE
      OBVIOUS
    <3>1. D \in SUBSET Nat
      OBVIOUS
    <3>2. PICK i \in D : \A m \in D : i <= m
      BY <3>1, Least, Zenon
    <3>3. g[0] = 0 /\ f[0] = 0
      BY <2>2, <2>9
    <3>4. i # 0 /\ i - 1 \in 0 .. k - 1 /\ i - 1 \notin D /\ i \in 1 .. k - 1 /\ i \in 0 .. k
      BY <3>2, <3>3
    <3>5. g[i - 1] = f[i - 1] /\ t[i] = s[i]
      BY <2>7, <3>4
    <3>6. g[i] = base * g[i - 1] + t[i] /\ f[i] = base * f[i - 1] + s[i]
      BY <2>9, <3>4
    <3> QED
      BY <3>2, <3>5, <3>6
  <2>11. g[k] = x
    <3>1. g[k - 1] = q
      BY <2>2, <2>6, <2>10
    <3>2. k \in 0 .. k /\ k # 0
      OBVIOUS
    <3>3. g[k] = base * g[k - 1] + t[k]
      BY <2>9, <3>2
    <3> QED
      BY <2>1, <2>7, <3>1, <3>3
  <2> QED
    BY <2>7, <2>8, <2>11
<1> HIDE DEF Has
<1>4. T = {}
  <2> SUFFICES ASSUME T # {} PROVE FALSE
    OBVIOUS
  <2>1. T \in SUBSET Nat
    OBVIOUS
  <2>2. PICK k \in T : \A m \in T : k <= m
    BY <2>1, Least, Zenon
  <2>3. k # 0
    BY <1>2, <2>2
  <2>4. k \in 1 .. w /\ k - 1 \in 0 .. w /\ k - 1 \notin T
    BY <2>2, <2>3
  <2>5. \A x \in Nat : x < bound[k - 1] => Has(k - 1, x)
    BY <2>4
  <2>6. \A x \in Nat : x < bound[k] => Has(k, x)
    BY <1>3, <2>4, <2>5
  <2> QED
    BY <2>2, <2>6
<1>5. Has(w, v)
  <2>1. w \notin T /\ w \in 0 .. w
    BY <1>4
  <2> QED
    BY <2>1
<1> QED
  BY <1>5 DEF Has, HasWord


LEMMA PowerSum ==
    ASSUME NEW a \in Nat, NEW b \in Nat
    PROVE  Power(a + b) = Power(a) * Power(b)
<1> DEFINE Sum(n) == Power(a + n) = Power(a) * Power(n)
           T == {n \in Nat : ~Sum(n)}
<1>1. Sum(0)
  BY Powers
<1>2. ASSUME NEW n \in Nat, Sum(n) PROVE Sum(n + 1)
  <2>1. a + n \in Nat /\ a + (n + 1) = (a + n) + 1
    OBVIOUS
  <2>2. Power(a + (n + 1)) = 2 * Power(a + n) /\ Power(n + 1) = 2 * Power(n)
    BY <2>1, Powers
  <2>3. Power(a) \in Nat /\ Power(n) \in Nat /\ Power(a + n) = Power(a) * Power(n)
    BY <1>2, Powers
  <2> QED
    BY <2>2, <2>3
<1> HIDE DEF Sum
<1>3. T = {}
  <2> SUFFICES ASSUME T # {} PROVE FALSE
    OBVIOUS
  <2>1. T \in SUBSET Nat
    OBVIOUS
  <2>2. PICK n \in T : \A m \in T : n <= m
    BY <2>1, Least, Zenon
  <2>3. n # 0 /\ n - 1 \in Nat /\ n - 1 \notin T /\ (n - 1) + 1 = n
    BY <1>1, <2>2
  <2> QED
    BY <1>2, <2>2, <2>3
<1>4. Sum(b)
  BY <1>3
<1> QED
  BY <1>4 DEF Sum

\* val gives each word its number.
Numbers(val, base, w) ==
    \A s \in [1 .. w -> 0 .. base - 1] : \E f : IsValue(f, base, s, w) /\ val[s] = f[w]

\* The words whose number has the remainder x.
Leaving(val, base, w, m, x) == {s \in [1 .. w -> 0 .. base - 1] : val[s] % m = x}

\* Of the words whose bound is r times m, r give each remainder.
LEMMA EvenRemainders ==
    ASSUME NEW base \in Nat \ {0}, NEW w \in Nat, NEW bound, IsBound(bound, base, w),
           NEW m \in Nat \ {0}, NEW r \in Nat, bound[w] = m * r, NEW val, Numbers(val, base, w),
           NEW x \in 0 .. m - 1
    PROVE  Cardinality(Leaving(val, base, w, m, x)) = r
<1> DEFINE W == [1 .. w -> 0 .. base - 1]
           S == {s \in W : val[s] % m = x}
           Word(q) == CHOOSE s \in W : val[s] = m * (q - 1) + x
           g == [q \in 1 .. r |-> Word(q)]
<1>1. \A s \in W : val[s] \in Nat /\ val[s] < m * r
  <2> TAKE s \in W
  <2>1. PICK f : IsValue(f, base, s, w) /\ val[s] = f[w]
    BY DEF Numbers
  <2>2. \A i \in 1 .. w : s[i] \in 0 .. base - 1
    OBVIOUS
  <2>3. base \in Nat /\ w \in 0 .. w
    OBVIOUS
  <2>4. f[w] \in Nat /\ f[w] < bound[w]
    <3> HIDE DEF W
    <3> QED
      BY <2>1, <2>2, <2>3, ValueBelow
  <2> QED
    BY <2>1, <2>4
<1>2. ASSUME NEW s \in W, NEW t \in W, val[s] = val[t] PROVE s = t
  <2>1. PICK f : IsValue(f, base, s, w) /\ val[s] = f[w]
    BY DEF Numbers
  <2>2. PICK h : IsValue(h, base, t, w) /\ val[t] = h[w]
    BY DEF Numbers
  <2>3. \A i \in 1 .. w : s[i] \in 0 .. base - 1
    OBVIOUS
  <2>4. \A i \in 1 .. w : t[i] \in 0 .. base - 1
    OBVIOUS
  <2>5. base \in Nat /\ f[w] = h[w]
    BY <1>2, <2>1, <2>2
  <2>6. s = [i \in 1 .. w |-> s[i]] /\ t = [i \in 1 .. w |-> t[i]]
    OBVIOUS
  <2>7. \A i \in 1 .. w : s[i] = t[i]
    <3> HIDE DEF W
    <3> QED
      BY <2>1, <2>2, <2>3, <2>4, <2>5, ValueInjective
  <2> QED
    BY <2>6, <2>7
<1>3. ASSUME NEW v \in Nat, v < m * r PROVE \E s \in W : val[s] = v
  <2>4. v < bound[w]
    BY <1>3
  <2>6. HasWord(base, w, v)
    BY <2>4, ValueOnto
  <2>5. PICK s \in W : \E f : IsValue(f, base, s, w) /\ f[w] = v
    BY <2>6 DEF HasWord
  <2>1. PICK f : IsValue(f, base, s, w) /\ f[w] = v
    BY <2>5
  <2>2. PICK h : IsValue(h, base, s, w) /\ val[s] = h[w]
    BY DEF Numbers
  <2>3. f[w] = h[w]
    <3>1. \A i \in 1 .. w : s[i] \in Nat
      OBVIOUS
    <3> HIDE DEF W
    <3> QED
      BY <2>1, <2>2, <3>1, ValueUnique
  <2> QED
    BY <2>1, <2>2, <2>3
<1> HIDE DEF W
<1>4. ASSUME NEW q \in 1 .. r
      PROVE  /\ m * (q - 1) + x \in Nat /\ m * (q - 1) + x < m * r
             /\ (m * (q - 1) + x) % m = x
  <2> DEFINE p == q - 1
  <2>1. p \in Nat /\ p < r
    OBVIOUS
  <2> HIDE DEF p
  <2>2. m * p + x \in Nat /\ m * p + x < m * r
    BY <2>1, OneDigit
  <2>3. (m * p + x) % m = x
    <3> DEFINE v == m * p + x
               e == v % m
               b == v \div m
    <3>1. v \in Nat /\ v = m * p + x /\ m \in Nat
      BY <2>2
    <3>2. v = m * b + e /\ e \in 0 .. m - 1 /\ b \in Nat
      <4> HIDE DEF v
      <4> QED
        BY <3>1
    <3>3. m \in Nat /\ v = m * p + x /\ v = m * b + e /\ e \in 0 .. m - 1 /\ b \in Nat
      BY <3>1, <3>2
    <3> HIDE DEF v, e, b
    <3>4. x = e
      BY <2>1, <3>3, DigitUnique
    <3> QED
      BY <3>4 DEF e, v
  <2> QED
    BY <2>2, <2>3 DEF p
<1>5. \A q \in 1 .. r : Word(q) \in W /\ val[Word(q)] = m * (q - 1) + x
  BY <1>3, <1>4
<1> HIDE DEF Word
<1>6. g \in [1 .. r -> S]
  <2>1. \A q \in 1 .. r : Word(q) \in S
    BY <1>4, <1>5
  <2> HIDE DEF S
  <2> QED
    BY <2>1
<1>7. ASSUME NEW p \in 1 .. r, NEW q \in 1 .. r, g[p] = g[q] PROVE p = q
  <2>1. m * (p - 1) + x = m * (q - 1) + x
    BY <1>5, <1>7
  <2> DEFINE a == p - 1
             b == q - 1
             v == m * a + x
  <2>2. a \in Nat /\ b \in Nat /\ m \in Nat /\ v = m * a + x /\ v = m * b + x
    BY <2>1
  <2> HIDE DEF a, b, v
  <2>3. a = b
    BY <2>2, DigitUnique
  <2> QED
    BY <2>3 DEF a, b
<1>8. ASSUME NEW s \in S PROVE \E q \in 1 .. r : g[q] = s
  <2> DEFINE v == val[s]
             p == v \div m
  <2>1. s \in W /\ v \in Nat /\ v < m * r /\ v % m = x
    BY <1>1
  <2>2. p \in Nat /\ v = m * p + x
    <3> HIDE DEF v
    <3>1. v = m * (v \div m) + (v % m) /\ v \div m \in Nat
      BY <2>1
    <3> QED
      BY <2>1, <3>1
  <2>3. p < r
    <3>1. SUFFICES ASSUME r <= p PROVE FALSE
      BY <2>2
    <3> HIDE DEF p, v
    <3>2. PICK c \in Nat : p = r + c
      <4>1. p - r \in Nat /\ p = r + (p - r)
        BY <2>2, <3>1
      <4> QED
        BY <4>1
    <3>3. m * p = m * r + m * c /\ m * c \in Nat /\ m * r \in Nat
      BY <3>2
    <3> QED
      BY <2>1, <2>2, <3>3
  <2> HIDE DEF p, v
  <2>4. p + 1 \in 1 .. r /\ (p + 1) - 1 = p
    BY <2>2, <2>3
  <2>5. Word(p + 1) \in W /\ val[Word(p + 1)] = v
    BY <1>5, <2>2, <2>4
  <2>6. Word(p + 1) = s
    BY <1>2, <2>1, <2>5 DEF v
  <2> QED
    BY <2>4, <2>6
<1> HIDE DEF g, S
<1>9. ExistsBijection(1 .. r, S)
  <2>1. \A p, q \in 1 .. r : g[p] = g[q] => p = q
    BY <1>7
  <2>2. \A s \in S : \E q \in 1 .. r : g[q] = s
    BY <1>8
  <2>3. g \in Injection(1 .. r, S)
    BY <1>6, <2>1 DEF Injection, IsInjective
  <2>4. g \in Surjection(1 .. r, S)
    BY <1>6, <2>2 DEF Surjection
  <2> QED
    BY <2>3, <2>4 DEF ExistsBijection, Bijection
<1>10. Cardinality(S) = r
  BY <1>9, FS_CountingElements
<1> QED
  BY <1>10 DEF S, W, Leaving


-----------------------------------------------------------------------------
(* Sequences one behind the other                                          *)

Both(s, t) == s \o t

\* f[i] is the first i of the sequences ss, joined.
IsJoined(f, ss, w) ==
    f = [i \in 0 .. w |-> IF i = 0 THEN << >> ELSE Both(f[i - 1], ss[i])]

LEMMA JoinedThere ==
    ASSUME NEW ss, NEW w \in Nat
    PROVE  \E f : IsJoined(f, ss, w)
<1> DEFINE Has(k) == \E f : IsJoined(f, ss, k)
           T == {k \in Nat : ~Has(k)}
<1>1. Has(0)
  <2> DEFINE f == [i \in 0 .. 0 |-> << >>]
  <2>1. f = [i \in 0 .. 0 |-> IF i = 0 THEN << >> ELSE Both(f[i - 1], ss[i])]
    OBVIOUS
  <2> QED
    BY <2>1 DEF IsJoined
<1>2. ASSUME NEW k \in Nat, Has(k) PROVE Has(k + 1)
  <2>1. PICK f : IsJoined(f, ss, k)
    BY <1>2
  <2> DEFINE next == Both(f[k], ss[k + 1])
             g == [i \in 0 .. k + 1 |-> IF i = k + 1 THEN next ELSE f[i]]
  <2>2. \A i \in 0 .. k : g[i] = f[i]
    OBVIOUS
  <2>3. g[k + 1] = Both(g[k], ss[k + 1])
    OBVIOUS
  <2>4. ASSUME NEW i \in 0 .. k
        PROVE  f[i] = IF i = 0 THEN << >> ELSE Both(f[i - 1], ss[i])
    BY <2>1, <2>4 DEF IsJoined
  <2> HIDE DEF next
  <2>5. ASSUME NEW i \in 0 .. k + 1
        PROVE  g[i] = IF i = 0 THEN << >> ELSE Both(g[i - 1], ss[i])
    <3>1. CASE i = k + 1
      <4>1. i # 0 /\ i - 1 = k
        BY <3>1
      <4> HIDE DEF g
      <4> QED
        BY <2>3, <3>1, <4>1
    <3>2. CASE i \in 0 .. k /\ i # 0
      <4>1. i - 1 \in 0 .. k
        BY <3>2
      <4> HIDE DEF g
      <4>2. g[i] = f[i] /\ g[i - 1] = f[i - 1]
        BY <2>2, <3>2, <4>1
      <4> QED
        BY <2>4, <3>2, <4>2
    <3>3. CASE i = 0
      <4> HIDE DEF g
      <4> QED
        BY <2>2, <2>4, <3>3
    <3> QED
      BY <3>1, <3>2, <3>3
  <2>6. g = [i \in 0 .. k + 1 |-> g[i]]
    OBVIOUS
  <2> HIDE DEF g
  <2>7. g = [i \in 0 .. k + 1 |-> IF i = 0 THEN << >> ELSE Both(g[i - 1], ss[i])]
    BY <2>5, <2>6
  <2> QED
    BY <2>7 DEF IsJoined
<1> HIDE DEF Has
<1>3. T = {}
  <2> SUFFICES ASSUME T # {} PROVE FALSE
    OBVIOUS
  <2>1. PICK k \in T : \A m \in T : k <= m
    BY Least
  <2>2. k # 0 /\ k - 1 \in Nat /\ k - 1 \notin T /\ (k - 1) + 1 = k
    BY <1>1, <2>1
  <2> QED
    BY <1>2, <2>1, <2>2
<1> QED
  BY <1>3 DEF Has

Grows(f, ss, w, S) ==
    /\ f[0] = << >>
    /\ \A i \in 0 .. w : f[i] \in Seq(S) /\ Len(f[i]) \in Nat
    /\ \A i \in 1 .. w : /\ f[i] = Both(f[i - 1], ss[i]) /\ ss[i] \in Seq(S)
                         /\ Len(f[i]) = Len(f[i - 1]) + Len(ss[i])

LEMMA JoinedSteps ==
    ASSUME NEW S, NEW w \in Nat, NEW ss, NEW f, IsJoined(f, ss, w),
           \A i \in 1 .. w : ss[i] \in Seq(S)
    PROVE  Grows(f, ss, w, S)
<1>1. f[0] = << >>
  BY DEF IsJoined
<1>2. ASSUME NEW i \in 1 .. w PROVE f[i] = Both(f[i - 1], ss[i])
  BY DEF IsJoined
<1>3. \A i \in 0 .. w : f[i] \in Seq(S)
  <2> DEFINE T == {i \in 0 .. w : f[i] \notin Seq(S)}
  <2> SUFFICES ASSUME T # {} PROVE FALSE
    OBVIOUS
  <2>5. T \in SUBSET Nat
    OBVIOUS
  <2>1. PICK i \in T : \A m \in T : i <= m
    BY <2>5, Least, Zenon
  <2>6. f[0] \in Seq(S)
    BY <1>1
  <2>7. 0 \notin T
    BY <2>6
  <2> DEFINE Typed(k) == f[k] \in Seq(S)
  <2>8. \A k \in 0 .. w : k \notin T => Typed(k)
    OBVIOUS
  <2>9. T \subseteq 0 .. w
    OBVIOUS
  <2> HIDE DEF T, Typed
  <2>2. i # 0 /\ i \in 1 .. w /\ i - 1 \in 0 .. w /\ i - 1 \notin T
    BY <2>1, <2>7, <2>9
  <2>10. Typed(i - 1)
    BY <2>2, <2>8
  <2>3. f[i - 1] \in Seq(S) /\ ss[i] \in Seq(S)
    BY <2>2, <2>10 DEF Typed
  <2>4. Both(f[i - 1], ss[i]) \in Seq(S)
    BY <2>3 DEF Both
  <2>11. f[i] = Both(f[i - 1], ss[i])
    BY <1>2, <2>2
  <2>12. i \in T
    BY <2>1
  <2> QED
    BY <2>4, <2>11, <2>12 DEF T
<1>4. ASSUME NEW i \in 1 .. w PROVE Len(f[i]) = Len(f[i - 1]) + Len(ss[i])
  <2>1. f[i - 1] \in Seq(S) /\ ss[i] \in Seq(S)
    <3>1. i - 1 \in 0 .. w
      OBVIOUS
    <3> QED
      BY <1>3, <3>1
  <2>2. Len(Both(f[i - 1], ss[i])) = Len(f[i - 1]) + Len(ss[i])
    BY <2>1 DEF Both
  <2> QED
    BY <1>2, <2>2
<1>5. \A i \in 0 .. w : Len(f[i]) \in Nat
  BY <1>3
<1> QED
  BY <1>1, <1>2, <1>3, <1>4, <1>5 DEF Grows

\* t begins with s.
Starts(t, s) == Len(s) <= Len(t) /\ \A j \in 1 .. Len(s) : t[j] = s[j]

LEMMA JoinedStarts ==
    ASSUME NEW S, NEW w \in Nat, NEW ss, NEW f, IsJoined(f, ss, w),
           \A i \in 1 .. w : ss[i] \in Seq(S), NEW i \in 0 .. w
    PROVE  Starts(f[w], f[i])
<1>1. /\ \A k \in 0 .. w : f[k] \in Seq(S) /\ Len(f[k]) \in Nat
      /\ \A k \in 1 .. w : /\ f[k] = Both(f[k - 1], ss[k])
                           /\ Len(f[k]) = Len(f[k - 1]) + Len(ss[k])
                           /\ ss[k] \in Seq(S)
  <2>1. Grows(f, ss, w, S)
    BY JoinedSteps
  <2> QED
    BY <2>1 DEF Grows
<1> DEFINE T == {k \in 0 .. w : i <= k /\ ~Starts(f[k], f[i])}
<1>2. T = {}
  <2> SUFFICES ASSUME T # {} PROVE FALSE
    OBVIOUS
  <2>1. T \in SUBSET Nat
    OBVIOUS
  <2>2. PICK k \in T : \A m \in T : k <= m
    BY <2>1, Least, Zenon
  <2>3. Starts(f[i], f[i])
    BY <1>1 DEF Starts
  <2>4. k # i /\ k - 1 \in 0 .. w /\ k \in 1 .. w /\ i <= k - 1 /\ k - 1 \notin T
    BY <2>2, <2>3
  <2>5. Starts(f[k - 1], f[i])
    BY <2>4
  <2> DEFINE s == f[i]
             t == f[k - 1]
             u == f[k]
             v == ss[k]
  <2>6. s \in Seq(S) /\ t \in Seq(S) /\ v \in Seq(S) /\ u = t \o v /\ ~Starts(u, s) /\ Starts(t, s)
    BY <1>1, <2>2, <2>4, <2>5 DEF Both
  <2> HIDE DEF s, t, u, v
  <2>7. Len(t \o v) = Len(t) + Len(v) /\ \A j \in 1 .. Len(t) : (t \o v)[j] = t[j]
    BY <2>6
  <2>8. Starts(u, s)
    BY <2>6, <2>7 DEF Starts
  <2> QED
    BY <2>6, <2>8
<1> QED
  BY <1>2

\* The i-th sequence is behind the i - 1 before it.
IsBehind(f, ss, w, i) ==
    /\ Len(f[i - 1]) + Len(ss[i]) <= Len(f[w])
    /\ \A j \in 1 .. Len(ss[i]) : f[w][Len(f[i - 1]) + j] = ss[i][j]

LEMMA JoinedHolds ==
    ASSUME NEW S, NEW w \in Nat, NEW ss, NEW f, IsJoined(f, ss, w),
           \A i \in 1 .. w : ss[i] \in Seq(S), NEW i \in 1 .. w
    PROVE  IsBehind(f, ss, w, i)
<1>1. i - 1 \in 0 .. w /\ i \in 0 .. w
  OBVIOUS
<1>2. /\ f[i - 1] \in Seq(S) /\ Len(f[i - 1]) \in Nat /\ ss[i] \in Seq(S)
      /\ f[i] = Both(f[i - 1], ss[i]) /\ Len(f[i]) = Len(f[i - 1]) + Len(ss[i])
  <2>1. Grows(f, ss, w, S)
    BY JoinedSteps
  <2> QED
    BY <1>1, <2>1 DEF Grows
<1>3. Starts(f[w], f[i])
  BY <1>1, JoinedStarts
<1> DEFINE s == f[i - 1]
           t == ss[i]
           u == f[i]
           v == f[w]
<1> SUFFICES Len(s) + Len(t) <= Len(v) /\ \A j \in 1 .. Len(t) : v[Len(s) + j] = t[j]
  BY DEF IsBehind
<1>4. s \in Seq(S) /\ t \in Seq(S) /\ u = s \o t /\ Starts(v, u)
  BY <1>2, <1>3 DEF Both
<1> HIDE DEF s, t, u, v
<1>5. /\ Len(s) \in Nat /\ Len(t) \in Nat /\ Len(u) = Len(s) + Len(t)
      /\ \A j \in 1 .. Len(t) : u[Len(s) + j] = t[j]
  BY <1>4
<1>6. ASSUME NEW j \in 1 .. Len(t) PROVE v[Len(s) + j] = t[j]
  <2>1. Len(s) + j \in 1 .. Len(u)
    BY <1>5
  <2> QED
    BY <1>4, <1>5, <2>1 DEF Starts
<1> QED
  BY <1>4, <1>5, <1>6 DEF Starts

-----------------------------------------------------------------------------
(* Powers of ten                                                           *)

\* f[i] is a one with i zeros.
IsTens(f, n) == f = [k \in 0 .. n |-> IF k = 0 THEN 1 ELSE 10 * f[k - 1]]

\* It is there, because the numbers by digits are.
LEMMA TensThere ==
    ASSUME NEW n \in Nat
    PROVE  \E f : IsTens(f, n)
<1> DEFINE s == [i \in 1 .. n + 1 |-> IF i = 1 THEN 1 ELSE 0]
<1>1. PICK v : IsValue(v, 10, s, n + 1)
  <2>1. n + 1 \in Nat
    OBVIOUS
  <2> HIDE DEF s
  <2> QED
    BY <2>1, ValueThere
<1>2. \A i \in 1 .. n + 1 : s[i] \in Nat
  OBVIOUS
<1>3. /\ v[0] = 0
      /\ \A i \in 0 .. n + 1 : v[i] \in Nat
      /\ \A i \in 1 .. n + 1 : v[i] = 10 * v[i - 1] + s[i]
  <2> HIDE DEF s
  <2> QED
    BY <1>1, <1>2, ValueSteps
<1> DEFINE f == [k \in 0 .. n |-> v[k + 1]]
<1>4. ASSUME NEW k \in 0 .. n PROVE f[k] = IF k = 0 THEN 1 ELSE 10 * f[k - 1]
  <2>1. k + 1 \in 1 .. n + 1 /\ (k + 1) - 1 = k /\ k \in 0 .. n + 1
    OBVIOUS
  <2>2. f[k] = v[k + 1] /\ v[k + 1] = 10 * v[k] + s[k + 1] /\ v[k] \in Nat
    <3> HIDE DEF s
    <3> QED
      BY <1>3, <2>1
  <2>3. CASE k = 0
    <3>1. s[k + 1] = 1 /\ v[k] = 0
      BY <1>3, <2>3
    <3> QED
      BY <2>2, <2>3, <3>1
  <2>4. CASE k # 0
    <3>1. s[k + 1] = 0 /\ k - 1 \in 0 .. n /\ (k - 1) + 1 = k
      BY <2>4
    <3>2. f[k - 1] = v[k]
      BY <3>1
    <3> HIDE DEF s, f
    <3> QED
      BY <2>2, <2>4, <3>1, <3>2
  <2> QED
    BY <2>3, <2>4
<1>5. f = [k \in 0 .. n |-> f[k]]
  OBVIOUS
<1> HIDE DEF f
<1>6. f = [k \in 0 .. n |-> IF k = 0 THEN 1 ELSE 10 * f[k - 1]]
  BY <1>4, <1>5
<1> QED
  BY <1>6 DEF IsTens

\* Each is ten times the one before, and more than it has zeros.
LEMMA TensSteps ==
    ASSUME NEW n \in Nat, NEW f, IsTens(f, n)
    PROVE  /\ f[0] = 1
           /\ \A k \in 1 .. n : f[k] = 10 * f[k - 1]
           /\ \A k \in 0 .. n : f[k] \in Nat /\ f[k] > k
<1>1. f[0] = 1
  BY DEF IsTens
<1>2. ASSUME NEW k \in 1 .. n PROVE f[k] = 10 * f[k - 1]
  BY DEF IsTens
<1> DEFINE T == {k \in 0 .. n : ~(f[k] \in Nat /\ f[k] > k)}
<1>3. T = {}
  <2> SUFFICES ASSUME T # {} PROVE FALSE
    OBVIOUS
  <2>1. T \in SUBSET Nat
    OBVIOUS
  <2>2. PICK k \in T : \A m \in T : k <= m
    BY <2>1, Least, Zenon
  <2>3. k # 0
    BY <1>1, <2>2
  <2>4. k \in 1 .. n /\ k - 1 \in 0 .. n /\ ~(k <= k - 1)
    BY <2>2, <2>3
  <2>5. f[k - 1] \in Nat /\ f[k - 1] > k - 1
    BY <2>2, <2>4
  <2>6. f[k] = 10 * f[k - 1]
    BY <1>2, <2>4
  <2>7. f[k] \in Nat /\ f[k] > k
    BY <2>4, <2>5, <2>6
  <2> QED
    BY <2>2, <2>7
<1> QED
  BY <1>1, <1>2, <1>3

\* Counting further does not change the first ones.
LEMMA TensSame ==
    ASSUME NEW m \in Nat, NEW n \in Nat, m <= n, NEW f, NEW g, IsTens(f, m), IsTens(g, n)
    PROVE  f[m] = g[m]
<1> DEFINE T == {k \in 0 .. m : f[k] # g[k]}
<1>1. T = {}
  <2> SUFFICES ASSUME T # {} PROVE FALSE
    OBVIOUS
  <2>1. T \in SUBSET Nat
    OBVIOUS
  <2>2. PICK k \in T : \A j \in T : k <= j
    BY <2>1, Least, Zenon
  <2>3. f[0] = g[0]
    BY TensSteps
  <2>4. k \in 1 .. m /\ k \in 1 .. n /\ k - 1 \in 0 .. m /\ ~(k <= k - 1)
    BY <2>2, <2>3
  <2>5. f[k - 1] = g[k - 1]
    BY <2>2, <2>4
  <2>6. f[k] = 10 * f[k - 1] /\ g[k] = 10 * g[k - 1]
    BY <2>4, TensSteps
  <2> QED
    BY <2>2, <2>5, <2>6
<1> QED
  BY <1>1

================================================================================
