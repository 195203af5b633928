--------------------------- MODULE HashmapDictProofs ---------------------------
(***************************************************************************)
(* What a dictionary's writer writes, a contract reads, for every size of  *)
(* keys and every set of items; and every label has its canonical form.    *)
(***************************************************************************)
EXTENDS HashmapDict, DataLemmas

-----------------------------------------------------------------------------
(* Numbers and their bits                                                  *)

LEMMA UintIsWord ==
    ASSUME NEW n \in Nat, NEW w \in Nat
    PROVE  /\ Uint(n, w) \in Words(w) /\ Uint(n, w) \in Seq(Bits) /\ Len(Uint(n, w)) = w
           /\ \A i \in 1 .. w : Uint(n, w)[i] = (n \div Power(w - i)) % 2
<1>1. \A i \in 1 .. w : (n \div Power(w - i)) % 2 \in Bits
  <2> TAKE i \in 1 .. w
  <2>1. w - i \in Nat
    OBVIOUS
  <2>2. Power(w - i) \in Nat \ {0}
    BY <2>1, Powers
  <2>3. n \div Power(w - i) \in Nat
    BY <2>2
  <2> QED
    BY <2>3 DEF Bits
<1>2. Uint(n, w) = [i \in 1 .. w |-> (n \div Power(w - i)) % 2]
  BY DEF Uint, Power
<1>3. Uint(n, w) \in [1 .. w -> Bits]
  BY <1>1, <1>2
<1>4. \A s \in [1 .. w -> Bits] : s \in Seq(Bits) /\ Len(s) = w
  OBVIOUS
<1> QED
  BY <1>2, <1>3, <1>4 DEF Words

\* A number that fits is known by its bits.
LEMMA UintInjective ==
    ASSUME NEW w \in Nat, NEW m \in Nat, NEW n \in Nat, m < Power(w), n < Power(w),
           Uint(m, w) = Uint(n, w)
    PROVE  m = n
<1> DEFINE Same(j) == m \div Power(w - j) = n \div Power(w - j)
           T == {j \in 0 .. w : ~Same(j)}
<1>1. Same(0)
  <2>1. Power(w) \in Nat \ {0}
    BY Powers
  <2>2. m \div Power(w) = 0 /\ n \div Power(w) = 0
    BY <2>1, Quotient
  <2> QED
    BY <2>2
<1>2. ASSUME NEW j \in 0 .. w, j # 0, Same(j - 1) PROVE Same(j)
  <2> DEFINE p == Power(w - j)
  <2>1. w - j \in Nat /\ w - (j - 1) = (w - j) + 1
    BY <1>2
  <2>2. p \in Nat \ {0} /\ Power(w - (j - 1)) = 2 * p
    BY <2>1, Powers
  <2>3. (m \div p) % 2 = (n \div p) % 2
    <3>1. j \in 1 .. w
      BY <1>2
    <3>2. Uint(m, w)[j] = (m \div p) % 2 /\ Uint(n, w)[j] = (n \div p) % 2
      BY <3>1, UintIsWord
    <3> QED
      BY <3>2
  <2>4. m \div (2 * p) = n \div (2 * p)
    BY <1>2, <2>2
  <2> HIDE DEF p
  <2>5. /\ m \div p = 2 * (m \div (2 * p)) + ((m \div p) % 2)
        /\ n \div p = 2 * (n \div (2 * p)) + ((n \div p) % 2)
    BY <2>2, Halves
  <2>6. m \div p = n \div p
    BY <2>3, <2>4, <2>5, Zenon
  <2> QED
    BY <2>6 DEF p
<1>3. T = {}
  <2> SUFFICES ASSUME T # {} PROVE FALSE
    OBVIOUS
  <2> HIDE DEF Same
  <2>1. T \in SUBSET Nat
    OBVIOUS
  <2>2. PICK j \in T : \A i \in T : j <= i
    BY <2>1, Least
  <2>3. j # 0 /\ j - 1 \in 0 .. w /\ j - 1 \notin T
    BY <1>1, <2>2
  <2> QED
    BY <1>2, <2>2, <2>3
<1>4. Same(w)
  <2> HIDE DEF Same
  <2> QED
    BY <1>3
<1>5. m \div 1 = n \div 1
  <2>1. w - w = 0
    OBVIOUS
  <2> QED
    BY <1>4, <2>1, Powers
<1> QED
  BY <1>5

-----------------------------------------------------------------------------
(* Words and what they share                                               *)

LEMMA WordIsSeq ==
    ASSUME NEW n \in Nat, NEW a \in Words(n)
    PROVE  /\ a \in Seq(Bits) /\ Len(a) = n /\ DOMAIN a = 1 .. n
           /\ \A i \in 1 .. n : a[i] \in {0, 1}
BY DEF Words, Bits

\* Some word comes first: of those that are least in their first bits, one is
\* least in one bit more.
LEMMA FirstExists ==
    ASSUME NEW n \in Nat, NEW W \in SUBSET Words(n), W # {}
    PROVE  \E a \in W : \A b \in W : ~Less(b, a)
<1> DEFINE Agree(a, b, k) == \A j \in 1 .. k - 1 : b[j] = a[j]
           Low(a, i) == \A b \in W : \A k \in 1 .. i : ~(b[k] < a[k] /\ Agree(a, b, k))
           T == {i \in 0 .. n : ~\E a \in W : Low(a, i)}
<1>1. \A w \in W : \A i \in 1 .. n : w[i] \in {0, 1}
  BY WordIsSeq
<1>2. \E a \in W : Low(a, 0)
  OBVIOUS
<1>3. ASSUME NEW i \in 1 .. n, NEW a \in W, Low(a, i - 1) PROVE \E c \in W : Low(c, i)
  <2>1. CASE \E c \in W : c[i] = 0 /\ Agree(a, c, i)
    <3>1. PICK c \in W : c[i] = 0 /\ Agree(a, c, i)
      BY <2>1
    <3> SUFFICES ASSUME NEW b \in W, NEW k \in 1 .. i, b[k] < c[k], Agree(c, b, k) PROVE FALSE
      BY <3>1
    <3>2. k # i
      BY <1>1, <3>1
    <3>3. k \in 1 .. i - 1 /\ c[k] = a[k]
      BY <3>1, <3>2
    <3>4. Agree(a, b, k)
      BY <3>1, <3>3
    <3> QED
      BY <1>3, <3>3, <3>4
  <2>2. CASE \A c \in W : ~(c[i] = 0 /\ Agree(a, c, i))
    <3> SUFFICES ASSUME NEW b \in W, NEW k \in 1 .. i, b[k] < a[k], Agree(a, b, k) PROVE FALSE
      OBVIOUS
    <3>1. k = i
      BY <1>3
    <3>2. b[i] = 0
      BY <1>1, <3>1
    <3> QED
      BY <2>2, <3>1, <3>2
  <2> QED
    BY <2>1, <2>2
<1> HIDE DEF Low
<1>4. T = {}
  <2> SUFFICES ASSUME T # {} PROVE FALSE
    OBVIOUS
  <2>1. T \in SUBSET Nat
    OBVIOUS
  <2>2. PICK i \in T : \A j \in T : i <= j
    BY <2>1, Least
  <2>3. i \in 1 .. n /\ i - 1 \in 0 .. n /\ i - 1 \notin T
    BY <1>2, <2>2
  <2> QED
    BY <1>3, <2>2, <2>3
<1>5. PICK a \in W : Low(a, n)
  BY <1>4
<1>6. \A b \in W : ~Less(b, a)
  <2>1. ASSUME NEW b \in W PROVE DOMAIN b = 1 .. n
    BY WordIsSeq
  <2> QED
    BY <1>5, <2>1 DEF Less, Low
<1> QED
  BY <1>6

\* With every bit turned round, the last word is the first.
LEMMA LastExists ==
    ASSUME NEW n \in Nat, NEW W \in SUBSET Words(n), W # {}
    PROVE  \E a \in W : \A b \in W : ~Less(a, b)
<1> DEFINE Turned(a) == [i \in 1 .. n |-> 1 - a[i]]
           V == {Turned(a) : a \in W}
<1>1. \A a \in W : DOMAIN a = 1 .. n /\ \A i \in 1 .. n : a[i] \in {0, 1}
  BY WordIsSeq
<1>2. V \in SUBSET Words(n) /\ V # {}
  <2>1. ASSUME NEW a \in W PROVE Turned(a) \in Words(n)
    <3>1. \A i \in 1 .. n : 1 - a[i] \in Bits
      BY <1>1 DEF Bits
    <3> QED
      BY <3>1 DEF Words
  <2> QED
    BY <2>1
<1>3. PICK v \in V : \A u \in V : ~Less(u, v)
  BY <1>2, FirstExists
<1>4. PICK a \in W : v = Turned(a)
  OBVIOUS
<1>5. ASSUME NEW b \in W, Less(a, b) PROVE FALSE
  <2>1. PICK i \in 1 .. n : a[i] < b[i] /\ \A j \in 1 .. i - 1 : a[j] = b[j]
    BY <1>1, <1>5 DEF Less
  <2>2. Turned(b)[i] < Turned(a)[i]
    BY <1>1, <2>1
  <2>3. \A j \in 1 .. i - 1 : Turned(b)[j] = Turned(a)[j]
    BY <1>1, <2>1
  <2>4. Less(Turned(b), Turned(a))
    BY <2>2, <2>3 DEF Less
  <2> QED
    BY <1>3, <1>4, <2>4
<1> QED
  BY <1>5

LEMMA SharedAgree ==
    ASSUME NEW n \in Nat, NEW a \in Words(n), NEW b \in Words(n)
    PROVE  /\ Shared(a, b) \in 0 .. n
           /\ \A i \in 1 .. Shared(a, b) : a[i] = b[i]
           /\ Shared(a, b) = n \/ a[Shared(a, b) + 1] # b[Shared(a, b) + 1]
<1> DEFINE T == {k \in 0 .. n : k = n \/ a[k + 1] # b[k + 1]}
<1>1. Len(a) = n
  BY WordIsSeq
<1>2. T \in SUBSET Nat /\ n \in T
  OBVIOUS
<1>3. PICK k \in T : \A j \in T : k <= j
  BY <1>2, Least
<1>4. \A i \in 1 .. k : a[i] = b[i]
  <2> TAKE i \in 1 .. k
  <2>1. i - 1 \in 0 .. n /\ i - 1 \notin T /\ (i - 1) + 1 = i
    BY <1>3
  <2> QED
    BY <2>1
<1>5. \E m \in 0 .. Len(a) : /\ \A i \in 1 .. m : a[i] = b[i]
                             /\ m = Len(a) \/ a[m + 1] # b[m + 1]
  BY <1>1, <1>3, <1>4
<1> QED
  BY <1>1, <1>5 DEF Shared

\* A word that is not before the first nor behind the last has the bits that
\* those two share.
LEMMA Between ==
    ASSUME NEW n \in Nat, NEW a \in Words(n), NEW b \in Words(n), NEW w \in Words(n),
           ~Less(w, a), ~Less(b, w), NEW s \in 0 .. n, \A i \in 1 .. s : a[i] = b[i]
    PROVE  \A i \in 1 .. s : w[i] = a[i]
<1> DEFINE T == {i \in 1 .. s : w[i] # a[i]}
<1> SUFFICES ASSUME T # {} PROVE FALSE
  OBVIOUS
<1>1. T \in SUBSET Nat
  OBVIOUS
<1>2. PICK i \in T : \A j \in T : i <= j
  BY <1>1, Least
<1>3. i \in 1 .. n /\ \A j \in 1 .. i - 1 : w[j] = a[j] /\ a[j] = b[j]
  BY <1>2
<1>4. DOMAIN w = 1 .. n /\ DOMAIN b = 1 .. n /\ w[i] \in {0, 1} /\ a[i] \in {0, 1} /\ a[i] = b[i]
  BY <1>2, <1>3, WordIsSeq
<1>5. CASE w[i] < a[i]
  BY <1>3, <1>4, <1>5 DEF Less
<1>6. CASE b[i] < w[i]
  BY <1>3, <1>4, <1>6 DEF Less
<1> QED
  BY <1>2, <1>4, <1>5, <1>6

(* What find_common_prefix returns is a prefix of every word it was given,  *)
(* and a longer one is not: either there is one word only, or the words go  *)
(* on with both bits.                                                       *)
LEMMA CommonPrefixIs ==
    ASSUME NEW n \in Nat, NEW W \in SUBSET Words(n), W # {}
    PROVE  LET label == find_common_prefix(W)
               s == Len(label)
           IN  /\ s \in 0 .. n /\ label \in Words(s) /\ label \in Seq(Bits)
               /\ \A w \in W : \A i \in 1 .. s : w[i] = label[i]
               /\ s < n => \A bit \in Bits : \E w \in W : w[s + 1] = bit
               /\ s = n => W = {label}
<1> DEFINE a == SortedFirst(W)
           b == SortedLast(W)
           s == Shared(a, b)
           label == SubSeq(a, 1, s)
<1>1. a \in W /\ \A w \in W : ~Less(w, a)
  BY FirstExists DEF SortedFirst
<1>2. b \in W /\ \A w \in W : ~Less(b, w)
  BY LastExists DEF SortedLast
<1>3. a \in Words(n) /\ b \in Words(n)
  BY <1>1, <1>2
<1>4. s \in 0 .. n /\ (\A i \in 1 .. s : a[i] = b[i]) /\ (s = n \/ a[s + 1] # b[s + 1])
  BY <1>3, SharedAgree
<1>5. find_common_prefix(W) = label
  BY DEF find_common_prefix
<1> HIDE DEF a, b, s
<1>6. label \in Seq(Bits) /\ Len(label) = s /\ label \in Words(s)
      /\ \A i \in 1 .. s : label[i] = a[i]
  <2>1. \A i \in 1 .. s : a[i] \in Bits
    BY <1>3, <1>4 DEF Words
  <2>2. label \in Seq(Bits) /\ Len(label) = s /\ \A i \in 1 .. s : label[i] = a[i]
    BY <1>4, <2>1, SubSeqProperties
  <2> HIDE DEF label
  <2> QED
    BY <2>2 DEF Words
<1>7. \A w \in W : \A i \in 1 .. s : w[i] = label[i]
  BY <1>1, <1>2, <1>3, <1>4, <1>6, Between
<1>8. ASSUME s < n PROVE \A bit \in Bits : \E w \in W : w[s + 1] = bit
  <2>1. a[s + 1] \in {0, 1} /\ b[s + 1] \in {0, 1} /\ a[s + 1] # b[s + 1]
    BY <1>3, <1>4, <1>8, WordIsSeq
  <2> QED
    BY <1>1, <1>2, <2>1 DEF Bits
<1>9. ASSUME s = n PROVE W = {label}
  <2>1. ASSUME NEW w \in W PROVE w = label
    <3>1. w \in Words(n) /\ label \in Words(n)
      BY <1>6, <1>9
    <3> HIDE DEF label
    <3> QED
      BY <1>7, <1>9, <3>1 DEF Words
  <2> QED
    BY <2>1
<1> HIDE DEF label
<1> QED
  BY <1>4, <1>5, <1>6, <1>7, <1>8, <1>9

-----------------------------------------------------------------------------
(* Labels                                                                  *)

\* The length field is as short as it can be.
LEMMA LengthBitsIs ==
    ASSUME NEW n \in Nat
    PROVE  /\ LengthBits(n) \in 0 .. n
           /\ Power(LengthBits(n)) >= n + 1
           /\ \A m \in 0 .. LengthBits(n) - 1 : Power(m) < n + 1
<1> DEFINE T == {l \in 0 .. n : Power(l) >= n + 1}
<1>1. T \in SUBSET Nat /\ n \in T
  BY Powers
<1>2. PICK l \in T : \A m \in T : l <= m
  BY <1>1, Least
<1>3. ASSUME NEW m \in 0 .. l - 1 PROVE Power(m) < n + 1
  <2>1. m \in 0 .. n /\ m \notin T
    BY <1>2
  <2>2. Power(m) \in Nat
    BY <2>1, Powers
  <2> QED
    BY <2>1, <2>2
<1>4. LengthBits(n) = CHOOSE k \in 0 .. n : Power(k) >= n + 1 /\ \A m \in 0 .. k - 1 : Power(m) < n + 1
  BY DEF LengthBits, Power
<1> QED
  BY <1>2, <1>3, <1>4

\* The reader of a length field finds the length that was written.
LEMMA LengthIsRead ==
    ASSUME NEW n \in Nat, NEW k \in 0 .. n
    PROVE  (CHOOSE x \in 0 .. n : Uint(x, LengthBits(n)) = Uint(k, LengthBits(n))) = k
<1> DEFINE w == LengthBits(n)
<1>1. w \in Nat /\ Power(w) >= n + 1 /\ Power(w) \in Nat
  <2>1. w \in Nat /\ Power(w) >= n + 1
    BY LengthBitsIs
  <2> HIDE DEF w
  <2> QED
    BY <2>1, Powers
<1>2. \A x \in 0 .. n : x < Power(w) /\ x \in Nat
  BY <1>1
<1> HIDE DEF w
<1>3. \A x \in 0 .. n : Uint(x, w) = Uint(k, w) => x = k
  BY <1>1, <1>2, UintInjective
<1>4. (CHOOSE x \in 0 .. n : Uint(x, w) = Uint(k, w)) = k
  BY <1>3
<1> QED
  BY <1>4 DEF w

\* What v is made of, by a name for the provers.
Joins(s, t, v) ==
    /\ v \in Seq(Bits) /\ Len(v) = Len(s) + Len(t)
    /\ \A i \in 1 .. Len(s) : v[i] = s[i]
    /\ \A i \in 1 .. Len(t) : v[Len(s) + i] = t[i]

LEMMA Pair ==
    ASSUME NEW s \in Seq(Bits), NEW t \in Seq(Bits)
    PROVE  Joins(s, t, s \o t)
BY DEF Joins

LEMMA Associative ==
    ASSUME NEW s \in Seq(Bits), NEW t \in Seq(Bits), NEW u \in Seq(Bits)
    PROVE  (s \o t) \o u = s \o (t \o u)
BY ConcatAssociative

\* A list in the middle of others.
Parts(s, t, u, v) ==
    /\ s \o t \in Seq(Bits) /\ \A i \in 1 .. Len(s) : (s \o t)[i] = s[i]
    /\ v \in Seq(Bits) /\ Len(v) = Len(s) + Len(t) + Len(u)
    /\ \A i \in 1 .. Len(s) : v[i] = s[i]
    /\ SubSeq(v, Len(s) + 1, Len(s) + Len(t)) = t
    /\ SubSeq(v, Len(s) + Len(t) + 1, Len(s) + Len(t) + Len(u)) = u

LEMMA Middle ==
    ASSUME NEW s \in Seq(Bits), NEW t \in Seq(Bits), NEW u \in Seq(Bits)
    PROVE  Parts(s, t, u, (s \o t) \o u)
<1> DEFINE v == (s \o t) \o u
<1>1. /\ v \in Seq(Bits) /\ Len(v) = Len(s) + Len(t) + Len(u)
      /\ \A i \in 1 .. Len(s) : v[i] = s[i]
      /\ \A i \in 1 .. Len(t) : v[Len(s) + i] = t[i]
      /\ \A i \in 1 .. Len(u) : v[Len(s) + Len(t) + i] = u[i]
  OBVIOUS
<1>2. Len(s) \in Nat /\ Len(t) \in Nat /\ Len(u) \in Nat
  OBVIOUS
<1>0. s \o t \in Seq(Bits) /\ \A i \in 1 .. Len(s) : (s \o t)[i] = s[i]
  OBVIOUS
<1> HIDE DEF v
<1>3. SubSeq(v, Len(s) + 1, Len(s) + Len(t)) = t
  <2> DEFINE m == SubSeq(v, Len(s) + 1, Len(s) + Len(t))
  <2>1. \A i \in Len(s) + 1 .. Len(s) + Len(t) : v[i] \in Bits
    BY <1>1, <1>2
  <2>2. m \in Seq(Bits) /\ Len(m) = Len(t) /\ \A i \in 1 .. Len(t) : m[i] = v[Len(s) + 1 + i - 1]
    BY <1>2, <2>1, SubSeqProperties
  <2>3. \A i \in 1 .. Len(t) : m[i] = t[i]
    <3> TAKE i \in 1 .. Len(t)
    <3>1. Len(s) + 1 + i - 1 = Len(s) + i
      BY <1>2
    <3> QED
      BY <1>1, <2>2, <3>1
  <2> HIDE DEF m
  <2>4. m = t
    BY <2>2, <2>3, SeqEqual
  <2> QED
    BY <2>4 DEF m
<1>4. SubSeq(v, Len(s) + Len(t) + 1, Len(s) + Len(t) + Len(u)) = u
  <2> DEFINE m == SubSeq(v, Len(s) + Len(t) + 1, Len(s) + Len(t) + Len(u))
  <2>1. \A i \in Len(s) + Len(t) + 1 .. Len(s) + Len(t) + Len(u) : v[i] \in Bits
    BY <1>1, <1>2
  <2>2. /\ m \in Seq(Bits) /\ Len(m) = Len(u)
        /\ \A i \in 1 .. Len(u) : m[i] = v[Len(s) + Len(t) + 1 + i - 1]
    BY <1>2, <2>1, SubSeqProperties
  <2>3. \A i \in 1 .. Len(u) : m[i] = u[i]
    <3> TAKE i \in 1 .. Len(u)
    <3>1. Len(s) + Len(t) + 1 + i - 1 = Len(s) + Len(t) + i
      BY <1>2
    <3> QED
      BY <1>1, <2>2, <3>1
  <2> HIDE DEF m
  <2>4. m = u
    BY <2>2, <2>3, SeqEqual
  <2> QED
    BY <2>4 DEF m
<1> QED
  BY <1>0, <1>1, <1>3, <1>4 DEF v, Parts

LEMMA ShortIsRead ==
    ASSUME NEW n \in Nat, NEW label \in Seq(Bits), Len(label) <= n, NEW rest \in Seq(Bits)
    PROVE  LET unary == [i \in DOMAIN label |-> 1]
               written == <<0>> \o unary \o <<0>> \o label
           IN  /\ written \in Seq(Bits) /\ written[1] = 0
               /\ ReadLabel(written \o rest, n) = [label |-> label, rest |-> rest]
<1> DEFINE L == Len(label)
           unary == [i \in DOMAIN label |-> 1]
           head == <<0>> \o unary \o <<0>>
           bits == (head \o label) \o rest
<1>1. L \in 0 .. n /\ unary \in Seq(Bits) /\ Len(unary) = L /\ \A i \in 1 .. L : unary[i] = 1
  BY DEF Bits
<1>2. /\ head \in Seq(Bits) /\ Len(head) = L + 2
      /\ head[1] = 0 /\ head[L + 2] = 0 /\ \A i \in 1 .. L : head[i + 1] = 1
  <2> HIDE DEF unary, L
  <2>1. <<0>> \in Seq(Bits) /\ Len(<<0>>) = 1 /\ <<0>>[1] = 0
    BY DEF Bits
  <2>2. /\ <<0>> \o unary \in Seq(Bits) /\ Len(<<0>> \o unary) = L + 1
        /\ (<<0>> \o unary)[1] = 0 /\ \A i \in 1 .. L : (<<0>> \o unary)[i + 1] = 1
    BY <1>1, <2>1
  <2> DEFINE a == <<0>> \o unary
  <2> HIDE DEF a
  <2>3. /\ a \o <<0>> \in Seq(Bits) /\ Len(a \o <<0>>) = L + 2
        /\ \A i \in 1 .. L + 1 : (a \o <<0>>)[i] = a[i]
        /\ (a \o <<0>>)[L + 2] = 0
    BY <1>1, <2>1, <2>2 DEF a
  <2>4. a[1] = 0 /\ \A i \in 1 .. L : a[i + 1] = 1
    BY <2>2 DEF a
  <2>5. (a \o <<0>>)[1] = 0 /\ \A i \in 1 .. L : (a \o <<0>>)[i + 1] = 1
    BY <1>1, <2>3, <2>4
  <2> QED
    BY <2>3, <2>5 DEF a
<1> HIDE DEF head, unary
<1>3. Parts(head, label, rest, bits)
  BY <1>2, Middle
<1> HIDE DEF bits
<1>4. /\ bits[1] = 0 /\ bits[L + 2] = 0 /\ (head \o label)[1] = 0
      /\ \A i \in 1 .. L : bits[i + 1] = 1
  <2>1. 1 \in 1 .. Len(head) /\ L + 2 \in 1 .. Len(head)
        /\ \A i \in 1 .. L : i + 1 \in 1 .. Len(head)
    BY <1>1, <1>2
  <2>2. /\ \A i \in 1 .. Len(head) : bits[i] = head[i]
        /\ (head \o label)[1] = head[1]
    BY <1>3, <2>1 DEF Parts
  <2> QED
    BY <1>2, <2>1, <2>2
<1>5. (CHOOSE k \in 0 .. n : bits[k + 2] = 0 /\ \A i \in 1 .. k : bits[i + 1] = 1) = L
  <2>1. ASSUME NEW k \in 0 .. n, bits[k + 2] = 0, \A i \in 1 .. k : bits[i + 1] = 1
        PROVE  k = L
    <3>1. ~(k < L)
      <4> SUFFICES ASSUME k < L PROVE FALSE
        OBVIOUS
      <4>1. k + 1 \in 1 .. L /\ (k + 1) + 1 = k + 2
        BY <1>1
      <4> QED
        BY <1>4, <2>1, <4>1
    <3>2. ~(L < k)
      <4> SUFFICES ASSUME L < k PROVE FALSE
        OBVIOUS
      <4>1. L + 1 \in 1 .. k /\ (L + 1) + 1 = L + 2
        BY <1>1
      <4>2. bits[(L + 1) + 1] = 1
        BY <2>1, <4>1
      <4> QED
        BY <1>4, <4>1, <4>2
    <3> QED
      BY <1>1, <3>1, <3>2
  <2> QED
    BY <1>1, <1>4, <2>1
<1>6. ReadLabel(bits, n) = [label |-> SubSeq(bits, L + 3, 2 * L + 2),
                            rest |-> SubSeq(bits, 2 * L + 3, Len(bits))]
  BY <1>4, <1>5 DEF ReadLabel
<1>7. /\ L + 3 = Len(head) + 1 /\ 2 * L + 2 = Len(head) + Len(label)
      /\ 2 * L + 3 = Len(head) + Len(label) + 1
  BY <1>1, <1>2
<1>8. ReadLabel(bits, n) = [label |-> label, rest |-> rest]
  BY <1>3, <1>6, <1>7 DEF Parts
<1> QED
  BY <1>3, <1>4, <1>8 DEF bits, head, unary, Parts

LEMMA LongIsRead ==
    ASSUME NEW n \in Nat, NEW label \in Seq(Bits), Len(label) <= n, NEW rest \in Seq(Bits)
    PROVE  LET length == Uint(Len(label), LengthBits(n))
               written == <<1, 0>> \o length \o label
           IN  /\ written \in Seq(Bits) /\ written[1] = 1 /\ written[2] = 0
               /\ ReadLabel(written \o rest, n) = [label |-> label, rest |-> rest]
<1> DEFINE L == Len(label)
           w == LengthBits(n)
           length == Uint(L, w)
           head == <<1, 0>> \o length
           bits == (head \o label) \o rest
<1>1. L \in 0 .. n /\ w \in Nat
  BY LengthBitsIs
<1>2. length \in Seq(Bits) /\ Len(length) = w
  BY <1>1, UintIsWord
<1>3. (CHOOSE x \in 0 .. n : Uint(x, w) = length) = L
  BY <1>1, LengthIsRead
<1> HIDE DEF length, w, L
<1>4. /\ head \in Seq(Bits) /\ Len(head) = w + 2 /\ head[1] = 1 /\ head[2] = 0
      /\ SubSeq(head, 3, w + 2) = length
  <2>1. <<1, 0>> \in Seq(Bits) /\ Len(<<1, 0>>) = 2 /\ <<1, 0>>[1] = 1 /\ <<1, 0>>[2] = 0
        /\ << >> \in Seq(Bits) /\ Len(<< >>) = 0
    BY DEF Bits
  <2>2. head \in Seq(Bits) /\ Len(head) = w + 2 /\ head[1] = 1 /\ head[2] = 0
    BY <1>1, <1>2, <2>1
  <2>3. SubSeq((<<1, 0>> \o length) \o << >>, 2 + 1, 2 + w) = length
    BY <1>2, <2>1, Middle
  <2>4. (<<1, 0>> \o length) \o << >> = head
    BY <2>2
  <2>5. 2 + 1 = 3 /\ 2 + w = w + 2
    BY <1>1
  <2> QED
    BY <2>2, <2>3, <2>4, <2>5
<1> HIDE DEF head
<1>5. L = Len(label) /\ L \in Nat
  BY <1>1 DEF L
<1>6. Parts(head, label, rest, bits)
  BY <1>4, Middle
<1>7. SubSeq(bits, 3, w + 2) = SubSeq(head, 3, w + 2)
  BY <1>1, <1>4, <1>6 DEF Parts
<1> HIDE DEF bits
<1>8. bits[1] # 0 /\ bits[2] = 0
  BY <1>1, <1>4, <1>6 DEF Parts
<1>9. (CHOOSE x \in 0 .. n : Uint(x, w) = SubSeq(bits, 3, w + 2)) = L
  BY <1>3, <1>4, <1>7
<1>10. ReadLabel(bits, n) = [label |-> SubSeq(bits, w + 3, w + L + 2),
                             rest |-> SubSeq(bits, w + L + 3, Len(bits))]
  BY <1>8, <1>9, Zenon DEF ReadLabel, w
<1>11. /\ w + 3 = Len(head) + 1 /\ w + L + 2 = Len(head) + Len(label)
       /\ w + L + 3 = Len(head) + Len(label) + 1
  BY <1>1, <1>4, <1>5
<1>12. ReadLabel(bits, n) = [label |-> label, rest |-> rest]
  BY <1>6, <1>10, <1>11 DEF Parts
<1>13. (head \o label)[1] = 1 /\ (head \o label)[2] = 0
  BY <1>1, <1>4, <1>6 DEF Parts
<1> QED
  BY <1>6, <1>12, <1>13 DEF bits, head, length, w, L, Parts

LEMMA SameIsRead ==
    ASSUME NEW n \in Nat, NEW label \in Seq(Bits), Len(label) <= n, NEW rest \in Seq(Bits),
           is_same(label), Len(label) # 0
    PROVE  LET length == Uint(Len(label), LengthBits(n))
               written == <<1, 1, label[1]>> \o length
           IN  /\ written \in Seq(Bits) /\ written[1] = 1 /\ written[2] = 1
               /\ ReadLabel(written \o rest, n) = [label |-> label, rest |-> rest]
<1> DEFINE L == Len(label)
           w == LengthBits(n)
           length == Uint(L, w)
           head == <<1, 1, label[1]>>
           bits == (head \o length) \o rest
<1>1. L \in 1 .. n /\ w \in Nat
  BY LengthBitsIs
<1>2. length \in Seq(Bits) /\ Len(length) = w
  BY <1>1, UintIsWord
<1>3. (CHOOSE x \in 0 .. n : Uint(x, w) = length) = L
  BY <1>1, LengthIsRead
<1>4. label = [i \in 1 .. L |-> label[1]]
  BY <1>1 DEF is_same
<1>5. /\ head \in Seq(Bits) /\ Len(head) = 3
      /\ head[1] = 1 /\ head[2] = 1 /\ head[3] = label[1]
  <2>1. label[1] \in Bits
    BY <1>1
  <2> QED
    BY <2>1 DEF Bits
<1> HIDE DEF length, w, L, head
<1>6. Parts(head, length, rest, bits)
  BY <1>2, <1>5, Middle
<1> HIDE DEF bits
<1>7. bits[1] # 0 /\ bits[2] # 0 /\ bits[3] = label[1]
  BY <1>5, <1>6 DEF Parts
<1>8. Len(head) + 1 = 4 /\ Len(head) + Len(length) = w + 3 /\ w + 4 = Len(head) + Len(length) + 1
  BY <1>1, <1>2, <1>5
<1>9. (CHOOSE x \in 0 .. n : Uint(x, w) = SubSeq(bits, 4, w + 3)) = L
  BY <1>3, <1>6, <1>8 DEF Parts
<1>10. ReadLabel(bits, n) = [label |-> [i \in 1 .. L |-> bits[3]],
                             rest |-> SubSeq(bits, w + 4, Len(bits))]
  BY <1>7, <1>9, Zenon DEF ReadLabel, w
<1>11. ReadLabel(bits, n) = [label |-> label, rest |-> rest]
  BY <1>4, <1>6, <1>7, <1>8, <1>10 DEF Parts
<1>12. (head \o length)[1] = 1 /\ (head \o length)[2] = 1
  <2>1. 1 \in 1 .. Len(head) /\ 2 \in 1 .. Len(head)
    BY <1>5
  <2>2. (head \o length)[1] = head[1] /\ (head \o length)[2] = head[2]
    BY <1>6, <2>1 DEF Parts
  <2> QED
    BY <1>5, <2>2
<1> QED
  BY <1>6, <1>11, <1>12 DEF bits, head, length, w, L, Parts

\* The first two bits of what goes on after a list of at least as many.
LEMMA FirstBits ==
    ASSUME NEW s \in Seq(Bits), NEW t \in Seq(Bits), Len(s) >= 2
    PROVE  /\ s \o t \in Seq(Bits)
           /\ SubSeq(s \o t, 1, 2) = <<s[1], s[2]>>
<1>1. s \o t \in Seq(Bits) /\ (s \o t)[1] = s[1] /\ (s \o t)[2] = s[2] /\ Len(s \o t) >= 2
  OBVIOUS
<1> DEFINE v == s \o t
<1> HIDE DEF v
<1>2. SubSeq(v, 1, 2) = <<v[1], v[2]>>
  <2> DEFINE m == SubSeq(v, 1, 2)
             p == <<v[1], v[2]>>
  <2>1. v[1] \in Bits /\ v[2] \in Bits /\ \A i \in 1 .. 2 : v[i] \in Bits
    BY <1>1 DEF v
  <2>2. m \in Seq(Bits) /\ Len(m) = 2 /\ \A i \in 1 .. 2 : m[i] = v[1 + i - 1]
    BY <2>1, SubSeqProperties
  <2>3. p \in Seq(Bits) /\ Len(p) = 2 /\ p[1] = v[1] /\ p[2] = v[2]
    BY <2>1
  <2> HIDE DEF m, p
  <2>4. \A i \in 1 .. 2 : m[i] = p[i]
    BY <2>2, <2>3
  <2>5. m = p
    BY <2>2, <2>3, <2>4, SeqEqual
  <2> QED
    BY <2>5 DEF m, p
<1> QED
  BY <1>1, <1>2 DEF v

LEMMA LabelIsRead ==
    ASSUME NEW n \in Nat, NEW label \in Seq(Bits), Len(label) <= n, NEW rest \in Seq(Bits)
    PROVE  LET written == write_label(label, n)
               bits == written \o rest
               kind == detect_label_type(label, n)
           IN  /\ written \in Seq(Bits) /\ bits \in Seq(Bits)
               /\ ReadLabel(bits, n) = [label |-> label, rest |-> rest]
               /\ kind = "short" => SubSeq(bits, 1, 2)[1] = 0
               /\ kind = "long" => SubSeq(bits, 1, 2) = <<1, 0>>
               /\ kind = "same" => SubSeq(bits, 1, 2) = <<1, 1>>
               /\ kind \in {"short", "long", "same"}
<1> DEFINE L == Len(label)
           w == LengthBits(n)
           kind == detect_label_type(label, n)
           written == write_label(label, n)
           length == Uint(L, w)
<1>1. L \in Nat /\ w \in Nat /\ length \in Seq(Bits) /\ Len(length) = w
  <2>1. L \in Nat /\ w \in Nat
    BY LengthBitsIs
  <2> HIDE DEF L, w
  <2> QED
    BY <2>1, UintIsWord
<1>2. kind \in {"short", "long", "same"}
  BY DEF detect_label_type
<1>3. CASE kind = "short"
  <2> DEFINE form == <<0>> \o [i \in DOMAIN label |-> 1] \o <<0>> \o label
  <2>1. written = form
    BY <1>3 DEF write_label
  <2>2. /\ form \in Seq(Bits) /\ form[1] = 0
        /\ ReadLabel(form \o rest, n) = [label |-> label, rest |-> rest]
    BY ShortIsRead
  <2>3. Len(form) >= 2
    <3>1. [i \in DOMAIN label |-> 1] \in Seq(Bits) /\ <<0>> \in Seq(Bits)
      BY DEF Bits
    <3> QED
      BY <3>1
  <2> HIDE DEF form
  <2>4. form \o rest \in Seq(Bits) /\ SubSeq(form \o rest, 1, 2) = <<form[1], form[2]>>
    BY <2>2, <2>3, FirstBits
  <2>5. SubSeq(form \o rest, 1, 2)[1] = 0
    <3>1. <<form[1], form[2]>>[1] = form[1]
      OBVIOUS
    <3> QED
      BY <2>2, <2>4, <3>1
  <2> QED
    BY <1>3, <2>1, <2>2, <2>4, <2>5
<1>4. CASE kind = "long"
  <2> DEFINE form == <<1, 0>> \o length \o label
  <2>1. written = form
    BY <1>4 DEF write_label
  <2>2. /\ form \in Seq(Bits) /\ form[1] = 1 /\ form[2] = 0
        /\ ReadLabel(form \o rest, n) = [label |-> label, rest |-> rest]
    BY LongIsRead
  <2>3. Len(form) >= 2
    <3>1. <<1, 0>> \in Seq(Bits)
      BY DEF Bits
    <3> HIDE DEF length
    <3> QED
      BY <1>1, <3>1
  <2> HIDE DEF form
  <2>4. form \o rest \in Seq(Bits) /\ SubSeq(form \o rest, 1, 2) = <<form[1], form[2]>>
    BY <2>2, <2>3, FirstBits
  <2> QED
    BY <1>4, <2>1, <2>2, <2>4
<1>5. CASE kind = "same"
  <2> DEFINE form == <<1, 1, label[1]>> \o length
  <2>1. written = form
    BY <1>5 DEF write_label
  <2>2. is_same(label) /\ L # 0
    BY <1>1, <1>5 DEF detect_label_type, label_same_length, label_short_length, label_long_length
  <2>3. /\ form \in Seq(Bits) /\ form[1] = 1 /\ form[2] = 1
        /\ ReadLabel(form \o rest, n) = [label |-> label, rest |-> rest]
    BY <2>2, SameIsRead
  <2>4. Len(form) >= 2
    <3>1. <<1, 1, label[1]>> \in Seq(Bits)
      BY <1>1, <2>2 DEF Bits
    <3> HIDE DEF length
    <3> QED
      BY <1>1, <3>1
  <2> HIDE DEF form
  <2>5. form \o rest \in Seq(Bits) /\ SubSeq(form \o rest, 1, 2) = <<form[1], form[2]>>
    BY <2>3, <2>4, FirstBits
  <2> QED
    BY <1>5, <2>1, <2>3, <2>5
<1> QED
  BY <1>2, <1>3, <1>4, <1>5

\* A cell whose label, for n bits of the key, has its canonical form.
Canonical(bits, label, n) ==
    LET head == SubSeq(bits, 1, 2)
        w == LengthBits(n)
        len == Len(label)
        same == is_same(label) /\ len > 1 /\ w < 2 * len - 1
    IN  CASE same -> head = <<1, 1>>
          [] ~same /\ w < len -> head = <<1, 0>>
          [] ~same /\ w >= len -> head[1] = 0

LEMMA LabelIsCanonical ==
    ASSUME NEW n \in Nat, NEW label \in Seq(Bits), Len(label) <= n, NEW rest \in Seq(Bits)
    PROVE  Canonical(write_label(label, n) \o rest, label, n)
<1> DEFINE bits == write_label(label, n) \o rest
           kind == detect_label_type(label, n)
           w == LengthBits(n)
           len == Len(label)
           same == is_same(label) /\ len > 1 /\ w < 2 * len - 1
<1>1. /\ kind = "short" => SubSeq(bits, 1, 2)[1] = 0
      /\ kind = "long" => SubSeq(bits, 1, 2) = <<1, 0>>
      /\ kind = "same" => SubSeq(bits, 1, 2) = <<1, 1>>
  BY LabelIsRead
<1>2. len \in Nat /\ w \in Nat
  BY LengthBitsIs
<1>3. /\ same => kind = "same"
      /\ ~same /\ w < len => kind = "long"
      /\ ~same /\ w >= len => kind = "short"
  BY <1>2 DEF detect_label_type, label_same_length, label_short_length, label_long_length
<1> HIDE DEF bits, kind
<1>4. CASE same
  BY <1>1, <1>2, <1>3, <1>4 DEF Canonical, bits
<1>5. CASE ~same /\ w < len
  BY <1>1, <1>2, <1>3, <1>5 DEF Canonical, bits
<1>6. CASE ~same /\ w >= len
  BY <1>1, <1>2, <1>3, <1>6 DEF Canonical, bits
<1> QED
  BY <1>2, <1>4, <1>5, <1>6

-----------------------------------------------------------------------------
(* Branches                                                                *)

LEMMA SeqIsWord ==
    ASSUME NEW n \in Nat, NEW a \in Seq(Bits), Len(a) = n
    PROVE  a \in Words(n)
BY DEF Words

\* A key goes on with the label, a bit and the rest of it.
Onward(label, bit, rest) == (label \o <<bit>>) \o rest

GoesOn(k, label, bit, rest) ==
    /\ k \in Seq(Bits)
    /\ Len(k) = Len(label) + 1 + Len(rest)
    /\ \A i \in 1 .. Len(label) : k[i] = label[i]
    /\ k[Len(label) + 1] = bit
    /\ \A i \in 1 .. Len(rest) : k[Len(label) + 1 + i] = rest[i]

LEMMA OnwardIs ==
    ASSUME NEW label \in Seq(Bits), NEW bit \in Bits, NEW rest \in Seq(Bits)
    PROVE  GoesOn(Onward(label, bit, rest), label, bit, rest)
<1> DEFINE a == label \o <<bit>>
<1>1. /\ a \in Seq(Bits) /\ Len(a) = Len(label) + 1 /\ a[Len(label) + 1] = bit
      /\ \A i \in 1 .. Len(label) : a[i] = label[i]
  OBVIOUS
<1> HIDE DEF a
<1>2. /\ a \o rest \in Seq(Bits) /\ Len(a \o rest) = Len(a) + Len(rest)
      /\ \A i \in 1 .. Len(a) : (a \o rest)[i] = a[i]
      /\ \A i \in 1 .. Len(rest) : (a \o rest)[Len(a) + i] = rest[i]
  BY <1>1
<1>3. Onward(label, bit, rest) = a \o rest
  BY DEF Onward, a
<1>4. Len(label) \in Nat
  OBVIOUS
<1>5. \A i \in 1 .. Len(label) + 1 : (a \o rest)[i] = a[i]
  BY <1>1, <1>2
<1>6. (a \o rest)[Len(label) + 1] = bit /\ \A i \in 1 .. Len(label) : (a \o rest)[i] = label[i]
  BY <1>1, <1>4, <1>5
<1> QED
  BY <1>1, <1>2, <1>3, <1>6 DEF GoesOn

LEMMA OnwardFrom ==
    ASSUME NEW path \in Seq(Bits), NEW label \in Seq(Bits), NEW bit \in Bits, NEW rest \in Seq(Bits)
    PROVE  /\ (path \o label) \o <<bit>> \in Seq(Bits)
           /\ Len((path \o label) \o <<bit>>) = Len(path) + Len(label) + 1
           /\ path \o Onward(label, bit, rest) = ((path \o label) \o <<bit>>) \o rest
<1> DEFINE b == <<bit>>
<1>1. b \in Seq(Bits) /\ Len(b) = 1
  OBVIOUS
<1> HIDE DEF b
<1>2. /\ path \o label \in Seq(Bits) /\ (path \o label) \o b \in Seq(Bits)
      /\ Len((path \o label) \o b) = Len(path) + Len(label) + 1
  <2>1. Joins(path, label, path \o label)
    BY Pair
  <2> DEFINE a == path \o label
  <2>2. a \in Seq(Bits) /\ Len(a) = Len(path) + Len(label)
    BY <2>1 DEF Joins
  <2> HIDE DEF a
  <2>3. Joins(a, b, a \o b)
    BY <1>1, <2>2, Pair
  <2>4. a \o b \in Seq(Bits) /\ Len(a \o b) = Len(path) + Len(label) + 1
    BY <1>1, <2>2, <2>3 DEF Joins
  <2> QED
    BY <2>2, <2>4 DEF a
<1>3. label \o b \in Seq(Bits) /\ (path \o label) \o b = path \o (label \o b)
  <2>1. Joins(label, b, label \o b)
    BY <1>1, Pair
  <2>2. (path \o label) \o b = path \o (label \o b)
    BY <1>1, Associative
  <2> QED
    BY <2>1, <2>2 DEF Joins
<1>4. (path \o (label \o b)) \o rest = path \o ((label \o b) \o rest)
  BY <1>3, Associative
<1> QED
  BY <1>2, <1>3, <1>4 DEF Onward, b

\* A longer word is its label, the next bit, and what SubSeq leaves of it.
LEMMA Cut ==
    ASSUME NEW n \in Nat, NEW s \in 0 .. n - 1, NEW k \in Words(n), NEW label \in Words(s),
           \A i \in 1 .. s : k[i] = label[i]
    PROVE  /\ SubSeq(k, s + 2, Len(k)) \in Words(n - s - 1)
           /\ k[s + 1] \in Bits
           /\ k = Onward(label, k[s + 1], SubSeq(k, s + 2, Len(k)))
<1> DEFINE rest == SubSeq(k, s + 2, n)
           bit == k[s + 1]
           m == n - s - 1
<1>1. k \in Seq(Bits) /\ Len(k) = n /\ label \in Seq(Bits) /\ Len(label) = s /\ m \in Nat
  BY WordIsSeq
<1>2. bit \in Bits /\ \A i \in s + 2 .. n : k[i] \in Bits
  BY DEF Words
<1>3. rest \in Seq(Bits) /\ Len(rest) = m /\ \A i \in 1 .. m : rest[i] = k[s + 2 + i - 1]
  BY <1>2, SubSeqProperties
<1> HIDE DEF rest, bit
<1>4. rest \in Words(m)
  BY <1>1, <1>3, SeqIsWord
<1> DEFINE o == Onward(label, bit, rest)
<1>5. /\ o \in Seq(Bits) /\ Len(o) = s + 1 + m
      /\ \A i \in 1 .. s : o[i] = label[i]
      /\ o[s + 1] = bit
      /\ \A i \in 1 .. m : o[s + 1 + i] = rest[i]
  <2>1. GoesOn(o, label, bit, rest)
    BY <1>1, <1>2, <1>3, OnwardIs
  <2> HIDE DEF o
  <2> QED
    BY <1>1, <1>3, <2>1 DEF GoesOn
<1> HIDE DEF o
<1>6. ASSUME NEW i \in 1 .. n PROVE o[i] = k[i]
  <2>1. CASE i <= s
    BY <1>5, <2>1
  <2>2. CASE i = s + 1
    BY <1>5, <2>2 DEF bit
  <2>3. CASE i > s + 1
    <3>1. i - s - 1 \in 1 .. m /\ s + 1 + (i - s - 1) = i /\ s + 2 + (i - s - 1) - 1 = i
      BY <2>3
    <3>2. o[s + 1 + (i - s - 1)] = rest[i - s - 1] /\ rest[i - s - 1] = k[s + 2 + (i - s - 1) - 1]
      BY <1>3, <1>5, <3>1
    <3> QED
      BY <3>1, <3>2
  <2> QED
    BY <2>1, <2>2, <2>3
<1>7. Len(o) = n
  BY <1>1, <1>5
<1>8. o = k
  BY <1>1, <1>5, <1>6, <1>7, SeqEqual
<1> QED
  BY <1>1, <1>2, <1>4, <1>8 DEF o, rest, bit

LEMMA Paste ==
    ASSUME NEW n \in Nat, NEW s \in 0 .. n - 1, NEW label \in Words(s), NEW bit \in Bits,
           NEW rest \in Words(n - s - 1)
    PROVE  LET k == Onward(label, bit, rest)
           IN  /\ k \in Words(n) /\ k[s + 1] = bit
               /\ \A i \in 1 .. s : k[i] = label[i]
               /\ SubSeq(k, s + 2, Len(k)) = rest
<1> DEFINE k == Onward(label, bit, rest)
           m == n - s - 1
<1>1. label \in Seq(Bits) /\ Len(label) = s /\ rest \in Seq(Bits) /\ Len(rest) = m /\ m \in Nat
  BY WordIsSeq
<1>2. /\ k \in Seq(Bits) /\ Len(k) = s + 1 + m
      /\ \A i \in 1 .. s : k[i] = label[i]
      /\ k[s + 1] = bit
      /\ \A i \in 1 .. m : k[s + 1 + i] = rest[i]
  <2>1. GoesOn(k, label, bit, rest)
    BY <1>1, OnwardIs
  <2> HIDE DEF k
  <2> QED
    BY <1>1, <2>1 DEF GoesOn
<1> HIDE DEF k
<1>3. Len(k) = n /\ k \in Words(n)
  BY <1>1, <1>2, SeqIsWord
<1> DEFINE r == SubSeq(k, s + 2, n)
<1>4. \A i \in s + 2 .. n : k[i] \in Bits
  BY <1>2, <1>3
<1>5. r \in Seq(Bits) /\ Len(r) = m /\ \A i \in 1 .. m : r[i] = k[s + 2 + i - 1]
  BY <1>4, SubSeqProperties
<1> HIDE DEF r
<1>6. ASSUME NEW i \in 1 .. m PROVE r[i] = rest[i]
  <2>1. s + 2 + i - 1 = s + 1 + i
    OBVIOUS
  <2> QED
    BY <1>2, <1>5, <2>1
<1>7. r = rest
  BY <1>1, <1>5, <1>6, SeqEqual
<1> QED
  BY <1>2, <1>3, <1>7 DEF k, r

LEMMA WordsFinite ==
    ASSUME NEW n \in Nat
    PROVE  IsFiniteSet(Words(n))
<1> DEFINE Ones(a) == {i \in 1 .. n : a[i] = 1}
           f == [a \in Words(n) |-> Ones(a)]
<1>1. ASSUME NEW a \in Words(n), NEW b \in Words(n), Ones(a) = Ones(b) PROVE a = b
  <2>1. \A i \in 1 .. n : a[i] \in {0, 1} /\ b[i] \in {0, 1} /\ (a[i] = 1 <=> b[i] = 1)
    BY <1>1, WordIsSeq
  <2>2. \A i \in 1 .. n : a[i] = b[i]
    BY <2>1
  <2> QED
    BY <2>2 DEF Words
<1>2. \A a \in Words(n) : Ones(a) \in SUBSET (1 .. n)
  OBVIOUS
<1> HIDE DEF Ones
<1>3. f \in Injection(Words(n), SUBSET (1 .. n))
  BY <1>1, <1>2 DEF Injection, IsInjective
<1>4. IsFiniteSet(SUBSET (1 .. n))
  BY PowerCounts
<1> QED
  BY <1>3, <1>4, FS_Injection

-----------------------------------------------------------------------------
(* The invariant                                                           *)

Key(k) == Uint(k, KeySize)
Left(path) == KeySize - Len(path)

IsPath(path) == path \in Seq(Bits) /\ Len(path) <= KeySize

\* src has the items whose keys start with path, by what is left of their keys.
Describes(src, path, n) ==
    /\ IsPath(path) /\ n = Left(path)
    /\ DOMAIN src \in SUBSET Words(n) /\ DOMAIN src # {}
    /\ \A w \in DOMAIN src : \E k \in DOMAIN items : Key(k) = path \o w /\ src[w] = items[k]
    /\ \A k \in DOMAIN items : \A w \in Words(n) : Key(k) = path \o w => w \in DOMAIN src

\* Every key that starts with path goes on with the label.
SharedBelow(path, label) ==
    \A k \in DOMAIN items : \A w \in Words(Left(path)) :
        Key(k) = path \o w => \A i \in 1 .. Len(label) : w[i] = label[i]

Child(path, label, bit) == (path \o label) \o <<bit>>

\* A cell of the tree that is written, or that an edge to come will write.
Known(path) == path \in DOMAIN tree \/ \E j \in DOMAIN edges : edges[j].path = path

IsLeaf(path, label) ==
    /\ Len(label) = Left(path)
    /\ \E k \in DOMAIN items :
          /\ Key(k) = path \o label
          /\ tree[path] = [bits |-> write_label(label, Left(path)) \o items[k].bits,
                           refs |-> items[k].refs]

IsFork(path, label) ==
    /\ Len(label) < Left(path)
    /\ tree[path] = [bits |-> write_label(label, Left(path)),
                     refs |-> <<Child(path, label, 0), Child(path, label, 1)>>]
    /\ Known(Child(path, label, 0)) /\ Known(Child(path, label, 1))

IsWritten(path, label) ==
    /\ IsPath(path) /\ label \in Seq(Bits) /\ Len(label) <= Left(path)
    /\ SharedBelow(path, label)
    /\ IsLeaf(path, label) \/ IsFork(path, label)

Edges ==
    [path : Seq(Bits), n : Nat,
     src : UNION {[D -> {items[k] : k \in DOMAIN items}] : D \in SUBSET Seq(Bits)}]

ItemTypes ==
    /\ items = [k \in DOMAIN items |-> items[k]]
    /\ DOMAIN items \in SUBSET (0 .. Power(KeySize) - 1)
    /\ \A k \in DOMAIN items : IsCell(items[k])
    /\ items # << >> => DOMAIN items # {}

Stages ==
    /\ stage \in {"open", "writing", "ended"}
    /\ edges \in Seq(Edges)
    /\ stage = "open" => tree = << >>
    /\ stage = "writing" => edges # << >> /\ items # << >>
    /\ stage # "writing" => edges = << >>
    /\ stage # "ended" => lookup = None
    /\ stage # "open" /\ items # << >> => Known(<< >>)

TreeIs == items # << >> => \A path \in DOMAIN tree : \E label : IsWritten(path, label)

EdgesAre == \A j \in DOMAIN edges : Describes(edges[j].src, edges[j].path, edges[j].n)

\* What a search has found is what was stored.
IsFound(key, found) ==
    /\ \A k \in DOMAIN items : Key(k) = key => found = <<items[k]>>
    /\ key \notin {Key(k) : k \in DOMAIN items} => found = << >>

\* A search that is not over is at a cell whose path its key starts with.
SearchIs ==
    lookup # None =>
        /\ lookup = [key |-> lookup.key, at |-> lookup.at, n |-> lookup.n,
                     done |-> lookup.done, found |-> lookup.found]
        /\ items # << >> /\ lookup.key \in Words(KeySize)
        /\ ~lookup.done =>
              /\ lookup.at \in DOMAIN tree /\ lookup.n = Left(lookup.at)
              /\ \A i \in 1 .. Len(lookup.at) : lookup.key[i] = lookup.at[i]
        /\ lookup.done => IsFound(lookup.key, lookup.found)

DictIInv == ItemTypes /\ Stages /\ TreeIs /\ EdgesAre /\ SearchIs

LEMMA KeyIsWord ==
    ASSUME ItemTypes, NEW k \in DOMAIN items
    PROVE  Key(k) \in Words(KeySize) /\ Key(k) \in Seq(Bits) /\ Len(Key(k)) = KeySize
<1>1. k \in Nat /\ KeySize \in Nat
  <2>1. KeySize \in Nat /\ Power(KeySize) \in Nat
    BY DictAssumption, Powers
  <2> QED
    BY <2>1 DEF ItemTypes
<1> QED
  BY <1>1, UintIsWord DEF Key

LEMMA KeysDiffer ==
    ASSUME ItemTypes, NEW k \in DOMAIN items, NEW m \in DOMAIN items, Key(k) = Key(m)
    PROVE  k = m
<1>1. KeySize \in Nat /\ Power(KeySize) \in Nat
  BY DictAssumption, Powers
<1>2. k \in Nat /\ m \in Nat /\ k < Power(KeySize) /\ m < Power(KeySize)
  BY <1>1 DEF ItemTypes
<1> QED
  BY <1>1, <1>2, UintInjective DEF Key

ItemCells == {items[k] : k \in DOMAIN items}

LEMMA EmptyPath ==
    ASSUME KeySize \in Nat
    PROVE  /\ IsPath(<< >>) /\ Left(<< >>) = KeySize
           /\ \A w \in Words(KeySize) : << >> \o w = w
<1>1. << >> \in Seq(Bits) /\ Len(<< >>) = 0
  OBVIOUS
<1>2. \A w \in Words(KeySize) : w \in Seq(Bits)
  BY WordIsSeq
<1> QED
  BY <1>1, <1>2, ConcatEmptySeq DEF IsPath, Left

LEMMA PaddedDescribes ==
    ASSUME ItemTypes, DOMAIN items # {}
    PROVE  /\ Describes(Padded(items), << >>, KeySize)
           /\ [path |-> << >>, src |-> Padded(items), n |-> KeySize] \in Edges
<1> DEFINE src == Padded(items)
           D == {Key(k) : k \in DOMAIN items}
           Number(w) == CHOOSE k \in DOMAIN items : Key(k) = w
<1>1. src = [w \in D |-> items[Number(w)]]
  BY DEF Padded, Key
<1>2. D \in SUBSET Words(KeySize) /\ D \in SUBSET Seq(Bits) /\ D # {}
  BY KeyIsWord
<1>3. \A w \in D : Number(w) \in DOMAIN items /\ Key(Number(w)) = w
  OBVIOUS
<1> HIDE DEF Number
<1>4. src \in [D -> ItemCells] /\ DOMAIN src = D
  BY <1>1, <1>3 DEF ItemCells
<1>5. IsPath(<< >>) /\ Left(<< >>) = KeySize /\ \A w \in Words(KeySize) : << >> \o w = w
  BY DictAssumption, EmptyPath
<1>6. \A w \in D : \E k \in DOMAIN items : Key(k) = << >> \o w /\ src[w] = items[k]
  BY <1>1, <1>2, <1>3, <1>5
<1>7. \A k \in DOMAIN items : \A w \in Words(KeySize) : Key(k) = << >> \o w => w \in D
  BY <1>5
<1> HIDE DEF D, src
<1>8. Describes(src, << >>, KeySize)
  BY <1>2, <1>4, <1>5, <1>6, <1>7 DEF Describes
<1>9. [path |-> << >>, src |-> src, n |-> KeySize] \in Edges
  BY DictAssumption, <1>2, <1>4 DEF Edges, ItemCells
<1> QED
  BY <1>8, <1>9 DEF src

(* fork_map: when the keys below an edge share a label and then differ, the *)
(* items on either side are those whose keys start with the edge's path,    *)
(* the label and that bit; there are some on both sides.                    *)
LEMMA BranchDescribes ==
    ASSUME ItemTypes,
           NEW src, NEW path, NEW n, NEW D \in SUBSET Seq(Bits), src \in [D -> ItemCells],
           Describes(src, path, n),
           NEW s \in 0 .. n - 1, NEW label \in Words(s),
           \A w \in DOMAIN src : \A i \in 1 .. s : w[i] = label[i],
           NEW bit \in Bits, \E w \in DOMAIN src : w[s + 1] = bit
    PROVE  /\ DOMAIN Branch(src, s, bit) # {}
           /\ Describes(Branch(src, s, bit), Child(path, label, bit), n - s - 1)
           /\ [path |-> Child(path, label, bit), src |-> Branch(src, s, bit), n |-> n - s - 1]
                 \in Edges
<1> DEFINE keys == {k \in DOMAIN src : k[s + 1] = bit}
           Rest(k) == SubSeq(k, s + 2, Len(k))
           E == {Rest(k) : k \in keys}
           Of(w) == CHOOSE k \in keys : Rest(k) = w
           branch == [w \in E |-> src[Of(w)]]
           m == n - s - 1
           below == Child(path, label, bit)
<1>1. Branch(src, s, bit) = branch
  BY DEF Branch
<1>2. /\ path \in Seq(Bits) /\ Len(path) <= KeySize /\ KeySize \in Nat /\ n = KeySize - Len(path)
      /\ n \in Nat /\ m \in Nat /\ DOMAIN src \in SUBSET Words(n)
      /\ label \in Seq(Bits) /\ Len(label) = s
  BY DictAssumption, WordIsSeq DEF Describes, IsPath, Left
<1>3. \A k \in keys : Rest(k) \in Words(m) /\ k = Onward(label, bit, Rest(k))
  BY <1>2, Cut
<1>4. \A w \in E : Of(w) \in keys /\ Rest(Of(w)) = w
  OBVIOUS
<1> HIDE DEF Rest, Of
<1>15. \A w \in Words(m) : w \in Seq(Bits)
  <2> HIDE DEF m
  <2> QED
    BY <1>2, WordIsSeq
<1>5. \A w \in E : w \in Words(m) /\ w \in Seq(Bits) /\ Of(w) = Onward(label, bit, w)
  <2> TAKE w \in E
  <2>1. Of(w) \in keys /\ Rest(Of(w)) = w
    BY <1>4
  <2>2. w \in Words(m) /\ Of(w) = Onward(label, bit, w)
    BY <1>3, <2>1
  <2> QED
    BY <1>15, <2>2
<1>6. E # {} /\ E \in SUBSET Words(m) /\ E \in SUBSET Seq(Bits)
  BY <1>5
<1>7. \A w \in Words(m) : path \o Onward(label, bit, w) = below \o w
  <2> TAKE w \in Words(m)
  <2>1. w \in Seq(Bits)
    BY <1>15
  <2>2. path \o Onward(label, bit, w) = ((path \o label) \o <<bit>>) \o w
    BY <1>2, <2>1, OnwardFrom
  <2>3. below = (path \o label) \o <<bit>>
    BY DEF Child
  <2> HIDE DEF below
  <2> QED
    BY <2>2, <2>3, Zenon
<1>8. below \in Seq(Bits) /\ Len(below) = Len(path) + s + 1
  <2>1. << >> \in Seq(Bits)
    OBVIOUS
  <2> QED
    BY <1>2, <2>1, OnwardFrom DEF Child
<1> HIDE DEF below
<1>9. IsPath(below) /\ m = Left(below)
  BY <1>2, <1>8 DEF IsPath, Left
<1>10. ASSUME NEW w \in E PROVE \E k \in DOMAIN items : Key(k) = below \o w /\ branch[w] = items[k]
  <2>1. Of(w) \in DOMAIN src /\ branch[w] = src[Of(w)]
    BY <1>4
  <2>2. PICK k \in DOMAIN items : Key(k) = path \o Of(w) /\ src[Of(w)] = items[k]
    BY <2>1 DEF Describes
  <2>3. path \o Of(w) = below \o w
    BY <1>5, <1>7
  <2> QED
    BY <2>1, <2>2, <2>3
<1>11. ASSUME NEW k \in DOMAIN items, NEW w \in Words(m), Key(k) = below \o w PROVE w \in E
  <2> DEFINE v == Onward(label, bit, w)
  <2>1. v \in Words(n) /\ v[s + 1] = bit /\ Rest(v) = w
    BY <1>2, Paste DEF Rest
  <2>2. Key(k) = path \o v
    BY <1>7, <1>11
  <2> HIDE DEF v
  <2>3. v \in DOMAIN src
    BY <2>1, <2>2 DEF Describes
  <2> QED
    BY <2>1, <2>3
<1>12. branch \in [E -> ItemCells] /\ DOMAIN branch = E
  <2>1. \A w \in E : src[Of(w)] \in ItemCells
    BY <1>4
  <2> HIDE DEF E
  <2> QED
    BY <2>1
<1> HIDE DEF branch, E, m
<1>13. Describes(branch, below, m)
  BY <1>6, <1>9, <1>10, <1>11, <1>12 DEF Describes
<1>14. [path |-> below, src |-> branch, n |-> m] \in Edges
  BY <1>2, <1>6, <1>8, <1>12 DEF Edges, ItemCells
<1> QED
  BY <1>1, <1>6, <1>12, <1>13, <1>14 DEF below, m

-----------------------------------------------------------------------------
(* Every step keeps the invariant                                          *)

LEMMA InitDictIInv == ASSUME DictInit PROVE DictIInv
<1>1. items = << >> /\ stage = "open" /\ edges = << >> /\ tree = << >> /\ lookup = None
  BY DEF DictInit
<1>2. DOMAIN items = {} /\ items = [k \in DOMAIN items |-> items[k]]
  BY <1>1
<1>3. ItemTypes
  BY <1>1, <1>2 DEF ItemTypes
<1>4. edges \in Seq(Edges) /\ DOMAIN edges = {}
  BY <1>1
<1> QED
  BY <1>1, <1>3, <1>4 DEF DictIInv, Stages, TreeIs, EdgesAre, SearchIs

LEMMA StoreKeeps ==
    ASSUME DictIInv, NEW index \in 0 .. 2 ^ KeySize - 1, NEW value, IsCell(value),
           store_cell(index, value)
    PROVE  DictIInv'
<1>1. /\ stage = "open" /\ index \notin DOMAIN items
      /\ items' = [k \in DOMAIN items \cup {index} |-> IF k = index THEN value ELSE items[k]]
      /\ stage' = stage /\ edges' = edges /\ tree' = tree /\ lookup' = lookup
  BY DEF store_cell
<1>2. DOMAIN items' = DOMAIN items \cup {index} /\ DOMAIN items' # {}
  BY <1>1
<1>3. \A k \in DOMAIN items' : IsCell(items'[k])
  BY <1>1, <1>2 DEF DictIInv, ItemTypes
<1>4. items' = [k \in DOMAIN items' |-> items'[k]]
  BY <1>1
<1>5. index \in 0 .. Power(KeySize) - 1
  BY DEF Power
<1>6. ItemTypes'
  BY <1>2, <1>3, <1>4, <1>5 DEF DictIInv, ItemTypes
<1>7. /\ edges = << >> /\ tree = << >> /\ lookup = None
  BY <1>1 DEF DictIInv, Stages
<1>8. edges' \in Seq(Edges') /\ DOMAIN edges' = {} /\ DOMAIN tree' = {}
  BY <1>1, <1>7
<1> QED
  BY <1>1, <1>6, <1>7, <1>8 DEF DictIInv, Stages, TreeIs, EdgesAre, SearchIs

LEMMA EndKeeps == ASSUME DictIInv, end_dict PROVE DictIInv'
<1>1. stage = "open" /\ items' = items /\ lookup' = lookup
  BY DEF end_dict
<1>2. ItemTypes' /\ Edges' = Edges /\ edges = << >> /\ tree = << >> /\ lookup = None
  BY <1>1 DEF DictIInv, Stages, ItemTypes, Edges
<1>3. CASE items = << >>
  BY <1>1, <1>2, <1>3 DEF end_dict, DictIInv, Stages, TreeIs, EdgesAre, SearchIs
<1>4. CASE items # << >>
  <2> DEFINE e == [path |-> << >>, src |-> Padded(items), n |-> KeySize]
  <2>1. Describes(e.src, e.path, e.n) /\ e \in Edges
    BY <1>4, PaddedDescribes DEF DictIInv, ItemTypes
  <2>2. edges' = <<e>> /\ stage' = "writing" /\ tree' = tree
    BY <1>4 DEF end_dict
  <2>3. e.path = << >>
    OBVIOUS
  <2> HIDE DEF e
  <2>4. edges' \in Seq(Edges') /\ edges' # << >> /\ DOMAIN edges' = {1} /\ edges'[1] = e
    BY <1>2, <2>1, <2>2
  <2>5. EdgesAre'
    BY <1>1, <2>1, <2>4 DEF EdgesAre, Describes
  <2>6. Known(<< >>)'
    BY <2>3, <2>4 DEF Known
  <2>7. TreeIs' /\ SearchIs'
    BY <1>1, <1>2, <2>2 DEF TreeIs, SearchIs
  <2>8. Stages'
    BY <1>1, <1>2, <1>4, <2>2, <2>4, <2>6 DEF Stages
  <2> QED
    BY <1>2, <2>5, <2>7, <2>8 DEF DictIInv
<1> QED
  BY <1>3, <1>4

LEMMA NextEdge ==
    ASSUME DictIInv, stage = "writing"
    PROVE  /\ Head(edges) = edges[1] /\ 1 \in DOMAIN edges
           /\ Head(edges) \in Edges
           /\ Describes(Head(edges).src, Head(edges).path, Head(edges).n)
           /\ Tail(edges) \in Seq(Edges) /\ Len(Tail(edges)) = Len(edges) - 1
           /\ \A j \in 1 .. Len(Tail(edges)) : Tail(edges)[j] = edges[j + 1]
           /\ \A j \in 1 .. Len(edges) - 1 : j + 1 \in DOMAIN edges
<1>1. edges \in Seq(Edges) /\ edges # << >>
  BY DEF DictIInv, Stages
<1>2. EdgesAre
  BY DEF DictIInv
<1> HIDE DEF Edges
<1>3. /\ Head(edges) = edges[1] /\ 1 \in DOMAIN edges /\ edges[1] \in Edges
      /\ Tail(edges) \in Seq(Edges) /\ Len(Tail(edges)) = Len(edges) - 1
      /\ \A j \in 1 .. Len(Tail(edges)) : Tail(edges)[j] = edges[j + 1]
      /\ \A j \in 1 .. Len(edges) - 1 : j + 1 \in DOMAIN edges
  BY <1>1
<1> QED
  BY <1>2, <1>3 DEF EdgesAre

\* The cell that an edge writes stands for the edge, and the edges it leads to
\* come before the others: all else is as it was.
LEMMA WrittenKeeps ==
    ASSUME DictIInv, stage = "writing",
           NEW at, at = Head(edges).path, NEW cell, NEW new \in Seq(Edges),
           \A j \in DOMAIN new : Describes(new[j].src, new[j].path, new[j].n),
           tree' = [path \in DOMAIN tree \cup {at} |-> IF path = at THEN cell ELSE tree[path]],
           edges' = new \o Tail(edges),
           stage' = IF edges' = << >> THEN "ended" ELSE "writing",
           items' = items, lookup' = lookup,
           NEW label, IsWritten(at, label)'
    PROVE  DictIInv'
<1>1. /\ at = edges[1].path /\ 1 \in DOMAIN edges
      /\ Tail(edges) \in Seq(Edges) /\ Len(Tail(edges)) = Len(edges) - 1
      /\ \A j \in 1 .. Len(Tail(edges)) : Tail(edges)[j] = edges[j + 1]
      /\ \A j \in 1 .. Len(edges) - 1 : j + 1 \in DOMAIN edges
      /\ edges \in Seq(Edges)
  BY NextEdge DEF DictIInv, Stages
<1>2. DOMAIN tree' = DOMAIN tree \cup {at} /\ \A path \in DOMAIN tree \ {at} : tree'[path] = tree[path]
  OBVIOUS
<1>3. /\ edges' \in Seq(Edges) /\ Len(edges') = Len(new) + Len(edges) - 1
      /\ \A j \in 1 .. Len(new) : edges'[j] = new[j]
      /\ \A j \in 1 .. Len(edges) - 1 : edges'[Len(new) + j] = edges[j + 1]
  <2> HIDE DEF Edges
  <2>1. /\ new \o Tail(edges) \in Seq(Edges)
        /\ Len(new \o Tail(edges)) = Len(new) + Len(Tail(edges))
        /\ \A j \in 1 .. Len(new) : (new \o Tail(edges))[j] = new[j]
        /\ \A j \in 1 .. Len(Tail(edges)) : (new \o Tail(edges))[Len(new) + j] = Tail(edges)[j]
    BY <1>1
  <2> QED
    BY <1>1, <2>1
<1>4. ASSUME NEW path, Known(path) PROVE Known(path)'
  <2>1. CASE path \in DOMAIN tree \/ path = at
    BY <1>2, <2>1 DEF Known
  <2>2. CASE path \notin DOMAIN tree /\ path # at
    <3>1. PICK j \in DOMAIN edges : edges[j].path = path
      BY <1>4, <2>2 DEF Known
    <3>2. j # 1 /\ j \in 1 .. Len(edges)
      BY <1>1, <2>2, <3>1
    <3>3. /\ j - 1 \in 1 .. Len(edges) - 1 /\ (j - 1) + 1 = j
          /\ Len(new) + (j - 1) \in DOMAIN edges'
      BY <1>1, <1>3, <3>2
    <3>4. edges'[Len(new) + (j - 1)] = edges[j]
      BY <1>3, <3>3
    <3> QED
      BY <3>1, <3>3, <3>4 DEF Known
  <2> QED
    BY <2>1, <2>2
<1>5. TreeIs'
  <2> SUFFICES ASSUME NEW path \in DOMAIN tree' PROVE \E l : IsWritten(path, l)'
    BY DEF TreeIs
  <2>1. CASE path = at
    BY <2>1
  <2>2. CASE path # at
    <3>1. path \in DOMAIN tree /\ tree'[path] = tree[path] /\ items # << >>
      BY <1>2, <2>2 DEF DictIInv, Stages
    <3>2. PICK l : IsWritten(path, l)
      BY <3>1 DEF DictIInv, TreeIs
    <3>3. IsPath(path) /\ l \in Seq(Bits) /\ Len(l) <= Left(path) /\ SharedBelow(path, l)'
      BY <3>2 DEF IsWritten, SharedBelow
    <3>4. CASE IsLeaf(path, l)
      <4>1. IsLeaf(path, l)'
        BY <3>1, <3>4 DEF IsLeaf
      <4> QED
        BY <3>3, <4>1 DEF IsWritten
    <3>5. CASE IsFork(path, l)
      <4>1. Known(Child(path, l, 0))' /\ Known(Child(path, l, 1))'
        BY <1>4, <3>5 DEF IsFork
      <4>2. IsFork(path, l)'
        BY <3>1, <3>5, <4>1 DEF IsFork
      <4> QED
        BY <3>3, <4>2 DEF IsWritten
    <3> QED
      BY <3>2, <3>4, <3>5 DEF IsWritten
  <2> QED
    BY <2>1, <2>2
<1>6. EdgesAre'
  <2> SUFFICES ASSUME NEW j \in DOMAIN edges'
               PROVE  Describes(edges'[j].src, edges'[j].path, edges'[j].n)
    BY DEF EdgesAre, Describes
  <2>1. j \in 1 .. Len(new) + Len(edges) - 1 /\ Len(new) \in Nat /\ Len(edges) \in Nat
    BY <1>1, <1>3
  <2>2. CASE j <= Len(new)
    BY <1>3, <2>1, <2>2
  <2>3. CASE j > Len(new)
    <3> DEFINE i == j - Len(new)
    <3>1. i \in 1 .. Len(edges) - 1 /\ Len(new) + i = j
      <4> DEFINE l == Len(new)
                 m == Len(edges)
      <4>1. l \in Nat /\ m \in Nat /\ j \in 1 .. l + m - 1 /\ j > l
        BY <2>1, <2>3
      <4> HIDE DEF l, m
      <4>2. j - l \in 1 .. m - 1 /\ l + (j - l) = j
        BY <4>1
      <4> QED
        BY <4>2 DEF l, m
    <3> HIDE DEF i
    <3>2. edges'[j] = edges[i + 1] /\ i + 1 \in DOMAIN edges
      BY <1>1, <1>3, <3>1
    <3> QED
      BY <3>2 DEF DictIInv, EdgesAre
  <2> QED
    BY <2>1, <2>2, <2>3
<1>7. Edges' = Edges /\ ItemTypes' /\ lookup = None /\ items # << >> /\ Known(<< >>)
  BY DEF Edges, DictIInv, ItemTypes, Stages
<1>8. Stages'
  BY <1>3, <1>4, <1>7 DEF Stages
<1>9. SearchIs'
  BY <1>7 DEF SearchIs
<1> QED
  BY <1>5, <1>6, <1>7, <1>8, <1>9 DEF DictIInv

\* A single word is its own common prefix, and only that one is as long.
LEMMA OneWord ==
    ASSUME NEW n \in Nat, NEW W \in SUBSET Words(n), W # {}
    PROVE  Cardinality(W) = 1 <=> Len(find_common_prefix(W)) = n
<1> DEFINE label == find_common_prefix(W)
           s == Len(label)
<1>1. /\ s \in 0 .. n
      /\ s < n => \A bit \in Bits : \E w \in W : w[s + 1] = bit
      /\ s = n => W = {label}
  BY CommonPrefixIs
<1> HIDE DEF label
<1>2. IsFiniteSet(W)
  BY WordsFinite, FS_Subset
<1>3. ASSUME Cardinality(W) = 1 PROVE s = n
  <2>1. PICK w : W = {w}
    BY <1>2, <1>3, FS_Singleton
  <2>2. ~(s < n)
    BY <1>1, <2>1 DEF Bits
  <2> QED
    BY <1>1, <2>2
<1>4. ASSUME s = n PROVE Cardinality(W) = 1
  BY <1>1, <1>4, FS_Singleton
<1> QED
  BY <1>3, <1>4 DEF label

LEMMA FirstTwo ==
    ASSUME NEW S, NEW a \in Seq(S), NEW b \in Seq(S), Len(a) = 2
    PROVE  /\ 1 \in DOMAIN (a \o b) /\ 2 \in DOMAIN (a \o b)
           /\ (a \o b)[1] = a[1] /\ (a \o b)[2] = a[2]
<1> DEFINE v == a \o b
           m == Len(b)
<1>1. /\ v \in Seq(S) /\ Len(v) = Len(a) + Len(b)
      /\ \A i \in 1 .. Len(a) + Len(b) : v[i] = IF i <= Len(a) THEN a[i] ELSE b[i - Len(a)]
  BY ConcatProperties
<1>2. m \in Nat /\ Len(v) = 2 + m /\ DOMAIN v = 1 .. 2 + m
  BY <1>1
<1>3. \A i \in 1 .. 2 + m : v[i] = IF i <= 2 THEN a[i] ELSE b[i - 2]
  BY <1>1
<1> HIDE DEF v, m
<1>4. 1 \in 1 .. 2 + m /\ 2 \in 1 .. 2 + m
  BY <1>2
<1> QED
  BY <1>2, <1>3, <1>4 DEF v

LEMMA WriteEdgeKeeps == ASSUME DictIInv, write_edge PROVE DictIInv'
<1>13. PICK e : e = Head(edges)
  OBVIOUS
<1> DEFINE src == e.src
           at == e.path
           n == e.n
           label == find_common_prefix(DOMAIN src)
           s == Len(label)
           written == write_label(label, n)
           Below(bit) == [path |-> Child(at, label, bit), src |-> Branch(src, s, bit),
                          n |-> n - s - 1]
           leaf == Cardinality(DOMAIN src) = 1
           new == IF leaf THEN << >> ELSE <<Below(0), Below(1)>>
           cell == IF leaf THEN [bits |-> written \o src[label].bits, refs |-> src[label].refs]
                   ELSE [bits |-> written, refs |-> <<Below(0).path, Below(1).path>>]
<1>1. stage = "writing" /\ items' = items /\ lookup' = lookup
  BY DEF write_edge
<1>2. e \in Edges /\ Describes(src, at, n)
  BY <1>1, <1>13, NextEdge
<1>3. PICK D \in SUBSET Seq(Bits) : src \in [D -> ItemCells]
  BY <1>2 DEF Edges, ItemCells
<1>4. /\ at \in Seq(Bits) /\ IsPath(at) /\ n = Left(at) /\ n \in Nat
      /\ DOMAIN src \in SUBSET Words(n) /\ DOMAIN src # {}
  BY DictAssumption, <1>2 DEF Describes, IsPath, Left
<1>5. /\ s \in 0 .. n /\ label \in Words(s) /\ label \in Seq(Bits)
      /\ \A w \in DOMAIN src : \A i \in 1 .. s : w[i] = label[i]
      /\ s < n => \A bit \in Bits : \E w \in DOMAIN src : w[s + 1] = bit
      /\ s = n => DOMAIN src = {label}
  BY <1>4, CommonPrefixIs
<1>6. leaf <=> s = n
  BY <1>4, OneWord
<1>7. ~leaf => \A bit \in Bits : /\ DOMAIN Below(bit).src # {}
                                 /\ Describes(Below(bit).src, Below(bit).path, Below(bit).n)
                                 /\ Below(bit) \in Edges
  <2> HAVE ~leaf
  <2> TAKE bit \in Bits
  <2>1. s \in 0 .. n - 1 /\ \E w \in DOMAIN src : w[s + 1] = bit
    BY <1>4, <1>5, <1>6
  <2>2. ItemTypes
    BY DEF DictIInv
  <2> HIDE DEF label, src, at, n
  <2>3. /\ DOMAIN Branch(src, s, bit) # {}
        /\ Describes(Branch(src, s, bit), Child(at, label, bit), n - s - 1)
        /\ [path |-> Child(at, label, bit), src |-> Branch(src, s, bit), n |-> n - s - 1]
              \in Edges
    BY <1>2, <1>3, <1>5, <2>1, <2>2, BranchDescribes
  <2> QED
    BY <2>3
<1>8. /\ tree' = [path \in DOMAIN tree \cup {at} |-> IF path = at THEN cell ELSE tree[path]]
      /\ edges' = new \o Tail(edges)
      /\ stage' = IF edges' = << >> THEN "ended" ELSE "writing"
  BY <1>7, <1>13 DEF write_edge, Child
<1>9. SharedBelow(at, label)
  <2> SUFFICES ASSUME NEW k \in DOMAIN items, NEW w \in Words(Left(at)), Key(k) = at \o w
               PROVE  \A i \in 1 .. Len(label) : w[i] = label[i]
    BY DEF SharedBelow
  <2>1. w \in DOMAIN src
    BY <1>2, <1>4 DEF Describes
  <2> QED
    BY <1>5, <2>1
<1> HIDE DEF label
<1>10. tree'[at] = cell
  <2> HIDE DEF cell
  <2> QED
    BY <1>8
<1>11. CASE leaf
  <2>1. s = n /\ DOMAIN src = {label}
    BY <1>5, <1>6, <1>11
  <2>2. PICK k \in DOMAIN items : Key(k) = at \o label /\ src[label] = items[k]
    BY <1>2, <2>1 DEF Describes
  <2>3. cell = [bits |-> write_label(label, n) \o items[k].bits, refs |-> items[k].refs]
    BY <1>11, <2>2
  <2>4. IsLeaf(at, label)'
    BY <1>1, <1>4, <1>10, <2>1, <2>2, <2>3 DEF IsLeaf
  <2>5. IsWritten(at, label)'
    BY <1>1, <1>4, <1>5, <1>9, <2>1, <2>4 DEF IsWritten, SharedBelow
  <2>6. new = << >> /\ << >> \in Seq(Edges) /\ DOMAIN << >> = {}
    BY <1>11
  <2> HIDE DEF cell, new
  <2> QED
    BY <1>1, <1>8, <2>5, <2>6, <1>13, WrittenKeeps
<1>12. CASE ~leaf
  <2>1. s < n
    BY <1>4, <1>5, <1>6, <1>12
  <2>2. \A bit \in Bits : /\ Describes(Below(bit).src, Below(bit).path, Below(bit).n)
                          /\ Below(bit) \in Edges /\ Below(bit).path = Child(at, label, bit)
    BY <1>7, <1>12
  <2>3. cell = [bits |-> write_label(label, n),
                refs |-> <<Child(at, label, 0), Child(at, label, 1)>>]
    BY <1>12
  <2>4. new = <<Below(0), Below(1)>>
    BY <1>12
  <2> HIDE DEF Below
  <2>5. /\ new \in Seq(Edges) /\ Len(new) = 2 /\ DOMAIN new = {1, 2}
        /\ new[1] = Below(0) /\ new[2] = Below(1)
    <3> HIDE DEF Edges
    <3> QED
      BY <2>2, <2>4 DEF Bits
  <2>6. \A j \in DOMAIN new : Describes(new[j].src, new[j].path, new[j].n)
    BY <2>2, <2>5 DEF Bits
  <2>7. Known(Child(at, label, 0))' /\ Known(Child(at, label, 1))'
    <3> DEFINE more == Tail(edges)
    <3>1. more \in Seq(Edges)
      BY <1>1, NextEdge
    <3> HIDE DEF Edges, new, more
    <3>2. /\ 1 \in DOMAIN (new \o more) /\ 2 \in DOMAIN (new \o more)
          /\ (new \o more)[1] = new[1] /\ (new \o more)[2] = new[2]
      BY <2>5, <3>1, FirstTwo
    <3>3. /\ 1 \in DOMAIN edges' /\ 2 \in DOMAIN edges'
          /\ edges'[1] = new[1] /\ edges'[2] = new[2]
      <4>1. edges' = new \o more
        BY <1>8 DEF more
      <4> QED
        BY <3>2, <4>1
    <3> QED
      BY <2>2, <2>5, <3>3 DEF Known, Bits
  <2>8. IsFork(at, label)'
    BY <1>4, <1>10, <2>1, <2>3, <2>7 DEF IsFork
  <2>9. IsWritten(at, label)'
    <3>1. SharedBelow(at, label)'
      BY <1>1, <1>9 DEF SharedBelow
    <3>2. Len(label) <= Left(at)
      BY <1>4, <1>5
    <3> QED
      BY <1>4, <1>5, <2>8, <3>1, <3>2 DEF IsWritten
  <2> HIDE DEF cell, new
  <2> QED
    BY <1>1, <1>8, <2>5, <2>6, <2>9, <1>13, WrittenKeeps
<1> QED
  BY <1>11, <1>12

\* A step of a search touches nothing else.
LEMMA SearchKeeps ==
    ASSUME DictIInv, stage = "ended", SearchIs',
           items' = items, stage' = stage, edges' = edges, tree' = tree
    PROVE  DictIInv'
<1>1. Edges' = Edges /\ ItemTypes' /\ edges = << >>
  BY DEF Edges, DictIInv, ItemTypes, Stages
<1>2. \A path : Known(path)' <=> Known(path)
  BY DEF Known
<1>3. Stages'
  BY <1>1, <1>2 DEF DictIInv, Stages
<1>4. TreeIs'
  <2> SUFFICES ASSUME items # << >>, NEW path \in DOMAIN tree PROVE \E l : IsWritten(path, l)'
    BY DEF TreeIs
  <2>1. PICK l : IsWritten(path, l)
    BY DEF DictIInv, TreeIs
  <2>2. SharedBelow(path, l)' /\ (IsLeaf(path, l)' <=> IsLeaf(path, l))
        /\ (IsFork(path, l)' <=> IsFork(path, l))
    BY <1>2, <2>1 DEF IsWritten, SharedBelow, IsLeaf, IsFork
  <2> QED
    BY <2>1, <2>2 DEF IsWritten
<1>5. EdgesAre'
  BY DEF DictIInv, EdgesAre, Describes
<1> QED
  BY <1>1, <1>3, <1>4, <1>5 DEF DictIInv

\* When the tree is written there are no edges to come.
LEMMA EndedKnown ==
    ASSUME DictIInv, stage = "ended", NEW path, Known(path)
    PROVE  path \in DOMAIN tree
<1>1. edges = << >> /\ DOMAIN << >> = {}
  BY DEF DictIInv, Stages
<1> QED
  BY <1>1 DEF Known

LEMMA LookUpKeeps ==
    ASSUME DictIInv, NEW key \in Words(KeySize), LookUp(key)
    PROVE  DictIInv'
<1>1. /\ stage = "ended" /\ items # << >>
      /\ lookup' = [key |-> key, at |-> << >>, n |-> KeySize, done |-> FALSE, found |-> << >>]
      /\ items' = items /\ stage' = stage /\ edges' = edges /\ tree' = tree
  BY DEF LookUp
<1>2. << >> \in DOMAIN tree
  BY <1>1, EndedKnown DEF DictIInv, Stages
<1>3. Left(<< >>) = KeySize /\ Len(<< >>) = 0
  BY DictAssumption, EmptyPath
<1>4. SearchIs'
  BY <1>1, <1>2, <1>3 DEF SearchIs, Left
<1> QED
  BY <1>1, <1>4, SearchKeeps

GoesFrom(key, at, n) ==
    /\ at \in Seq(Bits) /\ n \in Nat /\ Len(at) + n = KeySize
    /\ key \in Words(KeySize) /\ \A i \in 1 .. Len(at) : key[i] = at[i]

\* A key that goes on from a path is the path and what SubSeq leaves of it.
LEMMA KeyFrom ==
    ASSUME NEW at, NEW n, NEW key, GoesFrom(key, at, n)
    PROVE  LET rest == SubSeq(key, KeySize - n + 1, KeySize)
           IN  /\ rest \in Words(n) /\ rest \in Seq(Bits) /\ Len(rest) = n
               /\ key = at \o rest
<1> DEFINE N == KeySize
           a == Len(at)
           rest == SubSeq(key, N - n + 1, N)
<1>9. /\ N \in Nat /\ at \in Seq(Bits) /\ n \in Nat /\ Len(at) + n = N
      /\ key \in Words(N) /\ \A i \in 1 .. Len(at) : key[i] = at[i]
  BY DictAssumption DEF GoesFrom
<1> HIDE DEF N
<1>1. key \in Seq(Bits) /\ Len(key) = N /\ a \in Nat /\ N - n + 1 = a + 1
  BY <1>9, WordIsSeq
<1>2. \A i \in a + 1 .. N : key[i] \in Bits
  BY <1>1
<1>3. /\ rest \in Seq(Bits) /\ Len(rest) = n
      /\ \A i \in 1 .. n : rest[i] = key[a + i]
  <2> HIDE DEF a
  <2>1. a \in Nat /\ n \in Nat /\ N = a + n
    BY <1>1, <1>9 DEF a
  <2>2. \A i \in 1 .. n : key[a + i] \in Bits
    <3>1. ASSUME NEW i \in 1 .. n PROVE a + i \in a + 1 .. N
      BY <2>1
    <3> QED
      BY <1>2, <3>1
  <2>3. rest = SubSeq(key, a + 1, a + n)
    BY <1>1, <2>1
  <2> HIDE DEF rest
  <2>4. /\ SubSeq(key, a + 1, a + n) \in Seq(Bits)
        /\ Len(SubSeq(key, a + 1, a + n)) = n
        /\ \A i \in 1 .. n : SubSeq(key, a + 1, a + n)[i] = key[a + i]
    BY <2>1, <2>2, Piece
  <2> QED
    BY <2>3, <2>4, Zenon
<1> HIDE DEF rest
<1>4. Joins(at, rest, at \o rest)
  BY <1>3, <1>9, Pair
<1> DEFINE v == at \o rest
<1>5. /\ v \in Seq(Bits) /\ Len(v) = a + n
      /\ \A i \in 1 .. a : v[i] = at[i]
      /\ \A i \in 1 .. n : v[a + i] = rest[i]
  BY <1>3, <1>4 DEF Joins
<1> HIDE DEF v, a
<1>6. ASSUME NEW i \in 1 .. N PROVE v[i] = key[i]
  <2>1. CASE i <= a
    BY <1>1, <1>5, <1>9, <2>1 DEF a
  <2>2. CASE i > a
    <3> DEFINE j == i - a
    <3>1. j \in 1 .. n /\ a + j = i
      BY <1>1, <1>9, <2>2 DEF a
    <3> HIDE DEF j
    <3> QED
      BY <1>3, <1>5, <3>1
  <2> QED
    BY <1>1, <2>1, <2>2
<1>7. key = v
  BY <1>1, <1>5, <1>6, <1>9, SeqEqual DEF a
<1>8. rest \in Words(n)
  BY <1>3, <1>9, SeqIsWord
<1> QED
  BY <1>3, <1>7, <1>8 DEF v, rest, N

\* What a reader makes of a cell of the tree.
LEMMA WrittenIsRead ==
    ASSUME ItemTypes, NEW path, NEW label, IsWritten(path, label)
    PROVE  LET read == ReadLabel(tree[path].bits, Left(path))
           IN  /\ read.label = label
               /\ Canonical(tree[path].bits, label, Left(path))
               /\ IsLeaf(path, label) =>
                     \E k \in DOMAIN items :
                        /\ Key(k) = path \o label
                        /\ items[k] = [bits |-> read.rest, refs |-> tree[path].refs]
<1> DEFINE n == Left(path)
           written == write_label(label, n)
<1>1. n \in Nat /\ label \in Seq(Bits) /\ Len(label) <= n
  BY DictAssumption DEF IsWritten, IsPath, Left
<1> HIDE DEF n
<1>2. \A rest \in Seq(Bits) : /\ ReadLabel(written \o rest, n) = [label |-> label, rest |-> rest]
                              /\ Canonical(written \o rest, label, n)
  BY <1>1, LabelIsRead, LabelIsCanonical
<1>3. CASE IsLeaf(path, label)
  <2>1. PICK k \in DOMAIN items :
          /\ Key(k) = path \o label
          /\ tree[path] = [bits |-> written \o items[k].bits, refs |-> items[k].refs]
    BY <1>3 DEF IsLeaf, n
  <2>2. items[k].bits \in Seq(Bits) /\ items[k] = [bits |-> items[k].bits, refs |-> items[k].refs]
    BY DEF ItemTypes, IsCell
  <2> DEFINE rest == items[k].bits
  <2>3. tree[path].bits = written \o rest /\ tree[path].refs = items[k].refs
    BY <2>1
  <2> HIDE DEF rest, written
  <2>4. /\ ReadLabel(tree[path].bits, n) = [label |-> label, rest |-> rest]
        /\ Canonical(tree[path].bits, label, n)
    BY <1>2, <2>2, <2>3 DEF rest
  <2>5. items[k] = [bits |-> rest, refs |-> tree[path].refs] /\ Key(k) = path \o label
    BY <2>1, <2>2, <2>3 DEF rest
  <2>6. ReadLabel(tree[path].bits, n).label = label /\ ReadLabel(tree[path].bits, n).rest = rest
    BY <2>4
  <2> QED
    BY <2>4, <2>5, <2>6 DEF n
<1>4. CASE IsFork(path, label)
  <2>1. tree[path].bits = written /\ ~IsLeaf(path, label)
    <3>1. Len(label) < n
      BY <1>4 DEF IsFork, n
    <3>2. ~IsLeaf(path, label)
      BY <1>1, <3>1 DEF IsLeaf, n
    <3> QED
      BY <1>4, <3>2 DEF IsFork, n
  <2>2. written \in Seq(Bits) /\ << >> \in Seq(Bits)
    BY <1>1, LabelIsRead
  <2> HIDE DEF written
  <2>3. written \o << >> = written
    BY <2>2, ConcatEmptySeq
  <2>4. /\ ReadLabel(written, n) = [label |-> label, rest |-> << >>]
        /\ Canonical(written, label, n)
    BY <1>2, <2>2, <2>3
  <2> QED
    BY <2>1, <2>4 DEF n
<1> QED
  BY <1>3, <1>4 DEF IsWritten

\* A search before and after a cell is read.
SearchOf(key, at, n, done, found) ==
    [key |-> key, at |-> at, n |-> n, done |-> done, found |-> found]

LEMMA SearchGoesOn ==
    ASSUME NEW key, NEW at, NEW n, NEW done, NEW found, NEW to, NEW m
    PROVE  [SearchOf(key, at, n, done, found) EXCEPT !.at = to, !.n = m]
              = SearchOf(key, to, m, done, found)
<1>1. [SearchOf(key, at, n, done, found) EXCEPT !.at = to] = SearchOf(key, to, n, done, found)
  BY DEF SearchOf
<1>2. [SearchOf(key, to, n, done, found) EXCEPT !.n = m] = SearchOf(key, to, m, done, found)
  BY DEF SearchOf
<1>3. \A l, a, b : [l EXCEPT !.at = a, !.n = b] = [[l EXCEPT !.at = a] EXCEPT !.n = b]
  OBVIOUS
<1> QED
  BY <1>1, <1>2, <1>3

LEMMA SearchEnds ==
    ASSUME NEW key, NEW at, NEW n, NEW done, NEW found, NEW got
    PROVE  [SearchOf(key, at, n, done, found) EXCEPT !.done = TRUE, !.found = got]
              = SearchOf(key, at, n, TRUE, got)
<1>0. PICK yes : yes = TRUE
  OBVIOUS
<1>1. [SearchOf(key, at, n, done, found) EXCEPT !.done = yes] = SearchOf(key, at, n, yes, found)
  BY DEF SearchOf
<1>2. [SearchOf(key, at, n, yes, found) EXCEPT !.found = got] = SearchOf(key, at, n, yes, got)
  BY DEF SearchOf
<1>3. \A l, b, c : [l EXCEPT !.done = b, !.found = c] = [[l EXCEPT !.done = b] EXCEPT !.found = c]
  OBVIOUS
<1>4. [SearchOf(key, at, n, done, found) EXCEPT !.done = yes, !.found = got] = SearchOf(key, at, n, yes, got)
  BY <1>1, <1>2, <1>3
<1> QED
  BY <1>0, <1>4, Zenon

LEMMA ReadCellKeeps == ASSUME DictIInv, ReadCell PROVE DictIInv'
<1>1. lookup # None /\ ~lookup.done /\ ItemTypes
  BY DEF ReadCell, DictIInv
<1>2. /\ stage = "ended"
      /\ items' = items /\ stage' = stage /\ edges' = edges /\ tree' = tree
  BY <1>1 DEF ReadCell, DictIInv, Stages
<1>3. PICK key, at, n, found :
        key = lookup.key /\ at = lookup.at /\ n = lookup.n /\ found = lookup.found
  OBVIOUS
<1>4. /\ lookup = [key |-> key, at |-> at, n |-> n, done |-> FALSE, found |-> found]
      /\ items # << >> /\ key \in Words(KeySize) /\ at \in DOMAIN tree /\ n = Left(at)
      /\ \A i \in 1 .. Len(at) : key[i] = at[i]
  BY <1>1, <1>3 DEF DictIInv, SearchIs
<1>5. PICK label : IsWritten(at, label)
  BY <1>4 DEF DictIInv, TreeIs
<1> DEFINE cell == tree[at]
           read == ReadLabel(cell.bits, n)
           rest == SubSeq(key, KeySize - n + 1, KeySize)
           L == Len(label)
           matches == L <= n /\ SubSeq(rest, 1, L) = label
<1>6. /\ at \in Seq(Bits) /\ KeySize \in Nat /\ n \in Nat /\ Len(at) + n = KeySize
      /\ label \in Seq(Bits) /\ L \in Nat /\ L <= n
  BY DictAssumption, <1>4, <1>5 DEF IsWritten, IsPath, Left
<1>7. rest \in Words(n) /\ rest \in Seq(Bits) /\ Len(rest) = n /\ key = at \o rest
  <2>1. GoesFrom(key, at, n)
    BY <1>4, <1>6 DEF GoesFrom
  <2> QED
    BY <2>1, KeyFrom
<1>8. /\ read.label = label
      /\ IsLeaf(at, label) =>
            \E k \in DOMAIN items :
               /\ Key(k) = at \o label
               /\ items[k] = [bits |-> read.rest, refs |-> cell.refs]
  BY <1>1, <1>4, <1>5, WrittenIsRead
<1>9. lookup' = IF matches /\ L < n
                THEN [lookup EXCEPT !.at = cell.refs[rest[L + 1] + 1], !.n = n - L - 1]
                ELSE [lookup EXCEPT !.done = TRUE,
                                    !.found = IF matches
                                            THEN <<[bits |-> read.rest, refs |-> cell.refs]>>
                                            ELSE << >>]
  BY <1>3, <1>8 DEF ReadCell
<1>10. matches <=> \A i \in 1 .. L : rest[i] = label[i]
  <2> HIDE DEF rest
  <2>1. \A i \in 1 .. L : rest[i] \in Bits
    BY <1>6, <1>7
  <2>2. /\ SubSeq(rest, 1, L) \in Seq(Bits)
        /\ Len(SubSeq(rest, 1, L)) = (IF 1 <= L THEN L - 1 + 1 ELSE 0)
        /\ \A i \in 1 .. L - 1 + 1 : SubSeq(rest, 1, L)[i] = rest[1 + i - 1]
    BY <1>6, <2>1, SubSeqProperties
  <2> DEFINE start == SubSeq(rest, 1, L)
  <2>3. start \in Seq(Bits) /\ Len(start) = L /\ \A i \in 1 .. L : start[i] = rest[i]
    <3> HIDE DEF L
    <3>1. (IF 1 <= L THEN L - 1 + 1 ELSE 0) = L /\ L - 1 + 1 = L
      BY <1>6
    <3>2. \A i \in 1 .. L : 1 + i - 1 = i
      OBVIOUS
    <3> QED
      BY <2>2, <3>1, <3>2
  <2> HIDE DEF start
  <2>4. start = label <=> \A i \in 1 .. L : rest[i] = label[i]
    BY <1>6, <2>3, SeqEqual
  <2> QED
    BY <1>6, <2>4 DEF start
<1>11. SearchIs'
  <2>1. CASE matches /\ L < n
    <3> DEFINE bit == rest[L + 1]
               next == Child(at, label, bit)
    <3>1. IsFork(at, label)
      BY <1>4, <1>5, <1>6, <2>1 DEF IsWritten, IsLeaf
    <3>2. bit \in Bits
      <4> HIDE DEF rest
      <4> QED
        BY <1>6, <1>7, <2>1
    <3>3. cell.refs[bit + 1] = next /\ next \in DOMAIN tree
      <4>1. cell.refs = <<Child(at, label, 0), Child(at, label, 1)>>
        BY <3>1 DEF IsFork
      <4>2. \A b \in Bits : Child(at, label, b) \in DOMAIN tree
        BY <1>2, <3>1, EndedKnown DEF IsFork, Bits
      <4> HIDE DEF bit, cell
      <4>3. bit = 0 \/ bit = 1
        BY <3>2 DEF Bits
      <4>4. cell.refs[0 + 1] = Child(at, label, 0) /\ cell.refs[1 + 1] = Child(at, label, 1)
        BY <4>1
      <4> QED
        BY <3>2, <4>2, <4>3, <4>4
    <3>4. lookup' = [key |-> key, at |-> next, n |-> n - L - 1, done |-> FALSE,
                     found |-> found]
      <4>1. lookup' = [lookup EXCEPT !.at = next, !.n = n - L - 1]
        BY <1>9, <2>1, <3>3
      <4> HIDE DEF next, L
      <4> QED
        BY <1>4, <4>1, SearchGoesOn DEF SearchOf
    <3>5. /\ next \in Seq(Bits) /\ Len(next) = Len(at) + L + 1
          /\ \A i \in 1 .. Len(next) : key[i] = next[i]
      <4> DEFINE behind == SubSeq(rest, L + 2, Len(rest))
      <4>1. L \in 0 .. n - 1 /\ label \in Words(L) /\ \A i \in 1 .. L : rest[i] = label[i]
        BY <1>6, <1>10, <2>1, SeqIsWord
      <4>2. behind \in Words(n - L - 1) /\ rest = Onward(label, bit, behind)
        <5> HIDE DEF rest, L
        <5> QED
          BY <1>6, <1>7, <4>1, Cut
      <4>3. behind \in Seq(Bits)
        <5>1. n - L - 1 \in Nat
          BY <1>6, <2>1
        <5> HIDE DEF behind, L
        <5> QED
          BY <4>2, <5>1, WordIsSeq
      <4> HIDE DEF behind, bit
      <4>4. /\ next \in Seq(Bits) /\ Len(next) = Len(at) + L + 1
            /\ at \o Onward(label, bit, behind) = next \o behind
        BY <1>6, <3>2, <4>3, OnwardFrom DEF Child
      <4> HIDE DEF rest
      <4> HIDE DEF next, L
      <4>5. Joins(next, behind, next \o behind)
        BY <4>3, <4>4, Pair
      <4>6. key = next \o behind
        BY <1>7, <4>2, <4>4
      <4> QED
        BY <4>4, <4>5, <4>6 DEF Joins
    <3>6. n - L - 1 = Left(next)
      <4> HIDE DEF next
      <4> QED
        BY <1>6, <3>5 DEF Left
    <3> HIDE DEF next, L
    <3>7. lookup' # None
      BY <3>4 DEF None
    <3> QED
      BY <1>2, <1>4, <3>3, <3>4, <3>5, <3>6, <3>7 DEF SearchIs, Left
  <2>2. CASE matches /\ ~(L < n)
    <3>1. L = n
      <4> HIDE DEF L
      <4> QED
        BY <1>6, <2>2
    <3>2. rest = label
      <4> HIDE DEF rest
      <4> QED
        BY <1>6, <1>7, <1>10, <2>2, <3>1, SeqEqual
    <3>3. IsLeaf(at, label)
      BY <1>4, <1>5, <3>1 DEF IsWritten, IsFork
    <3>4. PICK k \in DOMAIN items :
            /\ Key(k) = at \o label
            /\ items[k] = [bits |-> read.rest, refs |-> cell.refs]
      BY <1>8, <3>3
    <3>5. Key(k) = key
      BY <1>7, <3>2, <3>4
    <3>6. lookup' = [lookup EXCEPT !.done = TRUE, !.found = <<items[k]>>]
      BY <1>9, <2>2, <3>4
    <3>7. lookup' = [key |-> key, at |-> at, n |-> n, done |-> TRUE, found |-> <<items[k]>>]
      BY <1>4, <3>6, SearchEnds DEF SearchOf
    <3>8. \A m \in DOMAIN items : Key(m) = key => m = k
      BY <1>1, <3>5, KeysDiffer
    <3>9. IsFound(key, <<items[k]>>)
      BY <3>5, <3>8 DEF IsFound
    <3>10. lookup' # None /\ IsFound(lookup'.key, lookup'.found)
      BY <3>7, <3>9 DEF None
    <3> QED
      BY <1>2, <1>4, <3>7, <3>10 DEF SearchIs, IsFound, Key
  <2>3. CASE ~matches
    <3>1. lookup' = [key |-> key, at |-> at, n |-> n, done |-> TRUE, found |-> << >>]
      <4>1. lookup' = [lookup EXCEPT !.done = TRUE, !.found = << >>]
        BY <1>9, <2>3
      <4> QED
        BY <1>4, <4>1, SearchEnds DEF SearchOf
    <3>2. \A k \in DOMAIN items : Key(k) # key
      <4> SUFFICES ASSUME NEW k \in DOMAIN items, Key(k) = key PROVE FALSE
        OBVIOUS
      <4>1. rest \in Words(Left(at)) /\ Key(k) = at \o rest
        BY <1>4, <1>7
      <4>2. \A i \in 1 .. L : rest[i] = label[i]
        BY <1>5, <4>1 DEF IsWritten, SharedBelow
      <4> QED
        BY <1>10, <2>3, <4>2
    <3>3. IsFound(key, << >>)
      BY <3>2 DEF IsFound
    <3>4. lookup' # None /\ IsFound(lookup'.key, lookup'.found)
      BY <3>1, <3>3 DEF None
    <3> QED
      BY <1>2, <1>4, <3>1, <3>4 DEF SearchIs, IsFound, Key
  <2> QED
    BY <2>1, <2>2, <2>3
<1> QED
  BY <1>2, <1>11, SearchKeeps

LEMMA NextDictIInv == ASSUME DictIInv, [DictNext]_dictVars PROVE DictIInv'
<1>1. ASSUME NEW index \in 0 .. 2 ^ KeySize - 1, NEW value \in Values, store_cell(index, value)
      PROVE  DictIInv'
  BY DictAssumption, <1>1, StoreKeeps
<1>2. ASSUME NEW index \in 0 .. 2 ^ KeySize - 1, NEW name \in Names, store_ref(index, name)
      PROVE  DictIInv'
  <2>1. IsCell([bits |-> << >>, refs |-> <<name>>])
    BY DEF IsCell
  <2> QED
    BY <1>2, <2>1, StoreKeeps DEF store_ref
<1>3. CASE end_dict
  BY <1>3, EndKeeps
<1>4. CASE write_edge
  BY <1>4, WriteEdgeKeeps
<1>5. ASSUME NEW key \in Words(KeySize), LookUp(key) PROVE DictIInv'
  BY <1>5, LookUpKeeps
<1>6. CASE ReadCell
  BY <1>6, ReadCellKeeps
<1>7. CASE UNCHANGED dictVars
  <2>1. items' = items /\ stage' = stage /\ edges' = edges /\ tree' = tree /\ lookup' = lookup
    BY <1>7 DEF dictVars
  <2>2. Edges' = Edges /\ ItemTypes'
    BY <2>1 DEF Edges, DictIInv, ItemTypes
  <2>3. \A path : Known(path)' <=> Known(path)
    BY <2>1 DEF Known
  <2>4. Stages'
    BY <2>1, <2>2, <2>3 DEF DictIInv, Stages
  <2>5. \A path, l : IsWritten(path, l)' <=> IsWritten(path, l)
    BY <2>1, <2>3 DEF IsWritten, SharedBelow, IsLeaf, IsFork
  <2>6. TreeIs'
    BY <2>1, <2>5 DEF DictIInv, TreeIs
  <2>7. EdgesAre'
    BY <2>1 DEF DictIInv, EdgesAre, Describes
  <2>8. SearchIs'
    BY <2>1 DEF DictIInv, SearchIs, IsFound
  <2> QED
    BY <2>2, <2>4, <2>6, <2>7, <2>8 DEF DictIInv
<1> QED
  BY <1>1, <1>2, <1>3, <1>4, <1>5, <1>6, <1>7 DEF DictNext

-----------------------------------------------------------------------------
(* What the invariant says of a search and of the labels                    *)

LEMMA InvariantReadsBack == ASSUME DictIInv PROVE DictReadBack
<1>1. stage # "failed"
  BY DEF DictIInv, Stages
<1>2. lookup # None /\ lookup.done => IsFound(lookup.key, lookup.found)
  BY DEF DictIInv, SearchIs
<1> QED
  BY <1>1, <1>2 DEF DictReadBack, IsFound, Key

LEMMA InvariantHasLabels == ASSUME DictIInv PROVE LabelsCanonical
<1> SUFFICES ASSUME items # << >>, NEW path \in DOMAIN tree
             PROVE  Canonical(tree[path].bits, ReadLabel(tree[path].bits, Left(path)).label,
                              Left(path))
  BY DEF LabelsCanonical, Canonical, Left
<1>1. PICK label : IsWritten(path, label)
  BY DEF DictIInv, TreeIs
<1>2. ItemTypes
  BY DEF DictIInv
<1> QED
  BY <1>1, <1>2, WrittenIsRead

\* The invariant holds in every state of the dictionary.
THEOREM DictIsInvariant ==
    DictInit /\ [][DictNext]_dictVars => []DictIInv
<1>1. DictInit => DictIInv
  BY InitDictIInv
<1>2. DictIInv /\ [DictNext]_dictVars => DictIInv'
  BY NextDictIInv
<1> QED
  BY <1>1, <1>2, PTL

\* For every key size and all items: a contract that looks a key up finds the
\* cell stored under it (store_cell, store_ref), and nothing under another key;
\* and fork_map's assertion holds whenever write_edge calls it.
THEOREM DictReadsBack ==
    DictInit /\ [][DictNext]_dictVars => []DictReadBack
<1>1. DictIInv => DictReadBack
  BY InvariantReadsBack
<1> QED
  BY <1>1, DictIsInvariant, PTL

\* For every key size and all items: each label has the form that the block
\* format's own writer gives it (detect_label_type, write_label).
THEOREM DictLabelsCanonical ==
    DictInit /\ [][DictNext]_dictVars => []LabelsCanonical
<1>1. DictIInv => LabelsCanonical
  BY InvariantHasLabels
<1> QED
  BY <1>1, DictIsInvariant, PTL

================================================================================
