----------------------------- MODULE CellDataProofs -----------------------------
(***************************************************************************)
(* What a cell that was taken from a builder may still become, and what a  *)
(* slice reads of it, for every set of items and any number of stores.     *)
(***************************************************************************)
EXTENDS CellData, DataLemmas, TLAPS

IsRef(item) == item.kind \in {"ref", "maybe_ref"}

\* What the application stores: a reference is a leaf, a builder's cell or none,
\* what is copied is a builder's cell, and the inner builder knows of no other.
Constants ==
    /\ \A item \in Outer :
          /\ IsRef(item) => item.datum \in {"leaf", "inner"} \/ item = NoCell
          /\ item.kind = "cell" => item.datum = "inner"
    /\ \A item \in Inner :
          /\ IsRef(item) => item.datum = "leaf" \/ item = NoCell
          /\ item.kind # "cell"

\* What a slice is asked for.
Asked == Outer \cup Inner \cup {NoCell}
ItemSeqs == Seq(Asked)

Types ==
    /\ bits = [b \in Builders |-> bits[b]]
    /\ refs["inner"] \in Seq({"leaf"}) /\ refs["outer"] \in Seq({"leaf", "inner"})
    /\ refs = [b \in Builders |-> refs[b]]
    /\ stored \in [Builders -> ItemSeqs]
    /\ sealed = [b \in Builders |-> sealed[b]]
    /\ ended \subseteq Builders
    /\ later \in [Builders -> SUBSET Builders]

RefersToInner(b) == \E k \in DOMAIN refs[b] : refs[b][k] = "inner"

\* A builder's list refers to the inner cell only because an item says so.
RefsWereStored ==
    \A b \in Builders :
        RefersToInner(b) =>
            \E k \in DOMAIN stored[b] : IsRef(stored[b][k]) /\ stored[b][k].datum = "inner"

\* A cell changes with its own builder, or with the inner one while its list
\* refers to that.
ChangesHaveACause ==
    \A b \in ended :
        \/ Content(b) = sealed[b]
        \/ b \in later[b]
        \/ RefersToInner(b) /\ "inner" \in later[b]

IInv == Types /\ RefsWereStored /\ ChangesHaveACause

-----------------------------------------------------------------------------
\* No reference to the inner cell is no look at it.
LEMMA ContentOfItsOwn ==
    ASSUME NEW b \in Builders, ~RefersToInner(b), bits'[b] = bits[b], refs'[b] = refs[b]
    PROVE  Content(b)' = Content(b)
BY DEF Content, RefersToInner

\* What a list refers to after others have been appended to it.
LEMMA Appended ==
    ASSUME NEW S, NEW s \in Seq(S), NEW t \in Seq(S), NEW k \in DOMAIN (s \o t)
    PROVE  \/ k \in DOMAIN s /\ (s \o t)[k] = s[k]
           \/ \E l \in DOMAIN t : (s \o t)[k] = t[l]
<1>1. Len(s \o t) = Len(s) + Len(t) /\ k \in 1 .. Len(s) + Len(t)
  OBVIOUS
<1>2. CASE k <= Len(s)
  BY <1>1, <1>2
<1>3. CASE k > Len(s)
  <2>1. k - Len(s) \in DOMAIN t /\ (s \o t)[k] = t[k - Len(s)]
    BY <1>1, <1>3
  <2> QED
    BY <2>1
<1> QED
  BY <1>1, <1>2, <1>3

\* What was in a list is still in it.
LEMMA StillThere ==
    ASSUME NEW S, NEW s \in Seq(S), NEW t \in Seq(S)
    PROVE  \A k \in DOMAIN s : k \in DOMAIN (s \o t) /\ (s \o t)[k] = s[k]
OBVIOUS

May(b) == IF b = "outer" THEN Outer ELSE Inner
Kinds(b) == IF b = "outer" THEN {"leaf", "inner"} ELSE {"leaf"}

\* What a store adds: the inner cell is referred to by an item that says so.
LEMMA WhatIsAdded ==
    ASSUME Constants, Types, NEW b \in Builders, NEW item \in May(b)
    PROVE  /\ NewRefs(item) \in Seq(Kinds(b))
           /\ Items(item) \in ItemSeqs
           /\ (\E k \in DOMAIN NewRefs(item) : NewRefs(item)[k] = "inner") =>
                 IsRef(item) /\ item.datum = "inner" /\ Items(item) = <<item>>
<1>1. CASE item.kind = "cell"
  <2>1. b = "outer" /\ item.datum = "inner"
    BY <1>1 DEF Constants, May, Builders
  <2>2. NewRefs(item) = refs["inner"] /\ Items(item) = stored["inner"]
    BY <1>1, <2>1 DEF NewRefs, Items
  <2>3. refs["inner"] \in Seq(Kinds(b))
    BY <2>1 DEF Kinds, Types
  <2>4. \A k \in DOMAIN refs["inner"] : refs["inner"][k] = "leaf"
    BY DEF Types
  <2> QED
    BY <2>2, <2>3, <2>4 DEF Types, Builders
<1>2. CASE IsRef(item)
  <2>1. item.datum \in Kinds(b) \/ item = NoCell
    BY <1>2 DEF Constants, May, Kinds, Builders
  <2>2. \/ NewRefs(item) = <<item.datum>> /\ AsHeld(item) = item /\ item # NoCell
        \/ NewRefs(item) = << >>
    BY <1>2 DEF NewRefs, MaybeCell, IsRef, AsHeld, NoCell, IsTrue
  <2>3. Items(item) = <<AsHeld(item)>> /\ AsHeld(item) \in Asked
    BY <1>2 DEF Items, IsRef, AsHeld, Asked, May
  <2>4. /\ item # NoCell => <<item.datum>> \in Seq(Kinds(b))
        /\ << >> \in Seq(Kinds(b))
    BY <2>1
  <2>5. \A k \in DOMAIN NewRefs(item) : NewRefs(item)[k] = item.datum
    BY <2>2
  <2>6. NewRefs(item) \in Seq(Kinds(b))
    BY <2>2, <2>4
  <2>7. <<AsHeld(item)>> \in ItemSeqs
    BY <2>3 DEF ItemSeqs
  <2>8. (\E k \in DOMAIN NewRefs(item) : NewRefs(item)[k] = "inner") => Items(item) = <<item>>
    BY <2>2, <2>3
  <2> QED
    BY <1>2, <2>3, <2>5, <2>6, <2>7, <2>8
<1>3. CASE item.kind # "cell" /\ ~IsRef(item)
  <2>1. NewRefs(item) = << >>
    BY <1>3 DEF NewRefs, IsRef
  <2>2. Items(item) = <<item>> /\ <<item>> \in ItemSeqs
    BY <1>3 DEF Items, AsHeld, IsRef, ItemSeqs, Asked, May
  <2> QED
    BY <2>1, <2>2
<1> QED
  BY <1>1, <1>2, <1>3

LEMMA InitIInv == Init => IInv
<1> SUFFICES ASSUME Init PROVE IInv
  OBVIOUS
<1>1. Types
  BY DEF Init, Types, ItemSeqs, Builders
<1>2. RefsWereStored
  BY DEF Init, RefsWereStored, RefersToInner
<1>3. ChangesHaveACause
  BY DEF Init, ChangesHaveACause
<1> QED
  BY <1>1, <1>2, <1>3 DEF IInv

\* A store that raises leaves references and items alone; what it has written
\* stays in the builder and in the cell.
LEMMA StoreIInv ==
    ASSUME Constants, IInv, NEW b \in Builders, NEW item \in May(b), Store(b, item)
    PROVE  IInv'
<1>1. /\ \A c \in Builders : c # b => bits'[c] = bits[c] /\ refs'[c] = refs[c]
                                      /\ stored'[c] = stored[c]
      /\ \/ refs' = refs /\ stored' = stored
         \/ /\ refs' = [refs EXCEPT ![b] = refs[b] \o NewRefs(item)]
            /\ stored' = [stored EXCEPT ![b] = stored[b] \o Items(item)]
            /\ refs'[b] = refs[b] \o NewRefs(item)
            /\ stored'[b] = stored[b] \o Items(item)
  BY DEF Store, IInv, Types
<1>2. /\ later' = [c \in Builders |-> IF c \in ended THEN later[c] \cup {b} ELSE {}]
      /\ ended' = ended /\ sealed' = sealed
  BY DEF Store
<1>3. /\ refs[b] \in Seq(Kinds(b)) /\ stored[b] \in ItemSeqs
      /\ NewRefs(item) \in Seq(Kinds(b)) /\ Items(item) \in ItemSeqs
  BY WhatIsAdded DEF IInv, Types, Kinds, Builders
<1>4. Types'
  <2>1. refs'[b] \in Seq(Kinds(b)) /\ stored'[b] \in ItemSeqs
    <3>1. refs[b] \o NewRefs(item) \in Seq(Kinds(b)) /\ stored[b] \o Items(item) \in ItemSeqs
      BY <1>3 DEF ItemSeqs
    <3> QED
      BY <1>1, <1>3, <3>1
  <2>2. \A c \in Builders : refs'[c] \in Seq(Kinds(c)) /\ stored'[c] \in ItemSeqs
    BY <1>1, <2>1 DEF IInv, Types, Kinds, Builders
  <2>3. bits' = [c \in Builders |-> bits'[c]] /\ refs' = [c \in Builders |-> refs'[c]]
    BY <1>1 DEF Store, IInv, Types
  <2>4. stored' \in [Builders -> ItemSeqs]
    BY <1>1, <2>2 DEF IInv, Types
  <2>5. later' \in [Builders -> SUBSET Builders]
    BY <1>2 DEF IInv, Types
  <2> QED
    BY <1>2, <2>2, <2>3, <2>4, <2>5 DEF IInv, Types, Kinds, Builders
<1>5. ASSUME NEW c \in Builders, RefersToInner(c)
      PROVE  RefersToInner(c)'
  <2>1. PICK k \in DOMAIN refs[c] : refs[c][k] = "inner"
    BY <1>5 DEF RefersToInner
  <2>2. CASE refs'[c] = refs[c]
    BY <2>1, <2>2 DEF RefersToInner
  <2>3. CASE c = b /\ refs'[b] = refs[b] \o NewRefs(item)
    <3>1. k \in DOMAIN (refs[b] \o NewRefs(item)) /\ (refs[b] \o NewRefs(item))[k] = refs[b][k]
      BY <1>3, <2>1, <2>3, StillThere
    <3> QED
      BY <2>1, <2>3, <3>1 DEF RefersToInner
  <2> QED
    BY <1>1, <2>2, <2>3
<1>6. RefsWereStored'
  <2> SUFFICES ASSUME NEW c \in Builders, RefersToInner(c)'
               PROVE  \E k \in DOMAIN stored'[c] :
                         IsRef(stored'[c][k]) /\ stored'[c][k].datum = "inner"
    BY DEF RefsWereStored
  <2>1. CASE refs'[c] = refs[c] /\ stored'[c] = stored[c]
    BY <2>1 DEF RefersToInner, IInv, RefsWereStored
  <2>2. CASE /\ c = b /\ refs'[b] = refs[b] \o NewRefs(item)
             /\ stored'[b] = stored[b] \o Items(item)
    <3>1. PICK k \in DOMAIN refs'[b] : refs'[b][k] = "inner"
      BY <2>2 DEF RefersToInner
    <3>2. CASE \E l \in DOMAIN NewRefs(item) : NewRefs(item)[l] = "inner"
      <4>1. IsRef(item) /\ item.datum = "inner" /\ Items(item) = <<item>>
        BY <3>2, WhatIsAdded DEF IInv
      <4>2. stored[b] \in Seq(Asked)
        BY <1>3 DEF ItemSeqs
      <4>3. /\ Len(stored[b]) + 1 \in DOMAIN (stored[b] \o <<item>>)
            /\ (stored[b] \o <<item>>)[Len(stored[b]) + 1] = item
        BY <4>2
      <4> QED
        BY <2>2, <4>1, <4>3
    <3>3. CASE k \in DOMAIN refs[b] /\ refs'[b][k] = refs[b][k]
      <4>1. PICK l \in DOMAIN stored[b] :
                IsRef(stored[b][l]) /\ stored[b][l].datum = "inner"
        BY <3>1, <3>3 DEF IInv, RefsWereStored, RefersToInner
      <4>2. l \in DOMAIN stored'[b] /\ stored'[b][l] = stored[b][l]
        BY <1>3, <2>2, <4>1, StillThere DEF ItemSeqs
      <4> QED
        BY <2>2, <4>1, <4>2
    <3> QED
      BY <1>3, <2>2, <3>1, <3>2, <3>3, Appended
  <2> QED
    BY <1>1, <2>1, <2>2
<1>7. ChangesHaveACause'
  <2> SUFFICES ASSUME NEW c \in ended, c # b, ~(RefersToInner(c)' /\ b = "inner"),
                      ~(RefersToInner(c)' /\ "inner" \in later'[c])
               PROVE  Content(c)' = sealed[c] \/ c \in later'[c]
    BY <1>2 DEF ChangesHaveACause, IInv, Types
  <2>1. c \in Builders /\ bits'[c] = bits[c] /\ refs'[c] = refs[c] /\ later[c] \subseteq later'[c]
    BY <1>1, <1>2 DEF IInv, Types
  <2>2. Content(c) = sealed[c] \/ c \in later'[c]
    BY <1>5, <2>1 DEF IInv, ChangesHaveACause
  <2>3. Content(c)' = Content(c)
    <3>1. CASE RefersToInner(c)
      <4>1. b = "outer" /\ bits'["inner"] = bits["inner"] /\ refs'["inner"] = refs["inner"]
        BY <1>1, <1>5, <2>1, <3>1 DEF Builders
      <4> QED
        BY <2>1, <4>1 DEF Content
    <3>2. CASE ~RefersToInner(c)
      BY <2>1, <3>2, ContentOfItsOwn
    <3> QED
      BY <3>1, <3>2
  <2> QED
    BY <2>2, <2>3
<1> QED
  BY <1>4, <1>6, <1>7 DEF IInv

\* Only the builders' part of the state is concerned.
LEMMA QuietIInv == ASSUME IInv, UNCHANGED builderVars PROVE IInv'
BY DEF builderVars, IInv, Types, RefsWereStored, ChangesHaveACause, RefersToInner, Content

LEMMA NextIInv == ASSUME Constants, IInv, [Next]_cellVars PROVE IInv'
<1>1. ASSUME NEW item \in Outer, Store("outer", item) PROVE IInv'
  BY <1>1, StoreIInv DEF May, Builders
<1>2. ASSUME NEW item \in Inner, Store("inner", item) PROVE IInv'
  BY <1>2, StoreIInv DEF May, Builders
<1>3. ASSUME NEW b \in Builders, EndCell(b) PROVE IInv'
  <2>1. bits' = bits /\ refs' = refs /\ stored' = stored /\ later' = later
    BY <1>3 DEF EndCell
  <2>2. \A c \in Builders : Content(c)' = Content(c) /\ (RefersToInner(c)' <=> RefersToInner(c))
    BY <2>1 DEF Content, RefersToInner
  <2>3. Types' /\ RefsWereStored'
    BY <1>3, <2>1, <2>2 DEF EndCell, IInv, Types, RefsWereStored
  <2>4. ChangesHaveACause'
    BY <1>3, <2>1, <2>2 DEF EndCell, IInv, Types, ChangesHaveACause
  <2> QED
    BY <2>3, <2>4 DEF IInv
<1>4. CASE UNCHANGED builderVars
  BY <1>4, QuietIInv
<1>5. CASE Read \/ Preload \/ EndParse \/ \E b \in Builders : BeginParse(b)
  BY <1>4, <1>5 DEF Read, Preload, EndParse, BeginParse
<1>6. CASE UNCHANGED cellVars
  BY <1>4, <1>6 DEF cellVars
<1> QED
  BY <1>1, <1>2, <1>3, <1>5, <1>6 DEF Next

LEMMA TakenFollow == ASSUME IInv PROVE TakenCellsStay
BY DEF IInv, Types, RefsWereStored, ChangesHaveACause, TakenCellsStay, IsRef

(* end_cell hands out the builder's own bit string and list, so a cell can  *)
(* change after it was taken; but only when something is stored in its own  *)
(* builder, or in the builder of a cell that an item of its own refers to.  *)
(* Copying a cell with store_cell is no such tie, and neither is a store    *)
(* that raised before it came to the reference.                             *)
THEOREM CellsStay == Constants /\ Spec => []TakenCellsStay
<1> SUFFICES ASSUME Constants PROVE Spec => []TakenCellsStay
  OBVIOUS
<1>1. IInv /\ [Next]_cellVars => IInv'
  BY NextIInv
<1>2. IInv => TakenCellsStay
  BY TakenFollow
<1> QED
  BY <1>1, <1>2, InitIInv, PTL DEF Spec

-----------------------------------------------------------------------------
(* Numbers in bits                                                         *)

\* The w bits of s behind the a-th are those of n.
Says(s, a, w, n) == n < Power(w) /\ \A i \in 1 .. w : s[a + i] = (n \div Power(w - i)) % 2

\* The w bits of t behind the b-th are those of s behind the a-th.
Agree(t, b, s, a, w) == \A i \in 1 .. w : t[b + i] = s[a + i]

LEMMA SaysMoves ==
    ASSUME NEW s, NEW t, NEW a, NEW b, NEW w, NEW n, Says(s, a, w, n), Agree(t, b, s, a, w)
    PROVE  Says(t, b, w, n)
BY DEF Says, Agree

LEMMA NumberSaid ==
    ASSUME NEW s \in Seq({0, 1}), NEW n \in Nat, Says(s, 0, Len(s), n)
    PROVE  Number(s) = n
<1> DEFINE w == Len(s)
           g == [i \in 0 .. w |-> n \div Power(w - i)]
           Is(f) == f = [i \in 0 .. w |-> IF i = 0 THEN 0 ELSE 2 * f[i - 1] + s[i]]
           f == CHOOSE f : Is(f)
<1>1. w \in Nat /\ \A i \in 1 .. w : s[i] \in {0, 1}
  OBVIOUS
<1>2. Number(s) = f[w]
  BY DEF Number
<1>3. IsValue(f, 2, s, w)
  <2>1. \E h : Is(h)
    <3>1. \E h : IsValue(h, 2, s, w)
      <4> HIDE DEF w
      <4> QED
        BY <1>1, ValueThere
    <3> QED
      BY <3>1 DEF IsValue
  <2> HIDE DEF Is
  <2>2. Is(f)
    BY <2>1
  <2> QED
    BY <2>2 DEF Is, IsValue
<1> HIDE DEF f
<1>4. \A i \in 1 .. w : s[i] = (n \div Power(w - i)) % 2
  BY DEF Says
<1>5. \A k \in Nat : Power(k) \in Nat \ {0} /\ Power(k + 1) = 2 * Power(k)
  <2> TAKE k \in Nat
  <2>1. Power(k) \in Nat /\ Power(k) >= k + 1 /\ Power(k + 1) = 2 * Power(k)
    BY Powers
  <2> QED
    BY <2>1
<1>6. g[0] = 0
  <2>1. n < Power(w) /\ Power(w) \in Nat \ {0}
    BY <1>1, <1>5 DEF Says
  <2>2. w - 0 = w
    BY <1>1
  <2> HIDE DEF w
  <2>3. n \div Power(w) = 0
    BY <2>1
  <2> QED
    BY <1>1, <2>2, <2>3
<1>7. ASSUME NEW i \in 1 .. w PROVE g[i] = 2 * g[i - 1] + s[i]
  <2> DEFINE p == Power(w - i)
  <2>1. w - i \in Nat /\ i - 1 \in 0 .. w /\ i \in 0 .. w /\ w - (i - 1) = (w - i) + 1
    BY <1>1
  <2>2. p \in Nat \ {0} /\ Power(w - (i - 1)) = 2 * p
    BY <1>5, <2>1
  <2>3. n \div p = 2 * (n \div (2 * p)) + ((n \div p) % 2)
    <3> HIDE DEF p
    <3> QED
      BY <2>2, Halves
  <2>4. g[i] = n \div p /\ g[i - 1] = n \div (2 * p) /\ s[i] = (n \div p) % 2
    BY <1>4, <2>1, <2>2
  <2> HIDE DEF g, p
  <2> QED
    BY <2>3, <2>4
<1>8. IsValue(g, 2, s, w)
  <2>1. g = [i \in 0 .. w |-> g[i]]
    OBVIOUS
  <2> HIDE DEF g, w
  <2>2. \A i \in 0 .. w : g[i] = IF i = 0 THEN 0 ELSE 2 * g[i - 1] + s[i]
    <3> TAKE i \in 0 .. w
    <3>1. CASE i = 0
      BY <1>6, <3>1
    <3>2. CASE i # 0
      <4>1. i \in 1 .. w
        BY <1>1, <3>2
      <4> QED
        BY <1>7, <3>2, <4>1
    <3> QED
      BY <3>1, <3>2
  <2> QED
    BY <2>1, <2>2 DEF IsValue
<1>9. f[w] = g[w]
  <2>1. \A i \in 1 .. w : s[i] \in Nat
    BY <1>1
  <2> HIDE DEF w, g
  <2> QED
    BY <1>1, <1>3, <1>8, <2>1, ValueUnique
<1>10. g[w] = n
  <2>1. w - w = 0 /\ w \in 0 .. w
    BY <1>1
  <2> HIDE DEF w
  <2>2. g[w] = n \div Power(0)
    BY <2>1
  <2> HIDE DEF g
  <2> QED
    BY <2>2, Powers
<1> QED
  BY <1>2, <1>9, <1>10

LEMMA NumberBehind ==
    ASSUME NEW s \in Seq({0, 1}), NEW a \in Nat, NEW w \in Nat, a + w <= Len(s),
           NEW n \in Nat, Says(s, a, w, n)
    PROVE  Number(SubSeq(s, a + 1, a + w)) = n
<1> DEFINE t == SubSeq(s, a + 1, a + w)
<1>1. \A i \in 1 .. w : s[a + i] \in {0, 1}
  OBVIOUS
<1>2. t \in Seq({0, 1}) /\ Len(t) = w /\ \A i \in 1 .. w : t[i] = s[a + i]
  BY <1>1, Piece
<1> HIDE DEF t
<1>3. \A i \in 1 .. w : t[0 + i] = s[a + i]
  BY <1>2
<1>4. Says(t, 0, w, n)
  BY <1>3, SaysMoves DEF Agree
<1>5. Number(t) = n
  BY <1>2, <1>4, NumberSaid
<1> QED
  BY <1>5 DEF t

\* The bits that a number takes hold it.
LEMMA LengthFits ==
    ASSUME NEW n \in Nat
    PROVE  BinaryLength(n) \in Nat \ {0} /\ n < Power(BinaryLength(n))
<1>1. CASE n = 0
  <2>1. BinaryLength(n) = 1
    BY <1>1 DEF BinaryLength
  <2>2. Power(1) \in Nat /\ Power(1) >= 1 + 1
    BY Powers
  <2> QED
    BY <1>1, <2>1, <2>2
<1>2. CASE n # 0
  <2> DEFINE Is(l) == 2 ^ (l - 1) <= n /\ n < 2 ^ l
             T == {l \in 1 .. n : n < Power(l)}
             d == CHOOSE l \in 1 .. n : Is(l)
  <2>1. BinaryLength(n) = d + 0
    <3>1. ~(n < 0)
      OBVIOUS
    <3> QED
      BY <1>2, <3>1, Zenon DEF BinaryLength
  <2>2. T \in SUBSET Nat
    OBVIOUS
  <2>3. n \in T
    <3>1. Power(n) \in Nat /\ Power(n) >= n + 1
      BY Powers
    <3> QED
      BY <1>2, <3>1
  <2>4. PICK l \in T : \A k \in T : l <= k
    BY <2>2, <2>3, Least, Zenon
  <2>5. Power(l - 1) <= n
    <3>1. CASE l = 1
      BY <1>2, <3>1, Powers
    <3>2. CASE l # 1
      <4>1. l - 1 \in 1 .. n /\ ~(l <= l - 1) /\ l - 1 \in Nat
        BY <3>2
      <4>2. Power(l - 1) \in Nat /\ ~(n < Power(l - 1))
        BY <2>4, <4>1, Powers
      <4> QED
        BY <4>2
    <3> QED
      BY <3>1, <3>2
  <2>6. l \in 1 .. n /\ Is(l)
    BY <2>4, <2>5 DEF Power
  <2> HIDE DEF Is
  <2>7. d \in 1 .. n /\ Is(d)
    BY <2>6, Zenon
  <2> HIDE DEF d
  <2> QED
    BY <2>1, <2>7 DEF Is, Power
<1> QED
  BY <1>1, <1>2

-----------------------------------------------------------------------------
(* What is written is read                                                 *)

Bits == Seq({0, 1})

\* What comes after another thing is written behind it.
LEMMA ThenWrites ==
    ASSUME NEW s, NEW t
    PROVE  Then(Quiet(s), Quiet(t)) = Quiet(s \o t)
BY DEF Then, Quiet

LEMMA Behind ==
    ASSUME NEW s \in Bits, NEW t \in Bits
    PROVE  /\ s \o t \in Bits /\ Len(s \o t) = Len(s) + Len(t)
           /\ \A i \in 1 .. Len(s) : (s \o t)[i] = s[i]
           /\ \A i \in 1 .. Len(t) : (s \o t)[Len(s) + i] = t[i]
BY DEF Bits

\* Bits given one by one.
LEMMA GivenBits ==
    ASSUME NEW w \in Nat, NEW s, s = [i \in 1 .. w |-> s[i]], \A i \in 1 .. w : s[i] \in {0, 1}
    PROVE  s \in Bits /\ Len(s) = w
BY DEF Bits

LEMMA BitOf ==
    ASSUME NEW n \in Nat, NEW k \in Nat
    PROVE  (n \div Power(k)) % 2 \in {0, 1}
<1> DEFINE p == Power(k)
<1>1. p \in Nat /\ p >= k + 1
  BY Powers
<1> HIDE DEF p
<1>2. p > 0
  BY <1>1
<1>3. n \div p \in Nat
  BY <1>1, <1>2
<1>4. (n \div p) % 2 \in {0, 1}
  BY <1>3
<1> QED
  BY <1>4 DEF p

\* A write of a number that does not raise.
LEMMA UintWrites ==
    ASSUME NEW n \in Int, NEW w \in Nat, ~Uint(n, w).raises
    PROVE  /\ Uint(n, w) = Quiet(Uint(n, w).bits)
           /\ Uint(n, w).bits \in Bits /\ Len(Uint(n, w).bits) = w
           /\ n >= 0 => Says(Uint(n, w).bits, 0, w, n)
<1>1. CASE w = 0 \/ BinaryLength(n) > w
  <2>1. n = 0 /\ Uint(n, w) = Quiet(<< >>)
    <3>1. Uint(n, w) = IF n = 0 THEN Quiet(<< >>) ELSE Raises
      BY <1>1 DEF Uint
    <3> QED
      BY <3>1 DEF Raises
  <2>2. w = 0
    <3>1. BinaryLength(0) = 1
      BY DEF BinaryLength
    <3> QED
      BY <1>1, <2>1, <3>1
  <2>3. << >> \in Bits /\ Len(<< >>) = 0
    BY DEF Bits
  <2>4. Says(<< >>, 0, 0, 0)
    BY Powers DEF Says
  <2> QED
    BY <2>1, <2>2, <2>3, <2>4 DEF Quiet
<1>2. CASE ~(w = 0 \/ BinaryLength(n) > w)
  <2> DEFINE s == [i \in 1 .. w |-> IF n < 0 THEN 0 ELSE (n \div 2 ^ (w - i)) % 2]
  <2>1. Uint(n, w) = Quiet(s)
    BY <1>2 DEF Uint
  <2>2. \A i \in 1 .. w : s[i] = IF n < 0 THEN 0 ELSE (n \div Power(w - i)) % 2
    BY DEF Power
  <2>3. s = [i \in 1 .. w |-> s[i]]
    OBVIOUS
  <2> HIDE DEF s
  <2>4. \A i \in 1 .. w : s[i] \in {0, 1}
    <3> TAKE i \in 1 .. w
    <3>1. CASE n < 0
      BY <2>2, <3>1
    <3>2. CASE ~(n < 0)
      <4>1. n \in Nat /\ w - i \in Nat
        BY <3>2
      <4>2. (n \div Power(w - i)) % 2 \in {0, 1}
        BY <4>1, BitOf
      <4> QED
        BY <2>2, <3>2, <4>2
    <3> QED
      BY <3>1, <3>2
  <2>5. s \in Bits /\ Len(s) = w
    BY <2>3, <2>4, GivenBits
  <2>6. ASSUME n >= 0 PROVE Says(s, 0, w, n)
    <3>1. n \in Nat /\ ~(n < 0)
      BY <2>6
    <3>2. BinaryLength(n) \in Nat /\ n < Power(BinaryLength(n)) /\ BinaryLength(n) <= w
      BY <1>2, <3>1, LengthFits
    <3>3. Power(BinaryLength(n)) <= Power(w) /\ Power(BinaryLength(n)) \in Nat /\ Power(w) \in Nat
      BY <3>2, PowerMonotone, Powers
    <3>4. n < Power(w)
      BY <3>1, <3>2, <3>3
    <3>5. \A i \in 1 .. w : s[0 + i] = (n \div Power(w - i)) % 2
      BY <2>2, <3>1
    <3> QED
      BY <3>4, <3>5 DEF Says
  <2> QED
    BY <2>1, <2>5, <2>6 DEF Quiet
<1> QED
  BY <1>1, <1>2

\* The bits of an int of w bits behind the a-th are those of n.
IntSays(s, a, w, n) ==
    IF w = 1 THEN s[a + 1] = -n
    ELSE IF n < 0
         THEN s[a + 1] = 1 /\ Power(w - 1) + n >= 0 /\ Says(s, a + 1, w - 1, Power(w - 1) + n)
         ELSE s[a + 1] = 0 /\ Says(s, a + 1, w - 1, n)

LEMMA IntMoves ==
    ASSUME NEW s, NEW t, NEW a \in Nat, NEW b \in Nat, NEW w \in Nat \ {0}, NEW n \in Int,
           IntSays(s, a, w, n), Agree(t, b, s, a, w)
    PROVE  IntSays(t, b, w, n)
<1>1. t[b + 1] = s[a + 1]
  BY DEF Agree
<1>2. \A i \in 1 .. w - 1 : t[(b + 1) + i] = s[(a + 1) + i]
  <2> TAKE i \in 1 .. w - 1
  <2>1. i + 1 \in 1 .. w /\ b + (i + 1) = (b + 1) + i /\ a + (i + 1) = (a + 1) + i
    OBVIOUS
  <2> QED
    BY <2>1 DEF Agree
<1>3. \A m : Says(s, a + 1, w - 1, m) => Says(t, b + 1, w - 1, m)
  BY <1>2, SaysMoves DEF Agree
<1> QED
  BY <1>1, <1>3 DEF IntSays

LEMMA SignThen ==
    ASSUME NEW sign \in {0, 1}, NEW m \in Int, NEW w \in Nat \ {0, 1},
           ~Then(Quiet(<<sign>>), Uint(m, w - 1)).raises
    PROVE  /\ Then(Quiet(<<sign>>), Uint(m, w - 1))
                = Quiet(Then(Quiet(<<sign>>), Uint(m, w - 1)).bits)
           /\ Then(Quiet(<<sign>>), Uint(m, w - 1)).bits \in Bits
           /\ Len(Then(Quiet(<<sign>>), Uint(m, w - 1)).bits) = w
           /\ Then(Quiet(<<sign>>), Uint(m, w - 1)).bits[1] = sign
           /\ m >= 0 => Says(Then(Quiet(<<sign>>), Uint(m, w - 1)).bits, 1, w - 1, m)
<1> DEFINE u == Uint(m, w - 1)
           all == Then(Quiet(<<sign>>), u)
<1>1. ~u.raises
  BY DEF Then, Quiet
<1>2. w - 1 \in Nat
  OBVIOUS
<1>3. /\ u = Quiet(u.bits)
      /\ u.bits \in Bits /\ Len(u.bits) = w - 1
      /\ m >= 0 => Says(u.bits, 0, w - 1, m)
  BY <1>1, <1>2, UintWrites
<1> HIDE DEF u
<1>4. all = Quiet(<<sign>> \o u.bits)
  BY <1>3, ThenWrites
<1>5. <<sign>> \in Bits /\ Len(<<sign>>) = 1 /\ <<sign>>[1] = sign
  BY DEF Bits
<1>6. /\ <<sign>> \o u.bits \in Bits /\ Len(<<sign>> \o u.bits) = 1 + (w - 1)
      /\ (<<sign>> \o u.bits)[1] = sign
      /\ \A i \in 1 .. w - 1 : (<<sign>> \o u.bits)[1 + i] = u.bits[0 + i]
  BY <1>3, <1>5, Behind
<1> DEFINE t == <<sign>> \o u.bits
<1>7. m >= 0 => Says(t, 1, w - 1, m)
  <2>1. \A i \in 1 .. w - 1 : t[1 + i] = u.bits[0 + i]
    BY <1>6
  <2> HIDE DEF t
  <2> QED
    BY <1>3, <2>1, SaysMoves DEF Agree
<1>8. /\ all = Quiet(t)
      /\ t \in Bits /\ Len(t) = w /\ t[1] = sign
  BY <1>4, <1>6
<1> HIDE DEF t
<1>9. all.bits = t
  BY <1>8 DEF Quiet
<1> QED
  BY <1>7, <1>8, <1>9, Zenon DEF u

LEMMA IntWrites ==
    ASSUME NEW n \in Int, NEW w \in Nat \ {0}, ~Int_(n, w).raises
    PROVE  /\ Int_(n, w) = Quiet(Int_(n, w).bits)
           /\ Int_(n, w).bits \in Bits /\ Len(Int_(n, w).bits) = w
           /\ n >= -Power(w - 1) => IntSays(Int_(n, w).bits, 0, w, n)
<1>1. CASE w = 1
  <2>1. n \in {-1, 0} /\ Int_(n, w) = Quiet(<<-n>>)
    BY <1>1 DEF Int_, Raises
  <2>2. <<-n>> \in Bits /\ Len(<<-n>>) = 1 /\ <<-n>>[0 + 1] = -n
    BY <2>1 DEF Bits
  <2> QED
    BY <1>1, <2>1, <2>2 DEF Quiet, IntSays
<1>2. CASE w # 1 /\ n < 0
  <2> DEFINE m == 2 ^ (w - 1) + n
  <2>1. Int_(n, w) = Then(Quiet(<<1>>), Uint(m, w - 1))
    BY <1>2 DEF Int_
  <2>2. m = Power(w - 1) + n /\ Power(w - 1) \in Nat /\ m \in Int /\ w \in Nat \ {0, 1}
    <3>1. w - 1 \in Nat
      OBVIOUS
    <3>2. Power(w - 1) \in Nat
      BY <3>1, Powers
    <3> QED
      BY <1>2, <3>2 DEF Power
  <2> HIDE DEF m
  <2>3. /\ Int_(n, w) = Quiet(Int_(n, w).bits)
        /\ Int_(n, w).bits \in Bits /\ Len(Int_(n, w).bits) = w
        /\ Int_(n, w).bits[1] = 1
        /\ m >= 0 => Says(Int_(n, w).bits, 1, w - 1, m)
    BY <2>1, <2>2, SignThen
  <2>4. n >= -Power(w - 1) => m >= 0
    BY <2>2
  <2> QED
    BY <1>2, <2>2, <2>3, <2>4 DEF IntSays
<1>3. CASE w # 1 /\ n >= 0
  <2>1. Int_(n, w) = Then(Quiet(<<0>>), Uint(n, w - 1))
    BY <1>3 DEF Int_
  <2>2. /\ Int_(n, w) = Quiet(Int_(n, w).bits)
        /\ Int_(n, w).bits \in Bits /\ Len(Int_(n, w).bits) = w
        /\ Int_(n, w).bits[1] = 0
        /\ Says(Int_(n, w).bits, 1, w - 1, n)
    BY <1>3, <2>1, SignThen
  <2> QED
    BY <1>3, <2>2 DEF IntSays
<1> QED
  BY <1>1, <1>2, <1>3

LEMMA IntSaid ==
    ASSUME NEW s \in Bits, NEW w \in Nat \ {0}, w <= Len(s), NEW n \in Int, IntSays(s, 0, w, n)
    PROVE  ReadInt(s, w) = n
<1>1. CASE w = 1
  BY <1>1 DEF IntSays, ReadInt
<1>2. CASE w # 1
  <2> DEFINE v == w - 1
             p == Power(v)
             read == Number(SubSeq(s, 2, w))
  <2>1. v \in Nat /\ 1 + 1 = 2 /\ 1 + v = w /\ 1 + v <= Len(s) /\ p \in Nat
    <3>1. v \in Nat
      OBVIOUS
    <3>2. Power(v) \in Nat
      BY <3>1, Powers
    <3>3. 1 + v = w
      OBVIOUS
    <3> QED
      BY <3>1, <3>2, <3>3
  <2>2. ReadInt(s, w) = read - (IF s[1] = 1 THEN p ELSE 0)
    BY <1>2 DEF ReadInt, Power
  <2>3. \A m \in Nat : Says(s, 1, v, m) => read = m
    <3> TAKE m \in Nat
    <3> HIDE DEF v
    <3>1. Says(s, 1, v, m) => Number(SubSeq(s, 1 + 1, 1 + v)) = m
      BY <2>1, NumberBehind DEF Bits
    <3> QED
      BY <2>1, <3>1
  <2> HIDE DEF read
  <2>4. CASE n < 0
    <3>1. s[0 + 1] = 1 /\ p + n >= 0 /\ Says(s, 0 + 1, v, p + n)
      BY <1>2, <2>4 DEF IntSays
    <3> HIDE DEF p, v
    <3>2. p + n \in Nat /\ read = p + n
      BY <2>1, <2>3, <3>1
    <3> QED
      BY <2>1, <2>2, <3>1, <3>2
  <2>5. CASE ~(n < 0)
    <3>1. s[0 + 1] = 0 /\ Says(s, 0 + 1, v, n) /\ n \in Nat
      BY <1>2, <2>5 DEF IntSays
    <3> HIDE DEF p, v
    <3>2. read = n
      BY <2>1, <2>3, <3>1
    <3> QED
      BY <2>1, <2>2, <3>1, <3>2
  <2> QED
    BY <2>4, <2>5
<1> QED
  BY <1>1, <1>2

\* The bits behind the a-th are those of the bytes d.
BytesSay(s, a, d) == \A k \in 1 .. Len(d) : Says(s, a + 8 * (k - 1), 8, d[k])

LEMMA BytesAre ==
    ASSUME NEW d \in Seq(0 .. 255)
    PROVE  Len(d) \in Nat /\ \A k \in 1 .. Len(d) : d[k] \in 0 .. 255 /\ d[k] \in Nat
<1> DEFINE S == 0 .. 255
<1>1. d \in Seq(S)
  OBVIOUS
<1>2. S \subseteq Nat
  OBVIOUS
<1> HIDE DEF S
<1>3. Len(d) \in Nat /\ \A k \in 1 .. Len(d) : d[k] \in S
  BY <1>1
<1> QED
  BY <1>2, <1>3 DEF S

LEMMA EightBits == \A x \in 0 .. 255 : x < Power(8)
<1>1. /\ Power(0 + 1) = 2 * Power(0) /\ Power(1 + 1) = 2 * Power(1) /\ Power(2 + 1) = 2 * Power(2)
      /\ Power(3 + 1) = 2 * Power(3) /\ Power(4 + 1) = 2 * Power(4) /\ Power(5 + 1) = 2 * Power(5)
      /\ Power(6 + 1) = 2 * Power(6) /\ Power(7 + 1) = 2 * Power(7) /\ Power(0) = 1
  BY Powers
<1> QED
  BY <1>1

LEMMA BytesMove ==
    ASSUME NEW s, NEW t, NEW a \in Nat, NEW b \in Nat, NEW d \in Seq(0 .. 255), BytesSay(s, a, d),
           Agree(t, b, s, a, 8 * Len(d))
    PROVE  BytesSay(t, b, d)
<1> SUFFICES ASSUME NEW k \in 1 .. Len(d) PROVE Says(t, b + 8 * (k - 1), 8, d[k])
  BY DEF BytesSay
<1>1. Says(s, a + 8 * (k - 1), 8, d[k])
  BY DEF BytesSay
<1>2. ASSUME NEW i \in 1 .. 8 PROVE t[(b + 8 * (k - 1)) + i] = s[(a + 8 * (k - 1)) + i]
  <2> DEFINE j == 8 * (k - 1) + i
  <2>1. j \in 1 .. 8 * Len(d) /\ (b + 8 * (k - 1)) + i = b + j /\ (a + 8 * (k - 1)) + i = a + j
    OBVIOUS
  <2> HIDE DEF j
  <2> QED
    BY <2>1 DEF Agree
<1> DEFINE c == a + 8 * (k - 1)
           e == b + 8 * (k - 1)
<1>3. Says(s, c, 8, d[k]) /\ \A i \in 1 .. 8 : t[e + i] = s[c + i]
  BY <1>1, <1>2
<1> HIDE DEF c, e
<1>4. Says(t, e, 8, d[k])
  BY <1>3, SaysMoves DEF Agree
<1> QED
  BY <1>4 DEF e

LEMMA BytesWrite ==
    ASSUME NEW d \in Seq(0 .. 255)
    PROVE  /\ Bytes(d) = Quiet(Bytes(d).bits)
           /\ Bytes(d).bits \in Bits /\ Len(Bytes(d).bits) = 8 * Len(d)
           /\ BytesSay(Bytes(d).bits, 0, d)
<1> DEFINE w == 8 * Len(d)
           s == [i \in 1 .. w |-> (d[(i + 7) \div 8] \div 2 ^ ((-i) % 8)) % 2]
<1>1. Bytes(d) = Quiet(s)
  BY DEF Bytes
<1>2. w \in Nat /\ \A k \in 1 .. Len(d) : d[k] \in 0 .. 255 /\ d[k] \in Nat
  BY BytesAre
<1>3. \A i \in 1 .. w : s[i] = (d[(i + 7) \div 8] \div Power((-i) % 8)) % 2
  BY DEF Power
<1>4. s = [i \in 1 .. w |-> s[i]]
  OBVIOUS
<1> HIDE DEF s
<1>5. \A i \in 1 .. w : s[i] \in {0, 1}
  <2> TAKE i \in 1 .. w
  <2>1. (i + 7) \div 8 \in 1 .. Len(d) /\ (-i) % 8 \in Nat
    BY <1>2
  <2>2. d[(i + 7) \div 8] \in Nat
    BY <1>2, <2>1
  <2>3. (d[(i + 7) \div 8] \div Power((-i) % 8)) % 2 \in {0, 1}
    BY <2>1, <2>2, BitOf
  <2> QED
    BY <1>3, <2>3
<1>6. s \in Bits /\ Len(s) = w
  <2> HIDE DEF w
  <2> QED
    BY <1>2, <1>4, <1>5, GivenBits
<1>7. BytesSay(s, 0, d)
  <2> SUFFICES ASSUME NEW k \in 1 .. Len(d) PROVE Says(s, 0 + 8 * (k - 1), 8, d[k])
    BY DEF BytesSay
  <2>1. ASSUME NEW i \in 1 .. 8
        PROVE  s[(0 + 8 * (k - 1)) + i] = (d[k] \div Power(8 - i)) % 2
    <3> DEFINE j == 8 * (k - 1) + i
    <3>1. j \in 1 .. w /\ (j + 7) \div 8 = k /\ (-j) % 8 = 8 - i /\ (0 + 8 * (k - 1)) + i = j
      OBVIOUS
    <3> HIDE DEF j, w
    <3> QED
      BY <1>3, <3>1
  <2>2. d[k] < Power(8)
    <3>1. d[k] \in 0 .. 255
      BY <1>2
    <3> QED
      BY <3>1, EightBits, Zenon
  <2> QED
    BY <2>1, <2>2 DEF Says
<1> QED
  BY <1>1, <1>6, <1>7 DEF Quiet

LEMMA BytesSaid ==
    ASSUME NEW s \in Bits, NEW d \in Seq(0 .. 255), 8 * Len(d) <= Len(s), BytesSay(s, 0, d)
    PROVE  ReadBytes(s, Len(d)) = d
<1>1. Len(s) \in Nat /\ Len(d) \in Nat /\ d = [i \in 1 .. Len(d) |-> d[i]]
  BY DEF Bits
<1>2. ASSUME NEW i \in 1 .. Len(d) PROVE Number(SubSeq(s, 8 * i - 7, 8 * i)) = d[i]
  <2> DEFINE a == 8 * (i - 1)
  <2>1. a \in Nat /\ a + 8 <= Len(s) /\ a + 1 = 8 * i - 7 /\ a + 8 = 8 * i /\ 0 + a = a
    BY <1>1
  <2>2. Says(s, a, 8, d[i])
    <3> HIDE DEF a
    <3>1. Says(s, 0 + a, 8, d[i])
      BY DEF BytesSay, a
    <3> QED
      BY <2>1, <3>1
  <2>3. d[i] \in Nat
    BY BytesAre
  <2> HIDE DEF a
  <2>4. Number(SubSeq(s, a + 1, a + 8)) = d[i]
    BY <2>1, <2>2, <2>3, NumberBehind DEF Bits
  <2> QED
    BY <2>1, <2>4
<1> QED
  BY <1>1, <1>2 DEF ReadBytes

LEMMA NoneRaised ==
    ASSUME NEW a, NEW b, ~Then(a, b).raises
    PROVE  ~a.raises /\ ~b.raises
BY DEF Then

\* Two writes that do not raise.
Wrote(a, s) == a = Quiet(s) /\ s \in Bits

LEMMA BothWritten ==
    ASSUME NEW a, NEW b, NEW s, NEW t, Wrote(a, s), Wrote(b, t), NEW v, NEW w, Len(s) = v, Len(t) = w
    PROVE  \E u : /\ Wrote(Then(a, b), u) /\ Len(u) = v + w
                  /\ Agree(u, 0, s, 0, v) /\ Agree(u, v, t, 0, w)
<1>1. s \in Bits /\ t \in Bits
  BY DEF Wrote
<1> DEFINE u == s \o t
<1>2. Then(a, b) = Quiet(u)
  BY ThenWrites DEF Wrote
<1>3. /\ u \in Bits /\ Len(u) = v + w
      /\ \A i \in 1 .. v : u[i] = s[i]
      /\ \A i \in 1 .. w : u[v + i] = t[i]
  BY <1>1, Behind
<1> HIDE DEF u
<1>4. Agree(u, 0, s, 0, v) /\ Agree(u, v, t, 0, w)
  BY <1>3 DEF Agree
<1> QED
  BY <1>2, <1>3, <1>4 DEF Wrote

\* Where a string begins it agrees with itself.
LEMMA AgreeSelf == ASSUME NEW s, NEW a, NEW w PROVE Agree(s, a, s, a, w)
BY DEF Agree

LEMMA SmallUint ==
    ASSUME NEW n \in Nat, NEW w \in Nat, ~Uint(n, w).raises
    PROVE  \E s : Wrote(Uint(n, w), s) /\ Len(s) = w /\ Says(s, 0, w, n)
<1>1. n \in Int /\ n >= 0
  OBVIOUS
<1>2. /\ Uint(n, w) = Quiet(Uint(n, w).bits)
      /\ Uint(n, w).bits \in Bits /\ Len(Uint(n, w).bits) = w
      /\ Says(Uint(n, w).bits, 0, w, n)
  BY <1>1, UintWrites, Zenon
<1> QED
  BY <1>2 DEF Wrote

LEMMA GramsWrite ==
    ASSUME NEW n \in Nat, ~Grams(n).raises
    PROVE  \E s : \E sz \in Nat : /\ Wrote(Grams(n), s) /\ Len(s) = 4 + 8 * sz
                                 /\ Says(s, 0, 4, sz) /\ Says(s, 4, 8 * sz, n)
<1>1. CASE n = 0
  <2>1. Grams(n) = Uint(0, 4)
    BY <1>1 DEF Grams
  <2>2. ~Uint(0, 4).raises /\ 0 \in Nat /\ 4 \in Nat
    BY <2>1
  <2>3. PICK s : Wrote(Uint(0, 4), s) /\ Len(s) = 4 /\ Says(s, 0, 4, 0)
    BY <2>2, SmallUint
  <2>4. Says(s, 4, 8 * 0, n)
    BY <1>1, Powers DEF Says
  <2>5. Wrote(Grams(n), s) /\ Len(s) = 4 + 8 * 0 /\ 0 \in Nat
    BY <2>1, <2>3
  <2> QED
    BY <2>3, <2>4, <2>5, Zenon
<1>2. CASE n # 0
  <2> DEFINE sz == (BinaryLength(n) + 7) \div 8
             w == 8 * sz
             a == Uint(sz, 4)
             b == Uint(n, w)
  <2>1. Grams(n) = Then(a, b)
    BY <1>2 DEF Grams
  <2>2. sz \in Nat /\ w \in Nat
    <3>1. BinaryLength(n) \in Nat
      BY LengthFits
    <3> QED
      BY <3>1
  <2> HIDE DEF sz, w
  <2>3. ~a.raises /\ ~b.raises
    <3> HIDE DEF a, b
    <3> QED
      BY <2>1, NoneRaised
  <2>4. PICK s1 : Wrote(a, s1) /\ Len(s1) = 4 /\ Says(s1, 0, 4, sz)
    <3>1. 4 \in Nat
      OBVIOUS
    <3> QED
      BY <2>2, <2>3, <3>1, SmallUint
  <2>5. PICK s2 : Wrote(b, s2) /\ Len(s2) = w /\ Says(s2, 0, w, n)
    BY <2>2, <2>3, SmallUint
  <2> HIDE DEF a, b
  <2>6. PICK s : /\ Wrote(Then(a, b), s) /\ Len(s) = 4 + w
                 /\ Agree(s, 0, s1, 0, 4) /\ Agree(s, 4, s2, 0, w)
    <3>1. Wrote(a, s1) /\ Len(s1) = 4 /\ Wrote(b, s2) /\ Len(s2) = w
      BY <2>4, <2>5
    <3> QED
      BY <3>1, BothWritten, Zenon
  <2>7. Says(s, 0, 4, sz) /\ Says(s, 4, w, n)
    BY <2>4, <2>5, <2>6, SaysMoves
  <2>8. Wrote(Grams(n), s) /\ Len(s) = 4 + 8 * sz /\ Says(s, 4, 8 * sz, n)
    BY <2>1, <2>6, <2>7, Zenon DEF w
  <2> QED
    BY <2>2, <2>7, <2>8, Zenon
<1> QED
  BY <1>1, <1>2

LEMMA CoinsSaid ==
    ASSUME NEW s \in Bits, NEW sz \in Nat, NEW n \in Nat, 4 + 8 * sz <= Len(s),
           Says(s, 0, 4, sz), Says(s, 4, 8 * sz, n)
    PROVE  ReadCoins(s) = [value |-> n, size |-> 4 + 8 * sz]
<1>1. Len(s) \in Nat /\ s \in Seq({0, 1})
  BY DEF Bits
<1> DEFINE v == 8 * sz
<1>2. v \in Nat /\ 4 + v <= Len(s) /\ 0 + 4 <= Len(s) /\ Says(s, 4, v, n)
  BY <1>1
<1> HIDE DEF v
<1>3. Number(SubSeq(s, 4 + 1, 4 + v)) = n
  BY <1>1, <1>2, NumberBehind
<1>4. Number(SubSeq(s, 0 + 1, 0 + 4)) = sz
  BY <1>1, <1>2, NumberBehind
<1>5. Number(SubSeq(s, 1, 4)) = sz
  BY <1>4
<1>6. Number(SubSeq(s, 5, 4 + 8 * sz)) = n
  BY <1>3 DEF v
<1> QED
  BY <1>5, <1>6 DEF ReadCoins

\* The rest of a string of bits.
LEMMA FromIs ==
    ASSUME NEW s \in Bits, NEW a \in Nat, a <= Len(s)
    PROVE  /\ From(s, a + 1) \in Bits /\ Len(From(s, a + 1)) = Len(s) - a
           /\ \A i \in 1 .. Len(s) - a : From(s, a + 1)[i] = s[a + i]
<1> DEFINE n == Len(s) - a
<1>1. n \in Nat /\ a + n = Len(s) /\ \A i \in 1 .. n : s[a + i] \in {0, 1}
  BY DEF Bits
<1> HIDE DEF n
<1>2. /\ SubSeq(s, a + 1, a + n) \in Seq({0, 1}) /\ Len(SubSeq(s, a + 1, a + n)) = n
      /\ \A i \in 1 .. n : SubSeq(s, a + 1, a + n)[i] = s[a + i]
  BY <1>1, Piece
<1> QED
  BY <1>1, <1>2 DEF From, n, Bits

\* An address of one of the two workchains, or none.
IsFull(a) ==
    \E wc \in {-1, 0}, h \in Seq(0 .. 255) : Len(h) = HashBytes /\ a = [wc |-> wc, hash_part |-> h]
IsAddress(a) == a = None \/ IsFull(a)

AddressSays(s, a) ==
    IF a = None THEN Len(s) >= 2 /\ Says(s, 0, 2, 0)
    ELSE /\ Len(s) >= 11 + 8 * HashBytes
         /\ Says(s, 0, 2, 2) /\ IntSays(s, 3, 8, a.wc) /\ BytesSay(s, 11, a.hash_part)

AddressSize(a) == IF a = None THEN 2 ELSE 11 + 8 * HashBytes

LEMMA FullIsSome == ASSUME NEW a, IsFull(a) PROVE a # None
<1>1. "wc" \in DOMAIN a /\ "wc" \notin DOMAIN None
  BY DEF IsFull, None
<1> QED
  BY <1>1

LEMMA AddressWrites ==
    ASSUME NEW a, IsAddress(a), ~AddressBits(a).raises, HashBytes \in Nat
    PROVE  \E s : Wrote(AddressBits(a), s) /\ Len(s) = AddressSize(a) /\ AddressSays(s, a)
<1>1. CASE a = None
  <2>1. AddressBits(a) = Uint(0, 2)
    BY <1>1 DEF AddressBits
  <2>2. ~Uint(0, 2).raises /\ 0 \in Nat /\ 2 \in Nat
    BY <2>1
  <2>3. PICK s : Wrote(Uint(0, 2), s) /\ Len(s) = 2 /\ Says(s, 0, 2, 0)
    BY <2>2, SmallUint
  <2> QED
    BY <1>1, <2>1, <2>3 DEF AddressSize, AddressSays
<1>2. CASE IsFull(a)
  <2>1. PICK wc \in {-1, 0}, h \in Seq(0 .. 255) : Len(h) = HashBytes /\ a = [wc |-> wc, hash_part |-> h]
    BY <1>2 DEF IsFull
  <2>2. a # None /\ a.wc = wc /\ a.hash_part = h
    BY <1>2, <2>1, FullIsSome
  <2> DEFINE head == Then(Uint(2, 2), Uint(0, 1))
             tail == Then(Int_(wc, 8), Bytes(h))
  <2>3. AddressBits(a) = Then(head, tail)
    BY <2>2 DEF AddressBits
  <2>4. ~head.raises /\ ~tail.raises
    <3> HIDE DEF head, tail
    <3> QED
      BY <2>3, NoneRaised
  <2>5. ~Uint(2, 2).raises /\ ~Uint(0, 1).raises /\ ~Int_(wc, 8).raises
    BY <2>4, NoneRaised
  <2>6. PICK s1 : Wrote(Uint(2, 2), s1) /\ Len(s1) = 2 /\ Says(s1, 0, 2, 2)
    <3>1. 2 \in Nat
      OBVIOUS
    <3> QED
      BY <2>5, <3>1, SmallUint
  <2>7. PICK s2 : Wrote(Uint(0, 1), s2) /\ Len(s2) = 1
    <3>1. 0 \in Nat /\ 1 \in Nat
      OBVIOUS
    <3> QED
      BY <2>5, <3>1, SmallUint
  <2>8. PICK s3 : Wrote(Int_(wc, 8), s3) /\ Len(s3) = 8 /\ IntSays(s3, 0, 8, wc)
    <3>1. wc \in Int /\ 8 \in Nat \ {0} /\ 8 - 1 = 7 /\ 7 \in Nat
      OBVIOUS
    <3>2. Power(7) >= 7 + 1 /\ Power(7) \in Nat
      BY <3>1, Powers
    <3>3. wc >= -Power(8 - 1)
      BY <3>1, <3>2
    <3>4. /\ Int_(wc, 8) = Quiet(Int_(wc, 8).bits)
          /\ Int_(wc, 8).bits \in Bits /\ Len(Int_(wc, 8).bits) = 8
          /\ IntSays(Int_(wc, 8).bits, 0, 8, wc)
      BY <2>5, <3>1, <3>3, IntWrites, Zenon
    <3> QED
      BY <3>4 DEF Wrote
  <2>9. PICK s4 : Wrote(Bytes(h), s4) /\ Len(s4) = 8 * HashBytes /\ BytesSay(s4, 0, h)
    <3>1. /\ Bytes(h) = Quiet(Bytes(h).bits)
          /\ Bytes(h).bits \in Bits /\ Len(Bytes(h).bits) = 8 * Len(h)
          /\ BytesSay(Bytes(h).bits, 0, h)
      BY BytesWrite
    <3> QED
      BY <2>1, <3>1 DEF Wrote
  <2>10. PICK t1 : Wrote(head, t1) /\ Len(t1) = 3 /\ Agree(t1, 0, s1, 0, 2)
    <3>1. PICK t : Wrote(head, t) /\ Len(t) = 2 + 1 /\ Agree(t, 0, s1, 0, 2)
      <4>1. Wrote(Uint(2, 2), s1) /\ Wrote(Uint(0, 1), s2) /\ Len(s1) = 2 /\ Len(s2) = 1
        BY <2>6, <2>7
      <4> DEFINE first == Uint(2, 2)
                 second == Uint(0, 1)
      <4>2. head = Then(first, second) /\ Wrote(first, s1) /\ Wrote(second, s2)
        BY <4>1
      <4> HIDE DEF head, first, second
      <4>3. \E t : /\ Wrote(Then(first, second), t) /\ Len(t) = 2 + 1
                   /\ Agree(t, 0, s1, 0, 2) /\ Agree(t, 2, s2, 0, 1)
        BY <4>1, <4>2, BothWritten, Zenon
      <4> QED
        BY <4>2, <4>3, Zenon
    <3> HIDE DEF head
    <3>2. 2 + 1 = 3
      OBVIOUS
    <3> QED
      BY <3>1, <3>2, Zenon
  <2> DEFINE v == 8 * HashBytes
  <2>11. PICK t2 : /\ Wrote(tail, t2) /\ Len(t2) = 8 + v
                   /\ Agree(t2, 0, s3, 0, 8) /\ Agree(t2, 8, s4, 0, v)
    <3>1. Len(s4) = v
      BY <2>9
    <3> HIDE DEF v
    <3> QED
      BY <2>8, <2>9, <3>1, BothWritten
  <2>16. v \in Nat /\ 8 * Len(h) = v
    BY <2>1
  <2> DEFINE w == 8 + v
  <2>20. w = 8 + v
    OBVIOUS
  <2>21. Len(t2) = w
    BY <2>11
  <2> HIDE DEF head, tail, v, w
  <2>12. PICK s : /\ Wrote(AddressBits(a), s) /\ Len(s) = 3 + w
                  /\ Agree(s, 0, t1, 0, 3) /\ Agree(s, 3, t2, 0, w)
    <3>1. Wrote(head, t1) /\ Wrote(tail, t2) /\ Len(t1) = 3
      BY <2>10, <2>11
    <3> QED
      <4>1. \E u : /\ Wrote(Then(head, tail), u) /\ Len(u) = 3 + w
                   /\ Agree(u, 0, t1, 0, 3) /\ Agree(u, 3, t2, 0, w)
        BY <2>21, <3>1, BothWritten, Zenon
      <4> QED
        BY <2>3, <4>1, Zenon
  <2>18. /\ Agree(s, 0, t1, 0, 3) /\ Agree(s, 3, t2, 0, w)
         /\ Agree(t1, 0, s1, 0, 2) /\ Agree(t2, 0, s3, 0, 8) /\ Agree(t2, 8, s4, 0, v)
    BY <2>10, <2>11, <2>12
  <2>13. Says(s, 0, 2, 2)
    <3>1. \A i \in 1 .. 2 : s[0 + i] = s1[0 + i]
      <4> TAKE i \in 1 .. 2
      <4>1. i \in 1 .. 3
        OBVIOUS
      <4> QED
        BY <2>18, <4>1 DEF Agree
    <3> QED
      BY <2>6, <3>1, SaysMoves DEF Agree
  <2>14. IntSays(s, 3, 8, wc)
    <3>1. Agree(s, 3, s3, 0, 8)
      <4> SUFFICES ASSUME NEW i \in 1 .. 8 PROVE s[3 + i] = s3[0 + i]
        BY DEF Agree
      <4>1. i \in 1 .. w
        BY <2>16, <2>20
      <4> QED
        BY <2>18, <4>1 DEF Agree
    <3>2. 0 \in Nat /\ 3 \in Nat /\ 8 \in Nat \ {0} /\ wc \in Int
      OBVIOUS
    <3>3. IntSays(s3, 0, 8, wc)
      BY <2>8
    <3> QED
      BY <3>1, <3>2, <3>3, IntMoves
  <2>15. BytesSay(s, 11, h)
    <3>1. Agree(s, 11, s4, 0, v)
      <4> SUFFICES ASSUME NEW i \in 1 .. v PROVE s[11 + i] = s4[0 + i]
        BY DEF Agree
      <4>1. 8 + i \in 1 .. w /\ 3 + (8 + i) = 11 + i /\ 0 + (8 + i) = 8 + i
        BY <2>16, <2>20
      <4>2. s[3 + (8 + i)] = t2[0 + (8 + i)] /\ t2[8 + i] = s4[0 + i]
        BY <2>18, <4>1 DEF Agree
      <4> QED
        BY <4>1, <4>2
    <3>2. 0 \in Nat /\ 11 \in Nat
      OBVIOUS
    <3>3. Agree(s, 11, s4, 0, 8 * Len(h))
      BY <2>16, <3>1
    <3>4. BytesSay(s4, 0, h)
      BY <2>9
    <3> QED
      BY <3>2, <3>3, <3>4, BytesMove
  <2>17. 3 + w = 11 + 8 * HashBytes
    BY <2>1, <2>16, <2>20
  <2> QED
    BY <2>2, <2>12, <2>13, <2>14, <2>15, <2>16, <2>17 DEF AddressSize, AddressSays
<1> QED
  BY <1>1, <1>2 DEF IsAddress

LEMMA AddressSaid ==
    ASSUME NEW s \in Bits, NEW a, IsAddress(a), AddressSays(s, a), HashBytes \in Nat
    PROVE  ReadAddress(s) = [value |-> a, size |-> AddressSize(a)]
<1>1. Len(s) \in Nat /\ s \in Seq({0, 1})
  BY DEF Bits
<1>2. \A n \in Nat : Says(s, 0, 2, n) /\ 2 <= Len(s) => Number(SubSeq(s, 1, 2)) = n
  <2> SUFFICES ASSUME NEW n \in Nat, Says(s, 0, 2, n), 2 <= Len(s)
               PROVE  Number(SubSeq(s, 1, 2)) = n
    OBVIOUS
  <2>1. 0 \in Nat /\ 2 \in Nat /\ 0 + 2 <= Len(s) /\ 0 + 1 = 1 /\ 0 + 2 = 2
    OBVIOUS
  <2>2. Number(SubSeq(s, 0 + 1, 0 + 2)) = n
    BY <1>1, <2>1, NumberBehind, Zenon
  <2> QED
    BY <2>1, <2>2
<1>3. CASE a = None
  <2>1. Number(SubSeq(s, 1, 2)) = 0
    BY <1>1, <1>2, <1>3 DEF AddressSays
  <2> QED
    BY <1>3, <2>1 DEF ReadAddress, AddressSize
<1>4. CASE IsFull(a)
  <2>1. PICK wc \in {-1, 0}, h \in Seq(0 .. 255) : Len(h) = HashBytes /\ a = [wc |-> wc, hash_part |-> h]
    BY <1>4 DEF IsFull
  <2>2. a # None /\ a.wc = wc /\ a.hash_part = h
    BY <1>4, <2>1, FullIsSome
  <2>3. /\ Len(s) >= 11 + 8 * HashBytes /\ Says(s, 0, 2, 2)
        /\ IntSays(s, 3, 8, wc) /\ BytesSay(s, 11, h)
    BY <2>2 DEF AddressSays
  <2>4. Number(SubSeq(s, 1, 2)) = 2
    BY <1>1, <1>2, <2>3
  <2>5. ReadInt(From(s, 4), 8) = wc
    <3>1. 3 \in Nat /\ 3 <= Len(s) /\ 3 + 1 = 4
      BY <1>1, <2>3
    <3> DEFINE t == From(s, 4)
    <3>2. t \in Bits /\ Len(t) = Len(s) - 3 /\ \A i \in 1 .. Len(s) - 3 : t[i] = s[3 + i]
      BY <3>1, FromIs
    <3> HIDE DEF t
    <3>7. 8 <= Len(s) - 3
      BY <1>1, <2>3
    <3>3. 8 <= Len(t) /\ Agree(t, 0, s, 3, 8)
      BY <1>1, <3>2, <3>7 DEF Agree
    <3>4. 0 \in Nat /\ 8 \in Nat \ {0} /\ wc \in Int
      OBVIOUS
    <3>5. IntSays(t, 0, 8, wc)
      <4>1. IntSays(s, 3, 8, wc)
        BY <2>3
      <4> QED
        BY <3>1, <3>3, <3>4, <4>1, IntMoves
    <3>6. ReadInt(t, 8) = wc
      BY <3>2, <3>3, <3>4, <3>5, IntSaid
    <3> QED
      BY <3>6 DEF t
  <2>6. ReadBytes(From(s, 12), HashBytes) = h
    <3>1. 11 \in Nat /\ 11 <= Len(s) /\ 11 + 1 = 12
      BY <1>1, <2>3
    <3> DEFINE t == From(s, 12)
    <3>2. t \in Bits /\ Len(t) = Len(s) - 11 /\ \A i \in 1 .. Len(s) - 11 : t[i] = s[11 + i]
      BY <3>1, FromIs
    <3> HIDE DEF t
    <3>7. 8 * Len(h) <= Len(s) - 11
      BY <1>1, <2>1, <2>3
    <3> DEFINE v == 8 * Len(h)
    <3>8. v \in Nat
      BY <2>1
    <3> HIDE DEF v
    <3>9. v <= Len(t) /\ Agree(t, 0, s, 11, v)
      BY <1>1, <3>2, <3>7, <3>8 DEF Agree, v
    <3>3. 8 * Len(h) <= Len(t) /\ Agree(t, 0, s, 11, 8 * Len(h))
      BY <3>9 DEF v
    <3>4. 0 \in Nat
      OBVIOUS
    <3>5. BytesSay(t, 0, h)
      <4>1. BytesSay(s, 11, h)
        BY <2>3
      <4> QED
        BY <3>1, <3>3, <3>4, <4>1, BytesMove
    <3>6. ReadBytes(t, Len(h)) = h
      BY <3>2, <3>3, <3>5, BytesSaid
    <3> QED
      BY <2>1, <3>6 DEF t
  <2>7. ReadAddress(s) = [value |-> [wc |-> wc, hash_part |-> h], size |-> 11 + 8 * HashBytes]
    BY <2>4, <2>5, <2>6 DEF ReadAddress
  <2> QED
    BY <2>1, <2>2, <2>7 DEF AddressSize
<1> QED
  BY <1>3, <1>4 DEF IsAddress

-----------------------------------------------------------------------------
(* What a builder holds is laid out as the reads will take it               *)

\* An item takes n bits of bs behind the a-th, and m references of rs behind
\* the c-th: from whatever begins with these, the read that goes with the item
\* gets its value and takes as much.
Decodes(item, bs, a, n, rs, c, m) ==
    /\ n \in Nat /\ m \in {0, 1} /\ n + m > 0
    /\ \A t \in Bits : \A next :
          n <= Len(t) /\ Agree(t, 0, bs, a, n) /\ (m = 1 => next = rs[c + 1]) =>
             /\ Reading(item, t, next).size = n /\ Reading(item, t, next).refs = m
             /\ IsHeld(item) => Reading(item, t, next).value = item.datum

LEMMA DecodesMoves ==
    ASSUME NEW item, NEW bs, NEW a, NEW n, NEW rs, NEW c, NEW m, Decodes(item, bs, a, n, rs, c, m),
           NEW bt, NEW b, NEW rt, NEW d, Agree(bt, b, bs, a, n), m = 1 => rt[d + 1] = rs[c + 1]
    PROVE  Decodes(item, bt, b, n, rt, d, m)
<1>1. n \in Nat /\ m \in {0, 1} /\ n + m > 0
  BY DEF Decodes
<1>2. ASSUME NEW t \in Bits, NEW next, n <= Len(t), Agree(t, 0, bt, b, n), m = 1 => next = rt[d + 1]
      PROVE  /\ Reading(item, t, next).size = n /\ Reading(item, t, next).refs = m
             /\ IsHeld(item) => Reading(item, t, next).value = item.datum
  <2>1. Agree(t, 0, bs, a, n)
    BY <1>2 DEF Agree
  <2>2. m = 1 => next = rs[c + 1]
    BY <1>2
  <2> QED
    BY <1>2, <2>1, <2>2 DEF Decodes
<1> QED
  BY <1>1, <1>2 DEF Decodes

\* Where one item ends the next begins.
Cuts(cut, len, from, upto) ==
    /\ \A k \in 0 .. len : cut[k] \in Nat
    /\ cut[0] = from /\ cut[len] = upto
    /\ \A k, l \in 0 .. len : k <= l => cut[k] <= cut[l]

Each(items, bs, cut, rs, rcut) ==
    \A k \in 1 .. Len(items) :
        Decodes(items[k], bs, cut[k - 1], cut[k] - cut[k - 1],
                rs, rcut[k - 1], rcut[k] - rcut[k - 1])

\* The items take the bits of bs from a to b, and the references of rs from c
\* to d, one behind the other.
Lays(bs, rs, items, a, b, c, d) ==
    \E cut, rcut : /\ Cuts(cut, Len(items), a, b) /\ Cuts(rcut, Len(items), c, d)
                   /\ Each(items, bs, cut, rs, rcut)

LEMMA CutsJoin ==
    ASSUME NEW p \in Nat, NEW q \in Nat, NEW f, NEW g, NEW a, NEW b, NEW c,
           Cuts(f, p, a, b), Cuts(g, q, b, c)
    PROVE  \E h : /\ Cuts(h, p + q, a, c)
                  /\ \A k \in 0 .. p : h[k] = f[k]
                  /\ \A k \in 0 .. q : h[p + k] = g[k]
<1> DEFINE h == [k \in 0 .. p + q |-> IF k <= p THEN f[k] ELSE g[k - p]]
<1>1. \A k \in 0 .. p : h[k] = f[k]
  OBVIOUS
<1>2. \A k \in 0 .. q : h[p + k] = g[k]
  <2> TAKE k \in 0 .. q
  <2>1. CASE k = 0
    <3>1. h[p + k] = f[p] /\ f[p] = g[0]
      BY <2>1 DEF Cuts
    <3> QED
      BY <2>1, <3>1
  <2>2. CASE k # 0
    <3>1. p + k \in 0 .. p + q /\ ~(p + k <= p) /\ (p + k) - p = k
      BY <2>2
    <3> QED
      BY <3>1
  <2> QED
    BY <2>1, <2>2
<1> HIDE DEF h
<1>3. \A k \in 0 .. p + q : k \in 0 .. p \/ (k - p \in 0 .. q /\ k = p + (k - p))
  OBVIOUS
<1>4. ASSUME NEW k \in 0 .. p + q PROVE h[k] \in Nat
  BY <1>1, <1>2, <1>3 DEF Cuts
<1>5. h[0] = a /\ h[p + q] = c
  <2>1. 0 \in 0 .. p /\ q \in 0 .. q
    OBVIOUS
  <2> QED
    BY <1>1, <1>2, <2>1 DEF Cuts
<1>6. ASSUME NEW k \in 0 .. p + q, NEW l \in 0 .. p + q, k <= l PROVE h[k] <= h[l]
  <2>1. CASE l \in 0 .. p
    <3>1. k \in 0 .. p
      BY <1>6, <2>1
    <3> QED
      BY <1>1, <1>6, <2>1, <3>1 DEF Cuts
  <2>2. CASE ~(l \in 0 .. p)
    <3> DEFINE e == l - p
    <3>1. e \in 0 .. q /\ l = p + e
      BY <2>2
    <3> HIDE DEF e
    <3>2. h[l] = g[e] /\ g[e] \in Nat
      BY <1>2, <3>1 DEF Cuts
    <3>3. CASE k \in 0 .. p
      <4>1. h[k] = f[k] /\ f[k] \in Nat /\ f[k] <= b /\ b \in Nat
        <5>1. p \in 0 .. p /\ k <= p
          BY <3>3
        <5>2. f[k] <= f[p] /\ f[p] = b /\ f[p] \in Nat
          BY <3>3, <5>1 DEF Cuts
        <5> QED
          BY <1>1, <3>3, <5>2 DEF Cuts
      <4>2. b <= g[e]
        <5>1. 0 \in 0 .. q /\ 0 <= e
          BY <3>1
        <5>2. g[0] <= g[e] /\ g[0] = b
          BY <3>1, <5>1 DEF Cuts
        <5> QED
          BY <5>2
      <4> QED
        BY <3>2, <4>1, <4>2
    <3>4. CASE ~(k \in 0 .. p)
      <4> DEFINE i == k - p
      <4>1. i \in 0 .. q /\ k = p + i /\ i <= e
        BY <1>6, <3>1, <3>4
      <4> HIDE DEF i
      <4>2. g[i] <= g[e] /\ h[k] = g[i]
        BY <1>2, <3>1, <4>1 DEF Cuts
      <4> QED
        BY <3>2, <4>2
    <3> QED
      BY <3>3, <3>4
  <2> QED
    BY <2>1, <2>2
<1>7. Cuts(h, p + q, a, c)
  BY <1>4, <1>5, <1>6 DEF Cuts
<1> QED
  BY <1>1, <1>2, <1>7

LEMMA LaysJoin ==
    ASSUME NEW S, NEW x \in Seq(S), NEW y \in Seq(S), NEW bs, NEW rs,
           NEW a, NEW b, NEW c, NEW d, NEW e, NEW f,
           Lays(bs, rs, x, a, b, c, d), Lays(bs, rs, y, b, e, d, f)
    PROVE  Lays(bs, rs, x \o y, a, e, c, f)
<1> DEFINE p == Len(x)
           q == Len(y)
           z == x \o y
<1>1. p \in Nat /\ q \in Nat /\ Len(z) = p + q
  OBVIOUS
<1>2. /\ \A k \in 1 .. p : z[k] = x[k]
      /\ \A k \in 1 .. q : z[p + k] = y[k]
  OBVIOUS
<1>3. PICK f1, r1 : Cuts(f1, p, a, b) /\ Cuts(r1, p, c, d) /\ Each(x, bs, f1, rs, r1)
  BY DEF Lays
<1>4. PICK f2, r2 : Cuts(f2, q, b, e) /\ Cuts(r2, q, d, f) /\ Each(y, bs, f2, rs, r2)
  BY DEF Lays
<1>5. /\ \A k \in 1 .. p : Decodes(x[k], bs, f1[k - 1], f1[k] - f1[k - 1],
                                   rs, r1[k - 1], r1[k] - r1[k - 1])
      /\ \A k \in 1 .. q : Decodes(y[k], bs, f2[k - 1], f2[k] - f2[k - 1],
                                   rs, r2[k - 1], r2[k] - r2[k - 1])
  BY <1>3, <1>4 DEF Each
<1> HIDE DEF p, q, z
<1>6. PICK h : /\ Cuts(h, p + q, a, e) /\ \A k \in 0 .. p : h[k] = f1[k]
               /\ \A k \in 0 .. q : h[p + k] = f2[k]
  BY <1>1, <1>3, <1>4, CutsJoin
<1>7. PICK r : /\ Cuts(r, p + q, c, f) /\ \A k \in 0 .. p : r[k] = r1[k]
               /\ \A k \in 0 .. q : r[p + k] = r2[k]
  BY <1>1, <1>3, <1>4, CutsJoin
<1>8. ASSUME NEW k \in 1 .. Len(z)
      PROVE  Decodes(z[k], bs, h[k - 1], h[k] - h[k - 1], rs, r[k - 1], r[k] - r[k - 1])
  <2>1. CASE k <= p
    <3>1. k \in 1 .. p /\ k - 1 \in 0 .. p /\ k \in 0 .. p
      BY <1>1, <2>1
    <3>2. /\ z[k] = x[k] /\ h[k - 1] = f1[k - 1] /\ h[k] = f1[k]
          /\ r[k - 1] = r1[k - 1] /\ r[k] = r1[k]
      BY <1>2, <1>6, <1>7, <3>1
    <3> QED
      BY <1>5, <3>1, <3>2
  <2>2. CASE ~(k <= p)
    <3> DEFINE i == k - p
    <3>1. /\ i \in 1 .. q /\ i - 1 \in 0 .. q /\ i \in 0 .. q
          /\ k = p + i /\ k - 1 = p + (i - 1)
      BY <1>1, <2>2
    <3> HIDE DEF i
    <3>2. /\ z[k] = y[i] /\ h[k - 1] = f2[i - 1] /\ h[k] = f2[i]
          /\ r[k - 1] = r2[i - 1] /\ r[k] = r2[i]
      BY <1>2, <1>6, <1>7, <3>1
    <3> QED
      BY <1>5, <3>1, <3>2
  <2> QED
    BY <2>1, <2>2
<1>9. Each(z, bs, h, rs, r)
  BY <1>8 DEF Each
<1>10. Lays(bs, rs, z, a, e, c, f)
  BY <1>1, <1>6, <1>7, <1>9 DEF Lays
<1> QED
  BY <1>10 DEF z


LEMMA CutsMove ==
    ASSUME NEW p \in Nat, NEW u, NEW from, NEW upto, NEW to \in Nat, Cuts(u, p, from, upto)
    PROVE  \E v : /\ Cuts(v, p, to, to + (upto - from))
                  /\ \A k \in 0 .. p : v[k] = to + (u[k] - from)
<1> DEFINE v == [k \in 0 .. p |-> to + (u[k] - from)]
<1>1. \A k \in 0 .. p : v[k] = to + (u[k] - from)
  OBVIOUS
<1> HIDE DEF v
<1>2. 0 \in 0 .. p /\ p \in 0 .. p
  OBVIOUS
<1>3. u[0] = from /\ u[p] = upto /\ from \in Nat /\ upto \in Nat
  BY <1>2 DEF Cuts
<1>4. ASSUME NEW k \in 0 .. p PROVE u[k] \in Nat /\ from <= u[k]
  <2>1. 0 <= k
    BY <1>2
  <2> QED
    BY <1>2, <1>3, <2>1 DEF Cuts
<1>5. \A k \in 0 .. p : v[k] \in Nat
  <2> TAKE k \in 0 .. p
  <2> QED
    BY <1>1, <1>3, <1>4
<1>6. v[0] = to /\ v[p] = to + (upto - from)
  BY <1>1, <1>2, <1>3
<1>7. ASSUME NEW k \in 0 .. p, NEW l \in 0 .. p, k <= l PROVE v[k] <= v[l]
  <2>1. u[k] <= u[l]
    BY <1>7 DEF Cuts
  <2> QED
    BY <1>1, <1>3, <1>4, <2>1
<1>8. Cuts(v, p, to, to + (upto - from))
  BY <1>5, <1>6, <1>7 DEF Cuts
<1> QED
  BY <1>1, <1>8

LEMMA LaysMoves ==
    ASSUME NEW bs, NEW rs, NEW items, NEW bt, NEW rt, NEW a, NEW b, NEW c, NEW d, Len(items) \in Nat,
           NEW e \in Nat, NEW f \in Nat, Lays(bs, rs, items, a, b, c, d),
           Agree(bt, e, bs, a, b - a), Agree(rt, f, rs, c, d - c)
    PROVE  Lays(bt, rt, items, e, e + (b - a), f, f + (d - c))
<1> DEFINE p == Len(items)
<1>1. PICK cut, rcut : Cuts(cut, p, a, b) /\ Cuts(rcut, p, c, d) /\ Each(items, bs, cut, rs, rcut)
  BY DEF Lays
<1>2. p \in Nat
  OBVIOUS
<1>3. \A k \in 1 .. p : Decodes(items[k], bs, cut[k - 1], cut[k] - cut[k - 1],
                                rs, rcut[k - 1], rcut[k] - rcut[k - 1])
  BY <1>1 DEF Each
<1> HIDE DEF p
<1>5. PICK mv : Cuts(mv, p, e, e + (b - a)) /\ \A k \in 0 .. p : mv[k] = e + (cut[k] - a)
  BY <1>1, <1>2, CutsMove
<1>6. PICK rmv : Cuts(rmv, p, f, f + (d - c)) /\ \A k \in 0 .. p : rmv[k] = f + (rcut[k] - c)
  BY <1>1, <1>2, CutsMove
<1>7. ASSUME NEW k \in 1 .. p
      PROVE  Decodes(items[k], bt, mv[k - 1], mv[k] - mv[k - 1], rt, rmv[k - 1], rmv[k] - rmv[k - 1])
  <2> DEFINE x == cut[k - 1]
             y == cut[k]
             z == rcut[k - 1]
             w == rcut[k]
  <2>1. k - 1 \in 0 .. p /\ k \in 0 .. p /\ 0 \in 0 .. p /\ p \in 0 .. p /\ 0 <= k - 1 /\ k - 1 <= k /\ k <= p
    BY <1>2
  <2>2. x \in Nat /\ y \in Nat /\ a \in Nat /\ b \in Nat /\ a <= x /\ x <= y /\ y <= b
    BY <1>1, <2>1 DEF Cuts
  <2>3. z \in Nat /\ w \in Nat /\ c \in Nat /\ d \in Nat /\ c <= z /\ z <= w /\ w <= d
    BY <1>1, <2>1 DEF Cuts
  <2>4. mv[k - 1] = e + (x - a) /\ mv[k] = e + (y - a) /\ rmv[k - 1] = f + (z - c) /\ rmv[k] = f + (w - c)
    BY <1>5, <1>6, <2>1
  <2>5. Decodes(items[k], bs, x, y - x, rs, z, w - z)
    BY <1>3
  <2> HIDE DEF x, y, z, w
  <2>6. /\ mv[k - 1] = e + (x - a) /\ mv[k] - mv[k - 1] = y - x
        /\ rmv[k - 1] = f + (z - c) /\ rmv[k] - rmv[k - 1] = w - z
    BY <2>2, <2>3, <2>4
  <2>7. Agree(bt, e + (x - a), bs, x, y - x)
    <3> SUFFICES ASSUME NEW i \in 1 .. y - x PROVE bt[(e + (x - a)) + i] = bs[x + i]
      BY DEF Agree
    <3>1. (x - a) + i \in 1 .. b - a /\ e + ((x - a) + i) = (e + (x - a)) + i /\ a + ((x - a) + i) = x + i
      BY <2>2
    <3>2. bt[e + ((x - a) + i)] = bs[a + ((x - a) + i)]
      BY <3>1 DEF Agree
    <3> QED
      BY <3>1, <3>2
  <2>8. w - z = 1 => rt[(f + (z - c)) + 1] = rs[z + 1]
    <3> SUFFICES ASSUME w - z = 1 PROVE rt[(f + (z - c)) + 1] = rs[z + 1]
      OBVIOUS
    <3>1. (z - c) + 1 \in 1 .. d - c /\ f + ((z - c) + 1) = (f + (z - c)) + 1 /\ c + ((z - c) + 1) = z + 1
      BY <2>3
    <3>2. rt[f + ((z - c) + 1)] = rs[c + ((z - c) + 1)]
      BY <3>1 DEF Agree
    <3> QED
      BY <3>1, <3>2
  <2>9. Decodes(items[k], bt, e + (x - a), y - x, rt, f + (z - c), w - z)
    BY <2>5, <2>7, <2>8, DecodesMoves
  <2> QED
    BY <2>6, <2>9
<1>8. Each(items, bt, mv, rt, rmv)
  BY <1>7 DEF Each, p
<1> QED
  BY <1>5, <1>6, <1>8 DEF Lays, p

LEMMA LaysOne ==
    ASSUME NEW item, NEW bs, NEW a \in Nat, NEW n \in Nat, NEW rs, NEW c \in Nat, NEW m \in Nat,
           Decodes(item, bs, a, n, rs, c, m)
    PROVE  Lays(bs, rs, <<item>>, a, a + n, c, c + m)
<1> DEFINE cut == [k \in 0 .. 1 |-> IF k = 0 THEN a ELSE a + n]
           rcut == [k \in 0 .. 1 |-> IF k = 0 THEN c ELSE c + m]
<1>1. Cuts(cut, 1, a, a + n) /\ Cuts(rcut, 1, c, c + m)
  BY DEF Cuts
<1>2. Len(<<item>>) = 1 /\ <<item>>[1] = item
  OBVIOUS
<1>3. /\ cut[1 - 1] = a /\ cut[1] - cut[1 - 1] = n
      /\ rcut[1 - 1] = c /\ rcut[1] - rcut[1 - 1] = m
  OBVIOUS
<1> HIDE DEF cut, rcut
<1>4. Each(<<item>>, bs, cut, rs, rcut)
  <2> SUFFICES ASSUME NEW k \in 1 .. 1
               PROVE  Decodes(<<item>>[k], bs, cut[k - 1], cut[k] - cut[k - 1],
                              rs, rcut[k - 1], rcut[k] - rcut[k - 1])
    BY <1>2 DEF Each
  <2>1. k = 1
    OBVIOUS
  <2> QED
    BY <1>2, <1>3, <2>1
<1> QED
  BY <1>1, <1>2, <1>4 DEF Lays

LEMMA LaysNothing == ASSUME NEW bs, NEW rs, NEW a \in Nat, NEW c \in Nat PROVE Lays(bs, rs, << >>, a, a, c, c)
<1> DEFINE cut == [k \in 0 .. 0 |-> a]
           rcut == [k \in 0 .. 0 |-> c]
<1>1. Cuts(cut, 0, a, a) /\ Cuts(rcut, 0, c, c) /\ Len(<< >>) = 0
  BY DEF Cuts
<1>2. Each(<< >>, bs, cut, rs, rcut)
  BY DEF Each
<1> HIDE DEF cut, rcut
<1> QED
  BY <1>1, <1>2 DEF Lays

LEMMA LaysEnds ==
    ASSUME NEW bs, NEW rs, NEW items, NEW a, NEW b, NEW c, NEW d, Len(items) \in Nat,
           Lays(bs, rs, items, a, b, c, d)
    PROVE  a \in Nat /\ b \in Nat /\ a <= b /\ c \in Nat /\ d \in Nat /\ c <= d
<1>1. PICK cut, rcut : Cuts(cut, Len(items), a, b) /\ Cuts(rcut, Len(items), c, d)
  BY DEF Lays
<1>2. 0 \in 0 .. Len(items) /\ Len(items) \in 0 .. Len(items) /\ 0 <= Len(items)
  OBVIOUS
<1> QED
  BY <1>1, <1>2 DEF Cuts

\* The first item and the others.
LEMMA LaysHead ==
    ASSUME NEW S, NEW items \in Seq(S), items # << >>, NEW bs, NEW rs,
           NEW a, NEW b, NEW c, NEW d, Lays(bs, rs, items, a, b, c, d)
    PROVE  \E n, m \in Nat : /\ Decodes(Head(items), bs, a, n, rs, c, m)
                             /\ Lays(bs, rs, Tail(items), a + n, b, c + m, d)
<1> DEFINE p == Len(items)
           rest == Tail(items)
<1>1. /\ p \in Nat /\ p >= 1 /\ Len(rest) = p - 1 /\ Head(items) = items[1]
      /\ \A k \in 1 .. p - 1 : rest[k] = items[k + 1]
  OBVIOUS
<1>2. PICK cut, rcut : Cuts(cut, p, a, b) /\ Cuts(rcut, p, c, d) /\ Each(items, bs, cut, rs, rcut)
  BY DEF Lays
<1>3. \A k \in 1 .. p : Decodes(items[k], bs, cut[k - 1], cut[k] - cut[k - 1],
                                rs, rcut[k - 1], rcut[k] - rcut[k - 1])
  BY <1>2 DEF Each
<1> HIDE DEF p, rest
<1> DEFINE n == cut[1] - a
           m == rcut[1] - c
<1>4. 0 \in 0 .. p /\ 1 \in 0 .. p /\ p \in 0 .. p /\ 1 - 1 = 0 /\ 1 \in 1 .. p /\ 0 <= 1 /\ 1 <= p
  BY <1>1
<1>5. cut[0] = a /\ rcut[0] = c /\ a \in Nat /\ c \in Nat /\ cut[1] \in Nat /\ rcut[1] \in Nat
      /\ a <= cut[1] /\ c <= rcut[1]
  BY <1>2, <1>4 DEF Cuts
<1>6. n \in Nat /\ m \in Nat /\ a + n = cut[1] /\ c + m = rcut[1]
  BY <1>5
<1>7. Decodes(Head(items), bs, a, n, rs, c, m)
  BY <1>1, <1>3, <1>4, <1>5
<1> HIDE DEF n, m
<1>8. \A u, from, upto : Cuts(u, p, from, upto) =>
          \E v : Cuts(v, p - 1, u[1], upto) /\ \A k \in 0 .. p - 1 : v[k] = u[k + 1]
  <2> SUFFICES ASSUME NEW u, NEW from, NEW upto, Cuts(u, p, from, upto)
               PROVE  \E v : Cuts(v, p - 1, u[1], upto) /\ \A k \in 0 .. p - 1 : v[k] = u[k + 1]
    OBVIOUS
  <2> DEFINE v == [k \in 0 .. p - 1 |-> u[k + 1]]
  <2>1. \A k \in 0 .. p - 1 : v[k] = u[k + 1] /\ k + 1 \in 0 .. p
    BY <1>1
  <2> HIDE DEF v
  <2>2. v[0] = u[1] /\ v[p - 1] = u[p] /\ u[p] = upto
    <3>1. 0 \in 0 .. p - 1 /\ p - 1 \in 0 .. p - 1 /\ (p - 1) + 1 = p /\ 0 + 1 = 1
      BY <1>1
    <3> QED
      BY <2>1, <3>1 DEF Cuts
  <2>3. \A k \in 0 .. p - 1 : v[k] \in Nat
    BY <2>1 DEF Cuts
  <2>4. ASSUME NEW k \in 0 .. p - 1, NEW l \in 0 .. p - 1, k <= l PROVE v[k] <= v[l]
    <3>1. k + 1 \in 0 .. p /\ l + 1 \in 0 .. p /\ k + 1 <= l + 1
      BY <1>1, <2>4
    <3>2. u[k + 1] <= u[l + 1]
      BY <3>1 DEF Cuts
    <3> QED
      BY <2>1, <3>2
  <2>5. Cuts(v, p - 1, u[1], upto)
    BY <2>2, <2>3, <2>4 DEF Cuts
  <2> QED
    BY <2>1, <2>5
<1>9. PICK v : Cuts(v, p - 1, cut[1], b) /\ \A k \in 0 .. p - 1 : v[k] = cut[k + 1]
  BY <1>2, <1>8
<1>10. PICK r : Cuts(r, p - 1, rcut[1], d) /\ \A k \in 0 .. p - 1 : r[k] = rcut[k + 1]
  BY <1>2, <1>8
<1>11. ASSUME NEW k \in 1 .. Len(rest)
       PROVE  Decodes(rest[k], bs, v[k - 1], v[k] - v[k - 1], rs, r[k - 1], r[k] - r[k - 1])
  <2>1. /\ k \in 1 .. p - 1 /\ k - 1 \in 0 .. p - 1 /\ k \in 0 .. p - 1
        /\ k + 1 \in 1 .. p /\ (k - 1) + 1 = k /\ (k + 1) - 1 = k
    BY <1>1
  <2>2. /\ rest[k] = items[k + 1] /\ v[k - 1] = cut[k] /\ v[k] = cut[k + 1]
        /\ r[k - 1] = rcut[k] /\ r[k] = rcut[k + 1]
    BY <1>1, <1>9, <1>10, <2>1
  <2>3. Decodes(items[k + 1], bs, cut[(k + 1) - 1], cut[k + 1] - cut[(k + 1) - 1],
                rs, rcut[(k + 1) - 1], rcut[k + 1] - rcut[(k + 1) - 1])
    BY <1>3, <2>1
  <2> QED
    BY <2>1, <2>2, <2>3
<1>12. Each(rest, bs, v, rs, r)
  BY <1>11 DEF Each
<1>13. Lays(bs, rs, rest, a + n, b, c + m, d)
  BY <1>1, <1>6, <1>9, <1>10, <1>12 DEF Lays
<1> QED
  BY <1>6, <1>7, <1>13 DEF rest


-----------------------------------------------------------------------------
(* What a store writes is what the read takes                               *)

\* What an application stores.  A field without bits is left out: nothing of it
\* can be read.
IsItem(item) ==
    \/ /\ item.kind \in {"bit", "bits"}
       /\ item.datum \in Bits /\ item.width = Len(item.datum) /\ item.width > 0
    \/ item.kind \in {"uint", "int"} /\ item.datum \in Int /\ item.width \in Nat \ {0}
    \/ /\ item.kind = "bytes"
       /\ item.datum \in Seq(0 .. 255) /\ item.width = Len(item.datum) /\ item.width > 0
    \/ item.kind = "grams" /\ item.datum \in Nat
    \/ item.kind = "address" /\ IsAddress(item.datum)
    \/ item.kind \in {"ref", "maybe_ref", "cell", "slice", "maybe_slice"}

\* The read of an item from bits that begin with s, which takes no reference.
ReadsBack(item, s) ==
    \A t \in Bits : \A next :
        Len(s) <= Len(t) /\ Agree(t, 0, s, 0, Len(s)) =>
           /\ Reading(item, t, next).size = Len(s) /\ Reading(item, t, next).refs = 0
           /\ IsHeld(item) => Reading(item, t, next).value = item.datum

LEMMA BitsOnly ==
    ASSUME NEW item, NEW s \in Bits, Len(s) > 0, NewRefs(item) = << >>, ReadsBack(item, s)
    PROVE  Decodes(item, s, 0, Len(s), NewRefs(item), 0, Len(NewRefs(item)))
<1>1. Len(s) \in Nat /\ Len(NewRefs(item)) = 0 /\ 0 \in {0, 1} /\ Len(s) + 0 > 0 /\ ~(0 = 1)
  BY DEF Bits
<1>2. Decodes(item, s, 0, Len(s), NewRefs(item), 0, 0)
  BY <1>1 DEF Decodes, ReadsBack
<1> QED
  BY <1>1, <1>2

LEMMA BitsDecode ==
    ASSUME NEW item, IsItem(item), item.kind \in {"bit", "bits"}
    PROVE  Wrote(Written(item), item.datum) /\ Len(item.datum) > 0 /\ ReadsBack(item, item.datum)
<1> DEFINE s == item.datum
           w == item.width
<1>1. s \in Bits /\ w = Len(s) /\ w > 0 /\ w \in Nat
  BY DEF IsItem, Bits
<1>2. Wrote(Written(item), s)
  BY <1>1 DEF Written, Wrote
<1>3. ASSUME NEW t \in Bits, NEW next, Len(s) <= Len(t), Agree(t, 0, s, 0, Len(s))
      PROVE  /\ Reading(item, t, next).size = Len(s) /\ Reading(item, t, next).refs = 0
             /\ Reading(item, t, next).value = s
  <2>1. Reading(item, t, next) = [value |-> SubSeq(t, 1, w), size |-> w, refs |-> 0]
    BY DEF Reading
  <2>2. SubSeq(t, 1, w) = s
    <3> HIDE DEF s, w
    <3>1. \A i \in 1 .. w : t[0 + i] = s[i] /\ t[0 + i] \in {0, 1}
      BY <1>1, <1>3 DEF Agree, Bits
    <3>2. /\ SubSeq(t, 0 + 1, 0 + w) \in Seq({0, 1}) /\ Len(SubSeq(t, 0 + 1, 0 + w)) = w
          /\ \A i \in 1 .. w : SubSeq(t, 0 + 1, 0 + w)[i] = t[0 + i]
      BY <1>1, <3>1, Piece
    <3>3. 0 + 1 = 1 /\ 0 + w = w
      BY <1>1
    <3> DEFINE u == SubSeq(t, 1, w)
    <3>4. u \in Seq({0, 1}) /\ s \in Seq({0, 1}) /\ Len(u) = Len(s) /\ \A i \in 1 .. Len(s) : u[i] = s[i]
      BY <1>1, <3>1, <3>2, <3>3 DEF Bits
    <3> HIDE DEF u
    <3>5. u = s
      BY <3>4
    <3> QED
      BY <3>5 DEF u
  <2> QED
    BY <1>1, <2>1, <2>2
<1> QED
  BY <1>1, <1>2, <1>3 DEF ReadsBack

LEMMA UintDecodes ==
    ASSUME NEW item, IsItem(item), item.kind = "uint", ~Written(item).raises
    PROVE  \E s : Wrote(Written(item), s) /\ Len(s) > 0 /\ ReadsBack(item, s)
<1> DEFINE n == item.datum
           w == item.width
<1>1. n \in Int /\ w \in Nat \ {0}
  BY DEF IsItem
<1>2. Written(item) = Uint(n, w)
  BY DEF Written
<1>3. IsHeld(item) => n \in Nat
  BY <1>1 DEF IsHeld
<1>4. \A t, next : Reading(item, t, next) = [value |-> Number(SubSeq(t, 1, w)), size |-> w, refs |-> 0]
  BY DEF Reading
<1> HIDE DEF n, w
<1>5. PICK s : Wrote(Uint(n, w), s) /\ Len(s) = w /\ (n >= 0 => Says(s, 0, w, n))
  BY <1>1, <1>2, UintWrites DEF Wrote
<1>6. ASSUME NEW t \in Bits, w <= Len(t), Agree(t, 0, s, 0, w), n \in Nat
      PROVE  Number(SubSeq(t, 1, w)) = n
  <2>1. Says(t, 0, w, n)
    BY <1>5, <1>6, SaysMoves
  <2>2. 0 + w <= Len(t) /\ 0 + 1 = 1 /\ 0 + w = w /\ w \in Nat /\ 0 \in Nat /\ t \in Seq({0, 1})
    BY <1>1, <1>6 DEF Bits
  <2>3. Number(SubSeq(t, 0 + 1, 0 + w)) = n
    BY <1>6, <2>1, <2>2, NumberBehind, Zenon
  <2> QED
    BY <2>2, <2>3
<1>7. ReadsBack(item, s)
  BY <1>3, <1>4, <1>5, <1>6 DEF ReadsBack, n
<1> QED
  BY <1>1, <1>2, <1>5, <1>7

LEMMA IntDecodes ==
    ASSUME NEW item, IsItem(item), item.kind = "int", ~Written(item).raises
    PROVE  \E s : Wrote(Written(item), s) /\ Len(s) > 0 /\ ReadsBack(item, s)
<1> DEFINE n == item.datum
           w == item.width
<1>1. n \in Int /\ w \in Nat \ {0}
  BY DEF IsItem
<1>2. Written(item) = Int_(n, w)
  BY DEF Written
<1>3. IsHeld(item) => n >= -Power(w - 1)
  BY <1>1 DEF IsHeld, Power
<1>4. \A t, next : Reading(item, t, next) = [value |-> ReadInt(t, w), size |-> w, refs |-> 0]
  BY DEF Reading
<1> HIDE DEF n, w
<1>5. PICK s : Wrote(Int_(n, w), s) /\ Len(s) = w /\ (n >= -Power(w - 1) => IntSays(s, 0, w, n))
  BY <1>1, <1>2, IntWrites DEF Wrote
<1>6. ASSUME NEW t \in Bits, w <= Len(t), Agree(t, 0, s, 0, w), n >= -Power(w - 1)
      PROVE  ReadInt(t, w) = n
  <2>1. 0 \in Nat /\ IntSays(s, 0, w, n)
    BY <1>5, <1>6
  <2>2. IntSays(t, 0, w, n)
    BY <1>1, <1>6, <2>1, IntMoves, Zenon
  <2> QED
    BY <1>1, <1>6, <2>2, IntSaid
<1>7. ReadsBack(item, s)
  BY <1>3, <1>4, <1>5, <1>6 DEF ReadsBack, n
<1> QED
  BY <1>1, <1>2, <1>5, <1>7

LEMMA BytesDecode ==
    ASSUME NEW item, IsItem(item), item.kind = "bytes"
    PROVE  \E s : Wrote(Written(item), s) /\ Len(s) > 0 /\ ReadsBack(item, s)
<1> DEFINE d == item.datum
           w == 8 * item.width
<1>1. d \in Seq(0 .. 255) /\ item.width = Len(d) /\ item.width > 0
  BY DEF IsItem
<1>2. Len(d) \in Nat
  BY <1>1, BytesAre
<1>3. Written(item) = Bytes(d)
  BY DEF Written
<1>4. \A t, next : Reading(item, t, next) = [value |-> ReadBytes(t, Len(d)), size |-> w, refs |-> 0]
  BY <1>1 DEF Reading
<1>5. w > 0 /\ w = 8 * Len(d)
  BY <1>1, <1>2
<1> HIDE DEF d, w
<1>6. /\ Bytes(d) = Quiet(Bytes(d).bits)
      /\ Bytes(d).bits \in Bits /\ Len(Bytes(d).bits) = 8 * Len(d)
      /\ BytesSay(Bytes(d).bits, 0, d)
  BY <1>1, BytesWrite
<1>7. PICK s : Wrote(Bytes(d), s) /\ Len(s) = 8 * Len(d) /\ BytesSay(s, 0, d)
  BY <1>6 DEF Wrote
<1>8. ASSUME NEW t \in Bits, 8 * Len(d) <= Len(t), Agree(t, 0, s, 0, 8 * Len(d))
      PROVE  ReadBytes(t, Len(d)) = d
  <2>1. 0 \in Nat
    OBVIOUS
  <2>2. BytesSay(t, 0, d)
    BY <1>1, <1>7, <1>8, <2>1, BytesMove, Zenon
  <2> QED
    BY <1>1, <1>8, <2>2, BytesSaid, Zenon
<1>9. ReadsBack(item, s)
  <2>1. Len(s) = w
    BY <1>5, <1>7, Zenon
  <2>2. \A t \in Bits : w <= Len(t) /\ Agree(t, 0, s, 0, w) => ReadBytes(t, Len(d)) = d
    BY <1>5, <1>8, Zenon
  <2>3. d = item.datum
    BY DEF d
  <2> HIDE DEF d
  <2> QED
    BY <1>4, <2>1, <2>2, <2>3 DEF ReadsBack
<1> QED
  BY <1>3, <1>5, <1>7, <1>9

LEMMA GramsDecode ==
    ASSUME NEW item, IsItem(item), item.kind = "grams", ~Written(item).raises
    PROVE  \E s : Wrote(Written(item), s) /\ Len(s) > 0 /\ ReadsBack(item, s)
<1> DEFINE n == item.datum
<1>1. n \in Nat
  BY DEF IsItem
<1>2. Written(item) = Grams(n)
  BY DEF Written
<1>3. \A t, next : Reading(item, t, next)
                     = [value |-> ReadCoins(t).value, size |-> ReadCoins(t).size, refs |-> 0]
  BY DEF Reading
<1> HIDE DEF n
<1>4. PICK s : \E z \in Nat : /\ Wrote(Grams(n), s) /\ Len(s) = 4 + 8 * z
                              /\ Says(s, 0, 4, z) /\ Says(s, 4, 8 * z, n)
  BY <1>1, <1>2, GramsWrite
<1>5. PICK sz \in Nat : /\ Wrote(Grams(n), s) /\ Len(s) = 4 + 8 * sz
                        /\ Says(s, 0, 4, sz) /\ Says(s, 4, 8 * sz, n)
  BY <1>4
<1>6. ASSUME NEW t \in Bits, Len(s) <= Len(t), Agree(t, 0, s, 0, Len(s))
      PROVE  ReadCoins(t) = [value |-> n, size |-> Len(s)]
  <2> DEFINE v == 8 * sz
  <2>1. v \in Nat /\ Len(s) = 4 + v /\ 4 + v <= Len(t)
    BY <1>5, <1>6
  <2>2. \A i \in 1 .. 4 : t[0 + i] = s[0 + i]
    BY <1>6, <2>1 DEF Agree
  <2>3. \A i \in 1 .. v : t[4 + i] = s[4 + i]
    <3> SUFFICES ASSUME NEW i \in 1 .. v PROVE t[4 + i] = s[4 + i]
      OBVIOUS
    <3> HIDE DEF v
    <3>1. 4 + i \in 1 .. Len(s) /\ 0 + (4 + i) = 4 + i
      BY <2>1
    <3>2. t[0 + (4 + i)] = s[0 + (4 + i)]
      BY <1>6, <3>1 DEF Agree
    <3> QED
      BY <3>1, <3>2
  <2>4. Says(s, 4, v, n)
    BY <1>5
  <2>5. Says(t, 0, 4, sz)
    BY <1>5, <2>2, SaysMoves DEF Agree
  <2>6. Says(t, 4, v, n)
    <3> HIDE DEF v
    <3> QED
      BY <2>3, <2>4, SaysMoves DEF Agree
  <2>7. ReadCoins(t) = [value |-> n, size |-> 4 + 8 * sz]
    BY <1>1, <1>6, <2>1, <2>5, <2>6, CoinsSaid
  <2> QED
    BY <1>5, <2>7
<1>7. ReadsBack(item, s)
  BY <1>3, <1>6 DEF ReadsBack, n
<1>8. Len(s) > 0
  BY <1>5
<1> QED
  BY <1>2, <1>5, <1>7, <1>8

LEMMA AddressDecodes ==
    ASSUME NEW item, IsItem(item), item.kind = "address", ~Written(item).raises, HashBytes \in Nat
    PROVE  \E s : Wrote(Written(item), s) /\ Len(s) > 0 /\ ReadsBack(item, s)
<1> DEFINE a == item.datum
<1>1. IsAddress(a) /\ a = item.datum
  BY DEF IsItem
<1>2. Written(item) = AddressBits(a)
  BY DEF Written
<1>3. \A t, next : Reading(item, t, next)
                     = [value |-> ReadAddress(t).value, size |-> ReadAddress(t).size, refs |-> 0]
  BY DEF Reading
<1> HIDE DEF a
<1>4. PICK s : Wrote(AddressBits(a), s) /\ Len(s) = AddressSize(a) /\ AddressSays(s, a)
  BY <1>1, <1>2, AddressWrites
<1>5. Len(s) > 0
  BY <1>4 DEF AddressSize
<1>6. ASSUME NEW t \in Bits, Len(s) <= Len(t), Agree(t, 0, s, 0, Len(s))
      PROVE  AddressSays(t, a)
  <2>1. Len(s) \in Nat /\ Len(t) \in Nat
    BY <1>4, <1>6 DEF Wrote, Bits
  <2>2. CASE a = None
    <3>1. Len(s) = 2 /\ Says(s, 0, 2, 0)
      BY <1>4, <2>2 DEF AddressSize, AddressSays
    <3>2. Says(t, 0, 2, 0)
      BY <1>6, <3>1, SaysMoves
    <3> QED
      BY <1>6, <2>2, <3>1, <3>2 DEF AddressSays
  <2>3. CASE IsFull(a)
    <3>1. PICK wc \in {-1, 0}, h \in Seq(0 .. 255) : Len(h) = HashBytes /\ a = [wc |-> wc, hash_part |-> h]
      BY <2>3 DEF IsFull
    <3>2. a # None /\ a.wc = wc /\ a.hash_part = h
      BY <2>3, <3>1, FullIsSome
    <3> DEFINE v == 8 * Len(h)
    <3>3. /\ Len(s) = 11 + 8 * HashBytes /\ Says(s, 0, 2, 2)
          /\ IntSays(s, 3, 8, wc) /\ BytesSay(s, 11, h)
      BY <1>4, <3>2 DEF AddressSize, AddressSays
    <3>4. v \in Nat /\ Len(s) = 11 + v
      BY <3>1, <3>3
    <3> HIDE DEF v
    <3>5. \A i \in 1 .. 11 + v : t[0 + i] = s[0 + i] /\ 0 + i = i
      BY <1>6, <3>4 DEF Agree
    <3>6. Says(t, 0, 2, 2)
      <4>1. \A i \in 1 .. 2 : t[0 + i] = s[0 + i]
        BY <3>4, <3>5
      <4> QED
        BY <3>3, <4>1, SaysMoves DEF Agree
    <3>7. IntSays(t, 3, 8, wc)
      <4>1. Agree(t, 3, s, 3, 8)
        BY <3>4, <3>5 DEF Agree
      <4>2. 3 \in Nat /\ 8 \in Nat \ {0} /\ wc \in Int
        OBVIOUS
      <4>3. IntSays(s, 3, 8, wc)
        BY <3>3
      <4> QED
        BY <4>1, <4>2, <4>3, IntMoves
    <3>8. BytesSay(t, 11, h)
      <4>1. Agree(t, 11, s, 11, v)
        BY <3>4, <3>5 DEF Agree
      <4>2. 11 \in Nat /\ Agree(t, 11, s, 11, 8 * Len(h))
        BY <4>1 DEF v
      <4>3. BytesSay(s, 11, h)
        BY <3>3
      <4> QED
        BY <4>2, <4>3, BytesMove
    <3>9. Len(t) >= 11 + 8 * HashBytes
      BY <1>6, <2>1, <3>3
    <3> QED
      BY <3>2, <3>6, <3>7, <3>8, <3>9 DEF AddressSays
  <2> QED
    BY <1>1, <2>2, <2>3 DEF IsAddress
<1>7. ASSUME NEW t \in Bits, Len(s) <= Len(t), Agree(t, 0, s, 0, Len(s))
      PROVE  ReadAddress(t) = [value |-> a, size |-> Len(s)]
  BY <1>1, <1>4, <1>6, <1>7, AddressSaid
<1>8. ReadsBack(item, s)
  BY <1>1, <1>3, <1>7 DEF ReadsBack
<1> QED
  BY <1>2, <1>4, <1>5, <1>8


LEMMA RefDecodes ==
    ASSUME NEW item, item.kind \in {"ref", "maybe_ref"}
    PROVE  \E s : /\ Wrote(Written(item), s)
                  /\ Decodes(AsHeld(item), s, 0, Len(s), NewRefs(item), 0, Len(NewRefs(item)))
<1>1. CASE item.kind = "ref"
  <2>1. Wrote(Written(item), << >>) /\ Len(<< >>) = 0
    BY <1>1 DEF Written, Wrote, Bits
  <2>2. NewRefs(item) = <<item.datum>>
    BY <1>1 DEF NewRefs
  <2>3. \A t, next : Reading(item, t, next) = [value |-> next, size |-> 0, refs |-> 1]
    BY <1>1 DEF Reading
  <2>4. Len(<<item.datum>>) = 1 /\ <<item.datum>>[0 + 1] = item.datum
    OBVIOUS
  <2>5. 0 \in Nat /\ 1 \in {0, 1} /\ 0 + 1 > 0
    OBVIOUS
  <2>6. Decodes(item, << >>, 0, 0, <<item.datum>>, 0, 1)
    BY <2>3, <2>4, <2>5 DEF Decodes
  <2>7. AsHeld(item) = item
    BY <1>1 DEF AsHeld
  <2> QED
    BY <2>1, <2>2, <2>4, <2>6, <2>7
<1>2. CASE item.kind = "maybe_ref"
  <2> DEFINE rs == MaybeCell(item.datum)
             m == Len(rs)
             s == <<m>>
             held == AsHeld(item)
  <2>1. Written(item) = Quiet(s) /\ NewRefs(item) = rs
    BY <1>2 DEF Written, NewRefs
  <2>2. m \in {0, 1} /\ (m = 1 => rs[0 + 1] = held.datum) /\ (m = 0 => held.datum = "none")
    BY <1>2 DEF MaybeCell, AsHeld, NoCell
  <2>4. held.kind = "maybe_ref"
    BY <1>2 DEF AsHeld, NoCell
  <2> HIDE DEF rs, m, held
  <2>3. \A t, next : Reading(held, t, next)
                       = IF t[1] = 1 THEN [value |-> next, size |-> 1, refs |-> 1]
                         ELSE [value |-> "none", size |-> 1, refs |-> 0]
    BY <2>4 DEF Reading
  <2>5. s \in Bits /\ Len(s) = 1 /\ s[0 + 1] = m
    BY <2>2 DEF Bits
  <2> HIDE DEF s
  <2>6. ASSUME NEW t \in Bits, NEW next, 1 <= Len(t), Agree(t, 0, s, 0, 1), m = 1 => next = rs[0 + 1]
        PROVE  /\ Reading(held, t, next).size = 1 /\ Reading(held, t, next).refs = m
               /\ Reading(held, t, next).value = held.datum
    <3>1. t[1] = m
      BY <2>5, <2>6 DEF Agree
    <3>2. CASE m = 1
      BY <2>2, <2>3, <2>6, <3>1, <3>2
    <3>3. CASE m = 0
      BY <2>2, <2>3, <3>1, <3>3
    <3> QED
      BY <2>2, <3>2, <3>3
  <2>7. 1 \in Nat /\ 1 + m > 0
    BY <2>2
  <2>8. Decodes(held, s, 0, 1, rs, 0, m)
    BY <2>2, <2>6, <2>7 DEF Decodes
  <2>9. m = Len(rs)
    BY DEF m
  <2> QED
    BY <2>1, <2>5, <2>8, <2>9 DEF Wrote, held
<1> QED
  BY <1>1, <1>2

LEMMA WrittenDecodes ==
    ASSUME NEW item, IsItem(item), item.kind # "cell", ~Written(item).raises, HashBytes \in Nat
    PROVE  \E s : /\ Wrote(Written(item), s)
                  /\ Decodes(AsHeld(item), s, 0, Len(s), NewRefs(item), 0, Len(NewRefs(item)))
<1>1. CASE item.kind \in {"ref", "maybe_ref"}
  BY <1>1, RefDecodes
<1>2. CASE item.kind \in {"slice", "maybe_slice"}
  <2>1. Written(item).raises
    BY <1>2 DEF Written, Raises, Then, Quiet
  <2> QED
    BY <2>1
<1>3. CASE item.kind \in {"bit", "bits", "uint", "int", "bytes", "grams", "address"}
  <2>1. \E s : Wrote(Written(item), s) /\ Len(s) > 0 /\ ReadsBack(item, s)
    <3>1. CASE item.kind \in {"bit", "bits"}
      BY <3>1, BitsDecode
    <3>2. CASE item.kind = "uint"
      BY <3>2, UintDecodes
    <3>3. CASE item.kind = "int"
      BY <3>3, IntDecodes
    <3>4. CASE item.kind = "bytes"
      BY <3>4, BytesDecode
    <3>5. CASE item.kind = "grams"
      BY <3>5, GramsDecode
    <3>6. CASE item.kind = "address"
      BY <3>6, AddressDecodes
    <3> QED
      BY <1>3, <3>1, <3>2, <3>3, <3>4, <3>5, <3>6
  <2>2. PICK s : Wrote(Written(item), s) /\ Len(s) > 0 /\ ReadsBack(item, s)
    BY <2>1
  <2>3. NewRefs(item) = << >>
    BY <1>3 DEF NewRefs
  <2>4. s \in Bits
    BY <2>2 DEF Wrote
  <2>5. AsHeld(item) = item
    BY <1>3 DEF AsHeld
  <2> QED
    BY <2>2, <2>3, <2>4, <2>5, BitsOnly
<1> QED
  BY <1>1, <1>2, <1>3 DEF IsItem

\* What a store writes, if it then raises, too.
IsWrite(a) == a.bits \in Bits /\ a = [bits |-> a.bits, raises |-> a.raises]

LEMMA ThenIsWrite == ASSUME NEW a, NEW b, IsWrite(a), IsWrite(b) PROVE IsWrite(Then(a, b))
<1>1. CASE a.raises
  BY <1>1 DEF Then
<1>2. CASE ~a.raises
  <2>1. a.bits \o b.bits \in Bits
    BY DEF IsWrite, Bits
  <2>2. Then(a, b) = [bits |-> a.bits \o b.bits, raises |-> b.raises]
    BY <1>2 DEF Then, IsWrite
  <2> QED
    BY <2>1, <2>2 DEF IsWrite
<1> QED
  BY <1>1, <1>2

LEMMA QuietIsWrite == ASSUME NEW s \in Bits PROVE IsWrite(Quiet(s))
BY DEF IsWrite, Quiet

LEMMA RaisesIsWrite == IsWrite(Raises)
BY DEF IsWrite, Raises, Bits

LEMMA UintIsWrite == ASSUME NEW n \in Int, NEW w \in Nat PROVE IsWrite(Uint(n, w))
<1>1. CASE Uint(n, w).raises
  <2>1. \A s : ~Quiet(s).raises
    BY DEF Quiet
  <2>2. Uint(n, w) = Raises
    BY <1>1, <2>1, Zenon DEF Uint
  <2> QED
    BY <2>2, RaisesIsWrite
<1>2. CASE ~Uint(n, w).raises
  <2>1. Uint(n, w) = Quiet(Uint(n, w).bits) /\ Uint(n, w).bits \in Bits
    BY <1>2, UintWrites
  <2> QED
    BY <2>1, QuietIsWrite
<1> QED
  BY <1>1, <1>2

LEMMA IntIsWrite == ASSUME NEW n \in Int, NEW w \in Nat \ {0} PROVE IsWrite(Int_(n, w))
<1>1. <<0>> \in Bits /\ <<1>> \in Bits /\ w - 1 \in Nat
  BY DEF Bits
<1>2. CASE w = 1
  <2>1. n \in {-1, 0} => <<-n>> \in Bits
    BY DEF Bits
  <2>2. Int_(n, w) = Raises \/ (n \in {-1, 0} /\ Int_(n, w) = Quiet(<<-n>>))
    BY <1>2 DEF Int_
  <2> QED
    BY <2>1, <2>2, QuietIsWrite, RaisesIsWrite
<1>3. CASE w # 1
  <2> DEFINE m == 2 ^ (w - 1) + n
  <2>1. m \in Int
    <3>1. Power(w - 1) \in Nat
      BY <1>1, Powers
    <3> QED
      BY <3>1 DEF Power
  <2> HIDE DEF m
  <2>2. IsWrite(Uint(m, w - 1)) /\ IsWrite(Uint(n, w - 1)) /\ IsWrite(Quiet(<<0>>)) /\ IsWrite(Quiet(<<1>>))
    BY <1>1, <2>1, UintIsWrite, QuietIsWrite
  <2>3. Int_(n, w) = Then(Quiet(<<1>>), Uint(m, w - 1)) \/ Int_(n, w) = Then(Quiet(<<0>>), Uint(n, w - 1))
    BY <1>3 DEF Int_, m
  <2> QED
    BY <2>2, <2>3, ThenIsWrite
<1> QED
  BY <1>2, <1>3

LEMMA WrittenIsBits ==
    ASSUME NEW item, IsItem(item), HashBytes \in Nat, item.kind = "cell" => bits[item.datum] \in Bits
    PROVE  Written(item).bits \in Bits
<1> SUFFICES IsWrite(Written(item))
  BY DEF IsWrite
<1>1. CASE item.kind \in {"bit", "bits"}
  <2>1. Written(item) = Quiet(item.datum) /\ item.datum \in Bits
    BY <1>1 DEF Written, IsItem
  <2> QED
    BY <2>1, QuietIsWrite
<1>2. CASE item.kind = "uint"
  <2>1. Written(item) = Uint(item.datum, item.width) /\ item.datum \in Int /\ item.width \in Nat
    BY <1>2 DEF Written, IsItem
  <2> QED
    BY <2>1, UintIsWrite
<1>3. CASE item.kind = "int"
  <2>1. Written(item) = Int_(item.datum, item.width) /\ item.datum \in Int /\ item.width \in Nat \ {0}
    BY <1>3 DEF Written, IsItem
  <2> QED
    BY <2>1, IntIsWrite
<1>4. CASE item.kind = "bytes"
  <2>1. Written(item) = Bytes(item.datum) /\ item.datum \in Seq(0 .. 255)
    BY <1>4 DEF Written, IsItem
  <2>2. Written(item) = Quiet(Bytes(item.datum).bits) /\ Bytes(item.datum).bits \in Bits
    BY <2>1, BytesWrite
  <2> QED
    BY <2>2, QuietIsWrite
<1>5. CASE item.kind = "grams"
  <2> DEFINE n == item.datum
             sz == (BinaryLength(n) + 7) \div 8
             v == 8 * sz
  <2>1. Written(item) = Grams(n) /\ n \in Nat
    BY <1>5 DEF Written, IsItem
  <2>2. Grams(n) = Uint(0, 4) \/ Grams(n) = Then(Uint(sz, 4), Uint(n, v))
    BY DEF Grams
  <2> HIDE DEF n
  <2>3. sz \in Nat /\ v \in Nat
    <3>1. BinaryLength(n) \in Nat
      BY <2>1, LengthFits
    <3> QED
      BY <3>1
  <2> HIDE DEF sz, v
  <2>4. 0 \in Int /\ 4 \in Nat /\ sz \in Int /\ n \in Int
    BY <2>1, <2>3
  <2>5. IsWrite(Uint(0, 4)) /\ IsWrite(Uint(sz, 4)) /\ IsWrite(Uint(n, v))
    BY <2>3, <2>4, UintIsWrite
  <2> QED
    BY <2>1, <2>2, <2>5, ThenIsWrite
<1>6. CASE item.kind = "address"
  <2> DEFINE a == item.datum
  <2>1. Written(item) = AddressBits(a) /\ IsAddress(a)
    BY <1>6 DEF Written, IsItem
  <2> HIDE DEF a
  <2>2. IsWrite(Uint(0, 2)) /\ IsWrite(Uint(2, 2)) /\ IsWrite(Uint(0, 1))
    <3>1. 0 \in Int /\ 2 \in Int /\ 2 \in Nat /\ 1 \in Nat
      OBVIOUS
    <3> QED
      BY <3>1, UintIsWrite
  <2>3. CASE a = None
    BY <2>1, <2>2, <2>3 DEF AddressBits
  <2>4. CASE IsFull(a)
    <3>1. PICK wc \in {-1, 0}, h \in Seq(0 .. 255) : Len(h) = HashBytes /\ a = [wc |-> wc, hash_part |-> h]
      BY <2>4 DEF IsFull
    <3>2. a # None /\ a.wc = wc /\ a.hash_part = h
      BY <2>4, <3>1, FullIsSome
    <3>3. AddressBits(a) = Then(Then(Uint(2, 2), Uint(0, 1)), Then(Int_(wc, 8), Bytes(h)))
      BY <3>2 DEF AddressBits
    <3>4. IsWrite(Int_(wc, 8))
      <4>1. wc \in Int /\ 8 \in Nat \ {0}
        OBVIOUS
      <4> QED
        BY <4>1, IntIsWrite
    <3>5. IsWrite(Bytes(h))
      <4>1. Bytes(h) = Quiet(Bytes(h).bits) /\ Bytes(h).bits \in Bits
        BY BytesWrite
      <4> QED
        BY <4>1, QuietIsWrite
    <3> QED
      BY <2>1, <2>2, <3>3, <3>4, <3>5, ThenIsWrite
  <2> QED
    BY <2>1, <2>3, <2>4 DEF IsAddress
<1>7. CASE item.kind \in {"ref", "maybe_ref"}
  <2>1. PICK s : Wrote(Written(item), s)
    BY <1>7, RefDecodes
  <2> QED
    BY <2>1, QuietIsWrite DEF Wrote
<1>8. CASE item.kind = "cell"
  <2>1. Written(item) = Quiet(bits[item.datum])
    BY <1>8 DEF Written
  <2> QED
    BY <1>8, <2>1, QuietIsWrite
<1>9. CASE item.kind \in {"slice", "maybe_slice"}
  <2>1. Written(item) = Raises \/ Written(item) = Then(Quiet(<<1>>), Raises)
    BY <1>9 DEF Written
  <2>2. <<1>> \in Bits
    BY DEF Bits
  <2> QED
    BY <2>1, <2>2, QuietIsWrite, RaisesIsWrite, ThenIsWrite
<1> QED
  BY <1>1, <1>2, <1>3, <1>4, <1>5, <1>6, <1>7, <1>8, <1>9 DEF IsItem


-----------------------------------------------------------------------------
(* What a behaviour keeps                                                   *)

BitsTyped ==
    /\ \A b \in Builders : bits[b] \in Bits /\ Len(bits[b]) <= Length + 1
    /\ torn \subseteq Builders
    /\ outcome \in {"none", "clean", "raised"}

\* A builder's items take its references and its bits, except for the bits of a
\* store that raised.
IsLaid(b) ==
    \E u \in 0 .. Len(bits[b]) :
        /\ Lays(bits[b], refs[b], stored[b], 0, u, 0, Len(refs[b]))
        /\ b \notin torn => u = Len(bits[b])

\* What a slice has not been asked for takes what is left of it.
SliceIsLaid ==
    /\ slice = [cell |-> slice.cell, bits |-> slice.bits, ref_offset |-> slice.ref_offset]
    /\ slice.cell \in Builders /\ slice.bits \in Bits
    /\ due \in ItemSeqs /\ seen <= Len(refs[slice.cell])
    /\ \E u \in 0 .. Len(slice.bits) :
          /\ Lays(slice.bits, refs[slice.cell], due, 0, u, slice.ref_offset, seen)
          /\ slice.cell \notin torn => u = Len(slice.bits)

Answered == answer # None /\ IsHeld(answer.asked) => answer.got = answer.asked.datum

Told ==
    /\ outcome = "clean" => due = << >>
    /\ outcome = "raised" =>
          /\ slice # None
          /\ due # << >> \/ slice.cell \in torn \/ Len(refs[slice.cell]) > seen

ReadInv ==
    /\ BitsTyped
    /\ \A b \in Builders : IsLaid(b)
    /\ slice # None => SliceIsLaid
    /\ Answered /\ Told

\* The bounds of the storage, and items that are such.
Storage ==
    /\ Length \in Nat /\ HashBytes \in Nat
    /\ \A item \in Outer \cup Inner : IsItem(item)

LEMMA LaysSame ==
    ASSUME NEW bs, NEW rs, NEW items, NEW bt, NEW rt, NEW a, NEW b, NEW c, NEW d, Len(items) \in Nat,
           Lays(bs, rs, items, a, b, c, d), Agree(bt, a, bs, a, b - a), Agree(rt, c, rs, c, d - c)
    PROVE  Lays(bt, rt, items, a, b, c, d)
<1>1. a \in Nat /\ b \in Nat /\ c \in Nat /\ d \in Nat
  BY LaysEnds
<1>2. Lays(bt, rt, items, a, a + (b - a), c, c + (d - c))
  BY <1>1, LaysMoves
<1>3. a + (b - a) = b /\ c + (d - c) = d
  BY <1>1
<1> QED
  BY <1>2, <1>3

\* More bits and more references behind those there are change nothing.
LEMMA LaysGrow ==
    ASSUME NEW S, NEW s \in Bits, NEW x \in Bits, NEW r \in Seq(S), NEW y \in Seq(S), NEW items,
           Len(items) \in Nat, NEW a, NEW u, NEW c, NEW v, Lays(s, r, items, a, u, c, v),
           u <= Len(s), v <= Len(r)
    PROVE  Lays(s \o x, r \o y, items, a, u, c, v)
<1>1. a \in Nat /\ u \in Nat /\ c \in Nat /\ v \in Nat
  BY LaysEnds
<1>2. Len(s) \in Nat /\ \A k \in 1 .. Len(s) : (s \o x)[k] = s[k]
  BY DEF Bits
<1>3. Len(r) \in Nat /\ \A k \in 1 .. Len(r) : (r \o y)[k] = r[k]
  OBVIOUS
<1> DEFINE sx == s \o x
           ry == r \o y
<1>4. (\A k \in 1 .. Len(s) : sx[k] = s[k]) /\ (\A k \in 1 .. Len(r) : ry[k] = r[k])
  BY <1>2, <1>3
<1> HIDE DEF sx, ry
<1>5. Agree(sx, a, s, a, u - a)
  <2> SUFFICES ASSUME NEW i \in 1 .. u - a PROVE sx[a + i] = s[a + i]
    BY DEF Agree
  <2>1. a + i \in 1 .. Len(s)
    BY <1>1, <1>2
  <2> QED
    BY <1>4, <2>1
<1>6. Agree(ry, c, r, c, v - c)
  <2> SUFFICES ASSUME NEW i \in 1 .. v - c PROVE ry[c + i] = r[c + i]
    BY DEF Agree
  <2>1. c + i \in 1 .. Len(r)
    BY <1>1, <1>3
  <2> QED
    BY <1>4, <2>1
<1>7. Lays(sx, ry, items, a, u, c, v)
  BY <1>5, <1>6, LaysSame
<1> QED
  BY <1>7 DEF sx, ry

LEMMA RefsTyped ==
    ASSUME Types, NEW b \in Builders
    PROVE  refs[b] \in Seq(Kinds(b)) /\ stored[b] \in ItemSeqs
BY DEF Types, Kinds, Builders

LEMMA InitReadInv == Storage /\ Init => ReadInv
<1> SUFFICES ASSUME Storage, Init PROVE ReadInv
  OBVIOUS
<1>1. \A b \in Builders : bits[b] = << >> /\ refs[b] = << >> /\ stored[b] = << >>
  BY DEF Init
<1>2. << >> \in Bits /\ Len(<< >>) = 0 /\ 0 <= Length + 1 /\ 0 \in Nat
  BY DEF Bits, Storage
<1>3. BitsTyped
  BY <1>1, <1>2 DEF Init, BitsTyped
<1>4. ASSUME NEW b \in Builders PROVE IsLaid(b)
  <2>1. Lays(<< >>, << >>, << >>, 0, 0, 0, 0) /\ 0 \in 0 .. 0
    BY <1>2, LaysNothing
  <2> QED
    BY <1>1, <1>2, <2>1 DEF IsLaid
<1>5. slice = None /\ Answered /\ Told
  BY DEF Init, Answered, Told
<1> QED
  BY <1>3, <1>4, <1>5 DEF ReadInv

\* A store puts its bits behind the others; if it raises, that is all.
LEMMA StoreAdds ==
    ASSUME Constants, Storage, IInv, ReadInv, NEW b \in Builders, NEW item \in May(b), Store(b, item)
    PROVE  \E x \in Bits :
              /\ bits'[b] = bits[b] \o x /\ Len(bits'[b]) <= Length + 1
              /\ \/ refs' = refs /\ stored' = stored /\ torn' = torn \cup {b}
                 \/ /\ ~Written(item).raises /\ x = Written(item).bits
                    /\ refs'[b] = refs[b] \o NewRefs(item)
                    /\ stored'[b] = stored[b] \o Items(item)
                    /\ torn' = torn
<1> DEFINE w == Written(item).bits
           room == Length + 1 - Len(bits[b])
           fits == Len(w) <= room
           x == IF fits THEN w ELSE SubSeq(w, 1, room)
<1>1. item \in Outer \cup Inner /\ IsItem(item)
  BY DEF May, Storage
<1>2. item.kind = "cell" => item.datum \in Builders
  BY DEF May, Constants, Builders
<1>3. bits[b] \in Bits /\ Len(bits[b]) <= Length + 1 /\ Len(bits[b]) \in Nat /\ Length \in Nat
  BY DEF ReadInv, BitsTyped, Storage, Bits
<1>4. w \in Bits
  <2>1. item.kind = "cell" => bits[item.datum] \in Bits
    BY <1>2 DEF ReadInv, BitsTyped
  <2>2. HashBytes \in Nat
    BY DEF Storage
  <2> QED
    BY <1>1, <2>1, <2>2, WrittenIsBits, Zenon
<1>5. bits'[b] = bits[b] \o x
  BY DEF Store, IInv, Types
<1>6. \/ refs' = refs /\ stored' = stored /\ torn' = torn \cup {b}
      \/ /\ ~Written(item).raises /\ fits /\ refs'[b] = refs[b] \o NewRefs(item)
         /\ stored'[b] = stored[b] \o Items(item) /\ torn' = torn
  BY DEF Store, IInv, Types
<1>7. x \in Bits /\ Len(x) <= room
  <2>1. CASE fits
    BY <1>4, <2>1
  <2>2. CASE ~fits
    <3>3. Len(w) \in Nat
      BY <1>4 DEF Bits
    <3> HIDE DEF w
    <3>1. room \in Nat /\ room <= Len(w) /\ 0 + room = room /\ 0 + 1 = 1
      BY <1>3, <2>2, <3>3
    <3> HIDE DEF room
    <3>2. \A i \in 1 .. room : w[0 + i] \in {0, 1}
      BY <1>4, <3>1 DEF Bits
    <3>4. SubSeq(w, 0 + 1, 0 + room) \in Seq({0, 1}) /\ Len(SubSeq(w, 0 + 1, 0 + room)) = room
      BY <3>1, <3>2, Piece
    <3> QED
      BY <2>2, <3>1, <3>4 DEF Bits
  <2> QED
    BY <2>1, <2>2
<1>8. Len(bits'[b]) <= Length + 1
  <2> HIDE DEF x
  <2>1. Len(bits[b] \o x) = Len(bits[b]) + Len(x) /\ Len(x) \in Nat
    BY <1>3, <1>7 DEF Bits
  <2> QED
    BY <1>3, <1>5, <1>7, <2>1
<1>9. fits => x = w
  OBVIOUS
<1> HIDE DEF x, w
<1> QED
  BY <1>5, <1>6, <1>7, <1>8, <1>9 DEF w

\* The bits and references of an item, or of the items of a cell that is copied.
LEMMA StoredIsLaid ==
    ASSUME Constants, Storage, IInv, ReadInv, NEW b \in Builders, NEW item \in May(b), Store(b, item),
           ~Written(item).raises
    PROVE  Lays(Written(item).bits, NewRefs(item), Items(item),
                0, Len(Written(item).bits), 0, Len(NewRefs(item)))
<1>1. CASE item.kind = "cell"
  <2>1. item.datum = "inner"
    BY <1>1 DEF May, Constants
  <2>2. "inner" \notin torn /\ "inner" \in Builders
    BY <1>1, <2>1 DEF Store, Cells, Builders
  <2>3. IsLaid("inner")
    BY <2>2 DEF ReadInv
  <2>4. Lays(bits["inner"], refs["inner"], stored["inner"], 0, Len(bits["inner"]), 0, Len(refs["inner"]))
    BY <2>2, <2>3 DEF IsLaid
  <2>5. /\ Written(item).bits = bits["inner"] /\ NewRefs(item) = refs["inner"]
        /\ Items(item) = stored["inner"]
    BY <1>1, <2>1 DEF Written, NewRefs, Items, Quiet
  <2> QED
    BY <2>4, <2>5
<1>2. CASE item.kind # "cell"
  <2> DEFINE held == AsHeld(item)
  <2>1. IsItem(item) /\ HashBytes \in Nat /\ Items(item) = <<held>>
    BY <1>2 DEF May, Storage, Items
  <2>2. PICK s : /\ Wrote(Written(item), s)
                 /\ Decodes(held, s, 0, Len(s), NewRefs(item), 0, Len(NewRefs(item)))
    BY <1>2, <2>1, WrittenDecodes
  <2>3. Written(item).bits = s
    BY <2>2 DEF Wrote, Quiet
  <2> DEFINE n == Len(s)
             m == Len(NewRefs(item))
  <2>4. n \in Nat /\ m \in Nat /\ 0 \in Nat /\ 0 + n = n /\ 0 + m = m
    BY <2>2 DEF Decodes
  <2> HIDE DEF n, m, held
  <2>5. Decodes(held, s, 0, n, NewRefs(item), 0, m)
    BY <2>2 DEF n, m
  <2>6. Lays(s, NewRefs(item), <<held>>, 0, 0 + n, 0, 0 + m)
    BY <2>4, <2>5, LaysOne
  <2> QED
    BY <2>1, <2>3, <2>4, <2>6 DEF n, m
<1> QED
  BY <1>1, <1>2


LEMMA LaidTogether ==
    ASSUME NEW S, NEW s \in Bits, NEW x \in Bits, NEW r \in Seq(S), NEW y \in Seq(S),
           NEW T, NEW p \in Seq(T), NEW q \in Seq(T),
           Lays(s, r, p, 0, Len(s), 0, Len(r)), Lays(x, y, q, 0, Len(x), 0, Len(y))
    PROVE  Lays(s \o x, r \o y, p \o q, 0, Len(s \o x), 0, Len(r \o y))
<1> DEFINE sx == s \o x
           ry == r \o y
           l == Len(s)
           n == Len(x)
           k == Len(r)
           m == Len(y)
<1>1. l \in Nat /\ n \in Nat /\ Len(sx) = l + n /\ \A i \in 1 .. n : sx[l + i] = x[i]
  BY DEF Bits
<1>2. k \in Nat /\ m \in Nat /\ Len(ry) = k + m /\ \A i \in 1 .. m : ry[k + i] = y[i]
  OBVIOUS
<1>3. Len(p) \in Nat /\ Len(q) \in Nat
  OBVIOUS
<1>4. Lays(sx, ry, p, 0, l, 0, k)
  <2>1. l <= Len(s) /\ k <= Len(r)
    BY <1>1, <1>2
  <2> QED
    BY <1>3, <2>1, LaysGrow
<1>5. Lays(x, y, q, 0, n, 0, m)
  OBVIOUS
<1> HIDE DEF sx, ry, l, n, k, m
<1>6. n - 0 = n /\ m - 0 = m
  BY <1>1, <1>2
<1>7. Agree(sx, l, x, 0, n - 0) /\ Agree(ry, k, y, 0, m - 0)
  BY <1>1, <1>2, <1>6 DEF Agree
<1>8. Lays(sx, ry, q, l, l + (n - 0), k, k + (m - 0))
  BY <1>1, <1>2, <1>3, <1>5, <1>7, LaysMoves
<1>9. Lays(sx, ry, q, l, l + n, k, k + m)
  BY <1>6, <1>8
<1>10. Lays(sx, ry, p \o q, 0, l + n, 0, k + m)
  BY <1>4, <1>9, LaysJoin
<1>11. Lays(sx, ry, p \o q, 0, Len(sx), 0, Len(ry))
  BY <1>1, <1>2, <1>10
<1> QED
  BY <1>11 DEF sx, ry

\* A store leaves the other builders and the slice alone; the slice's list of
\* references may become longer.
LEMMA StoreReadInv ==
    ASSUME Constants, Storage, IInv, ReadInv, NEW b \in Builders, NEW item \in May(b), Store(b, item)
    PROVE  ReadInv'
<1>1. PICK x \in Bits :
          /\ bits'[b] = bits[b] \o x /\ Len(bits'[b]) <= Length + 1
          /\ \/ refs' = refs /\ stored' = stored /\ torn' = torn \cup {b}
             \/ /\ ~Written(item).raises /\ x = Written(item).bits
                /\ refs'[b] = refs[b] \o NewRefs(item)
                /\ stored'[b] = stored[b] \o Items(item)
                /\ torn' = torn
  BY StoreAdds
<1>2. /\ \A c \in Builders : c # b => bits'[c] = bits[c] /\ refs'[c] = refs[c]
                                      /\ stored'[c] = stored[c]
      /\ torn \subseteq torn' /\ torn' \subseteq torn \cup {b} /\ b \notin torn
  BY DEF Store, IInv, Types
<1>3. slice' = slice /\ answer' = answer /\ outcome' = outcome /\ due' = due /\ seen' = seen
  BY DEF Store, sliceVars
<1>4. \A c \in Builders : bits[c] \in Bits /\ Len(bits[c]) \in Nat /\ Len(bits[c]) <= Length + 1
  BY DEF ReadInv, BitsTyped, Bits
<1>5. \A c \in Builders : refs[c] \in Seq(Kinds(c)) /\ stored[c] \in ItemSeqs /\ Len(stored[c]) \in Nat
  BY RefsTyped DEF IInv, ItemSeqs
<1>6. NewRefs(item) \in Seq(Kinds(b)) /\ Items(item) \in ItemSeqs
  BY WhatIsAdded DEF IInv
<1>7. bits'[b] \in Bits
  BY <1>1, <1>4 DEF Bits
<1>8. BitsTyped'
  <2>1. \A c \in Builders : bits'[c] \in Bits /\ Len(bits'[c]) <= Length + 1
    BY <1>1, <1>2, <1>4, <1>7
  <2> QED
    BY <1>2, <1>3, <2>1 DEF ReadInv, BitsTyped
<1>9. ASSUME NEW c \in Builders PROVE IsLaid(c)'
  <2>1. IsLaid(c)
    BY DEF ReadInv
  <2>2. CASE c # b
    <3>1. c \in torn' <=> c \in torn
      BY <1>2, <2>2
    <3> QED
      BY <1>2, <2>1, <2>2, <3>1 DEF IsLaid
  <2>3. CASE c = b /\ refs' = refs /\ stored' = stored /\ torn' = torn \cup {b}
    <3>1. PICK u \in 0 .. Len(bits[b]) : Lays(bits[b], refs[b], stored[b], 0, u, 0, Len(refs[b]))
      BY <2>1, <2>3 DEF IsLaid
    <3>2. << >> \in Seq(Kinds(b)) /\ refs[b] \o << >> = refs[b] /\ Len(refs[b]) <= Len(refs[b])
      BY <1>5
    <3>3. u <= Len(bits[b])
      BY <1>4
    <3>4. Lays(bits[b] \o x, refs[b] \o << >>, stored[b], 0, u, 0, Len(refs[b]))
      BY <1>4, <1>5, <3>1, <3>2, <3>3, LaysGrow
    <3>5. u \in 0 .. Len(bits'[b])
      <4>1. Len(bits[b] \o x) = Len(bits[b]) + Len(x) /\ Len(x) \in Nat
        BY <1>4 DEF Bits
      <4> QED
        BY <1>1, <1>4, <4>1
    <3>6. Lays(bits'[b], refs'[b], stored'[b], 0, u, 0, Len(refs'[b]))
      BY <1>1, <2>3, <3>2, <3>4
    <3> QED
      BY <2>3, <3>5, <3>6 DEF IsLaid
  <2>4. CASE /\ c = b /\ ~Written(item).raises /\ x = Written(item).bits
             /\ refs'[b] = refs[b] \o NewRefs(item) /\ stored'[b] = stored[b] \o Items(item)
    <3>1. Lays(bits[b], refs[b], stored[b], 0, Len(bits[b]), 0, Len(refs[b]))
      BY <1>2, <2>1, <2>4 DEF IsLaid
    <3>2. Lays(x, NewRefs(item), Items(item), 0, Len(x), 0, Len(NewRefs(item)))
      BY <2>4, StoredIsLaid
    <3>3. stored[b] \in Seq(Asked) /\ Items(item) \in Seq(Asked)
      BY <1>5, <1>6 DEF ItemSeqs
    <3>4. bits[b] \in Bits /\ refs[b] \in Seq(Kinds(b))
      BY <1>4, <1>5
    <3>5. Lays(bits[b] \o x, refs[b] \o NewRefs(item), stored[b] \o Items(item),
               0, Len(bits[b] \o x), 0, Len(refs[b] \o NewRefs(item)))
      BY <1>6, <3>1, <3>2, <3>3, <3>4, LaidTogether
    <3>6. Lays(bits'[b], refs'[b], stored'[b], 0, Len(bits'[b]), 0, Len(refs'[b]))
      BY <1>1, <2>4, <3>5
    <3>7. Len(bits'[b]) \in 0 .. Len(bits'[b])
      BY <1>7 DEF Bits
    <3> QED
      BY <2>4, <3>6, <3>7 DEF IsLaid
  <2> QED
    BY <1>1, <2>2, <2>3, <2>4
<1>10. \A c \in Builders : \E y \in Seq(Kinds(c)) : refs'[c] = refs[c] \o y
  <2> TAKE c \in Builders
  <2>1. refs[c] \o << >> = refs[c] /\ << >> \in Seq(Kinds(c))
    BY <1>5
  <2>2. CASE refs'[c] = refs[c]
    BY <2>1, <2>2
  <2>3. CASE c = b /\ refs'[b] = refs[b] \o NewRefs(item)
    BY <1>6, <2>3
  <2> QED
    BY <1>1, <1>2, <2>2, <2>3
<1>11. \A c \in Builders : /\ Len(refs[c]) \in Nat /\ Len(refs'[c]) \in Nat
                           /\ Len(refs[c]) <= Len(refs'[c])
  <2> TAKE c \in Builders
  <2>1. PICK y \in Seq(Kinds(c)) : refs'[c] = refs[c] \o y
    BY <1>10
  <2>2. Len(refs[c] \o y) = Len(refs[c]) + Len(y) /\ Len(refs[c]) \in Nat /\ Len(y) \in Nat
    BY <1>5
  <2> QED
    BY <2>1, <2>2
<1>12. slice' # None => SliceIsLaid'
  <2> SUFFICES ASSUME slice # None PROVE SliceIsLaid'
    BY <1>3
  <2> DEFINE c == slice.cell
  <2>1. SliceIsLaid /\ c \in Builders /\ seen <= Len(refs[c]) /\ due \in ItemSeqs /\ slice.bits \in Bits
    BY DEF ReadInv, SliceIsLaid
  <2>2. PICK u \in 0 .. Len(slice.bits) :
            /\ Lays(slice.bits, refs[c], due, 0, u, slice.ref_offset, seen)
            /\ c \notin torn => u = Len(slice.bits)
    BY <2>1 DEF SliceIsLaid
  <2>3. PICK y \in Seq(Kinds(c)) : refs'[c] = refs[c] \o y
    BY <1>10, <2>1
  <2>4. << >> \in Bits /\ slice.bits \o << >> = slice.bits /\ u <= Len(slice.bits) /\ Len(due) \in Nat
    BY <2>1 DEF Bits, ItemSeqs
  <2>5. refs[c] \in Seq(Kinds(c))
    BY <1>5, <2>1
  <2>6. Lays(slice.bits \o << >>, refs[c] \o y, due, 0, u, slice.ref_offset, seen)
    BY <2>1, <2>2, <2>4, <2>5, LaysGrow
  <2>7. Lays(slice.bits, refs'[c], due, 0, u, slice.ref_offset, seen)
    BY <2>3, <2>4, <2>6
  <2>8. seen \in Nat
    BY <2>2, <2>4, LaysEnds
  <2>9. seen <= Len(refs'[c])
    BY <1>11, <2>1, <2>8
  <2> QED
    BY <1>2, <1>3, <2>1, <2>2, <2>7, <2>9 DEF SliceIsLaid
<1>13. Answered' /\ Told'
  <2>1. Answered'
    BY <1>3 DEF ReadInv, Answered
  <2>2. outcome = "clean" => due = << >>
    BY DEF ReadInv, Told
  <2>3. outcome = "raised" => /\ slice # None
                              /\ due # << >> \/ slice.cell \in torn' \/ Len(refs'[slice.cell]) > seen
    <3> SUFFICES ASSUME outcome = "raised"
                 PROVE  /\ slice # None
                        /\ due # << >> \/ slice.cell \in torn' \/ Len(refs'[slice.cell]) > seen
      OBVIOUS
    <3>1. slice # None /\ (due # << >> \/ slice.cell \in torn \/ Len(refs[slice.cell]) > seen)
      BY DEF ReadInv, Told
    <3>2. SliceIsLaid /\ slice.cell \in Builders /\ Len(due) \in Nat
      BY <3>1 DEF ReadInv, SliceIsLaid, ItemSeqs
    <3>3. seen \in Nat
      BY <3>2, LaysEnds DEF SliceIsLaid
    <3> QED
      BY <1>2, <1>11, <3>1, <3>2, <3>3
  <2> QED
    BY <1>3, <2>1, <2>2, <2>3 DEF Told
<1> QED
  BY <1>8, <1>9, <1>12, <1>13 DEF ReadInv


LEMMA BeginReadInv ==
    ASSUME IInv, ReadInv, NEW b \in Builders, BeginParse(b)
    PROVE  ReadInv'
<1>1. /\ slice' = [cell |-> b, bits |-> bits[b], ref_offset |-> 0]
      /\ due' = stored[b] /\ seen' = Len(refs[b]) /\ answer' = None /\ outcome' = "none"
      /\ bits' = bits /\ refs' = refs /\ stored' = stored /\ torn' = torn
  BY DEF BeginParse, builderVars
<1>2. BitsTyped' /\ \A c \in Builders : IsLaid(c)'
  BY <1>1 DEF ReadInv, BitsTyped, IsLaid
<1>3. SliceIsLaid'
  <2>1. stored[b] \in ItemSeqs /\ Len(refs[b]) \in Nat
    BY RefsTyped DEF IInv
  <2>2. bits[b] \in Bits /\ IsLaid(b)
    BY DEF ReadInv, BitsTyped
  <2>3. Len(refs[b]) <= Len(refs[b])
    BY <2>1
  <2> QED
    BY <1>1, <2>1, <2>2, <2>3 DEF SliceIsLaid, IsLaid
<1>4. Answered' /\ Told'
  BY <1>1 DEF Answered, Told
<1> QED
  BY <1>2, <1>3, <1>4 DEF ReadInv

\* The read that goes with the next item takes its bits and its reference.
LEMMA ReadTakes ==
    ASSUME IInv, ReadInv, slice # None, due # << >>
    PROVE  LET read == Reading(Head(due), slice.bits, NextRef) IN
           /\ read.size \in Nat /\ read.refs \in Nat
           /\ IsHeld(Head(due)) => read.value = Head(due).datum
           /\ \E u \in 0 .. Len(slice.bits) :
                 /\ read.size <= u
                 /\ slice.cell \notin torn => u = Len(slice.bits)
                 /\ Lays(slice.bits, refs[slice.cell], Tail(due),
                         read.size, u, slice.ref_offset + read.refs, seen)
<1> DEFINE item == Head(due)
           read == Reading(item, slice.bits, NextRef)
           c == slice.ref_offset
           rs == refs[slice.cell]
<1>1. SliceIsLaid /\ slice.bits \in Bits /\ Len(slice.bits) \in Nat /\ due \in Seq(Asked)
  BY DEF ReadInv, SliceIsLaid, ItemSeqs, Bits
<1>2. PICK u \in 0 .. Len(slice.bits) : /\ Lays(slice.bits, rs, due, 0, u, c, seen)
                                        /\ slice.cell \notin torn => u = Len(slice.bits)
  BY <1>1 DEF SliceIsLaid
<1>3. PICK n, m \in Nat : /\ Decodes(item, slice.bits, 0, n, rs, c, m)
                          /\ Lays(slice.bits, rs, Tail(due), 0 + n, u, c + m, seen)
  BY <1>1, <1>2, LaysHead
<1>4. Len(Tail(due)) \in Nat
  BY <1>1
<1>5. 0 + n = n /\ n <= u /\ n <= Len(slice.bits)
  <2>1. 0 + n \in Nat /\ u \in Nat /\ 0 + n <= u
    BY <1>3, <1>4, LaysEnds
  <2> QED
    BY <1>1, <2>1
<1>6. NextRef = rs[c + 1] /\ Agree(slice.bits, 0, slice.bits, 0, n)
  BY AgreeSelf DEF NextRef
<1>7. read.size = n /\ read.refs = m /\ (IsHeld(item) => read.value = item.datum)
  <2> DEFINE next == NextRef
  <2>1. next = rs[c + 1]
    BY <1>6
  <2> HIDE DEF next, item, rs, c
  <2>2. /\ Reading(item, slice.bits, next).size = n /\ Reading(item, slice.bits, next).refs = m
        /\ IsHeld(item) => Reading(item, slice.bits, next).value = item.datum
    BY <1>1, <1>3, <1>5, <1>6, <2>1, Zenon DEF Decodes
  <2> QED
    BY <2>2 DEF next
<1> HIDE DEF read, item, rs, c
<1>8. Lays(slice.bits, rs, Tail(due), read.size, u, c + read.refs, seen) /\ read.size <= u
  BY <1>3, <1>5, <1>7
<1>9. read.size \in Nat /\ read.refs \in Nat
  BY <1>7
<1> QED
  BY <1>2, <1>7, <1>8, <1>9 DEF read, item, rs, c

LEMMA ReadReadInv == ASSUME IInv, ReadInv, Read PROVE ReadInv'
<1> DEFINE item == Head(due)
           read == Reading(item, slice.bits, NextRef)
<1>1. slice # None /\ due # << >> /\ due' = Tail(due) /\ outcome' = "none"
  BY DEF Read
<1>2. /\ answer' = [asked |-> item, got |-> read.value]
      /\ slice' = [slice EXCEPT !.bits = From(@, read.size + 1), !.ref_offset = @ + read.refs]
      /\ bits' = bits /\ refs' = refs /\ stored' = stored /\ torn' = torn /\ seen' = seen
  BY DEF Read, builderVars
<1>3. /\ read.size \in Nat /\ read.refs \in Nat
      /\ IsHeld(item) => read.value = item.datum
      /\ \E u \in 0 .. Len(slice.bits) :
            /\ read.size <= u
            /\ slice.cell \notin torn => u = Len(slice.bits)
            /\ Lays(slice.bits, refs[slice.cell], Tail(due),
                    read.size, u, slice.ref_offset + read.refs, seen)
  BY <1>1, ReadTakes
<1> HIDE DEF read, item
<1> DEFINE n == read.size
           m == read.refs
           rest == From(slice.bits, n + 1)
           rs == refs[slice.cell]
<1>4. /\ SliceIsLaid /\ slice.cell \in Builders /\ slice.bits \in Bits /\ Len(slice.bits) \in Nat
      /\ due \in Seq(Asked) /\ seen <= Len(rs)
  BY <1>1 DEF ReadInv, SliceIsLaid, ItemSeqs, Bits
<1>5. slice' = [cell |-> slice.cell, bits |-> rest, ref_offset |-> slice.ref_offset + m]
  BY <1>2, <1>4 DEF SliceIsLaid
<1>6. PICK u \in 0 .. Len(slice.bits) :
          /\ n <= u
          /\ slice.cell \notin torn => u = Len(slice.bits)
          /\ Lays(slice.bits, rs, Tail(due), n, u, slice.ref_offset + m, seen)
  BY <1>3
<1>7. Tail(due) \in Seq(Asked) /\ Len(Tail(due)) \in Nat
  BY <1>1, <1>4
<1>8. n \in Nat /\ u \in Nat /\ slice.ref_offset + m \in Nat /\ seen \in Nat
      /\ slice.ref_offset + m <= seen
  BY <1>6, <1>7, LaysEnds
<1>9. /\ n <= Len(slice.bits) /\ rest \in Bits /\ Len(rest) = Len(slice.bits) - n
      /\ \A i \in 1 .. Len(slice.bits) - n : rest[i] = slice.bits[n + i]
  <2>1. n <= Len(slice.bits)
    BY <1>4, <1>6, <1>8
  <2> QED
    BY <1>4, <1>8, <2>1, FromIs
<1> HIDE DEF n, m, rest, rs
<1> DEFINE o == slice.ref_offset + m
<1>10. o \in Nat /\ o <= seen /\ 0 \in Nat /\ slice'.ref_offset = o
  BY <1>5, <1>8
<1>11. Agree(rest, 0, slice.bits, n, u - n)
  <2> SUFFICES ASSUME NEW i \in 1 .. u - n PROVE rest[0 + i] = slice.bits[n + i]
    BY DEF Agree
  <2>1. i \in 1 .. Len(slice.bits) - n /\ 0 + i = i
    BY <1>4, <1>6, <1>8
  <2> QED
    BY <1>9, <2>1
<1>12. Lays(slice.bits, rs, Tail(due), n, u, o, seen)
  BY <1>6
<1> HIDE DEF o
<1>13. Lays(rest, rs, Tail(due), 0, 0 + (u - n), o, o + (seen - o))
  BY <1>7, <1>10, <1>11, <1>12, AgreeSelf, LaysMoves
<1>14. Lays(rest, rs, Tail(due), 0, u - n, o, seen)
  <2>1. 0 + (u - n) = u - n /\ o + (seen - o) = seen
    BY <1>8, <1>10
  <2> QED
    BY <1>13, <2>1
<1>15. u - n \in 0 .. Len(rest) /\ (slice.cell \notin torn => u - n = Len(rest))
  BY <1>4, <1>6, <1>8, <1>9
<1>16. SliceIsLaid'
  <2>1. slice'.cell = slice.cell /\ slice'.bits = rest
    BY <1>5
  <2> QED
    BY <1>1, <1>2, <1>4, <1>5, <1>7, <1>9, <1>10, <1>14, <1>15, <2>1 DEF SliceIsLaid, ItemSeqs, rs
<1>17. BitsTyped' /\ \A c \in Builders : IsLaid(c)'
  BY <1>1, <1>2 DEF ReadInv, BitsTyped, IsLaid
<1>18. Answered' /\ Told'
  BY <1>1, <1>2, <1>3 DEF Answered, Told
<1> QED
  BY <1>16, <1>17, <1>18 DEF ReadInv

LEMMA PreloadReadInv == ASSUME IInv, ReadInv, Preload PROVE ReadInv'
<1> DEFINE read == Reading(Head(due), slice.bits, NextRef)
<1>1. /\ slice # None /\ due # << >> /\ outcome' = "none"
      /\ answer' = [asked |-> Head(due), got |-> read.value]
      /\ bits' = bits /\ refs' = refs /\ stored' = stored /\ torn' = torn
      /\ slice' = slice /\ due' = due /\ seen' = seen
  BY DEF Preload, builderVars
<1>2. IsHeld(Head(due)) => read.value = Head(due).datum
  BY <1>1, ReadTakes
<1> HIDE DEF read
<1>3. Answered' /\ Told'
  BY <1>1, <1>2 DEF Answered, Told
<1>4. BitsTyped' /\ (\A c \in Builders : IsLaid(c)') /\ (slice' # None => SliceIsLaid')
  BY <1>1 DEF ReadInv, BitsTyped, IsLaid, SliceIsLaid
<1> QED
  BY <1>3, <1>4 DEF ReadInv

\* end_parse finds bits or references exactly if items are left: each takes some.
LEMMA EndParseReadInv == ASSUME IInv, ReadInv, EndParse PROVE ReadInv'
<1>1. /\ slice # None /\ bits' = bits /\ refs' = refs /\ stored' = stored /\ torn' = torn
      /\ slice' = slice /\ due' = due /\ seen' = seen /\ answer' = answer
      /\ outcome' = IF slice.bits = << >> /\ slice.ref_offset = Len(refs[slice.cell])
                    THEN "clean" ELSE "raised"
  BY DEF EndParse, builderVars
<1>2. /\ SliceIsLaid /\ slice.cell \in Builders /\ slice.bits \in Bits /\ Len(slice.bits) \in Nat
      /\ due \in Seq(Asked) /\ Len(due) \in Nat /\ seen <= Len(refs[slice.cell])
  BY <1>1 DEF ReadInv, SliceIsLaid, ItemSeqs, Bits
<1>3. PICK u \in 0 .. Len(slice.bits) :
          /\ Lays(slice.bits, refs[slice.cell], due, 0, u, slice.ref_offset, seen)
          /\ slice.cell \notin torn => u = Len(slice.bits)
  BY <1>2 DEF SliceIsLaid
<1>4. u \in Nat /\ slice.ref_offset \in Nat /\ seen \in Nat /\ slice.ref_offset <= seen
  BY <1>2, <1>3, LaysEnds
<1>5. Len(refs[slice.cell]) \in Nat
  BY <1>2, RefsTyped DEF IInv
<1>6. ASSUME slice.bits = << >>, slice.ref_offset = Len(refs[slice.cell]), due # << >>
      PROVE  FALSE
  <2>1. u = 0 /\ slice.ref_offset = seen
    BY <1>2, <1>3, <1>4, <1>5, <1>6
  <2>2. PICK n, m \in Nat :
            /\ Decodes(Head(due), slice.bits, 0, n, refs[slice.cell], slice.ref_offset, m)
            /\ Lays(slice.bits, refs[slice.cell], Tail(due), 0 + n, u, slice.ref_offset + m, seen)
    BY <1>2, <1>3, <1>6, LaysHead
  <2>3. Len(Tail(due)) \in Nat
    BY <1>2, <1>6
  <2>4. 0 + n <= u /\ slice.ref_offset + m <= seen
    BY <2>2, <2>3, LaysEnds
  <2>5. n + m > 0
    BY <2>2 DEF Decodes
  <2> QED
    BY <1>4, <2>1, <2>4, <2>5
<1>7. ASSUME due = << >>, slice.cell \notin torn, ~(Len(refs[slice.cell]) > seen)
      PROVE  slice.bits = << >> /\ slice.ref_offset = Len(refs[slice.cell])
  <2>1. PICK cut, rcut : Cuts(cut, 0, 0, u) /\ Cuts(rcut, 0, slice.ref_offset, seen)
    BY <1>3, <1>7 DEF Lays
  <2>2. u = 0 /\ slice.ref_offset = seen
    BY <2>1 DEF Cuts
  <2>3. Len(slice.bits) = 0
    BY <1>3, <1>7, <2>2
  <2> QED
    BY <1>2, <1>4, <1>5, <1>7, <2>2, <2>3 DEF Bits
<1>8. Told'
  BY <1>1, <1>6, <1>7 DEF Told
<1>9. Answered'
  BY <1>1 DEF ReadInv, Answered
<1>10. BitsTyped' /\ (\A c \in Builders : IsLaid(c)') /\ (slice' # None => SliceIsLaid')
  BY <1>1 DEF ReadInv, BitsTyped, IsLaid, SliceIsLaid
<1> QED
  BY <1>8, <1>9, <1>10 DEF ReadInv

\* The invariant looks at nothing else.
LEMMA QuietReadInv ==
    ASSUME ReadInv, UNCHANGED <<bits, refs, stored, torn>>, UNCHANGED sliceVars
    PROVE  ReadInv'
BY DEF sliceVars, ReadInv, BitsTyped, IsLaid, SliceIsLaid, Answered, Told

LEMMA NextReadInv ==
    ASSUME Constants, Storage, IInv, ReadInv, [Next]_cellVars
    PROVE  ReadInv'
<1>1. ASSUME NEW item \in Outer, Store("outer", item) PROVE ReadInv'
  BY <1>1, StoreReadInv DEF May, Builders
<1>2. ASSUME NEW item \in Inner, Store("inner", item) PROVE ReadInv'
  BY <1>2, StoreReadInv DEF May, Builders
<1>3. ASSUME NEW b \in Builders, EndCell(b) PROVE ReadInv'
  BY <1>3, QuietReadInv DEF EndCell
<1>4. ASSUME NEW b \in Builders, BeginParse(b) PROVE ReadInv'
  BY <1>4, BeginReadInv
<1>5. CASE Read
  BY <1>5, ReadReadInv
<1>6. CASE Preload
  BY <1>6, PreloadReadInv
<1>7. CASE EndParse
  BY <1>7, EndParseReadInv
<1>8. CASE UNCHANGED cellVars
  BY <1>8, QuietReadInv DEF cellVars, builderVars
<1> QED
  BY <1>1, <1>2, <1>3, <1>4, <1>5, <1>6, <1>7, <1>8 DEF Next

LEMMA ReadFollows == ASSUME IInv, ReadInv PROVE ReadBack
<1>1. TypeOK
  <2>1. \A b \in Builders : \A k \in DOMAIN refs[b] : refs[b][k] \in {"leaf", "inner"}
    <3> TAKE b \in Builders
    <3> TAKE k \in DOMAIN refs[b]
    <3>1. refs[b] \in Seq(Kinds(b)) /\ Kinds(b) \subseteq {"leaf", "inner"}
      BY RefsTyped DEF IInv, Kinds
    <3> QED
      BY <3>1
  <2> QED
    BY <2>1 DEF TypeOK, IInv, Types, ReadInv, BitsTyped, Bits
<1> QED
  BY <1>1 DEF ReadBack, ReadInv, Answered, Told

(* What is stored is read back, whatever the items are: each read gives the *)
(* value of the item it goes with, out of a copied cell, too, and while more *)
(* is stored; and end_parse tells whether items are left, except for         *)
(* references that have come since and the bits of a store that raised.      *)
THEOREM WhatIsStoredIsRead == Constants /\ Storage /\ Spec => []ReadBack
<1> SUFFICES ASSUME Constants, Storage PROVE Spec => []ReadBack
  OBVIOUS
<1> DEFINE Inv == IInv /\ ReadInv
<1>1. Init => Inv
  BY InitIInv, InitReadInv
<1>2. Inv /\ [Next]_cellVars => Inv'
  BY NextIInv, NextReadInv
<1>3. Inv => ReadBack
  BY ReadFollows
<1> QED
  BY <1>1, <1>2, <1>3, PTL DEF Spec

================================================================================
