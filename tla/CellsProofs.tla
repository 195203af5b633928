----------------------------- MODULE CellsProofs -----------------------------
(***************************************************************************)
(* Every reachable state of TreeWalk satisfies IInv, for every number of   *)
(* cells and of references; the order a bag of cells is written in so      *)
(* starts with the root and has every cell before those it refers to.  A   *)
(* bag of cells that is written in it is read back.  What is proved of     *)
(* dictionaries and of builders holds of all behaviours of MCCells.        *)
(***************************************************************************)
EXTENDS MCCells, HashmapDictProofs

-----------------------------------------------------------------------------
(***************************************************************************)
(* The stack.                                                              *)
(***************************************************************************)
LEMMA WithoutLast ==
    ASSUME NEW S, NEW s \in Seq(S), s # << >>
    PROVE  /\ Len(s) \in Nat \ {0}
           /\ s[Len(s)] \in S
           /\ SubSeq(s, 1, Len(s) - 1) \in Seq(S)
           /\ Len(SubSeq(s, 1, Len(s) - 1)) = Len(s) - 1
           /\ \A f \in 1 .. Len(s) - 1 : SubSeq(s, 1, Len(s) - 1)[f] = s[f]
  <1>1. Len(s) \in Nat \ {0}
    BY EmptySeq
  <1>2. \A f \in 1 .. Len(s) : s[f] \in S
    OBVIOUS
  <1> DEFINE m == Len(s) - 1
  <1>3. m \in Nat /\ Len(s) = m + 1
    BY <1>1
  <1>4. \A f \in 1 .. m : s[f] \in S
    BY <1>2, <1>3
  <1> HIDE DEF m
  <1>5. /\ SubSeq(s, 1, m) \in Seq(S)
        /\ Len(SubSeq(s, 1, m)) = IF 1 <= m THEN m - 1 + 1 ELSE 0
        /\ \A f \in 1 .. m - 1 + 1 : SubSeq(s, 1, m)[f] = s[1 + f - 1]
    BY <1>3, <1>4, SubSeqProperties
  <1>6. Len(SubSeq(s, 1, m)) = m /\ \A f \in 1 .. m : SubSeq(s, 1, m)[f] = s[f]
    BY <1>3, <1>5
  <1>7. s[Len(s)] \in S
    BY <1>1, <1>2
  <1> QED
    BY <1>1, <1>5, <1>6, <1>7 DEF m

LEMMA BelowStack ==
    ASSUME TypeOK, stack # << >>
    PROVE  /\ Top \in Frames
           /\ Len(stack) \in Nat \ {0}
           /\ Below \in Seq(Frames)
           /\ Len(Below) = Len(stack) - 1
           /\ \A f \in 1 .. Len(stack) - 1 : Below[f] = stack[f]
  <1>1. stack \in Seq(Frames)
    BY DEF TypeOK
  <1> QED
    BY <1>1, WithoutLast DEF Top, Below

LEMMA AdvancedFrame ==
    ASSUME TypeOK, Looping
    PROVE  /\ stack # << >>
           /\ Advanced \in Frames
           /\ Advanced.cell = Top.cell
           /\ Advanced.next = Top.next + 1
           /\ Top.next \in 1 .. Len(refs[Top.cell])
           /\ Advanced.next \in 1 .. Len(refs[Top.cell]) + 1
           /\ Ref \in Cells
           /\ Top.cell < Ref
  <1>1. stack # << >>
    BY DEF Looping
  <1>2. Top \in Frames /\ Len(stack) \in DOMAIN stack /\ Top = stack[Len(stack)]
    BY <1>1 DEF TypeOK, Top
  <1>3. Top.next \in 1 .. Len(refs[Top.cell]) + 1
    BY <1>2 DEF TypeOK
  <1>4. refs[Top.cell] \in Seq(Cells)
    BY <1>2 DEF TypeOK, Frames
  <1>5. Top.next \in 1 .. Len(refs[Top.cell])
    BY <1>3, <1>4 DEF Looping
  <1>6. Advanced \in Frames /\ Advanced.cell = Top.cell /\ Advanced.next = Top.next + 1
    BY <1>2 DEF Advanced, Frames
  <1>7. Ref \in Cells /\ Top.cell < Ref
    BY <1>2, <1>4, <1>5 DEF TypeOK, Ref, Frames
  <1> QED
    BY <1>1, <1>3, <1>4, <1>5, <1>6, <1>7

LEMMA CallStack ==
    ASSUME TypeOK, Looping, NEW kind \in {"walk", "move"}, Call(kind, Ref)
    PROVE  /\ stack' \in Seq(Frames)
           /\ Len(stack') = Len(stack) + 1
           /\ \A f \in 1 .. Len(stack) - 1 : stack'[f] = stack[f]
           /\ stack'[Len(stack)] = Advanced
           /\ stack'[Len(stack) + 1] = [cell |-> Ref, kind |-> kind, next |-> 1]
  <1> DEFINE new == [cell |-> Ref, kind |-> kind, next |-> 1]
  <1>1. new \in Frames
    BY AdvancedFrame DEF Frames
  <1>2. stack' = Append(Append(Below, Advanced), new)
    BY DEF Call
  <1>3. Advanced \in Frames /\ Below \in Seq(Frames) /\ Len(Below) = Len(stack) - 1
        /\ Len(stack) \in Nat \ {0}
        /\ \A f \in 1 .. Len(stack) - 1 : Below[f] = stack[f]
    BY AdvancedFrame, BelowStack
  <1> HIDE DEF new
  <1>4. /\ stack' \in Seq(Frames)
        /\ Len(stack') = Len(stack) + 1
        /\ \A f \in 1 .. Len(stack) - 1 : stack'[f] = stack[f]
        /\ stack'[Len(stack)] = Advanced
        /\ stack'[Len(stack) + 1] = new
    BY <1>1, <1>2, <1>3
  <1> QED
    BY <1>4 DEF new

LEMMA AdvancedStack ==
    ASSUME TypeOK, Looping, stack' = Append(Below, Advanced)
    PROVE  /\ stack' \in Seq(Frames)
           /\ Len(stack') = Len(stack)
           /\ \A f \in 1 .. Len(stack) - 1 : stack'[f] = stack[f]
           /\ stack'[Len(stack)] = Advanced
  BY AdvancedFrame, BelowStack

\* What a call in progress has yet to look at, it has after a step too, but
\* for the reference the step is about.
LEMMA PendingKept ==
    ASSUME TypeOK, Looping, NEW c, NEW i \in Nat, Pending(c, i),
           Len(stack') >= Len(stack), stack' \in Seq(Frames),
           \A f \in 1 .. Len(stack) - 1 : stack'[f] = stack[f],
           stack'[Len(stack)] = Advanced
    PROVE  Pending(c, i)' \/ (c = Top.cell /\ i = Top.next)
  <1>1. PICK f \in DOMAIN stack : stack[f].cell = c /\ stack[f].next <= i
    BY DEF Pending
  <1>2. /\ stack # << >> /\ Len(stack) \in Nat \ {0}
        /\ Advanced.cell = Top.cell /\ Advanced.next = Top.next + 1
        /\ Top.next \in 1 .. Len(refs[Top.cell])
    BY AdvancedFrame, BelowStack
  <1>3. f \in 1 .. Len(stack) /\ DOMAIN stack' = 1 .. Len(stack')
    BY <1>1 DEF TypeOK
  <1>4. CASE f = Len(stack)
    <2>1. stack[f] = Top
      BY <1>4 DEF Top
    <2>2. CASE i = Top.next
      BY <2>1, <2>2, <1>1
    <2>3. CASE i # Top.next
      <3>1. Top.next \in Nat /\ Top.next <= i
        BY <1>1, <1>2, <2>1
      <3>2. stack'[f].cell = c /\ stack'[f].next <= i
        BY <1>1, <1>2, <1>4, <2>1, <2>3, <3>1
      <3>3. f \in DOMAIN stack'
        BY <1>2, <1>3, <1>4
      <3> QED
        BY <3>2, <3>3 DEF Pending
    <2> QED
      BY <2>2, <2>3
  <1>5. CASE f # Len(stack)
    <2>1. f \in 1 .. Len(stack) - 1 /\ Len(stack') \in Nat
      BY <1>2, <1>3, <1>5
    <2>2. f \in DOMAIN stack' /\ stack'[f] = stack[f]
      BY <1>2, <1>3, <2>1
    <2> QED
      BY <1>1, <2>2 DEF Pending
  <1> QED
    BY <1>4, <1>5

\* index_hashmap has a cell at most once.
LEMMA IndexInjective ==
    ASSUME IndexMatchesOrder, NEW c \in DOMAIN index, NEW d \in DOMAIN index,
           index[c] = index[d]
    PROVE  c = d
  BY DEF IndexMatchesOrder

-----------------------------------------------------------------------------
(***************************************************************************)
(* What every call that is made keeps of the stack.                        *)
(***************************************************************************)
LEMMA CallKeeps ==
    ASSUME IInv, Looping, NEW kind \in {"walk", "move"}, Call(kind, Ref),
           refs' = refs, DOMAIN index \subseteq DOMAIN index',
           Ref \in DOMAIN index',
           kind = "move" => \A i \in DOMAIN refs[Ref] : refs[Ref][i] \in DOMAIN index
    PROVE  /\ stack' \in Seq(Frames)
           /\ \A f \in DOMAIN stack' :
                 stack'[f].next \in 1 .. Len(refs'[stack'[f].cell]) + 1
           /\ StackDescends'
           /\ MovedAreKnown'
           /\ \A r, i : r = Ref /\ i \in Nat \ {0} => Pending(r, i)'
           /\ \A c : \A i \in Nat : Pending(c, i) =>
                 Pending(c, i)' \/ (c = Top.cell /\ i = Top.next)
  <1> DEFINE n == Len(stack)
             new == [cell |-> Ref, kind |-> kind, next |-> 1]
  <1>1. TypeOK /\ StackDescends /\ MovedAreKnown
    BY DEF IInv
  <1>2. /\ stack' \in Seq(Frames)
        /\ Len(stack') = n + 1
        /\ \A f \in 1 .. n - 1 : stack'[f] = stack[f]
        /\ stack'[n] = Advanced
        /\ stack'[n + 1] = new
    BY <1>1, CallStack
  <1>3. /\ n \in Nat \ {0} /\ Top \in Frames /\ stack[n] = Top
        /\ Advanced \in Frames /\ Advanced.cell = Top.cell
        /\ Advanced.next \in 1 .. Len(refs[Top.cell]) + 1
        /\ Ref \in Cells /\ Top.cell < Ref
        /\ Advanced.kind = Top.kind
    BY <1>1, AdvancedFrame, BelowStack DEF Top, Advanced, Frames
  <1>4. DOMAIN stack' = 1 .. n + 1 /\ DOMAIN stack = 1 .. n
    BY <1>1, <1>2, <1>3 DEF TypeOK
  <1>5. new.cell = Ref /\ new.kind = kind /\ new.next = 1
    OBVIOUS
  <1> HIDE DEF new, n
  <1>6. \A f \in DOMAIN stack' :
            stack'[f].next \in 1 .. Len(refs'[stack'[f].cell]) + 1
    <2> SUFFICES ASSUME NEW f \in 1 .. n + 1
                 PROVE  stack'[f].next \in 1 .. Len(refs[stack'[f].cell]) + 1
      BY <1>4
    <2>1. CASE f \in 1 .. n - 1
      BY <1>1, <1>2, <1>3, <1>4, <2>1 DEF TypeOK
    <2>2. CASE f = n
      BY <1>2, <1>3, <2>2
    <2>3. CASE f = n + 1
      <3>1. Len(refs[Ref]) \in Nat
        BY <1>1, <1>3 DEF TypeOK
      <3> QED
        BY <1>2, <1>5, <2>3, <3>1
    <2> QED
      BY <1>3, <2>1, <2>2, <2>3
  <1>7. \A f \in 1 .. n : stack'[f].cell = stack[f].cell /\ stack'[f].kind = stack[f].kind
    BY <1>2, <1>3
  <1>8. StackDescends'
    <2>1. \A f \in DOMAIN stack' : stack'[f].cell \in DOMAIN index'
      <3> SUFFICES ASSUME NEW f \in 1 .. n + 1
                   PROVE  stack'[f].cell \in DOMAIN index'
        BY <1>4
      <3>1. CASE f \in 1 .. n
        BY <1>1, <1>4, <1>7, <3>1 DEF StackDescends
      <3>2. CASE f = n + 1
        BY <1>2, <1>5, <3>2
      <3> QED
        BY <1>3, <3>1, <3>2
    <2>2. ASSUME NEW f \in 1 .. n + 1, NEW g \in 1 .. n + 1, f < g
          PROVE  stack'[f].cell < stack'[g].cell
      <3>0. \A h \in 1 .. n : stack[h].cell \in Nat
        <4> SUFFICES ASSUME NEW h \in DOMAIN stack
                     PROVE  stack[h].cell \in Nat
          BY <1>4
        <4>1. stack[h] \in Frames
          BY <1>1 DEF TypeOK
        <4> QED
          BY <4>1 DEF Frames, Cells
      <3>1. CASE g \in 1 .. n
        <4>1. f \in 1 .. n
          BY <2>2, <3>1, <1>3
        <4> QED
          BY <1>1, <1>4, <1>7, <2>2, <3>1, <4>1 DEF StackDescends
      <3>2. CASE g = n + 1
        <4>1. f \in 1 .. n
          BY <2>2, <3>2, <1>3
        <4>2. stack[f].cell <= Top.cell
          <5>1. CASE f = n
            BY <1>3, <5>1, <3>0, <4>1
          <5>2. CASE f # n
            <6>1. n \in 1 .. n /\ f < n
              BY <1>3, <4>1, <5>2
            <6>2. stack[f].cell < stack[n].cell
              BY <1>1, <1>4, <4>1, <6>1 DEF StackDescends
            <6> QED
              BY <1>3, <3>0, <4>1, <6>1, <6>2
          <5> QED
            BY <5>1, <5>2
        <4>3. Ref \in Nat /\ Top.cell \in Nat
          BY <1>3 DEF Cells, Frames
        <4> QED
          BY <1>2, <1>3, <1>5, <1>7, <3>0, <3>2, <4>1, <4>2, <4>3
      <3> QED
        BY <1>3, <3>1, <3>2
    <2> QED
      BY <1>4, <2>1, <2>2 DEF StackDescends
  <1>9. MovedAreKnown'
    <2> SUFFICES ASSUME NEW f \in 1 .. n + 1, stack'[f].kind = "move",
                        NEW i \in DOMAIN refs[stack'[f].cell]
                 PROVE  refs[stack'[f].cell][i] \in DOMAIN index
      BY <1>4 DEF MovedAreKnown
    <2>1. CASE f \in 1 .. n
      BY <1>1, <1>4, <1>7, <2>1 DEF MovedAreKnown
    <2>2. CASE f = n + 1
      BY <1>2, <1>5, <2>2
    <2> QED
      BY <1>3, <2>1, <2>2
  <1>10. \A r, i : r = Ref /\ i \in Nat \ {0} => Pending(r, i)'
    <2> SUFFICES ASSUME NEW r, NEW i \in Nat \ {0}, r = Ref
                 PROVE  Pending(r, i)'
      OBVIOUS
    <2>1. n + 1 \in DOMAIN stack' /\ stack'[n + 1].cell = r /\ stack'[n + 1].next <= i
      BY <1>2, <1>3, <1>4, <1>5
    <2> QED
      BY <2>1 DEF Pending
  <1>11. \A c : \A i \in Nat : Pending(c, i) =>
             Pending(c, i)' \/ (c = Top.cell /\ i = Top.next)
    <2>1. Len(stack') >= Len(stack)
      BY <1>2, <1>3 DEF n
    <2> QED
      BY <1>1, <1>2, <2>1, PendingKept DEF n
  <1>12. stack' \in Seq(Frames)
    BY <1>2
  <1> QED
    BY <1>6, <1>8, <1>9, <1>10, <1>11, <1>12, Zenon

\* What a loop that only goes on to its next reference keeps of the stack.
LEMMA AdvanceKeeps ==
    ASSUME IInv, Looping, stack' = Append(Below, Advanced),
           refs' = refs, index' = index
    PROVE  /\ stack' \in Seq(Frames)
           /\ \A f \in DOMAIN stack' :
                 stack'[f].next \in 1 .. Len(refs'[stack'[f].cell]) + 1
           /\ StackDescends'
           /\ MovedAreKnown'
           /\ \A c : \A i \in Nat : Pending(c, i) =>
                 Pending(c, i)' \/ (c = Top.cell /\ i = Top.next)
  <1> DEFINE n == Len(stack)
  <1>1. TypeOK /\ StackDescends /\ MovedAreKnown
    BY DEF IInv
  <1>2. /\ stack' \in Seq(Frames)
        /\ Len(stack') = n
        /\ \A f \in 1 .. n - 1 : stack'[f] = stack[f]
        /\ stack'[n] = Advanced
    BY <1>1, AdvancedStack
  <1>3. /\ n \in Nat \ {0} /\ Top \in Frames /\ stack[n] = Top
        /\ Advanced \in Frames /\ Advanced.cell = Top.cell
        /\ Advanced.next \in 1 .. Len(refs[Top.cell]) + 1
        /\ Advanced.kind = Top.kind
    BY <1>1, AdvancedFrame, BelowStack DEF Top, Advanced, Frames
  <1>4. DOMAIN stack' = 1 .. n /\ DOMAIN stack = 1 .. n
    BY <1>1, <1>2, <1>3 DEF TypeOK
  <1> HIDE DEF n
  <1>5. \A f \in DOMAIN stack' :
            stack'[f].next \in 1 .. Len(refs'[stack'[f].cell]) + 1
    <2> SUFFICES ASSUME NEW f \in 1 .. n
                 PROVE  stack'[f].next \in 1 .. Len(refs[stack'[f].cell]) + 1
      BY <1>4
    <2>1. CASE f \in 1 .. n - 1
      BY <1>1, <1>2, <1>3, <1>4, <2>1 DEF TypeOK
    <2>2. CASE f = n
      BY <1>2, <1>3, <2>2
    <2>3. f \in 1 .. n - 1 \/ f = n
      BY <1>3
    <2> QED
      BY <2>1, <2>2, <2>3
  <1>6. \A f \in 1 .. n : stack'[f].cell = stack[f].cell /\ stack'[f].kind = stack[f].kind
    BY <1>2, <1>3
  <1>7. StackDescends'
    BY <1>1, <1>4, <1>6 DEF StackDescends
  <1>8. MovedAreKnown'
    <2> SUFFICES ASSUME NEW f \in DOMAIN stack', stack'[f].kind = "move",
                        NEW i \in DOMAIN refs'[stack'[f].cell]
                 PROVE  refs'[stack'[f].cell][i] \in DOMAIN index'
      BY DEF MovedAreKnown
    <2>1. f \in DOMAIN stack /\ stack[f].kind = "move"
      BY <1>4, <1>6
    <2>2. stack'[f].cell = stack[f].cell
      BY <1>4, <1>6
    <2>3. \A j \in DOMAIN refs[stack[f].cell] :
              refs[stack[f].cell][j] \in DOMAIN index
      <3>1. MovedAreKnown
        BY <1>1
      <3> QED
        BY <2>1, <3>1 DEF MovedAreKnown
    <2> QED
      BY <2>2, <2>3
  <1>9. \A c : \A i \in Nat : Pending(c, i) =>
             Pending(c, i)' \/ (c = Top.cell /\ i = Top.next)
    <2>1. Len(stack') >= Len(stack)
      BY <1>2, <1>3 DEF n
    <2> QED
      BY <1>1, <1>2, <2>1, PendingKept DEF n
  <1>10. stack' \in Seq(Frames)
    BY <1>2
  <1> QED
    BY <1>5, <1>7, <1>8, <1>9, <1>10, Zenon

-----------------------------------------------------------------------------
(***************************************************************************)
(* One lemma for each action.                                              *)
(***************************************************************************)
LEMMA VisitInPlaceKeeps ==
    ASSUME IInv, VisitInPlace
    PROVE  IInv'
  <1>1. /\ TypeOK /\ IndexMatchesOrder /\ StackDescends /\ OnlyPendingPointBack
        /\ RootFirst
    BY DEF IInv
  <1>2. /\ Looping /\ Ref \in DOMAIN index /\ index[Top.cell] <= index[Ref]
        /\ stack' = Append(Below, Advanced)
        /\ refs' = refs /\ order' = order /\ index' = index
    BY DEF VisitInPlace
  <1>3. /\ stack' \in Seq(Frames)
        /\ \A f \in DOMAIN stack' :
              stack'[f].next \in 1 .. Len(refs'[stack'[f].cell]) + 1
        /\ StackDescends'
        /\ MovedAreKnown'
        /\ \A c : \A i \in Nat : Pending(c, i) =>
              Pending(c, i)' \/ (c = Top.cell /\ i = Top.next)
    BY <1>2, AdvanceKeeps
  <1>4. TypeOK'
    BY <1>1, <1>2, <1>3 DEF TypeOK
  <1>5. IndexMatchesOrder' /\ RootFirst'
    BY <1>1, <1>2 DEF IndexMatchesOrder, RootFirst
  <1>6. index[Top.cell] < index[Ref]
    <2>1. Top.cell < Ref /\ Top.cell \in Nat /\ Ref \in Nat
      BY <1>1, <1>2, AdvancedFrame, BelowStack DEF Frames, Cells
    <2>2. Top.cell \in DOMAIN index
      <3>1. Len(stack) \in DOMAIN stack
        BY <1>1, <1>2, AdvancedFrame, BelowStack DEF TypeOK
      <3> QED
        BY <1>1, <3>1 DEF StackDescends, Top
    <2>3. index[Top.cell] # index[Ref]
      BY <1>1, <1>2, <2>1, <2>2, IndexInjective
    <2>4. index[Top.cell] \in Nat /\ index[Ref] \in Nat
      BY <1>1, <1>2, <2>2 DEF TypeOK
    <2> QED
      BY <1>2, <2>3, <2>4
  <1>7. OnlyPendingPointBack'
    <2> SUFFICES ASSUME NEW c \in DOMAIN index, NEW i \in DOMAIN refs[c]
                 PROVE  \/ Pending(c, i)'
                        \/ refs[c][i] \in DOMAIN index /\ index[c] < index[refs[c][i]]
      BY <1>2 DEF OnlyPendingPointBack
    <2>1. i \in Nat
      BY <1>1 DEF TypeOK
    <2>2. CASE c = Top.cell /\ i = Top.next
      BY <1>2, <1>6, <2>2 DEF Ref
    <2>3. CASE ~(c = Top.cell /\ i = Top.next)
      BY <1>1, <1>3, <2>1, <2>3 DEF OnlyPendingPointBack
    <2> QED
      BY <2>2, <2>3
  <1> QED
    BY <1>3, <1>4, <1>5, <1>7 DEF IInv

LEMMA VisitNewKeeps ==
    ASSUME IInv, VisitNew
    PROVE  IInv'
  <1> DEFINE L == Len(order)
  <1>1. /\ TypeOK /\ IndexMatchesOrder /\ OnlyPendingPointBack /\ RootFirst
    BY DEF IInv
  <1>2. /\ Looping /\ Ref \notin DOMAIN index
        /\ order' = Append(order, Ref)
        /\ index' = [c \in DOMAIN index \cup {Ref} |->
                        IF c = Ref THEN L ELSE index[c]]
        /\ Call("walk", Ref) /\ refs' = refs
    BY DEF VisitNew
  <1>3. /\ DOMAIN index' = DOMAIN index \cup {Ref}
        /\ index'[Ref] = L
        /\ \A c \in DOMAIN index : index'[c] = index[c]
    BY <1>2
  <1>4. /\ stack' \in Seq(Frames)
        /\ \A f \in DOMAIN stack' :
              stack'[f].next \in 1 .. Len(refs'[stack'[f].cell]) + 1
        /\ StackDescends'
        /\ MovedAreKnown'
        /\ \A r, i : r = Ref /\ i \in Nat \ {0} => Pending(r, i)'
        /\ \A c : \A i \in Nat : Pending(c, i) =>
              Pending(c, i)' \/ (c = Top.cell /\ i = Top.next)
    BY <1>2, <1>3, CallKeeps
  <1>5. /\ L \in Nat /\ Ref \in Cells /\ order \in Seq(Cells)
        /\ \A c \in DOMAIN index : index[c] \in 0 .. L - 1
        /\ DOMAIN order = 1 .. L
    BY <1>1, <1>2, AdvancedFrame DEF TypeOK
  <1> HIDE DEF L
  <1>6. /\ order' \in Seq(Cells) /\ Len(order') = L + 1 /\ DOMAIN order' = 1 .. L + 1
        /\ order'[L + 1] = Ref
        /\ \A i \in 1 .. L : order'[i] = order[i]
    BY <1>2, <1>5 DEF L
  <1>7. TypeOK'
    <2>1. index' \in [DOMAIN index' -> 0 .. Len(order') - 1]
      <3>1. \A c \in DOMAIN index' : index'[c] \in 0 .. L
        BY <1>3, <1>5
      <3>2. index' = [c \in DOMAIN index' |-> index'[c]]
        BY <1>2
      <3>3. Len(order') - 1 = L
        BY <1>5, <1>6
      <3> QED
        BY <3>1, <3>2, <3>3
    <2>2. DOMAIN index' \subseteq Cells
      BY <1>1, <1>3, <1>5 DEF TypeOK
    <2> QED
      BY <1>1, <1>2, <1>4, <1>6, <2>1, <2>2 DEF TypeOK
  <1>8. IndexMatchesOrder'
    <2>1. \A c \in DOMAIN index' : order'[index'[c] + 1] = c
      <3> SUFFICES ASSUME NEW c \in DOMAIN index'
                   PROVE  order'[index'[c] + 1] = c
        OBVIOUS
      <3>1. CASE c = Ref
        BY <1>3, <1>6, <3>1
      <3>2. CASE c \in DOMAIN index
        <4>1. index[c] + 1 \in 1 .. L
          BY <1>5, <3>2
        <4> QED
          BY <1>1, <1>3, <1>6, <3>2, <4>1 DEF IndexMatchesOrder
      <3> QED
        BY <1>3, <3>1, <3>2
    <2>2. \A i \in 1 .. L + 1 : order'[i] \in DOMAIN index' /\ index'[order'[i]] = i - 1
      <3> SUFFICES ASSUME NEW i \in 1 .. L + 1
                   PROVE  order'[i] \in DOMAIN index' /\ index'[order'[i]] = i - 1
        OBVIOUS
      <3>1. CASE i \in 1 .. L
        BY <1>1, <1>3, <1>5, <1>6, <3>1 DEF IndexMatchesOrder
      <3>2. CASE i = L + 1
        BY <1>3, <1>5, <1>6, <3>2
      <3> QED
        BY <1>5, <3>1, <3>2
    <2> QED
      BY <1>6, <2>1, <2>2 DEF IndexMatchesOrder
  <1>9. RootFirst'
    <2>1. L >= 1
      BY <1>1, <1>5, EmptySeq DEF RootFirst, L
    <2>2. order'[1] = order[1] /\ order' # << >>
      BY <1>5, <1>6, <2>1
    <2> QED
      BY <1>1, <2>2 DEF RootFirst
  <1>10. OnlyPendingPointBack'
    <2> SUFFICES ASSUME NEW c \in DOMAIN index', NEW i \in DOMAIN refs[c]
                 PROVE  \/ Pending(c, i)'
                        \/ refs[c][i] \in DOMAIN index' /\ index'[c] < index'[refs[c][i]]
      BY <1>2 DEF OnlyPendingPointBack
    <2>1. i \in Nat \ {0}
      BY <1>1, <1>3, <1>5 DEF TypeOK
    <2>2. CASE c = Ref
      BY <1>4, <2>1, <2>2
    <2>3. CASE c # Ref /\ c = Top.cell /\ i = Top.next
      <3>1. refs[c][i] = Ref
        BY <2>3 DEF Ref
      <3> QED
        BY <1>3, <1>5, <2>3, <3>1
    <2>4. CASE c # Ref /\ ~(c = Top.cell /\ i = Top.next)
      BY <1>1, <1>3, <1>4, <2>1, <2>4 DEF OnlyPendingPointBack
    <2> QED
      BY <2>2, <2>3, <2>4
  <1> QED
    BY <1>4, <1>7, <1>8, <1>9, <1>10 DEF IInv

\* Where the other cells are after a cell has been moved to the end.
LEMMA MovedIndexes ==
    ASSUME TypeOK, IndexMatchesOrder, NEW t \in DOMAIN index,
           index' = IndexMoved(t)
    PROVE  /\ DOMAIN index' = DOMAIN index
           /\ index'[t] = Len(order) - 1
           /\ index' \in [DOMAIN index -> 0 .. Len(order) - 1]
           /\ \A c \in DOMAIN index \ {t} :
                 \/ index[c] < index[t] /\ index'[c] = index[c]
                 \/ index[c] > index[t] /\ index'[c] = index[c] - 1
           /\ \A c \in DOMAIN index \ {t} : index'[c] < Len(order) - 1
           /\ \A c, d \in DOMAIN index \ {t} :
                 index[c] < index[d] => index'[c] < index'[d]
  <1> DEFINE L == Len(order)
             p == index[t]
  <1>1. /\ L \in Nat /\ p \in 0 .. L - 1
        /\ \A c \in DOMAIN index : index[c] \in 0 .. L - 1
    BY DEF TypeOK
  <1>2. /\ DOMAIN index' = DOMAIN index
        /\ index'[t] = L - 1
        /\ \A c \in DOMAIN index \ {t} :
              index'[c] = IF index[c] > p THEN index[c] - 1 ELSE index[c]
    BY DEF IndexMoved
  <1>3. \A c \in DOMAIN index \ {t} : index[c] # p
    BY IndexInjective
  <1> HIDE DEF L, p
  <1>4. \A c \in DOMAIN index \ {t} :
            \/ index[c] < p /\ index'[c] = index[c]
            \/ index[c] > p /\ index'[c] = index[c] - 1
    BY <1>1, <1>2, <1>3
  <1>5. \A c \in DOMAIN index \ {t} : index'[c] \in 0 .. L - 2
    BY <1>1, <1>4
  <1>6. \A c, d \in DOMAIN index \ {t} :
            index[c] < index[d] => index'[c] < index'[d]
    BY <1>1, <1>4
  <1>7. index' \in [DOMAIN index -> 0 .. L - 1]
    <2>1. \A c \in DOMAIN index : index'[c] \in 0 .. L - 1
      BY <1>1, <1>2, <1>5
    <2>2. index' = [c \in DOMAIN index |-> index'[c]]
      BY DEF IndexMoved
    <2> QED
      BY <2>1, <2>2
  <1>8. \A c \in DOMAIN index \ {t} : index'[c] < L - 1
    BY <1>1, <1>5
  <1> QED
    BY <1>2, <1>4, <1>6, <1>7, <1>8 DEF L, p

\* The order after the same move.
LEMMA MovedOrder ==
    ASSUME TypeOK, IndexMatchesOrder, NEW t \in DOMAIN index,
           index' = IndexMoved(t), order' = OrderMoved(index[t])
    PROVE  /\ order' \in Seq(Cells)
           /\ Len(order') = Len(order)
           /\ IndexMatchesOrder'
           /\ index[t] > 0 => order'[1] = order[1]
  <1> DEFINE L == Len(order)
             p == index[t]
  <1>1. /\ L \in Nat /\ p \in 0 .. L - 1 /\ L >= 1
        /\ order \in Seq(Cells) /\ DOMAIN order = 1 .. L
        /\ \A c \in DOMAIN index : index[c] \in 0 .. L - 1
        /\ \A i \in 1 .. L : order[i] \in Cells
    BY DEF TypeOK
  <1>2. /\ DOMAIN index' = DOMAIN index
        /\ index'[t] = L - 1
        /\ \A c \in DOMAIN index \ {t} :
              \/ index[c] < p /\ index'[c] = index[c]
              \/ index[c] > p /\ index'[c] = index[c] - 1
    BY MovedIndexes
  <1>3. /\ \A c \in DOMAIN index : order[index[c] + 1] = c
        /\ \A i \in 1 .. L : order[i] \in DOMAIN index /\ index[order[i]] = i - 1
    BY <1>1 DEF IndexMatchesOrder
  <1>4. order' = [i \in 1 .. L |->
                     IF i < p + 1 THEN order[i]
                     ELSE IF i < L THEN order[i + 1]
                     ELSE order[p + 1]]
    BY DEF OrderMoved
  <1>5. order[p + 1] = t
    BY <1>3 DEF p
  <1> HIDE DEF L, p
  <1>6. /\ \A i \in 1 .. p : order'[i] = order[i]
        /\ \A i \in p + 1 .. L - 1 : order'[i] = order[i + 1]
        /\ order'[L] = t
        /\ DOMAIN order' = 1 .. L
    BY <1>1, <1>4, <1>5
  <1>7. order' \in Seq(Cells) /\ Len(order') = L
    <2>1. \A i \in 1 .. L : order'[i] \in Cells
      <3> SUFFICES ASSUME NEW i \in 1 .. L
                   PROVE  order'[i] \in Cells
        OBVIOUS
      <3>1. CASE i \in 1 .. p
        BY <1>1, <1>6, <3>1
      <3>2. CASE i \in p + 1 .. L - 1
        <4>1. i + 1 \in 1 .. L
          BY <1>1, <3>2
        <4> QED
          BY <1>1, <1>6, <3>2, <4>1
      <3>3. CASE i = L
        <4>1. p + 1 \in 1 .. L
          BY <1>1
        <4> QED
          BY <1>1, <1>5, <1>6, <3>3, <4>1
      <3> QED
        BY <1>1, <3>1, <3>2, <3>3
    <2>2. order' \in [1 .. L -> Cells]
      BY <1>4, <2>1
    <2> QED
      BY <1>1, <2>2
  <1>8. \A c \in DOMAIN index : order'[index'[c] + 1] = c
    <2> SUFFICES ASSUME NEW c \in DOMAIN index
                 PROVE  order'[index'[c] + 1] = c
      OBVIOUS
    <2>1. CASE c = t
      BY <1>1, <1>2, <1>6, <2>1
    <2>2. CASE c # t /\ index[c] < p
      <3>1. index'[c] + 1 \in 1 .. p /\ index'[c] = index[c]
        BY <1>1, <1>2, <2>2
      <3> QED
        BY <1>3, <1>6, <3>1
    <2>3. CASE c # t /\ index[c] > p
      <3>1. index'[c] + 1 = index[c] /\ index[c] \in p + 1 .. L - 1
        BY <1>1, <1>2, <2>3
      <3> QED
        BY <1>3, <1>6, <3>1
    <2> QED
      BY <1>2, <2>1, <2>2, <2>3
  <1>9. \A i \in 1 .. L : order'[i] \in DOMAIN index /\ index'[order'[i]] = i - 1
    <2> SUFFICES ASSUME NEW i \in 1 .. L
                 PROVE  order'[i] \in DOMAIN index /\ index'[order'[i]] = i - 1
      OBVIOUS
    <2>1. index[t] = p
      BY DEF p
    <2>2. CASE i \in 1 .. p
      <3>1. order'[i] = order[i] /\ index[order[i]] = i - 1 /\ i - 1 < p
            /\ order[i] \in DOMAIN index
        BY <1>1, <1>3, <1>6, <2>2
      <3> QED
        BY <1>1, <1>2, <2>1, <3>1
    <2>3. CASE i \in p + 1 .. L - 1
      <3>1. i + 1 \in 1 .. L /\ (i + 1) - 1 = i /\ i > p
        BY <1>1, <2>3
      <3>2. order'[i] = order[i + 1] /\ index[order[i + 1]] = i
            /\ order[i + 1] \in DOMAIN index
        BY <1>3, <1>6, <2>3, <3>1
      <3> QED
        BY <1>1, <1>2, <2>1, <3>1, <3>2
    <2>4. CASE i = L
      BY <1>2, <1>6, <2>4
    <2>5. i \in 1 .. p \/ i \in p + 1 .. L - 1 \/ i = L
      BY <1>1
    <2> QED
      BY <2>2, <2>3, <2>4, <2>5
  <1>10. IndexMatchesOrder'
    BY <1>2, <1>6, <1>8, <1>9 DEF IndexMatchesOrder
  <1>11. p > 0 => order'[1] = order[1]
    BY <1>1, <1>6
  <1> QED
    BY <1>7, <1>10, <1>11 DEF L, p

LEMMA MoveKeeps ==
    ASSUME IInv, Move
    PROVE  IInv'
  <1> DEFINE L == Len(order)
  <1>1. /\ TypeOK /\ IndexMatchesOrder /\ StackDescends /\ OnlyPendingPointBack
        /\ MovedAreKnown /\ RootFirst
    BY DEF IInv
  <1>2. /\ Looping /\ Moves /\ Call("move", Ref) /\ refs' = refs
        /\ order' = OrderMoved(index[Ref]) /\ index' = IndexMoved(Ref)
    BY DEF Move, MoveToEnd
  <1>3. /\ Ref \in Cells /\ Top.cell \in Cells /\ Top.cell < Ref
        /\ Len(stack) \in DOMAIN stack /\ Top = stack[Len(stack)]
        /\ Top.next \in DOMAIN refs[Top.cell]
    <2>1. Top \in Frames /\ Top.next \in 1 .. Len(refs[Top.cell])
      BY <1>1, <1>2, AdvancedFrame, BelowStack
    <2>2. Top.cell \in Cells /\ refs[Top.cell] \in Seq(Cells)
      BY <1>1, <2>1 DEF Frames, TypeOK
    <2>3. Len(stack) \in DOMAIN stack
      BY <1>1, <1>2, AdvancedFrame, BelowStack DEF TypeOK
    <2> QED
      BY <1>1, <1>2, <2>1, <2>2, <2>3, AdvancedFrame DEF Top
  <1>4. Ref \in DOMAIN index
    <2>1. CASE Top.kind = "move"
      BY <1>1, <1>3, <2>1 DEF MovedAreKnown, Ref
    <2>2. CASE Ref \in DOMAIN index
      BY <2>2
    <2> QED
      BY <1>2, <2>1, <2>2 DEF Moves
  <1>5. /\ DOMAIN index' = DOMAIN index
        /\ index'[Ref] = L - 1
        /\ index' \in [DOMAIN index -> 0 .. L - 1]
        /\ \A c \in DOMAIN index \ {Ref} : index'[c] < L - 1
        /\ \A c, d \in DOMAIN index \ {Ref} :
              index[c] < index[d] => index'[c] < index'[d]
    BY <1>1, <1>2, <1>4, MovedIndexes
  <1>6. /\ order' \in Seq(Cells) /\ Len(order') = L
        /\ IndexMatchesOrder'
        /\ index[Ref] > 0 => order'[1] = order[1]
    BY <1>1, <1>2, <1>4, MovedOrder
  <1> HIDE DEF L
  <1>7. \A i \in DOMAIN refs[Ref] : ~Pending(Ref, i)
    <2> SUFFICES ASSUME NEW f \in DOMAIN stack
                 PROVE  stack[f].cell # Ref
      BY DEF Pending
    <2>1. f \in 1 .. Len(stack) /\ Len(stack) \in Nat
      BY <1>1 DEF TypeOK
    <2>2. CASE f = Len(stack)
      BY <1>3, <2>2 DEF Cells
    <2>3. CASE f < Len(stack)
      <3>1. stack[f].cell < Top.cell
        BY <1>1, <1>3, <2>3 DEF StackDescends
      <3>2. stack[f].cell \in Cells
        BY <1>1 DEF StackDescends, TypeOK
      <3> QED
        BY <1>3, <3>1, <3>2, NAssumption DEF Cells
    <2> QED
      BY <2>1, <2>2, <2>3
  <1>8. \A i \in DOMAIN refs[Ref] : refs[Ref][i] \in DOMAIN index
    BY <1>1, <1>4, <1>7 DEF OnlyPendingPointBack
  <1>9. /\ stack' \in Seq(Frames)
        /\ \A f \in DOMAIN stack' :
              stack'[f].next \in 1 .. Len(refs'[stack'[f].cell]) + 1
        /\ StackDescends'
        /\ MovedAreKnown'
        /\ \A r, i : r = Ref /\ i \in Nat \ {0} => Pending(r, i)'
        /\ \A c : \A i \in Nat : Pending(c, i) =>
              Pending(c, i)' \/ (c = Top.cell /\ i = Top.next)
    BY <1>2, <1>4, <1>5, <1>8, CallKeeps
  <1>10. TypeOK'
    BY <1>1, <1>2, <1>5, <1>6, <1>9 DEF TypeOK
  <1>11. RootFirst'
    <2>1. L \in Nat \ {0}
      BY <1>1, EmptySeq DEF TypeOK, RootFirst, L
    <2>2. order' # << >>
      BY <1>6, <2>1
    <2>3. 1 \in DOMAIN order /\ order[1] = Root
      BY <1>1, <2>1 DEF RootFirst, TypeOK, L
    <2>4. Root \in DOMAIN index /\ index[Root] = 0
      BY <1>1, <2>3 DEF IndexMatchesOrder
    <2>5. Ref # Root
      BY <1>3, NAssumption DEF Cells, Root
    <2>6. index[Ref] # 0
      BY <1>1, <1>4, <2>4, <2>5, IndexInjective
    <2>7. index[Ref] > 0
      BY <1>1, <1>4, <2>6 DEF TypeOK
    <2> QED
      BY <1>6, <2>2, <2>3, <2>7 DEF RootFirst
  <1>12. OnlyPendingPointBack'
    <2> SUFFICES ASSUME NEW c \in DOMAIN index, NEW i \in DOMAIN refs[c]
                 PROVE  \/ Pending(c, i)'
                        \/ refs[c][i] \in DOMAIN index /\ index'[c] < index'[refs[c][i]]
      BY <1>2, <1>5 DEF OnlyPendingPointBack
    <2>1. i \in Nat \ {0}
      BY <1>1 DEF TypeOK
    <2>2. CASE c = Ref
      BY <1>9, <2>1, <2>2
    <2>3. CASE c # Ref /\ refs[c][i] = Ref
      BY <1>4, <1>5, <2>3
    <2>4. CASE c # Ref /\ refs[c][i] # Ref
      <3>1. ~(c = Top.cell /\ i = Top.next)
        BY <2>4 DEF Ref
      <3>2. CASE Pending(c, i)
        BY <1>9, <2>1, <3>1, <3>2
      <3>3. CASE ~Pending(c, i)
        BY <1>1, <1>5, <2>4, <3>3 DEF OnlyPendingPointBack
      <3> QED
        BY <3>2, <3>3
    <2> QED
      BY <2>2, <2>3, <2>4
  <1> QED
    BY <1>6, <1>9, <1>10, <1>11, <1>12 DEF IInv

LEMMA ReturnKeeps ==
    ASSUME IInv, Return
    PROVE  IInv'
  <1> DEFINE n == Len(stack)
  <1>1. /\ TypeOK /\ IndexMatchesOrder /\ StackDescends /\ OnlyPendingPointBack
        /\ MovedAreKnown /\ RootFirst
    BY DEF IInv
  <1>2. /\ stack # << >> /\ ~(Top.next <= Len(refs[Top.cell])) /\ stack' = Below
        /\ refs' = refs /\ order' = order /\ index' = index
    BY DEF Return, Looping
  <1>3. /\ n \in Nat \ {0} /\ Top = stack[n]
        /\ stack' \in Seq(Frames) /\ Len(stack') = n - 1
        /\ \A f \in 1 .. n - 1 : stack'[f] = stack[f]
    BY <1>1, <1>2, BelowStack DEF Top
  <1>4. DOMAIN stack = 1 .. n /\ DOMAIN stack' = 1 .. n - 1
    BY <1>1, <1>3 DEF TypeOK
  <1> HIDE DEF n
  <1>5. \A f \in DOMAIN stack' : f \in DOMAIN stack /\ stack'[f] = stack[f]
    BY <1>3, <1>4
  <1>6. TypeOK'
    BY <1>1, <1>2, <1>3, <1>5 DEF TypeOK
  <1>7. IndexMatchesOrder' /\ RootFirst'
    BY <1>1, <1>2 DEF IndexMatchesOrder, RootFirst
  <1>8. StackDescends' /\ MovedAreKnown'
    <2>1. StackDescends'
      BY <1>1, <1>2, <1>5 DEF StackDescends
    <2>2. MovedAreKnown'
      BY <1>1, <1>2, <1>5 DEF MovedAreKnown
    <2> QED
      BY <2>1, <2>2
  <1>9. ASSUME NEW c \in DOMAIN index, NEW i \in DOMAIN refs[c], Pending(c, i)
        PROVE  Pending(c, i)'
    <2>1. PICK f \in DOMAIN stack : stack[f].cell = c /\ stack[f].next <= i
      BY <1>9 DEF Pending
    <2>2. i \in 1 .. Len(refs[c])
      BY <1>1 DEF TypeOK
    <2>3. f # n
      <3> SUFFICES ASSUME f = n
                   PROVE  FALSE
        OBVIOUS
      <3>1. Top.cell = c /\ Top.next <= i
        BY <1>3, <2>1
      <3>2. Top.next \in Nat /\ Len(refs[c]) \in Nat
        BY <1>1, <1>3, <1>4 DEF TypeOK
      <3> QED
        BY <1>2, <2>2, <3>1, <3>2
    <2>4. f \in DOMAIN stack'
      BY <1>3, <1>4, <2>3
    <2> QED
      BY <1>5, <2>1, <2>4 DEF Pending
  <1>10. OnlyPendingPointBack'
    BY <1>1, <1>2, <1>9 DEF OnlyPendingPointBack
  <1> QED
    BY <1>6, <1>7, <1>8, <1>10 DEF IInv

-----------------------------------------------------------------------------
(***************************************************************************)
(* The theorems.                                                           *)
(***************************************************************************)
LEMMA InitIInv ==
    Init => IInv
  <1> SUFFICES ASSUME Init
               PROVE  IInv
    OBVIOUS
  <1>1. /\ refs \in [Cells -> Tuples(Cells, MaxRefs)]
        /\ \A c \in Cells : \A i \in DOMAIN refs[c] : c < refs[c][i]
        /\ order = <<Root>>
        /\ index = [c \in {Root} |-> 0]
        /\ stack = <<[cell |-> Root, kind |-> "walk", next |-> 1]>>
    BY DEF Init
  <1>2. Root \in Cells /\ Root = 1
    BY NAssumption DEF Cells, Root
  <1>3. \A t \in Tuples(Cells, MaxRefs) : t \in Seq(Cells)
    <2> SUFFICES ASSUME NEW k \in 0 .. MaxRefs, NEW t \in [1 .. k -> Cells]
                 PROVE  t \in Seq(Cells)
      BY DEF Tuples
    <2> QED
      BY MaxRefsAssumption
  <1>4. refs \in [Cells -> Seq(Cells)]
    BY <1>1, <1>3
  <1>5. DOMAIN index = {Root} /\ index[Root] = 0
    BY <1>1
  <1>6. order \in Seq(Cells) /\ Len(order) = 1 /\ DOMAIN order = {1} /\ order[1] = Root
    BY <1>1, <1>2
  <1> DEFINE frame == [cell |-> Root, kind |-> "walk", next |-> 1]
  <1>7. frame \in Frames /\ frame.cell = Root /\ frame.kind = "walk" /\ frame.next = 1
    BY <1>2 DEF Frames
  <1>8. stack = <<frame>>
    BY <1>1
  <1> HIDE DEF frame
  <1>9. stack \in Seq(Frames) /\ DOMAIN stack = {1} /\ stack[1] = frame
    BY <1>7, <1>8
  <1>10. TypeOK
    <2>1. index \in [DOMAIN index -> 0 .. Len(order) - 1]
      <3>1. Len(order) - 1 = 0
        BY <1>6
      <3>2. index = [c \in {Root} |-> index[c]] /\ 0 \in 0 .. 0
        BY <1>1
      <3> QED
        BY <1>5, <3>1, <3>2
    <2>2. \A f \in DOMAIN stack : stack[f].next \in 1 .. Len(refs[stack[f].cell]) + 1
      <3>1. Len(refs[Root]) \in Nat
        BY <1>2, <1>4
      <3> QED
        BY <1>7, <1>9, <3>1
    <2> QED
      BY <1>1, <1>2, <1>4, <1>5, <1>6, <1>9, <2>1, <2>2 DEF TypeOK
  <1>11. IndexMatchesOrder /\ RootFirst
    <2>1. order # << >>
      BY <1>6
    <2> QED
      BY <1>5, <1>6, <2>1 DEF IndexMatchesOrder, RootFirst
  <1>12. StackDescends /\ MovedAreKnown
    BY <1>5, <1>7, <1>9 DEF StackDescends, MovedAreKnown
  <1>13. OnlyPendingPointBack
    <2> SUFFICES ASSUME NEW i \in DOMAIN refs[Root]
                 PROVE  Pending(Root, i)
      BY <1>5 DEF OnlyPendingPointBack
    <2>1. i \in Nat \ {0}
      BY <1>2, <1>4
    <2> QED
      BY <1>7, <1>9, <2>1 DEF Pending
  <1> QED
    BY <1>10, <1>11, <1>12, <1>13 DEF IInv

LEMMA NextIInv ==
    IInv /\ [Next]_walkVars => IInv'
  <1> SUFFICES ASSUME IInv, [Next]_walkVars
               PROVE  IInv'
    OBVIOUS
  <1>1. CASE VisitNew
    BY <1>1, VisitNewKeeps
  <1>2. CASE VisitInPlace
    BY <1>2, VisitInPlaceKeeps
  <1>3. CASE Move
    BY <1>3, MoveKeeps
  <1>4. CASE Return
    BY <1>4, ReturnKeeps
  <1>5. CASE UNCHANGED walkVars
    BY <1>5 DEF walkVars, IInv, TypeOK, IndexMatchesOrder, StackDescends,
                OnlyPendingPointBack, Pending, MovedAreKnown, RootFirst
  <1> QED
    BY <1>1, <1>2, <1>3, <1>4, <1>5 DEF Next, Walk

\* At every moment of tree_walk and move_to_end the order and index_hashmap
\* agree, the root is first, only a reference that is still to be looked at may
\* point back, and move_to_end looks up only cells that index_hashmap has.
THEOREM WalkInvariant == Spec => []IInv
  BY InitIInv, NextIInv, PTL DEF Spec

\* When tree_walk returns, every cell is before the cells it refers to and has
\* the index it is written under, however the cells share one another.
THEOREM WalkSorts == Spec => [](ParentsFirst /\ IndexMatchesOrder /\ RootFirst)
  <1>1. IInv => ParentsFirst /\ IndexMatchesOrder /\ RootFirst
    <2> SUFFICES ASSUME IInv, Walked
                 PROVE  \A c \in DOMAIN index : \A i \in DOMAIN refs[c] :
                            refs[c][i] \in DOMAIN index /\ index[c] < index[refs[c][i]]
      BY DEF IInv, ParentsFirst
    <2>1. DOMAIN stack = {}
      BY DEF Walked
    <2>2. \A c, i : ~Pending(c, i)
      BY <2>1 DEF Pending
    <2> QED
      BY <2>2 DEF IInv, OnlyPendingPointBack
  <1> QED
    BY <1>1, WalkInvariant, PTL

-----------------------------------------------------------------------------
(***************************************************************************)
(* The dictionary and the builders among the cells.                        *)
(***************************************************************************)

\* The dictionary's part of every behaviour is a behaviour of the dictionary.
LEMMA DictSteps ==
    /\ CellsInit => DictInit
    /\ [CellsNext]_allVars => [DictNext]_dictVars
BY DEF CellsInit, CellsNext, allVars

\* However many items a dictionary has, whose keys fit in its key size, a contract
\* that looks a key up finds the cell stored under it, and nothing under any other
\* key; fork_map's assertion holds (_dict_builder.py, serialize_dict.py).
THEOREM DictIsRead == CellsSpec => []DictReadBack
  BY DictSteps, DictReadsBack, PTL DEF CellsSpec

\* Every label of a dictionary has the one form that contracts expect
\* (serialize_dict.py).
THEOREM DictIsCanonical == CellsSpec => []LabelsCanonical
  BY DictSteps, DictLabelsCanonical, PTL DEF CellsSpec

\* CellDataProofs proves this for the module on its own.
CP == INSTANCE CellDataProofs
        WITH bits <- built, refs <- built_refs, ended <- taken, MaxItems <- MaxStores

\* What is stored here is what CellDataProofs is about: the inner builder knows
\* of no other cell, and what is copied is a builder's.
LEMMA ItemsAssumption == CP!Constants
BY DEF CP!Constants, CP!IsRef, CP!NoCell, Outer, Inner, Item

\* Every item is one of its kind.
LEMMA StoredItems == CP!Storage
<1>1. Length \in Nat /\ HashBytes \in Nat
  BY StorageAssumption
<1>2. ASSUME NEW kind, NEW datum, NEW width,
             \/ kind = "uint" /\ datum \in Int /\ width \in Nat \ {0}
             \/ kind = "int" /\ datum \in Int /\ width \in Nat \ {0}
             \/ kind = "grams" /\ datum \in Nat
             \/ kind \in {"ref", "maybe_ref", "cell", "slice"}
      PROVE  CP!IsItem(Item(kind, datum, width))
  BY <1>2 DEF CP!IsItem, Item
<1>3. CP!IsItem(Item("bytes", <<65, 66>>, 2))
  <2>1. <<65, 66>> \in Seq(0 .. 255) /\ Len(<<65, 66>>) = 2
    OBVIOUS
  <2> QED
    BY <2>1 DEF CP!IsItem, Item
<1>4. CP!IsItem(Item("address", Masterchain, 0))
  <2> DEFINE h == [i \in 1 .. HashBytes |-> 200]
  <2>1. h \in Seq(0 .. 255) /\ Len(h) = HashBytes
    BY <1>1
  <2> HIDE DEF h
  <2>2. CP!IsFull([wc |-> -1, hash_part |-> h])
    BY <2>1 DEF CP!IsFull
  <2>3. CP!IsAddress(Masterchain)
    BY <2>2, Zenon DEF CP!IsAddress, Masterchain, h
  <2> QED
    BY <2>3 DEF CP!IsItem, Item
<1>5. CP!IsItem(Item("address", [none |-> TRUE], 0))
  BY DEF CP!IsItem, CP!IsAddress, CP!None, Item
<1>6. \A item \in Inner : CP!IsItem(item)
  BY <1>2 DEF Inner
<1>7. \A item \in Outer : CP!IsItem(item)
  BY <1>2, <1>3, <1>4, <1>5 DEF Outer
<1> QED
  BY <1>1, <1>6, <1>7 DEF CP!Storage

LEMMA SameWritten == \A item : C!Written(item) = CP!Written(item)
<1>1. C!Raises = CP!Raises /\ \A x : C!Quiet(x) = CP!Quiet(x)
  BY DEF C!Quiet, CP!Quiet, C!Raises, CP!Raises
<1>2. \A x, y : C!Then(x, y) = CP!Then(x, y)
  BY Zenon DEF C!Then, CP!Then
<1>3. \A n : C!BinaryLength(n) = CP!BinaryLength(n)
  BY Zenon DEF C!BinaryLength, CP!BinaryLength
<1>4. \A n, w : C!Uint(n, w) = CP!Uint(n, w)
  BY <1>1, <1>3, Zenon DEF C!Uint, CP!Uint
<1>5. \A n, w : C!Int_(n, w) = CP!Int_(n, w)
  BY <1>1, <1>2, <1>4, Zenon DEF C!Int_, CP!Int_
<1>6. \A x : C!Bytes(x) = CP!Bytes(x)
  BY <1>1, Zenon DEF C!Bytes, CP!Bytes
<1>7. \A n : C!Grams(n) = CP!Grams(n)
  BY <1>2, <1>3, <1>4, Zenon DEF C!Grams, CP!Grams
<1>8. \A x : C!AddressBits(x) = CP!AddressBits(x)
  BY <1>2, <1>4, <1>5, <1>6, Zenon DEF C!AddressBits, CP!AddressBits, C!None, CP!None
<1>9. \A c : C!MaybeCell(c) = CP!MaybeCell(c)
  BY Zenon DEF C!MaybeCell, CP!MaybeCell, C!IsTrue, CP!IsTrue, C!Builders, CP!Builders
<1> QED
  BY <1>1, <1>2, <1>4, <1>5, <1>6, <1>7, <1>8, <1>9, Zenon DEF C!Written, CP!Written

LEMMA SameAdded ==
    /\ C!Builders = CP!Builders
    /\ \A item : /\ C!NewRefs(item) = CP!NewRefs(item) /\ C!Items(item) = CP!Items(item)
                 /\ C!Cells(item) = CP!Cells(item)
    /\ \A b : C!Content(b) = CP!Content(b)
BY DEF C!NewRefs, CP!NewRefs, C!Items, CP!Items, C!Cells, CP!Cells, C!Content, CP!Content,
   C!MaybeCell, CP!MaybeCell, C!IsTrue, CP!IsTrue, C!Builders, CP!Builders,
   C!AsHeld, CP!AsHeld, C!NoCell, CP!NoCell

LEMMA SameNumber == \A s : C!Number(s) = CP!Number(s)
BY DEF C!Number, CP!Number

LEMMA SameReading == \A item, s, next : C!Reading(item, s, next) = CP!Reading(item, s, next)
BY SameNumber DEF C!Reading, CP!Reading, C!ReadInt, CP!ReadInt, C!ReadBytes, CP!ReadBytes,
   C!ReadAddress, CP!ReadAddress, C!ReadCoins, CP!ReadCoins, C!From, CP!From, C!None, CP!None

LEMMA SameSteps ==
    /\ C!Init => CP!Init
    /\ C!Next => CP!Next
    /\ UNCHANGED dataVars => UNCHANGED CP!cellVars
<1>1. C!Init => CP!Init
  BY DEF C!Init, CP!Init, C!Builders, CP!Builders, C!None, CP!None
<1>2. \A b, item : C!Store(b, item) => CP!Store(b, item)
  <2> SUFFICES ASSUME NEW b, NEW item PROVE C!Store(b, item) => CP!Store(b, item)
    OBVIOUS
  <2>1. PICK written, new, those, below :
          /\ written = C!Written(item) /\ written = CP!Written(item)
          /\ new = C!NewRefs(item) /\ new = CP!NewRefs(item)
          /\ those = C!Items(item) /\ those = CP!Items(item)
          /\ below = C!Cells(item) /\ below = CP!Cells(item)
    BY SameWritten, SameAdded
  <2> QED
    BY <2>1, SameAdded, Zenon DEF C!Store, CP!Store, C!sliceVars, CP!sliceVars
<1>3. \A b : C!EndCell(b) => CP!EndCell(b)
  BY SameAdded DEF C!EndCell, CP!EndCell, C!sliceVars, CP!sliceVars
<1>4. \A b : C!BeginParse(b) => CP!BeginParse(b)
  BY DEF C!BeginParse, CP!BeginParse, C!builderVars, CP!builderVars, C!None, CP!None
<1>5. (C!Read => CP!Read) /\ (C!Preload => CP!Preload)
  <2>1. PICK read : /\ read = C!Reading(Head(due), slice.bits, C!NextRef)
                    /\ read = CP!Reading(Head(due), slice.bits, CP!NextRef)
    BY SameReading DEF C!NextRef, CP!NextRef
  <2>2. C!Read => CP!Read
    BY <2>1, Zenon DEF C!Read, CP!Read, C!builderVars, CP!builderVars, C!None, CP!None, C!From, CP!From
  <2>3. C!Preload => CP!Preload
    BY <2>1, Zenon DEF C!Preload, CP!Preload, C!builderVars, CP!builderVars, C!None, CP!None
  <2> QED
    BY <2>2, <2>3
<1>6. C!EndParse => CP!EndParse
  BY DEF C!EndParse, CP!EndParse, C!builderVars, CP!builderVars, C!None, CP!None
<1>7. C!Next => CP!Next
  BY <1>2, <1>3, <1>4, <1>5, <1>6, SameAdded DEF C!Next, CP!Next
<1>8. UNCHANGED dataVars => UNCHANGED CP!cellVars
  BY DEF dataVars, CP!cellVars, CP!builderVars, CP!sliceVars
<1> QED
  BY <1>1, <1>7, <1>8

LEMMA DataSteps ==
    /\ CellsInit => CP!Init
    /\ [CellsNext]_allVars => [CP!Next]_CP!cellVars
BY SameSteps DEF CellsInit, CellsNext, allVars

\* A cell that was taken changes only by what is stored in its own builder, or in
\* that of a cell one of its items refers to (_builder.py).
THEOREM TakenStay == CellsSpec => []TakenCellsStay
  <1>1. CellsInit => CP!IInv
    BY DataSteps, CP!InitIInv
  <1>2. CP!IInv /\ [CellsNext]_allVars => CP!IInv'
    BY DataSteps, ItemsAssumption, CP!NextIInv
  <1>3. CP!IInv => TakenCellsStay
    BY CP!TakenFollow, SameAdded DEF TakenCellsStay, C!TakenCellsStay, CP!TakenCellsStay
  <1> QED
    BY <1>1, <1>2, <1>3, PTL DEF CellsSpec

\* What a builder stores is what a slice reads: each read gives the value of the
\* item it goes with, and end_parse tells whether all has been read
\* (_bit_string.py, _builder.py, _slice.py).
THEOREM StoredRead == CellsSpec => []StoredIsRead
  <1> DEFINE Inv == CP!IInv /\ CP!ReadInv
  <1>1. CellsInit => Inv
    BY DataSteps, StoredItems, CP!InitIInv, CP!InitReadInv
  <1>2. Inv /\ [CellsNext]_allVars => Inv'
    BY DataSteps, ItemsAssumption, StoredItems, CP!NextIInv, CP!NextReadInv
  <1>3. Inv => StoredIsRead
    <2>1. CP!ReadBack => StoredIsRead
      BY DEF StoredIsRead, C!ReadBack, CP!ReadBack, C!TypeOK, CP!TypeOK, C!IsHeld, CP!IsHeld,
         C!Builders, CP!Builders, C!None, CP!None
    <2> QED
      BY <2>1, CP!ReadFollows
  <1> QED
    BY <1>1, <1>2, <1>3, PTL DEF CellsSpec

-----------------------------------------------------------------------------
(***************************************************************************)
(* The bag of cells: what is written and what the bytes say.               *)
(***************************************************************************)
Byte == 0 .. 255

\* Joined is the last of the sequences that its function makes.
LEMMA JoinedIs ==
    ASSUME NEW ss, Len(ss) \in Nat
    PROVE  \E f : IsJoined(f, ss, Len(ss)) /\ Joined(ss) = f[Len(ss)]
<1> DEFINE w == Len(ss)
           Is(f) == f = [i \in 0 .. w |-> IF i = 0 THEN << >> ELSE f[i - 1] \o ss[i]]
           f == CHOOSE f : Is(f)
<1>1. w \in Nat /\ Joined(ss) = f[w]
  BY DEF Joined
<1>2. IsJoined(f, ss, w)
  <2>1. \E h : Is(h)
    <3>1. \E h : IsJoined(h, ss, w)
      <4> HIDE DEF w
      <4> QED
        BY <1>1, JoinedThere
    <3> QED
      BY <3>1 DEF IsJoined, Both
  <2> HIDE DEF Is
  <2>2. Is(f)
    BY <2>1
  <2> QED
    BY <2>2 DEF Is, IsJoined, Both
<1> HIDE DEF f
<1> QED
  BY <1>1, <1>2

\* Bytes one by one are the sequence itself.
LEMMA Singles ==
    ASSUME NEW S, NEW s \in Seq(S)
    PROVE  Joined([i \in DOMAIN s |-> <<s[i]>>]) = s
<1> DEFINE ss == [i \in DOMAIN s |-> <<s[i]>>]
           w == Len(s)
<1>1. w \in Nat /\ DOMAIN s = 1 .. w /\ \A i \in 1 .. w : s[i] \in S
  OBVIOUS
<1>2. Len(ss) = w /\ \A i \in 1 .. w : ss[i] = <<s[i]>>
  BY <1>1
<1>3. \A i \in 1 .. w : /\ ss[i] \in Seq(S) /\ Len(ss[i]) = 1 /\ ss[i][1] = s[i]
  BY <1>1, <1>2
<1>11. \A i \in 1 .. w : ss[i] \in Seq(S)
  BY <1>3
<1> HIDE DEF ss, w
<1>4. PICK f : IsJoined(f, ss, w) /\ Joined(ss) = f[w]
  BY <1>1, <1>2, JoinedIs
<1>5. Grows(f, ss, w, S)
  BY <1>1, <1>11, <1>4, JoinedSteps
<1>6. /\ f[0] = << >>
      /\ \A i \in 0 .. w : f[i] \in Seq(S) /\ Len(f[i]) \in Nat
      /\ \A i \in 1 .. w : Len(f[i]) = Len(f[i - 1]) + 1
  BY <1>3, <1>5 DEF Grows
<1>7. \A i \in 0 .. w : Len(f[i]) = i
  <2> DEFINE T == {i \in 0 .. w : Len(f[i]) # i}
  <2> SUFFICES ASSUME T # {} PROVE FALSE
    OBVIOUS
  <2>1. T \in SUBSET Nat
    OBVIOUS
  <2>2. PICK i \in T : \A m \in T : i <= m
    BY <2>1, Least, Zenon
  <2>3. Len(f[0]) = 0
    BY <1>6
  <2>6. i # 0 /\ i \in 0 .. w
    BY <2>2, <2>3
  <2>4. i \in 1 .. w /\ i - 1 \in 0 .. w /\ i - 1 \notin T
    BY <1>1, <2>2, <2>6
  <2>5. Len(f[i - 1]) = i - 1 /\ Len(f[i]) = Len(f[i - 1]) + 1
    BY <1>6, <2>4
  <2> QED
    BY <2>2, <2>4, <2>5
<1>8. ASSUME NEW i \in 1 .. w PROVE f[w][i] = s[i]
  <2>1. /\ Len(f[i - 1]) + Len(ss[i]) <= Len(f[w])
        /\ \A j \in 1 .. Len(ss[i]) : f[w][Len(f[i - 1]) + j] = ss[i][j]
    <3>1. IsBehind(f, ss, w, i)
      BY <1>1, <1>11, <1>4, JoinedHolds
    <3> QED
      BY <3>1 DEF IsBehind
  <2>4. i - 1 \in 0 .. w /\ (i - 1) + 1 = i
    BY <1>1
  <2>2. i - 1 \in 0 .. w /\ Len(f[i - 1]) = i - 1 /\ (i - 1) + 1 = i
    BY <1>7, <2>4
  <2>3. 1 \in 1 .. Len(ss[i])
    BY <1>3
  <2> QED
    BY <1>3, <2>1, <2>2, <2>3
<1>9. f[w] \in Seq(S) /\ Len(f[w]) = w
  BY <1>1, <1>6, <1>7
<1>10. f[w] = s
  BY <1>8, <1>9 DEF w
<1> QED
  BY <1>4, <1>10 DEF ss

\* A number of one byte is that byte, and every number is one.
LEMMA OneByte ==
    ASSUME NEW b \in Nat
    PROVE  BigInt(<<b>>) = b
<1> DEFINE s == <<b>>
           w == Len(s)
           Is(f) == f = [i \in 0 .. w |-> IF i = 0 THEN 0 ELSE ByteValues * f[i - 1] + s[i]]
           f == CHOOSE f : Is(f)
<1>1. w = 1 /\ s[1] = b
  OBVIOUS
<1>2. BigInt(s) = f[w]
  BY DEF BigInt
<1> HIDE DEF s
<1>3. IsValue(f, ByteValues, s, 1)
  <2>1. \E h : IsValue(h, ByteValues, s, 1)
    BY ValueThere
  <2>2. \E h : Is(h)
    BY <1>1, <2>1 DEF IsValue
  <2> HIDE DEF Is
  <2>3. Is(f)
    BY <2>2
  <2> QED
    BY <1>1, <2>3 DEF Is, IsValue
<1> HIDE DEF f
<1>4. f[0] = 0 /\ f[1] = ByteValues * f[0] + b
  BY <1>1, <1>3 DEF IsValue
<1>5. f[1] = b
  BY <1>4, ByteValuesAssumption
<1> QED
  BY <1>1, <1>2, <1>5 DEF s

LEMMA BytesCount ==
    ASSUME NEW s \in Seq(Nat)
    PROVE  BigInt(s) \in Nat
<1> DEFINE w == Len(s)
           Is(f) == f = [i \in 0 .. w |-> IF i = 0 THEN 0 ELSE ByteValues * f[i - 1] + s[i]]
           f == CHOOSE f : Is(f)
<1>1. w \in Nat /\ \A i \in 1 .. w : s[i] \in Nat
  OBVIOUS
<1>2. BigInt(s) = f[w]
  BY DEF BigInt
<1>3. IsValue(f, ByteValues, s, w)
  <2>1. \E h : IsValue(h, ByteValues, s, w)
    <3> HIDE DEF w
    <3> QED
      BY <1>1, ValueThere
  <2>2. \E h : Is(h)
    BY <2>1 DEF IsValue
  <2> HIDE DEF Is
  <2>3. Is(f)
    BY <2>2
  <2> QED
    BY <2>3 DEF Is, IsValue
<1> HIDE DEF f, w
<1>4. \A i \in 0 .. w : f[i] \in Nat
  BY <1>1, <1>3, ValueSteps, ByteValuesAssumption
<1> QED
  BY <1>1, <1>2, <1>4

LEMMA SmallPowers ==
    /\ 2 ^ 0 = 1 /\ 2 ^ 1 = 2 /\ 2 ^ 2 = 4 /\ 2 ^ 3 = 8 /\ 2 ^ 4 = 16
    /\ 2 ^ 5 = 32 /\ 2 ^ 6 = 64 /\ 2 ^ 7 = 128 /\ 2 ^ 8 = 256
<1>1. /\ Power(0) = 1 /\ Power(1) = 2 /\ Power(2) = 4 /\ Power(3) = 8 /\ Power(4) = 16
      /\ Power(5) = 32 /\ Power(6) = 64 /\ Power(7) = 128 /\ Power(8) = 256
  <2>1. Power(0) = 1 /\ \A n \in Nat : Power(n + 1) = 2 * Power(n)
    BY Powers
  <2>2. /\ Power(0 + 1) = 2 * Power(0) /\ Power(1 + 1) = 2 * Power(1)
        /\ Power(2 + 1) = 2 * Power(2) /\ Power(3 + 1) = 2 * Power(3)
        /\ Power(4 + 1) = 2 * Power(4) /\ Power(5 + 1) = 2 * Power(5)
        /\ Power(6 + 1) = 2 * Power(6) /\ Power(7 + 1) = 2 * Power(7)
    BY <2>1
  <2> QED
    BY <2>1, <2>2
<1> QED
  BY <1>1 DEF Power

\* The place of a number's lowest one.
Ones(d) == {y \in 0 .. 7 : (d \div 2 ^ y) % 2 = 1}
LowestOne(d, m) == m \in Ones(d) /\ \A y \in Ones(d) : m <= y

LEMMA TagIsLowest ==
    ASSUME NEW q \in Nat, NEW m \in 0 .. 6
    PROVE  LowestOne(q * 2 ^ (m + 1) + 2 ^ m, m)
<1>1. SUFFICES LowestOne(q * Power(m + 1) + Power(m), m)
  BY DEF Power
<1> DEFINE d == q * Power(m + 1) + Power(m)
<1>2. /\ Power(m) \in Nat \ {0} /\ Power(m + 1) = 2 * Power(m)
  <2>1. Power(m) \in Nat /\ Power(m) >= m + 1 /\ Power(m + 1) = 2 * Power(m)
    BY Powers
  <2> QED
    BY <2>1
<1>3. m \in 0 .. 7 /\ (d \div 2 ^ m) % 2 = 1
  <2> DEFINE p == Power(m)
  <2>1. p \in Nat \ {0} /\ d = q * (2 * p) + p
    BY <1>2
  <2> HIDE DEF p, d
  <2>2. d = p * (2 * q + 1) /\ d \in Nat
    BY <2>1
  <2>3. d \div p = 2 * q + 1
    <3> DEFINE k == 2 * q + 1
    <3>1. k \in Nat /\ d = p * k
      BY <2>2
    <3> HIDE DEF k
    <3>2. p * k <= d /\ d < p * k + p
      BY <2>1, <2>2, <3>1
    <3>3. k = d \div p
      BY <2>1, <2>2, <3>1, <3>2, Quotient
    <3> QED
      BY <3>3 DEF k
  <2>4. (2 * q + 1) % 2 = 1
    OBVIOUS
  <2> QED
    BY <2>3, <2>4 DEF p, Power
<1>4. ASSUME NEW y \in 0 .. 7, y < m PROVE (d \div 2 ^ y) % 2 = 0
  <2> DEFINE p == Power(y)
             e == Power(m - 1 - y)
  <2>1. p \in Nat \ {0} /\ e \in Nat
    <3>1. /\ Power(y) \in Nat /\ Power(y) >= y + 1
      BY Powers
    <3>2. m - 1 - y \in Nat
      BY <1>4
    <3>3. e \in Nat
      BY <3>2, Powers
    <3> QED
      BY <3>1, <3>3
  <2>2. Power(m) = 2 * (e * p)
    <3>1. m - 1 \in Nat /\ (m - 1) + 1 = m /\ m - 1 - y \in Nat /\ (m - 1 - y) + y = m - 1
      BY <1>4
    <3>2. Power(m - 1) = e * p
      BY <3>1, PowerSum
    <3>3. Power(m) = 2 * Power(m - 1)
      BY <3>1, Powers
    <3> QED
      BY <3>2, <3>3
  <2>3. d = q * (2 * Power(m)) + Power(m)
    BY <1>2
  <2> HIDE DEF p, e, d
  <2> DEFINE k == 2 * q * e + e
             h == e * p
             g == 2 * k
  <2>4. h \in Nat /\ d = q * (2 * (2 * h)) + 2 * h
    BY <2>1, <2>2, <2>3
  <2>5. k \in Nat /\ 2 * (k * p) = 2 * (2 * q * h + h)
    <3>1. k \in Nat
      BY <2>1
    <3>2. (2 * q * e) * p = 2 * q * (e * p)
      BY <2>1
    <3>3. k * p = 2 * q * h + h
      BY <2>1, <3>2
    <3> QED
      BY <3>1, <3>3
  <2>6. d = 2 * (k * p)
    <3> HIDE DEF h, k
    <3> QED
      BY <2>4, <2>5
  <2>7. g \in Nat /\ d = p * g /\ d \in Nat /\ g % 2 = 0
    <3> HIDE DEF k
    <3> QED
      BY <2>1, <2>5, <2>6
  <2> HIDE DEF g
  <2>8. p * g <= d /\ d < p * g + p
    BY <2>1, <2>7
  <2>9. g = d \div p
    BY <2>1, <2>7, <2>8, Quotient
  <2> QED
    BY <2>7, <2>9 DEF p, Power
<1>5. ASSUME NEW y \in 0 .. 7, y < m PROVE (d \div 2 ^ y) % 2 # 1
  <2> DEFINE x == (d \div 2 ^ y) % 2
  <2>1. x = 0
    BY <1>4, <1>5
  <2> HIDE DEF x
  <2>2. x # 1
    BY <2>1
  <2> QED
    BY <2>2 DEF x
<1>6. \A y \in Ones(d) : ~(y < m)
  BY <1>5 DEF Ones
<1>7. \A y \in Ones(d) : m <= y
  <2> HIDE DEF d
  <2>1. Ones(d) \subseteq 0 .. 7
    BY DEF Ones
  <2> QED
    BY <1>6, <2>1
<1>8. m \in Ones(d)
  BY <1>3 DEF Ones
<1> QED
  BY <1>7, <1>8 DEF LowestOne

\* A cell's bits fill one byte with their tag, if they need one.
LEMMA ByteOfData ==
    ASSUME NEW c \in Cells, bits[c] \in 1 .. 8
    PROVE  /\ DataByte(c) \in 0 .. 255
           /\ BitsDescriptor(bits[c]) \in 1 .. 2
           /\ UntaggedSize(BitsDescriptor(bits[c]), <<DataByte(c)>>) = bits[c]
<1> DEFINE b == bits[c]
           d == DataByte(c)
<1>1. c \in Nat
  BY NAssumption DEF Cells
<1>2. CASE b = 8
  <2>1. BitsDescriptor(b) = 2
    <3>1. (8 + 7) \div 8 = 1 /\ 8 \div 8 = 1
      OBVIOUS
    <3> QED
      BY <1>2, <3>1 DEF BitsDescriptor
  <2>2. d = (16 * c + 1) % 256
    BY <1>2 DEF DataByte
  <2>3. d \in 0 .. 255
    BY <1>1, <2>2
  <2>4. UntaggedSize(2, <<d>>) = 8
    <3>1. 2 % 2 = 0 /\ 2 * 4 = 8
      OBVIOUS
    <3> QED
      BY <3>1 DEF UntaggedSize
  <2> QED
    BY <1>2, <2>1, <2>3, <2>4
<1>3. CASE b # 8
  <2> DEFINE m == 7 - b
             q == c % 2 ^ b
  <2>1. b \in 1 .. 7 /\ m \in 0 .. 6 /\ m + 1 = 8 - b
    BY <1>3
  <2>2. BitsDescriptor(b) = 1
    <3>1. (b + 7) \div 8 = 1 /\ b \div 8 = 0
      BY <2>1
    <3> QED
      BY <3>1 DEF BitsDescriptor
  <2>3. d = q * 2 ^ (m + 1) + 2 ^ m
    BY <1>3, <2>1 DEF DataByte
  <2>4. q \in Nat /\ d \in 0 .. 255
    <3> HIDE DEF b
    <3>1. CASE b = 1
      <4>1. 2 ^ b = 2 /\ 2 ^ (m + 1) = 128 /\ 2 ^ m = 64
        BY <3>1, SmallPowers
      <4> QED
        BY <1>1, <2>3, <4>1
    <3>2. CASE b = 2
      <4>1. 2 ^ b = 4 /\ 2 ^ (m + 1) = 64 /\ 2 ^ m = 32
        BY <3>2, SmallPowers
      <4> QED
        BY <1>1, <2>3, <4>1
    <3>3. CASE b = 3
      <4>1. 2 ^ b = 8 /\ 2 ^ (m + 1) = 32 /\ 2 ^ m = 16
        BY <3>3, SmallPowers
      <4> QED
        BY <1>1, <2>3, <4>1
    <3>4. CASE b = 4
      <4>1. 2 ^ b = 16 /\ 2 ^ (m + 1) = 16 /\ 2 ^ m = 8
        BY <3>4, SmallPowers
      <4> QED
        BY <1>1, <2>3, <4>1
    <3>5. CASE b = 5
      <4>1. 2 ^ b = 32 /\ 2 ^ (m + 1) = 8 /\ 2 ^ m = 4
        BY <3>5, SmallPowers
      <4> QED
        BY <1>1, <2>3, <4>1
    <3>6. CASE b = 6
      <4>1. 2 ^ b = 64 /\ 2 ^ (m + 1) = 4 /\ 2 ^ m = 2
        BY <3>6, SmallPowers
      <4> QED
        BY <1>1, <2>3, <4>1
    <3>7. CASE b = 7
      <4>1. 2 ^ b = 128 /\ 2 ^ (m + 1) = 2 /\ 2 ^ m = 1
        BY <3>7, SmallPowers
      <4> QED
        BY <1>1, <2>3, <4>1
    <3> QED
      BY <2>1, <3>1, <3>2, <3>3, <3>4, <3>5, <3>6, <3>7
  <2>5. LowestOne(d, m)
    <3> HIDE DEF m, q, d
    <3> QED
      BY <2>1, <2>3, <2>4, TagIsLowest
  <2>6. UntaggedSize(1, <<d>>) = b
    <3> HIDE DEF d
    <3> DEFINE ones == {y \in 0 .. 7 : (<<d>>[Len(<<d>>)] \div 2 ^ y) % 2 = 1}
               low == CHOOSE y \in ones : \A z \in ones : y <= z
    <3>1. ones = Ones(d)
      BY DEF Ones
    <3>2. UntaggedSize(1, <<d>>) = IF ones = {} THEN 4 ELSE 4 + 3 - low
      BY DEF UntaggedSize
    <3> HIDE DEF ones
    <3>3. m \in ones /\ \A z \in ones : m <= z
      BY <2>5, <3>1 DEF LowestOne
    <3>4. low \in ones /\ \A z \in ones : low <= z
      BY <3>3
    <3>5. low \in 0 .. 7 /\ low <= m /\ m <= low
      BY <3>1, <3>3, <3>4 DEF Ones
    <3>6. UntaggedSize(1, <<d>>) = 4 + 3 - low
      BY <3>2, <3>3
    <3> HIDE DEF low, b
    <3>7. 4 + 3 - low = b
      BY <2>1, <3>5
    <3> QED
      BY <3>6, <3>7
  <2> QED
    BY <2>2, <2>4, <2>6
<1> QED
  BY <1>2, <1>3

-----------------------------------------------------------------------------
(***************************************************************************)
(* The invariant of a bag of cells.                                        *)
(***************************************************************************)

\* What to_boc writes of each cell, in order, before it is joined.
WrittenBag == [k \in DOMAIN order |-> SerializeForBoc(order[k])]

\* What parse_cells makes of the bytes of a cell.
CellRead(c) ==
    [exotic |-> FALSE, array |-> <<DataByte(c)>>, cursor |-> 8, length |-> bits[c],
     refs |-> [j \in 1 .. Len(refs[c]) |-> index[refs[c][1]]]]

\* The bags whose references are written as they are read and whose index does
\* not lead parse_cells astray.
Good ==
    /\ OneByteRefs
    /\ \/ ~hasIdx /\ ~hasCacheBits
       \/ hasIdx /\ CellsNum <= (IF hasCacheBits THEN 1 ELSE 2)

FewRefs == \A c \in Cells : Len(refs[c]) <= MaxRefs

NothingWritten ==
    phase = "walk" => /\ boc = [index |-> << >>, data |-> << >>]
                      /\ offset = 0 /\ cells = << >>

\* f[k] is what the first k cells take up.
Laid(f) ==
    /\ IsJoined(f, WrittenBag, CellsNum)
    /\ boc.data = f[CellsNum]
    /\ Good => offset = Len(f[Len(cells)])

Indexed ==
    boc.index = IF hasIdx THEN [k \in DOMAIN order |-> Len(WrittenBag[k])] ELSE << >>

AllWritten == phase # "walk" => Walked /\ Indexed /\ \E f : Laid(f)

ReadSoFar ==
    /\ \E T : cells \in Seq(T)
    /\ Len(cells) <= CellsNum
    /\ phase = "done" => Len(cells) = CellsNum
    /\ Good => phase # "failed" /\ \A k \in DOMAIN cells : cells[k] = CellRead(order[k])

BagInv == IInv /\ FewRefs /\ BocTypes /\ NothingWritten /\ AllWritten /\ ReadSoFar

\* No more cells are written than there are, so a reference takes two bytes at most.
LEMMA FewCells ==
    ASSUME IInv
    PROVE  /\ CellsNum \in 1 .. N /\ RefSize \in 1 .. 2
           /\ OneByteRefs => CellsNum < ByteValues /\ RefSize = 1
<1> DEFINE L == Len(order)
<1>1. /\ L \in Nat /\ order \in Seq(Cells) /\ order # << >> /\ DOMAIN order = 1 .. L
      /\ \A i \in 1 .. L : order[i] \in Cells /\ index[order[i]] = i - 1
  <2>1. order \in Seq(Cells) /\ order # << >>
    BY DEF IInv, TypeOK, RootFirst
  <2>2. L \in Nat /\ DOMAIN order = 1 .. L
    BY <2>1
  <2>3. \A i \in 1 .. L : order[i] \in Cells
    BY <2>1
  <2>4. \A i \in 1 .. L : index[order[i]] = i - 1
    BY <2>2 DEF IInv, IndexMatchesOrder
  <2> QED
    BY <2>1, <2>2, <2>3, <2>4
<1>2. L # 0
  BY <1>1, EmptySeq
<1>3. \A i, j \in 1 .. L : order[i] = order[j] => i = j
  BY <1>1
<1>4. order \in Injection(1 .. L, Cells)
  <2>1. order \in [1 .. L -> Cells]
    BY <1>1
  <2> HIDE DEF L
  <2> QED
    BY <1>3, <2>1 DEF Injection, IsInjective
<1>5. IsFiniteSet(1 .. N) /\ Cardinality(1 .. N) = N /\ Cardinality(1 .. L) = L
  <2>1. 1 \in Int /\ N \in Int /\ L \in Int
    BY <1>1, NAssumption
  <2>2. /\ IsFiniteSet(1 .. N)
        /\ Cardinality(1 .. N) = IF 1 > N THEN 0 ELSE N - 1 + 1
        /\ Cardinality(1 .. L) = IF 1 > L THEN 0 ELSE L - 1 + 1
    BY <2>1, FS_Interval
  <2> QED
    BY <2>2, <1>1, <1>2, NAssumption
<1>6. L <= N
  <2>1. Cardinality(1 .. L) <= Cardinality(1 .. N)
    BY <1>4, <1>5, FS_Injection DEF Cells
  <2> QED
    BY <1>5, <2>1
<1>7. L \in 1 .. N
  BY <1>1, <1>2, <1>6, NAssumption
<1> HIDE DEF L
<1>8. CellsNum = L
  BY DEF CellsNum, L
<1> QED
  BY <1>7, <1>8 DEF RefSize, Width, OneByteRefs

\* What v is made of.
MadeOf(s, t, v, S) ==
    /\ v \in Seq(S) /\ Len(v) = Len(s) + Len(t)
    /\ \A i \in 1 .. Len(s) : v[i] = s[i]
    /\ \A i \in 1 .. Len(t) : v[Len(s) + i] = t[i]

LEMMA Behind ==
    ASSUME NEW S, NEW s \in Seq(S), NEW t \in Seq(S)
    PROVE  MadeOf(s, t, s \o t, S)
BY DEF MadeOf

\* The bytes of one cell.
IsSerialized(s, c) ==
    /\ s \in Seq(Byte) /\ Len(s) = 3 + Len(refs[c])
    /\ s[1] = Len(refs[c]) /\ s[2] = BitsDescriptor(bits[c]) /\ s[3] = DataByte(c)
    /\ \A j \in 1 .. Len(refs[c]) : s[3 + j] = index[refs[c][j]]

LEMMA SerializedCell ==
    ASSUME NEW c \in Cells, refs[c] \in Seq(Cells), Len(refs[c]) <= MaxRefs,
           bits[c] \in 1 .. 8,
           \A j \in 1 .. Len(refs[c]) : index[refs[c][j]] \in 0 .. ByteValues - 1
    PROVE  IsSerialized(SerializeForBoc(c), c)
<1> DEFINE r == refs[c]
           w == Len(r)
           ids == [j \in 1 .. w |-> index[r[j]]]
           head == <<w, BitsDescriptor(bits[c]), DataByte(c)>>
<1>1. w \in 0 .. 4 /\ DOMAIN r = 1 .. w
  <2>1. r \in Seq(Cells) /\ w <= MaxRefs
    OBVIOUS
  <2>2. w \in Nat /\ DOMAIN r = 1 .. w
    BY <2>1
  <2> HIDE DEF w
  <2>3. w \in 0 .. 4
    BY <2>1, <2>2, FourRefsAssumption, MaxRefsAssumption
  <2> QED
    BY <2>2, <2>3
<1>2. ids \in Seq(Byte) /\ Len(ids) = w /\ \A j \in 1 .. w : ids[j] = index[r[j]]
  <2>1. \A n \in 0 .. ByteValues - 1 : n \in Byte
    BY ByteValuesAssumption DEF Byte
  <2>2. \A j \in 1 .. w : index[r[j]] \in Byte
    BY <2>1
  <2> QED
    BY <1>1, <2>2
<1>3. \A n \in 0 .. 255 : n \in Byte
  BY DEF Byte
<1>4. ASSUME NEW j \in 1 .. w PROVE ToBytes(index[r[j]]) = <<ids[j]>>
  <2>1. index[r[j]] \in 0 .. ByteValues - 1 /\ ids[j] = index[r[j]]
    BY <1>2
  <2> DEFINE n == index[r[j]]
  <2> HIDE DEF n, ids
  <2>2. n < ByteValues
    <3>1. n \in 0 .. ByteValues - 1
      BY <2>1 DEF n
    <3> QED
      BY <3>1, ByteValuesAssumption
  <2>3. ToBytes(n) = <<n>>
    BY <2>2 DEF ToBytes
  <2> QED
    BY <2>1, <2>3 DEF n
<1>5. [j \in DOMAIN r |-> ToBytes(index[r[j]])] = [j \in DOMAIN ids |-> <<ids[j]>>]
  <2>1. DOMAIN ids = 1 .. w
    OBVIOUS
  <2> HIDE DEF ids
  <2> QED
    BY <1>1, <1>4, <2>1
<1> HIDE DEF ids
<1>6. Joined([j \in DOMAIN r |-> ToBytes(index[r[j]])]) = ids
  BY <1>2, <1>5, Singles
<1>7. SerializeForBoc(c) = head \o ids
  BY <1>6, Zenon DEF SerializeForBoc, r
<1>8. /\ DataByte(c) \in Byte /\ BitsDescriptor(bits[c]) \in Byte /\ w \in Byte
  <2>1. DataByte(c) \in 0 .. 255 /\ BitsDescriptor(bits[c]) \in 1 .. 2
    BY ByteOfData
  <2>2. \A x \in 1 .. 2 : x \in 0 .. 255
    OBVIOUS
  <2>3. w \in 0 .. 255
    BY <1>1
  <2> QED
    BY <1>3, <2>1, <2>2, <2>3
<1>9. /\ head \in Seq(Byte) /\ Len(head) = 3
      /\ head[1] = w /\ head[2] = BitsDescriptor(bits[c]) /\ head[3] = DataByte(c)
  BY <1>8
<1>10. ids \in Seq(Byte)
  BY <1>2
<1> DEFINE s == head \o ids
<1> HIDE DEF head
<1>11. /\ s \in Seq(Byte) /\ Len(s) = 3 + w
       /\ s[1] = head[1] /\ s[2] = head[2] /\ s[3] = head[3]
       /\ \A j \in 1 .. w : s[3 + j] = ids[j]
  <2>1. head \in Seq(Byte) /\ ids \in Seq(Byte)
    BY <1>9, <1>10
  <2>2. MadeOf(head, ids, s, Byte)
    BY <2>1, Behind
  <2> HIDE DEF s, w
  <2>3. Len(head) = 3 /\ Len(ids) = w
    BY <1>2, <1>9
  <2>4. /\ s \in Seq(Byte) /\ Len(s) = 3 + w
        /\ \A j \in 1 .. 3 : s[j] = head[j]
        /\ \A j \in 1 .. w : s[3 + j] = ids[j]
    BY <2>2, <2>3 DEF MadeOf
  <2> QED
    BY <2>4
<1> HIDE DEF s
<1>12. SerializeForBoc(c) = s
  BY <1>7 DEF s
<1> QED
  BY <1>2, <1>9, <1>11, <1>12 DEF IsSerialized

\* A number below the square of another has two digits.
LEMMA TwoDigits ==
    ASSUME NEW n \in Nat, NEW b \in Nat \ {0}, n < b * b
    PROVE  n \div b \in 0 .. b - 1 /\ n % b \in 0 .. b - 1
<1> DEFINE q == n \div b
           r == n % b
<1>1. q \in Nat /\ r \in 0 .. b - 1 /\ n = b * q + r
  OBVIOUS
<1> HIDE DEF q, r
<1>2. b * q < b * b
  BY <1>1
<1>3. q < b
  <2> SUFFICES ASSUME q >= b PROVE FALSE
    BY <1>1
  <2>1. PICK e \in Nat : q = b + e
    <3>1. q - b \in Nat /\ q = b + (q - b)
      BY <1>1
    <3> QED
      BY <3>1
  <2>2. b * q = b * b + b * e
    BY <2>1
  <2>3. b * e >= 0
    BY <2>1
  <2> QED
    BY <1>1, <1>2, <2>2, <2>3
<1> QED
  BY <1>1, <1>3 DEF q, r

\* The number of a place takes one byte or two.
LEMMA PlaceBytes ==
    ASSUME NEW n \in 0 .. N - 1
    PROVE  ToBytes(n) \in Seq(Byte) /\ Len(ToBytes(n)) \in 1 .. 2
<1>1. n \in Nat /\ n < ByteValues * ByteValues /\ ByteValues \in Nat \ {0} /\ ByteValues <= 256
  <2> DEFINE square == ByteValues * ByteValues
  <2>1. square \in Nat /\ N < square
    BY ByteValuesAssumption, TwoBytesAssumption
  <2> HIDE DEF square
  <2>2. n \in Nat /\ n < square
    BY <2>1, NAssumption
  <2> QED
    BY <2>2, ByteValuesAssumption DEF square
<1>2. \A x \in 0 .. ByteValues - 1 : x \in Byte
  BY <1>1 DEF Byte
<1>3. CASE n < ByteValues
  <2>1. n \in 0 .. ByteValues - 1
    BY <1>1, <1>3
  <2>2. n \in Byte
    BY <1>2, <2>1
  <2> QED
    BY <1>3, <2>2 DEF ToBytes
<1>4. CASE ~(n < ByteValues)
  <2> DEFINE high == n \div ByteValues
             low == n % ByteValues
  <2>1. high \in 0 .. ByteValues - 1 /\ low \in 0 .. ByteValues - 1
    BY <1>1, TwoDigits
  <2>2. ToBytes(n) = <<high, low>>
    BY <1>4 DEF ToBytes
  <2> HIDE DEF high, low
  <2>3. high \in Byte /\ low \in Byte
    BY <1>2, <2>1
  <2> QED
    BY <2>2, <2>3
<1> QED
  BY <1>3, <1>4

\* Pieces of one element or two, one behind the other.
LEMMA ShortPieces ==
    ASSUME NEW S, NEW ss, Len(ss) \in Nat,
           \A i \in 1 .. Len(ss) : ss[i] \in Seq(S) /\ Len(ss[i]) \in 1 .. 2
    PROVE  Joined(ss) \in Seq(S) /\ Len(Joined(ss)) \in 0 .. 2 * Len(ss)
<1> DEFINE w == Len(ss)
<1>1. w \in Nat /\ \A i \in 1 .. w : ss[i] \in Seq(S) /\ Len(ss[i]) \in 1 .. 2
  OBVIOUS
<1>2. PICK f : IsJoined(f, ss, w) /\ Joined(ss) = f[w]
  BY JoinedIs
<1> HIDE DEF w
<1>3. Grows(f, ss, w, S)
  <2>1. \A i \in 1 .. w : ss[i] \in Seq(S)
    BY <1>1
  <2> QED
    BY <1>1, <1>2, <2>1, JoinedSteps
<1>4. /\ Len(f[0]) = 0
      /\ \A i \in 0 .. w : f[i] \in Seq(S) /\ Len(f[i]) \in Nat
      /\ \A i \in 1 .. w : Len(f[i]) = Len(f[i - 1]) + Len(ss[i])
  BY <1>3 DEF Grows
<1>5. \A i \in 0 .. w : Len(f[i]) <= 2 * i
  <2> DEFINE T == {i \in 0 .. w : ~(Len(f[i]) <= 2 * i)}
  <2> SUFFICES ASSUME T # {} PROVE FALSE
    OBVIOUS
  <2>1. T \in SUBSET Nat
    OBVIOUS
  <2>2. PICK i \in T : \A m \in T : i <= m
    BY <2>1, Least, Zenon
  <2>3. i \in 0 .. w /\ i # 0
    BY <1>4, <2>2
  <2>4. i \in 1 .. w /\ i - 1 \in 0 .. w /\ i - 1 \notin T
    BY <1>1, <2>2, <2>3
  <2>5. Len(f[i - 1]) <= 2 * (i - 1) /\ ~(Len(f[i]) <= 2 * i)
    BY <2>2, <2>4
  <2>6. /\ Len(f[i]) = Len(f[i - 1]) + Len(ss[i]) /\ Len(ss[i]) \in 1 .. 2
        /\ Len(f[i - 1]) \in Nat /\ i \in Nat
    <3> HIDE DEF T
    <3>1. Len(ss[i]) \in 1 .. 2
      BY <1>1, <2>4
    <3>2. Len(f[i]) = Len(f[i - 1]) + Len(ss[i]) /\ Len(f[i - 1]) \in Nat
      BY <1>4, <2>4
    <3>3. i \in Nat
      BY <1>1, <2>4
    <3> QED
      BY <3>1, <3>2, <3>3
  <2> DEFINE a == Len(f[i - 1])
             b == Len(ss[i])
             d == Len(f[i])
  <2>7. d = a + b /\ b \in 1 .. 2 /\ a \in Nat /\ a <= 2 * (i - 1) /\ ~(d <= 2 * i) /\ i \in Nat
    BY <2>5, <2>6
  <2> HIDE DEF T, a, b, d
  <2> QED
    BY <2>7
<1>6. f[w] \in Seq(S) /\ Len(f[w]) \in Nat /\ Len(f[w]) <= 2 * w
  BY <1>1, <1>4, <1>5
<1> QED
  BY <1>1, <1>2, <1>6 DEF w

\* The bytes of a cell, whatever the bytes of its references.
LEMMA CellBytes ==
    ASSUME NEW c \in Cells, refs[c] \in Seq(Cells), Len(refs[c]) <= MaxRefs,
           bits[c] \in 1 .. 8,
           \A j \in 1 .. Len(refs[c]) : index[refs[c][j]] \in 0 .. N - 1
    PROVE  /\ SerializeForBoc(c) \in Seq(Byte)
           /\ Len(SerializeForBoc(c)) \in 3 .. 3 + 2 * MaxRefs
<1> DEFINE r == refs[c]
           w == Len(r)
           pieces == [j \in DOMAIN r |-> ToBytes(index[r[j]])]
           ids == Joined(pieces)
           head == <<w, BitsDescriptor(bits[c]), DataByte(c)>>
<1>1. w \in Nat /\ DOMAIN r = 1 .. w /\ w <= MaxRefs
  OBVIOUS
<1>2. Len(pieces) = w /\ \A j \in 1 .. w : pieces[j] = ToBytes(index[r[j]])
  BY <1>1
<1>3. \A j \in 1 .. w : pieces[j] \in Seq(Byte) /\ Len(pieces[j]) \in 1 .. 2
  BY <1>2, PlaceBytes
<1> HIDE DEF pieces
<1>4. ids \in Seq(Byte) /\ Len(ids) \in 0 .. 2 * w
  <2>1. /\ Len(pieces) \in Nat
        /\ \A i \in 1 .. Len(pieces) : pieces[i] \in Seq(Byte) /\ Len(pieces[i]) \in 1 .. 2
    BY <1>1, <1>2, <1>3
  <2> QED
    BY <1>2, <2>1, ShortPieces
<1>5. head \in Seq(Byte) /\ Len(head) = 3
  <2>1. DataByte(c) \in Byte /\ BitsDescriptor(bits[c]) \in 1 .. 2
    BY ByteOfData DEF Byte
  <2>2. BitsDescriptor(bits[c]) \in Byte
    <3>1. \A x \in 1 .. 2 : x \in Byte
      BY DEF Byte
    <3> QED
      BY <2>1, <3>1
  <2>3. w \in Byte
    <3> HIDE DEF w
    <3> QED
      BY <1>1, FourRefsAssumption, MaxRefsAssumption DEF Byte
  <2> QED
    BY <2>1, <2>2, <2>3
<1>6. SerializeForBoc(c) = head \o ids
  BY Zenon DEF SerializeForBoc, r, pieces
<1> HIDE DEF head, ids
<1>7. MadeOf(head, ids, head \o ids, Byte)
  BY <1>4, <1>5, Behind
<1> DEFINE n == Len(ids)
<1>8. head \o ids \in Seq(Byte) /\ Len(head \o ids) = 3 + n /\ n \in 0 .. 2 * w
  BY <1>4, <1>5, <1>7 DEF MadeOf
<1> HIDE DEF n, w
<1>9. 3 + n \in 3 .. 3 + 2 * MaxRefs
  BY <1>1, <1>8, MaxRefsAssumption
<1> QED
  BY <1>6, <1>8, <1>9

\* Once the walk is over every cell that is written has a place of its own, and
\* those it refers to have later ones.
LEMMA WrittenCells ==
    ASSUME IInv, FewRefs, Walked, bits \in [Cells -> BitLengths], NEW k \in 1 .. CellsNum
    PROVE  /\ order[k] \in Cells /\ index[order[k]] = k - 1
           /\ Len(refs[order[k]]) \in 0 .. 4 /\ bits[order[k]] \in 1 .. 8
           /\ \A j \in 1 .. Len(refs[order[k]]) :
                 index[refs[order[k]][j]] \in k .. CellsNum - 1
           /\ WrittenBag[k] = SerializeForBoc(order[k])
           /\ WrittenBag[k] \in Seq(Byte) /\ Len(WrittenBag[k]) \in 3 .. 3 + 2 * MaxRefs
           /\ OneByteRefs => IsSerialized(WrittenBag[k], order[k])
<1> DEFINE c == order[k]
<1>1. CellsNum \in 1 .. N /\ CellsNum = Len(order) /\ DOMAIN order = 1 .. CellsNum
  BY FewCells DEF CellsNum, IInv, TypeOK
<1>2. /\ c \in Cells /\ c \in DOMAIN index /\ index[c] = k - 1
      /\ refs[c] \in Seq(Cells) /\ DOMAIN refs[c] = 1 .. Len(refs[c])
  BY <1>1 DEF IInv, TypeOK, IndexMatchesOrder
<1>3. Len(refs[c]) \in 0 .. 4 /\ Len(refs[c]) <= MaxRefs
  <2> DEFINE w == Len(refs[c])
  <2>1. w \in Nat /\ w <= MaxRefs
    BY <1>2 DEF FewRefs
  <2> HIDE DEF w
  <2>2. w \in 0 .. 4
    BY <2>1, FourRefsAssumption, MaxRefsAssumption
  <2> QED
    BY <2>1, <2>2 DEF w
<1>4. bits[c] \in 1 .. 8
  BY <1>2, BitLengthsAssumption
<1>5. DOMAIN stack = {}
  BY DEF Walked
<1>6. ASSUME NEW j \in 1 .. Len(refs[c])
      PROVE  index[refs[c][j]] \in k .. CellsNum - 1
  <2>1. ~Pending(c, j)
    BY <1>5 DEF Pending
  <2>2. refs[c][j] \in DOMAIN index /\ index[c] < index[refs[c][j]]
    BY <1>2, <2>1 DEF IInv, OnlyPendingPointBack
  <2>3. index[refs[c][j]] \in 0 .. CellsNum - 1
    BY <1>1, <2>2 DEF IInv, TypeOK
  <2> QED
    BY <1>1, <1>2, <2>2, <2>3
<1>7. WrittenBag[k] = SerializeForBoc(c)
  BY <1>1 DEF WrittenBag
<1>8. /\ SerializeForBoc(c) \in Seq(Byte)
      /\ Len(SerializeForBoc(c)) \in 3 .. 3 + 2 * MaxRefs
  <2>1. \A x \in k .. CellsNum - 1 : x \in 0 .. N - 1
    BY <1>1, NAssumption
  <2>2. \A j \in 1 .. Len(refs[c]) : index[refs[c][j]] \in 0 .. N - 1
    BY <1>6, <2>1
  <2> QED
    BY <1>2, <1>3, <1>4, <2>2, CellBytes
<1>9. OneByteRefs => IsSerialized(SerializeForBoc(c), c)
  <2> SUFFICES ASSUME OneByteRefs PROVE IsSerialized(SerializeForBoc(c), c)
    OBVIOUS
  <2>1. \A x \in k .. CellsNum - 1 : x \in 0 .. ByteValues - 1
    BY <1>1, NAssumption, ByteValuesAssumption DEF OneByteRefs
  <2>2. \A j \in 1 .. Len(refs[c]) : index[refs[c][j]] \in 0 .. ByteValues - 1
    BY <1>6, <2>1
  <2> QED
    BY <1>2, <1>3, <1>4, <2>2, SerializedCell
<1> QED
  BY <1>2, <1>3, <1>4, <1>6, <1>7, <1>8, <1>9

\* The cells written one behind the other, each of at least three bytes.
LEMMA BagGrows ==
    ASSUME IInv, FewRefs, Walked, bits \in [Cells -> BitLengths],
           NEW f, IsJoined(f, WrittenBag, CellsNum)
    PROVE  /\ Grows(f, WrittenBag, CellsNum, Byte)
           /\ \A k \in 1 .. CellsNum : IsBehind(f, WrittenBag, CellsNum, k)
           /\ 3 * CellsNum <= Len(f[CellsNum])
<1>1. CellsNum \in Nat
  BY FewCells, NAssumption
<1>2. \A k \in 1 .. CellsNum : Len(WrittenBag[k]) \in 3 .. 3 + 2 * MaxRefs
  BY WrittenCells
<1>3. \A k \in 1 .. CellsNum : WrittenBag[k] \in Seq(Byte)
  BY WrittenCells
<1>4. Grows(f, WrittenBag, CellsNum, Byte)
  BY <1>1, <1>3, JoinedSteps
<1>5. \A k \in 1 .. CellsNum : IsBehind(f, WrittenBag, CellsNum, k)
  BY <1>1, <1>3, JoinedHolds
<1> DEFINE w == CellsNum
           ss == WrittenBag
<1>6. /\ f[0] = << >>
      /\ \A k \in 0 .. w : Len(f[k]) \in Nat
      /\ \A k \in 1 .. w : Len(f[k]) = Len(f[k - 1]) + Len(ss[k])
  BY <1>4 DEF Grows
<1>7. \A k \in 1 .. w : Len(ss[k]) \in Nat /\ Len(ss[k]) >= 3
  BY <1>2, MaxRefsAssumption
<1> HIDE DEF w, ss
<1>8. \A k \in 0 .. w : 3 * k <= Len(f[k])
  <2> DEFINE T == {k \in 0 .. w : ~(3 * k <= Len(f[k]))}
  <2> SUFFICES ASSUME T # {} PROVE FALSE
    OBVIOUS
  <2>1. T \in SUBSET Nat
    OBVIOUS
  <2>2. PICK k \in T : \A m \in T : k <= m
    BY <2>1, Least, Zenon
  <2>3. Len(f[0]) = 0
    BY <1>6
  <2>4. k # 0 /\ k \in 0 .. w
    BY <2>2, <2>3
  <2>5. k \in 1 .. w /\ k - 1 \in 0 .. w /\ k - 1 \notin T
    BY <1>1, <2>2, <2>4 DEF w
  <2>6. 3 * (k - 1) <= Len(f[k - 1])
    BY <2>5
  <2>7. Len(f[k]) = Len(f[k - 1]) + Len(ss[k]) /\ Len(ss[k]) >= 3
        /\ Len(f[k - 1]) \in Nat /\ Len(ss[k]) \in Nat
    BY <1>6, <1>7, <2>5
  <2>9. ~(3 * k <= Len(f[k])) /\ k \in Nat
    BY <2>2
  <2> HIDE DEF T
  <2> DEFINE a == Len(f[k - 1])
             b == Len(ss[k])
             d == Len(f[k])
  <2>8. d = a + b /\ b >= 3 /\ a \in Nat /\ b \in Nat /\ 3 * (k - 1) <= a /\ ~(3 * k <= d)
        /\ k \in Nat
    BY <2>6, <2>7, <2>9
  <2> HIDE DEF a, b, d
  <2> QED
    BY <2>8
<1>9. 3 * w <= Len(f[w])
  BY <1>1, <1>8 DEF w
<1> QED
  BY <1>4, <1>5, <1>9 DEF w

-----------------------------------------------------------------------------
(***************************************************************************)
(* The start, and the steps before the cells are read.                     *)
(***************************************************************************)
LEMMA FewTuples ==
    ASSUME refs \in [Cells -> Tuples(Cells, MaxRefs)]
    PROVE  FewRefs
<1> SUFFICES ASSUME NEW c \in Cells PROVE Len(refs[c]) <= MaxRefs
  BY DEF FewRefs
<1>1. PICK k \in 0 .. MaxRefs : refs[c] \in [1 .. k -> Cells]
  BY DEF Tuples
<1>2. k \in Nat /\ k <= MaxRefs
  BY MaxRefsAssumption
<1>3. Len(refs[c]) = k
  BY <1>1, <1>2
<1> QED
  BY <1>2, <1>3

\* As long as nothing is written there is little to tell.
LEMMA NothingYet ==
    ASSUME IInv, FewRefs, bits \in [Cells -> BitLengths],
           hasIdx \in BOOLEAN, hasCacheBits \in BOOLEAN, phase = "walk", NothingWritten
    PROVE  BagInv
<1>1. boc.index = << >> /\ boc.data = << >> /\ offset = 0 /\ cells = << >>
  BY DEF NothingWritten
<1>2. BocTypes
  <2>1. boc.index \in Seq(1 .. 3 + 2 * MaxRefs) /\ boc.data \in Seq(0 .. 255)
    BY <1>1
  <2>2. offset \in 0 .. Len(boc.data)
    BY <1>1
  <2>3. DOMAIN cells = {}
    BY <1>1
  <2> QED
    BY <2>1, <2>2, <2>3 DEF BocTypes
<1>3. AllWritten
  BY DEF AllWritten
<1>4. ReadSoFar
  <2>1. cells \in Seq({}) /\ Len(cells) = 0 /\ DOMAIN cells = {}
    BY <1>1
  <2>2. 0 <= CellsNum
    BY FewCells, NAssumption
  <2> QED
    BY <2>1, <2>2 DEF ReadSoFar
<1> QED
  BY <1>2, <1>3, <1>4 DEF BagInv

LEMMA InitBag ==
    CellsInit => BagInv
<1> SUFFICES ASSUME CellsInit PROVE BagInv
  OBVIOUS
<1>1. CASE MCInit
  <2>1. /\ Init /\ bits \in [Cells -> BitLengths] /\ hasIdx = FALSE /\ hasCacheBits = FALSE
        /\ boc = [index |-> << >>, data |-> << >>] /\ offset = 0 /\ cells = << >>
        /\ phase = "walk"
    BY <1>1 DEF MCInit, BocInit
  <2>2. IInv
    BY <2>1, InitIInv
  <2>3. FewRefs
    BY <2>1, FewTuples DEF Init
  <2>4. NothingWritten
    BY <2>1 DEF NothingWritten
  <2> QED
    BY <2>1, <2>2, <2>3, <2>4, NothingYet
<1>2. CASE SingleCell
  <2>1. /\ refs = [c \in Cells |-> << >>]
        /\ order = <<Root>> /\ index = [c \in {Root} |-> 0] /\ stack = << >>
        /\ bits = [c \in Cells |-> 8]
        /\ hasIdx = FALSE /\ hasCacheBits = FALSE
        /\ boc = [index |-> << >>, data |-> << >>] /\ offset = 0 /\ cells = << >>
        /\ phase = "walk"
    BY <1>2 DEF SingleCell
  <2>2. Root \in Cells /\ Root = 1
    BY NAssumption DEF Cells, Root
  <2>3. refs \in [Cells -> Seq(Cells)] /\ \A c \in Cells : refs[c] = << >>
    BY <2>1
  <2>4. \A c \in Cells : DOMAIN refs[c] = {} /\ Len(refs[c]) = 0
    BY <2>3
  <2>5. order \in Seq(Cells) /\ Len(order) = 1 /\ DOMAIN order = {1} /\ order[1] = Root
    BY <2>1, <2>2
  <2>6. stack \in Seq(Frames) /\ DOMAIN stack = {}
    BY <2>1
  <2>7. DOMAIN index = {Root} /\ index[Root] = 0
    BY <2>1
  <2>8. TypeOK
    <3>1. index \in [DOMAIN index -> 0 .. Len(order) - 1]
      <4>1. Len(order) - 1 = 0
        BY <2>5
      <4>2. index = [c \in {Root} |-> index[c]] /\ 0 \in 0 .. 0
        BY <2>1
      <4> QED
        BY <2>7, <4>1, <4>2
    <3> QED
      BY <2>2, <2>3, <2>4, <2>5, <2>6, <2>7, <3>1 DEF TypeOK
  <2>9. IndexMatchesOrder /\ RootFirst
    <3>1. order # << >>
      BY <2>5
    <3> QED
      BY <2>5, <2>7, <3>1 DEF IndexMatchesOrder, RootFirst
  <2>10. StackDescends /\ MovedAreKnown /\ OnlyPendingPointBack
    BY <2>2, <2>4, <2>6, <2>7 DEF StackDescends, MovedAreKnown, OnlyPendingPointBack
  <2>11. FewRefs
    BY <2>4, MaxRefsAssumption DEF FewRefs
  <2>12. bits \in [Cells -> BitLengths]
    <3>1. [c \in Cells |-> 8] \in BitPatterns
      BY DEF BitPatterns
    <3> QED
      BY <2>1, <3>1, PatternsAssumption
  <2>13. IInv
    BY <2>8, <2>9, <2>10 DEF IInv
  <2>14. NothingWritten
    BY <2>1 DEF NothingWritten
  <2> QED
    BY <2>1, <2>11, <2>12, <2>13, <2>14, NothingYet
<1> QED
  BY <1>1, <1>2 DEF CellsInit

LEMMA WalkKeepsBag ==
    ASSUME BagInv, WalkStep
    PROVE  BagInv'
<1>1. phase = "walk" /\ Walk /\ UNCHANGED bocVars
  BY DEF WalkStep
<1>2. IInv'
  BY <1>1, NextIInv DEF BagInv, Next
<1>3. refs' = refs
  BY <1>1 DEF Walk, VisitNew, VisitInPlace, Move, MoveToEnd, Return
<1>4. FewRefs'
  BY <1>3 DEF BagInv, FewRefs
<1>5. /\ phase' = "walk" /\ boc' = boc /\ offset' = offset /\ cells' = cells
      /\ bits' = bits /\ hasIdx' = hasIdx /\ hasCacheBits' = hasCacheBits
  BY <1>1 DEF bocVars
<1>6. NothingWritten'
  BY <1>1, <1>5 DEF BagInv, NothingWritten
<1>7. bits' \in [Cells -> BitLengths] /\ hasIdx' \in BOOLEAN /\ hasCacheBits' \in BOOLEAN
  BY <1>5 DEF BagInv, BocTypes
<1>8. (IInv /\ FewRefs /\ bits \in [Cells -> BitLengths] /\ hasIdx \in BOOLEAN
       /\ hasCacheBits \in BOOLEAN /\ phase = "walk" /\ NothingWritten => BagInv)'
  BY NothingYet, PTL
<1> QED
  BY <1>2, <1>4, <1>5, <1>6, <1>7, <1>8

LEMMA ToBocKeepsBag ==
    ASSUME BagInv, ToBoc
    PROVE  BagInv'
<1>1. /\ phase = "walk" /\ Walked /\ phase' = "parse"
      /\ hasIdx' \in BOOLEAN /\ hasCacheBits' \in BOOLEAN
      /\ refs' = refs /\ order' = order /\ index' = index /\ stack' = stack
      /\ bits' = bits /\ offset' = offset /\ cells' = cells
      /\ boc' = [index |-> IF hasIdx' THEN [k \in DOMAIN order |-> Len(WrittenBag[k])]
                           ELSE << >>,
                 data |-> Joined(WrittenBag)]
  BY DEF ToBoc, walkVars, WrittenBag
<1>2. IInv /\ FewRefs /\ bits \in [Cells -> BitLengths] /\ offset = 0 /\ cells = << >>
  BY <1>1 DEF BagInv, BocTypes, NothingWritten
<1>3. IInv' /\ FewRefs' /\ WrittenBag' = WrittenBag /\ CellsNum' = CellsNum /\ Walked'
  <2>1. IInv'
    BY <1>1, <1>2, NextIInv DEF walkVars
  <2>2. FewRefs' /\ CellsNum' = CellsNum /\ Walked'
    BY <1>1, <1>2 DEF FewRefs, CellsNum, Walked
  <2>3. WrittenBag' = WrittenBag
    BY <1>1 DEF WrittenBag, SerializeForBoc, DataByte
  <2> QED
    BY <2>1, <2>2, <2>3
<1>4. CellsNum \in Nat /\ CellsNum = Len(order) /\ DOMAIN order = 1 .. CellsNum
  BY <1>2, FewCells, NAssumption DEF CellsNum, IInv, TypeOK
<1>5. PICK f : IsJoined(f, WrittenBag, CellsNum) /\ Joined(WrittenBag) = f[CellsNum]
  <2>1. Len(WrittenBag) = CellsNum
    BY <1>4 DEF WrittenBag
  <2> QED
    BY <1>4, <2>1, JoinedIs
<1>6. Grows(f, WrittenBag, CellsNum, Byte)
  BY <1>1, <1>2, <1>5, BagGrows
<1>7. f[0] = << >> /\ f[CellsNum] \in Seq(Byte) /\ Len(f[CellsNum]) \in Nat
  BY <1>4, <1>6 DEF Grows
<1>8. \A k \in 1 .. CellsNum : Len(WrittenBag[k]) \in 1 .. 3 + 2 * MaxRefs
  <2>1. \A k \in 1 .. CellsNum : Len(WrittenBag[k]) \in 3 .. 3 + 2 * MaxRefs
    BY <1>1, <1>2, WrittenCells
  <2> QED
    BY <2>1, MaxRefsAssumption
<1>9. boc'.data = f[CellsNum]
      /\ boc'.index = IF hasIdx' THEN [k \in DOMAIN order |-> Len(WrittenBag[k])] ELSE << >>
  BY <1>1, <1>5
<1>10. BocTypes'
  <2>1. boc'.index \in Seq(1 .. 3 + 2 * MaxRefs)
    <3> DEFINE S == 1 .. 3 + 2 * MaxRefs
               lens == [k \in DOMAIN order |-> Len(WrittenBag[k])]
    <3>1. \A k \in 1 .. CellsNum : Len(WrittenBag[k]) \in S
      BY <1>8
    <3> HIDE DEF S
    <3>2. lens \in [1 .. CellsNum -> S]
      BY <1>4, <3>1
    <3>3. lens \in Seq(S)
      BY <1>4, <3>2
    <3>4. << >> \in Seq(S)
      OBVIOUS
    <3> HIDE DEF lens
    <3>5. boc'.index = IF hasIdx' THEN lens ELSE << >>
      BY <1>9 DEF lens
    <3> QED
      BY <3>3, <3>4, <3>5 DEF S
  <2>2. boc'.data \in Seq(0 .. 255)
    BY <1>7, <1>9 DEF Byte
  <2>3. offset' \in 0 .. Len(boc'.data)
    BY <1>1, <1>2, <1>7, <1>9
  <2>4. DOMAIN cells' = {}
    BY <1>1, <1>2
  <2> QED
    BY <1>1, <1>2, <2>1, <2>2, <2>3, <2>4 DEF BocTypes
<1>11. AllWritten'
  <2>1. Len(cells') = 0 /\ offset' = Len(f[0])
    BY <1>1, <1>2, <1>7
  <2>2. Laid(f)'
    BY <1>3, <1>5, <1>9, <2>1 DEF Laid
  <2>3. Indexed'
    BY <1>1, <1>3, <1>9 DEF Indexed
  <2> QED
    BY <1>3, <2>2, <2>3 DEF AllWritten
<1>12. ReadSoFar'
  <2>1. cells' \in Seq({}) /\ Len(cells') = 0 /\ DOMAIN cells' = {}
    BY <1>1, <1>2
  <2>2. 0 <= CellsNum'
    BY <1>3, <1>4
  <2> QED
    BY <1>1, <2>1, <2>2 DEF ReadSoFar
<1>13. NothingWritten'
  BY <1>1 DEF NothingWritten
<1> QED
  BY <1>3, <1>10, <1>11, <1>12, <1>13 DEF BagInv

-----------------------------------------------------------------------------
(***************************************************************************)
(* parse_cells, one cell.                                                  *)
(***************************************************************************)

\* The places and the numbers that parse_cells works out, as in ParseCell.
At == IF boc.index = << >> THEN offset ELSE IF Len(cells) > 0 THEN Index(Len(cells)) ELSE 0
RefsNum == ByteAt(At) % 8
Size(ln) == (ln \div 2) + (ln % 2)
DataAt == At + 2 + HashesSize(ByteAt(At))
RefsAt == DataAt + Size(ByteAt(At + 1))
Payload == Slice(DataAt, RefsAt)
Id == BigInt(Slice(RefsAt, RefsAt + RefSize))

Refused ==
    \/ HeaderRefused
    \/ Len(boc.data) - offset < 2
    \/ At + 2 > Len(boc.data)
    \/ RefsNum > 4
    \/ Len(boc.data) - (At + 2) < Size(ByteAt(At + 1))
    \/ Len(boc.data) - RefsAt < RefsNum * RefSize
    \/ RefsNum > 0 /\ (Id = Len(cells) \/ (boc.index = << >> /\ Id < Len(cells)) \/ Id >= CellsNum)

NextCell ==
    [exotic |-> (ByteAt(At) \div 8) % 2 = 1, array |-> Payload,
     cursor |-> 8 * Size(ByteAt(At + 1)), length |-> UntaggedSize(ByteAt(At + 1), Payload),
     refs |-> [k \in 1 .. RefsNum |-> Id]]

LEMMA ParseStep ==
    ASSUME ParseCell
    PROVE  /\ phase = "parse" /\ Len(cells) < CellsNum
           /\ \/ Refused /\ phase' = "failed" /\ offset' = offset /\ cells' = cells
              \/ /\ ~Refused /\ phase' = phase
                 /\ offset' = RefsAt + RefsNum * RefSize
                 /\ cells' = Append(cells, NextCell)
           /\ refs' = refs /\ order' = order /\ index' = index /\ stack' = stack
           /\ bits' = bits /\ hasIdx' = hasIdx /\ hasCacheBits' = hasCacheBits
           /\ boc' = boc
BY DEF ParseCell, Refused, NextCell, At, RefsNum, Size, DataAt, RefsAt, Payload, Id, Fail, walkVars

\* The n elements of s behind the first a.
IsPiece(t, s, a, n, S) ==
    t \in Seq(S) /\ Len(t) = n /\ \A i \in 1 .. n : t[i] = s[a + i]

LEMMA PieceOf ==
    ASSUME NEW S, NEW s \in Seq(S), NEW a \in Nat, NEW n \in Nat, a + n <= Len(s)
    PROVE  IsPiece(SubSeq(s, a + 1, a + n), s, a, n, S)
<1>1. \A i \in 1 .. n : s[a + i] \in S
  <2> TAKE i \in 1 .. n
  <2>1. a + i \in 1 .. Len(s)
    OBVIOUS
  <2> QED
    BY <2>1
<1> QED
  BY <1>1, Piece DEF IsPiece

\* What is left of the data from a place on, up to another if it goes as far.
LEMMA Slices ==
    ASSUME boc.data \in Seq(Byte), NEW from \in 0 .. Len(boc.data), NEW n \in Nat
    PROVE  /\ Slice(from, from + n) \in Seq(Byte)
           /\ from + n <= Len(boc.data) =>
                 /\ Len(Slice(from, from + n)) = n
                 /\ \A j \in 1 .. n : Slice(from, from + n)[j] = boc.data[from + j]
<1> DEFINE d == boc.data
           w == Len(d)
           m == IF from + n < w THEN n ELSE w - from
           s == SubSeq(d, from + 1, from + m)
<1>1. w \in Nat /\ (\A i \in 1 .. w : d[i] \in Byte) /\ from \in 0 .. w
  OBVIOUS
<1> HIDE DEF w, d
<1>2. m \in Nat /\ from + m <= w /\ (from + n <= w => m = n)
      /\ from + m = IF from + n < w THEN from + n ELSE w
  BY <1>1
<1> HIDE DEF m
<1>3. Slice(from, from + n) = s
  BY <1>2 DEF Slice, d, w
<1>6. from \in Nat /\ m \in Nat
  BY <1>1, <1>2
<1>5. s \in Seq(Byte) /\ Len(s) = m /\ \A i \in 1 .. m : s[i] = d[from + i]
  <2>1. d \in Seq(Byte) /\ from + m <= Len(d)
    BY <1>2 DEF w, d
  <2>2. IsPiece(s, d, from, m, Byte)
    <3> HIDE DEF m
    <3> QED
      BY <1>6, <2>1, PieceOf
  <2> QED
    BY <2>2 DEF IsPiece
<1> HIDE DEF s
<1> QED
  BY <1>2, <1>3, <1>5 DEF d, w

LEMMA HashesCount ==
    ASSUME NEW flags \in Nat
    PROVE  HashesSize(flags) \in Nat
BY DEF HashesSize

LEMMA UntaggedFits ==
    ASSUME NEW ln \in Nat, NEW s
    PROVE  UntaggedSize(ln, s) \in 0 .. 8 * Size(ln) /\ Size(ln) \in Nat
<1> DEFINE ones == {y \in 0 .. 7 : (s[Len(s)] \div 2 ^ y) % 2 = 1}
           low == CHOOSE y \in ones : \A z \in ones : y <= z
<1>1. UntaggedSize(ln, s) = IF ln % 2 = 0 \/ ones = {} THEN ln * 4 ELSE ln * 4 + 3 - low
  BY DEF UntaggedSize
<1>2. ones \in SUBSET (0 .. 7)
  OBVIOUS
<1> HIDE DEF ones
<1>3. ones # {} => low \in 0 .. 7
  <2> SUFFICES ASSUME ones # {} PROVE low \in 0 .. 7
    OBVIOUS
  <2>1. ones \in SUBSET Nat
    BY <1>2
  <2>2. \E y \in ones : \A z \in ones : y <= z
    BY <2>1, Least, Zenon
  <2> QED
    BY <1>2, <2>2
<1> HIDE DEF low
<1>4. Size(ln) \in Nat /\ 2 * Size(ln) >= ln /\ (ln % 2 = 0 => 2 * Size(ln) = ln)
      /\ (ln % 2 # 0 => 2 * Size(ln) = ln + 1)
  BY DEF Size
<1>5. CASE ln % 2 = 0 \/ ones = {}
  BY <1>1, <1>4, <1>5
<1>6. CASE ~(ln % 2 = 0 \/ ones = {})
  <2>1. ln # 0
    BY <1>6
  <2> QED
    BY <1>1, <1>3, <1>4, <1>6, <2>1
<1> QED
  BY <1>5, <1>6

\* A cell that is not refused lies within the data, and so does what is made of it.
LEMMA ParsedFits ==
    ASSUME BagInv, ParseCell, ~Refused
    PROVE  /\ RefsAt + RefsNum * RefSize \in 0 .. Len(boc.data)
           /\ Payload \in Seq(Byte)
           /\ 8 * Size(ByteAt(At + 1)) \in 0 .. 8 * Len(Payload)
           /\ UntaggedSize(ByteAt(At + 1), Payload) \in 0 .. 8 * Size(ByteAt(At + 1))
           /\ \A k \in 1 .. RefsNum : Id \in 0 .. CellsNum - 1
<1> DEFINE w == Len(boc.data)
           n == RefsNum
           sz == Size(ByteAt(At + 1))
<1>1. /\ Len(cells) < CellsNum /\ phase = "parse"
      /\ boc.data \in Seq(Byte) /\ boc.index \in Seq(1 .. 3 + 2 * MaxRefs)
      /\ offset \in 0 .. w /\ RefSize \in 1 .. 2 /\ CellsNum \in Nat
  BY ParseStep, FewCells, NAssumption DEF BagInv, BocTypes, Byte
<1>2. Len(cells) \in Nat
  BY DEF BagInv, ReadSoFar
<1>3. w \in Nat /\ offset \in Nat
  BY <1>1
<1>4. At \in Nat
  <2>1. CASE boc.index = << >>
    BY <1>3, <2>1 DEF At
  <2>2. CASE boc.index # << >> /\ Len(cells) > 0
    <3> DEFINE i == Len(cells)
    <3>1. boc.index = [k \in DOMAIN order |-> Len(WrittenBag[k])]
      BY <1>1, <2>2 DEF BagInv, AllWritten, Indexed
    <3>2. DOMAIN order = 1 .. CellsNum
      BY DEF BagInv, IInv, TypeOK, CellsNum
    <3>3. i \in DOMAIN order
      BY <1>1, <1>2, <2>2, <3>2
    <3>4. i \in DOMAIN boc.index
      BY <3>1, <3>3
    <3>5. boc.index[i] \in Nat
      <4>1. boc.index[i] \in 1 .. 3 + 2 * MaxRefs
        <5> DEFINE S == 1 .. 3 + 2 * MaxRefs
        <5>1. boc.index \in Seq(S)
          BY <1>1
        <5> HIDE DEF S
        <5>2. boc.index[i] \in S
          BY <3>4, <5>1
        <5> QED
          BY <5>2 DEF S
      <4> QED
        BY <4>1
    <3>6. Index(i) \in Nat
      BY <3>5 DEF Index
    <3> QED
      BY <2>2, <3>6 DEF At
  <2>3. CASE boc.index # << >> /\ ~(Len(cells) > 0)
    BY <2>3 DEF At
  <2> QED
    BY <2>1, <2>2, <2>3
<1>5. /\ ~(At + 2 > w) /\ ~(n > 4) /\ ~(w - RefsAt < n * RefSize)
      /\ n > 0 => ~(Id >= CellsNum)
  BY DEF Refused
<1>6. ByteAt(At) \in Nat /\ ByteAt(At + 1) \in Nat
  <2>1. At + 1 \in 1 .. w /\ At + 1 + 1 \in 1 .. w
    BY <1>3, <1>4, <1>5
  <2>2. \A x \in Byte : x \in Nat
    BY DEF Byte
  <2>3. ByteAt(At) \in Byte /\ ByteAt(At + 1) \in Byte
    BY <1>1, <2>1 DEF ByteAt
  <2> QED
    BY <2>2, <2>3
<1>7. n \in Nat /\ sz \in Nat /\ DataAt \in Nat /\ RefsAt = DataAt + sz
  <2>1. n \in Nat
    BY <1>6 DEF RefsNum
  <2>2. sz \in Nat
    BY <1>6, UntaggedFits
  <2>3. HashesSize(ByteAt(At)) \in Nat
    BY <1>6, HashesCount
  <2> QED
    BY <1>4, <2>1, <2>2, <2>3 DEF RefsAt, DataAt
<1> HIDE DEF n, sz, w
<1>8. /\ RefsAt \in 0 .. w /\ DataAt \in 0 .. w /\ RefsAt + n * RefSize \in 0 .. w
      /\ RefSize \in Nat
  <2>1. n * RefSize \in Nat /\ RefSize \in Nat
    BY <1>1, <1>7
  <2> DEFINE m == n * RefSize
  <2> HIDE DEF m
  <2>2. m \in Nat /\ ~(w - RefsAt < m)
    BY <1>5, <2>1 DEF m
  <2>3. RefsAt \in 0 .. w /\ DataAt \in 0 .. w /\ RefsAt + m \in 0 .. w
    BY <1>3, <1>7, <2>2
  <2> QED
    BY <2>1, <2>3 DEF m
<1>9. Id \in Nat
  <2>1. Slice(RefsAt, RefsAt + RefSize) \in Seq(Byte)
    BY <1>1, <1>8, Slices DEF w
  <2>2. \A x \in Byte : x \in Nat
    BY DEF Byte
  <2> DEFINE t == Slice(RefsAt, RefsAt + RefSize)
  <2> HIDE DEF t
  <2>3. t \in Seq(Nat)
    BY <2>1, <2>2 DEF t
  <2>4. BigInt(t) \in Nat
    BY <2>3, BytesCount
  <2> QED
    BY <2>4 DEF t, Id
<1>10. Payload \in Seq(Byte) /\ Len(Payload) = sz
  <2>1. DataAt + sz <= w
    BY <1>7, <1>8, <1>3
  <2>2. /\ Slice(DataAt, DataAt + sz) \in Seq(Byte)
        /\ Len(Slice(DataAt, DataAt + sz)) = sz
    BY <1>1, <1>7, <1>8, <2>1, Slices DEF w
  <2> QED
    BY <1>7, <2>2 DEF Payload
<1>11. UntaggedSize(ByteAt(At + 1), Payload) \in 0 .. 8 * sz
  BY <1>6, UntaggedFits DEF sz
<1>12. ASSUME NEW k \in 1 .. n PROVE Id \in 0 .. CellsNum - 1
  <2>1. n > 0
    BY <1>7
  <2> QED
    BY <1>1, <1>5, <1>9, <2>1
<1>13. 8 * sz \in 0 .. 8 * Len(Payload)
  BY <1>7, <1>10
<1> QED
  BY <1>8, <1>10, <1>11, <1>12, <1>13 DEF n, sz, w

\* In a bag whose index does no harm the next cell is read where it was written,
\* and as it was.
LEMMA ReadsNext ==
    ASSUME BagInv, ParseCell, Good, NEW f, Laid(f)
    PROVE  /\ ~Refused
           /\ RefsAt + RefsNum * RefSize = Len(f[Len(cells) + 1])
           /\ NextCell = CellRead(order[Len(cells) + 1])
<1> DEFINE i == Len(cells)
           k == i + 1
           c == order[k]
           s == WrittenBag[k]
           o == Len(f[i])
           w == Len(boc.data)
           nr == Len(refs[c])
           byte == DataByte(c)
           ln == BitsDescriptor(bits[c])
<1>1. /\ phase = "parse" /\ i \in Nat /\ i < CellsNum /\ k \in 1 .. CellsNum /\ k \in Nat
      /\ CellsNum \in 1 .. N /\ CellsNum \in Nat /\ RefSize = 1
      /\ IInv /\ FewRefs /\ Walked /\ Indexed /\ bits \in [Cells -> BitLengths]
      /\ boc.data \in Seq(Byte) /\ w \in Nat
  <2>1. phase = "parse" /\ i < CellsNum
    BY ParseStep
  <2>2. i \in Nat
    BY DEF BagInv, ReadSoFar
  <2>3. CellsNum \in 1 .. N /\ CellsNum \in Nat /\ RefSize = 1
    BY FewCells, NAssumption DEF BagInv, Good
  <2>4. k \in 1 .. CellsNum /\ k \in Nat
    BY <2>1, <2>2, <2>3
  <2>5. IInv /\ FewRefs /\ Walked /\ Indexed /\ bits \in [Cells -> BitLengths]
        /\ boc.data \in Seq(Byte)
    BY <2>1 DEF BagInv, BocTypes, AllWritten, Byte
  <2>6. w \in Nat
    BY <2>5
  <2> QED
    BY <2>1, <2>2, <2>3, <2>4, <2>5, <2>6
<1>2. /\ c \in Cells /\ index[c] = i /\ nr \in 0 .. 4 /\ bits[c] \in 1 .. 8
      /\ \A j \in 1 .. nr : index[refs[c][j]] \in k .. CellsNum - 1
      /\ IsSerialized(s, c)
  <2>1. index[c] = k - 1
    BY <1>1, WrittenCells
  <2>2. k - 1 = i
    BY <1>1
  <2>3. OneByteRefs
    BY DEF Good
  <2> QED
    BY <1>1, <2>1, <2>2, <2>3, WrittenCells
<1>3. IsJoined(f, WrittenBag, CellsNum) /\ boc.data = f[CellsNum] /\ offset = o
  BY DEF Laid
<1>4. /\ Grows(f, WrittenBag, CellsNum, Byte)
      /\ IsBehind(f, WrittenBag, CellsNum, k)
      /\ 3 * CellsNum <= w
  BY <1>1, <1>3, BagGrows
<1>5. /\ f[0] = << >> /\ o \in Nat /\ Len(f[k]) = o + Len(s)
      /\ Len(f[1]) = Len(f[0]) + Len(WrittenBag[1])
  <2>1. k - 1 = i /\ i \in 0 .. CellsNum /\ 1 \in 1 .. CellsNum /\ 1 - 1 = 0
    BY <1>1
  <2> HIDE DEF i, k
  <2> QED
    BY <1>1, <1>4, <2>1 DEF Grows
<1>6. o + Len(s) <= w /\ \A j \in 1 .. Len(s) : boc.data[o + j] = s[j]
  <2>1. k - 1 = i
    BY <1>1
  <2> QED
    BY <1>3, <1>4, <2>1 DEF IsBehind
<1>7. /\ Len(s) = 3 + nr /\ s[1] = nr /\ s[2] = ln /\ s[3] = byte
      /\ \A j \in 1 .. nr : s[3 + j] = index[refs[c][j]]
  BY <1>2 DEF IsSerialized
<1>8. /\ byte \in 0 .. 255 /\ ln \in 1 .. 2 /\ UntaggedSize(ln, <<byte>>) = bits[c]
  BY <1>2, ByteOfData
<1>9. At = o
  <2>1. CASE ~hasIdx
    <3>1. boc.index = << >>
      BY <1>1, <2>1 DEF Indexed
    <3> QED
      BY <1>3, <3>1 DEF At
  <2>2. CASE hasIdx
    <3>1. boc.index = [j \in DOMAIN order |-> Len(WrittenBag[j])]
      BY <1>1, <2>2 DEF Indexed
    <3>2. DOMAIN order = 1 .. CellsNum
      BY <1>1 DEF IInv, TypeOK, CellsNum
    <3>3. 1 \in DOMAIN order
      BY <1>1, <3>2
    <3>4. boc.index # << >> /\ boc.index[1] = Len(WrittenBag[1])
      BY <3>1, <3>3
    <3>5. CASE i = 0
      <4>1. At = 0
        BY <3>4, <3>5 DEF At
      <4>2. o = 0
        BY <1>5, <3>5
      <4> QED
        BY <4>1, <4>2
    <3>6. CASE i # 0
      <4>1. i = 1 /\ ~hasCacheBits
        <5>1. CellsNum <= (IF hasCacheBits THEN 1 ELSE 2)
          BY <2>2 DEF Good
        <5> DEFINE L == CellsNum
        <5>2. i \in Nat /\ i # 0 /\ i < L /\ L \in Nat /\ L <= (IF hasCacheBits THEN 1 ELSE 2)
          BY <1>1, <3>6, <5>1
        <5> HIDE DEF i, L
        <5> QED
          BY <5>2
      <4>2. At = boc.index[1]
        BY <3>4, <4>1 DEF At, Index
      <4>3. Len(f[1]) = Len(WrittenBag[1])
        <5>1. Len(WrittenBag[1]) \in 3 .. 3 + 2 * MaxRefs
          <6>1. 1 \in 1 .. CellsNum
            BY <1>1
          <6> QED
            BY <1>1, <6>1, WrittenCells
        <5>2. Len(WrittenBag[1]) \in Nat
          BY <5>1, MaxRefsAssumption
        <5>3. Len(f[0]) = 0
          BY <1>5
        <5> QED
          BY <1>5, <5>2, <5>3
      <4>4. o = Len(f[1])
        BY <4>1
      <4> QED
        BY <3>4, <4>2, <4>3, <4>4
    <3> QED
      BY <3>5, <3>6
  <2> QED
    BY <2>1, <2>2
<1> HIDE DEF o, w, nr, byte, ln, s
<1>10. ByteAt(At) = nr /\ ByteAt(At + 1) = ln
  <2>1. 1 \in 1 .. Len(s) /\ 2 \in 1 .. Len(s) /\ o + 1 + 1 = o + 2
    BY <1>2, <1>5, <1>7
  <2>2. boc.data[o + 1] = s[1] /\ boc.data[o + 2] = s[2]
    BY <1>6, <2>1
  <2> QED
    BY <1>7, <1>9, <2>1, <2>2 DEF ByteAt
<1>11. /\ RefsNum = nr /\ HashesSize(nr) = 0 /\ Size(ln) = 1 /\ DataAt = o + 2 /\ RefsAt = o + 3
       /\ (nr \div 8) % 2 # 1
  <2>1. nr % 8 = nr /\ (nr \div 16) % 2 = 0 /\ (nr \div 8) % 2 # 1
    BY <1>2
  <2>2. RefsNum = nr
    BY <1>10, <2>1 DEF RefsNum
  <2>3. HashesSize(nr) = 0
    BY <2>1 DEF HashesSize
  <2>4. Size(ln) = 1
    BY <1>8 DEF Size
  <2>5. DataAt = o + 2
    BY <1>5, <1>9, <1>10, <2>3 DEF DataAt
  <2>6. RefsAt = o + 3
    BY <1>5, <1>10, <2>4, <2>5 DEF RefsAt
  <2> QED
    BY <2>1, <2>2, <2>3, <2>4, <2>5, <2>6
<1>12. Payload = <<byte>>
  <2>1. o + 2 \in 0 .. w /\ (o + 2) + 1 = o + 3 /\ (o + 2) + 1 <= w /\ 1 \in Nat
        /\ 3 \in 1 .. Len(s)
    BY <1>1, <1>2, <1>5, <1>6, <1>7
  <2> DEFINE t == Slice(o + 2, (o + 2) + 1)
  <2>2. t \in Seq(Byte) /\ Len(t) = 1 /\ \A j \in 1 .. 1 : t[j] = boc.data[(o + 2) + j]
    BY <1>1, <2>1, Slices DEF w
  <2> HIDE DEF t
  <2>3. t[1] = boc.data[o + 3]
    BY <2>1, <2>2
  <2>4. boc.data[o + 3] = byte
    BY <1>6, <1>7, <2>1
  <2>5. t = <<byte>>
    BY <2>2, <2>3, <2>4
  <2> QED
    BY <1>11, <2>1, <2>5 DEF Payload, t
<1>13. nr > 0 => Id = index[refs[c][1]]
  <2> SUFFICES ASSUME nr > 0 PROVE Id = index[refs[c][1]]
    OBVIOUS
  <2>1. o + 3 \in 0 .. w /\ (o + 3) + 1 = o + 4 /\ (o + 3) + 1 <= w /\ 1 \in Nat
        /\ 3 + 1 \in 1 .. Len(s) /\ 1 \in 1 .. nr /\ o + (3 + 1) = o + 4
    BY <1>1, <1>2, <1>5, <1>6, <1>7
  <2> DEFINE t == Slice(o + 3, (o + 3) + 1)
             b == index[refs[c][1]]
  <2>2. t \in Seq(Byte) /\ Len(t) = 1 /\ \A j \in 1 .. 1 : t[j] = boc.data[(o + 3) + j]
    BY <1>1, <2>1, Slices DEF w
  <2> HIDE DEF t
  <2>3. t[1] = boc.data[o + 4]
    BY <2>1, <2>2
  <2>4. boc.data[o + (3 + 1)] = s[3 + 1] /\ s[3 + 1] = b
    BY <1>6, <1>7, <2>1
  <2>5. b \in Nat
    <3>1. b \in k .. CellsNum - 1
      BY <1>2, <2>1
    <3> QED
      BY <1>1, <3>1
  <2> HIDE DEF b
  <2>6. t = <<b>>
    BY <2>1, <2>2, <2>3, <2>4
  <2>7. BigInt(t) = b
    BY <2>5, <2>6, OneByte
  <2> QED
    BY <1>1, <1>11, <2>7 DEF Id, t, b
<1>14. nr > 0 => Id \in k .. CellsNum - 1
  <2>1. nr > 0 => 1 \in 1 .. nr
    BY <1>2
  <2> QED
    BY <1>2, <1>13, <2>1
<1>15. ~HeaderRefused
  <2>1. ~(hasCacheBits /\ ~hasIdx)
    BY DEF Good
  <2> DEFINE L == CellsNum
  <2>3. L \in Nat /\ w \in Nat /\ 3 * L <= w
    BY <1>1, <1>4 DEF w
  <2> HIDE DEF L
  <2>2. ~(L > w \div 2)
    BY <2>3
  <2> QED
    BY <2>1, <2>2 DEF HeaderRefused, w, L
<1>16. ~Refused
  <2>1. ~(w - offset < 2) /\ ~(At + 2 > w) /\ ~(RefsNum > 4)
        /\ ~(w - (At + 2) < Size(ByteAt(At + 1))) /\ ~(w - RefsAt < RefsNum * RefSize)
    <3>1. ~(w - o < 2) /\ ~(o + 2 > w) /\ ~(nr > 4) /\ ~(w - (o + 2) < 1) /\ ~(w - (o + 3) < nr * 1)
      BY <1>1, <1>2, <1>5, <1>6, <1>7
    <3> QED
      BY <1>1, <1>3, <1>9, <1>10, <1>11, <3>1
  <2>2. nr > 0 => ~(Id = i) /\ ~(Id < i) /\ ~(Id >= CellsNum)
    BY <1>1, <1>14
  <2> QED
    BY <1>11, <1>15, <2>1, <2>2 DEF Refused, w
<1>17. RefsAt + RefsNum * RefSize = Len(f[k])
  BY <1>1, <1>2, <1>5, <1>7, <1>11
<1>18. NextCell = CellRead(c)
  <2>1. [j \in 1 .. RefsNum |-> Id] = [j \in 1 .. nr |-> index[refs[c][1]]]
    <3>1. CASE nr > 0
      BY <1>11, <1>13, <3>1
    <3>2. CASE ~(nr > 0)
      <4>1. 1 .. nr = {}
        BY <1>2, <3>2
      <4> QED
        BY <1>11, <4>1
    <3> QED
      BY <3>1, <3>2
  <2>2. 8 * Size(ByteAt(At + 1)) = 8 /\ ((ByteAt(At) \div 8) % 2 = 1) = FALSE
    BY <1>10, <1>11
  <2>3. UntaggedSize(ByteAt(At + 1), Payload) = bits[c]
    BY <1>8, <1>10, <1>12
  <2> QED
    BY <1>12, <2>1, <2>2, <2>3 DEF NextCell, CellRead, nr, byte
<1> QED
  BY <1>16, <1>17, <1>18

LEMMA ParseKeepsBag ==
    ASSUME BagInv, ParseCell
    PROVE  BagInv'
<1>1. /\ phase = "parse" /\ Len(cells) < CellsNum
      /\ refs' = refs /\ order' = order /\ index' = index /\ stack' = stack
      /\ bits' = bits /\ hasIdx' = hasIdx /\ hasCacheBits' = hasCacheBits /\ boc' = boc
  BY ParseStep
<1>2. \/ Refused /\ phase' = "failed" /\ offset' = offset /\ cells' = cells
      \/ /\ ~Refused /\ phase' = phase
         /\ offset' = RefsAt + RefsNum * RefSize
         /\ cells' = Append(cells, NextCell)
  BY ParseStep
<1>3. /\ IInv /\ FewRefs /\ BocTypes /\ Walked /\ Indexed /\ ReadSoFar /\ Len(cells) \in Nat
      /\ CellsNum \in Nat
  BY <1>1, FewCells, NAssumption DEF BagInv, AllWritten, ReadSoFar
<1>4. PICK f : Laid(f)
  BY <1>1 DEF BagInv, AllWritten
<1>5. PICK T : cells \in Seq(T)
  BY <1>3 DEF ReadSoFar
<1>6. /\ IInv' /\ FewRefs' /\ WrittenBag' = WrittenBag /\ CellsNum' = CellsNum /\ Walked'
      /\ Indexed' /\ Good' = Good /\ \A c : CellRead(c)' = CellRead(c)
  <2>1. IInv'
    BY <1>1, <1>3, NextIInv DEF walkVars
  <2>2. FewRefs' /\ CellsNum' = CellsNum /\ Walked'
    BY <1>1, <1>3 DEF FewRefs, CellsNum, Walked
  <2>3. WrittenBag' = WrittenBag
    BY <1>1 DEF WrittenBag, SerializeForBoc, DataByte
  <2>4. Indexed'
    BY <1>1, <1>3, <2>3 DEF Indexed
  <2>5. Good' = Good
    BY <1>1, <2>2 DEF Good, OneByteRefs
  <2>6. \A c : CellRead(c)' = CellRead(c)
    BY <1>1 DEF CellRead, DataByte
  <2> QED
    BY <2>1, <2>2, <2>3, <2>4, <2>5, <2>6
<1>7. NothingWritten'
  BY <1>1, <1>2 DEF NothingWritten
<1>8. CASE Refused
  <2>1. phase' = "failed" /\ offset' = offset /\ cells' = cells
    BY <1>2, <1>8
  <2>2. ~Good
    BY <1>4, <1>8, ReadsNext
  <2>3. BocTypes'
    BY <1>1, <1>3, <1>6, <2>1 DEF BocTypes
  <2>4. AllWritten'
    <3>1. Laid(f)'
      BY <1>1, <1>4, <1>6, <2>1, <2>2 DEF Laid
    <3> QED
      BY <1>6, <3>1 DEF AllWritten
  <2>5. ReadSoFar'
    BY <1>3, <1>6, <2>1, <2>2 DEF ReadSoFar
  <2> QED
    BY <1>6, <1>7, <2>3, <2>4, <2>5 DEF BagInv
<1>9. CASE ~Refused
  <2> DEFINE i == Len(cells)
             x == NextCell
  <2>1. phase' = "parse" /\ offset' = RefsAt + RefsNum * RefSize /\ cells' = Append(cells, x)
    BY <1>1, <1>2, <1>9
  <2>2. /\ offset' \in 0 .. Len(boc.data)
        /\ Payload \in Seq(Byte)
        /\ 8 * Size(ByteAt(At + 1)) \in 0 .. 8 * Len(Payload)
        /\ UntaggedSize(ByteAt(At + 1), Payload) \in 0 .. 8 * Size(ByteAt(At + 1))
        /\ \A k \in 1 .. RefsNum : Id \in 0 .. CellsNum - 1
    BY <1>9, <2>1, ParsedFits
  <2>3. /\ x.array = Payload /\ x.cursor = 8 * Size(ByteAt(At + 1))
        /\ x.length = UntaggedSize(ByteAt(At + 1), Payload)
        /\ x.refs = [k \in 1 .. RefsNum |-> Id]
    BY DEF NextCell
  <2> HIDE DEF x
  <2>4. /\ \E U : cells' \in Seq(U)
        /\ DOMAIN cells = 1 .. i /\ DOMAIN cells' = 1 .. i + 1 /\ Len(cells') = i + 1
        /\ \A k \in 1 .. i : cells'[k] = cells[k]
        /\ cells'[i + 1] = x
    <3>1. cells \in Seq(T \cup {x})
      BY <1>5
    <3> DEFINE U == T \cup {x}
    <3>2. cells \in Seq(U) /\ x \in U
      BY <3>1
    <3> HIDE DEF U
    <3>3. Append(cells, x) \in Seq(U)
      BY <3>2
    <3>4. /\ DOMAIN cells = 1 .. i /\ DOMAIN Append(cells, x) = 1 .. i + 1
          /\ Len(Append(cells, x)) = i + 1
          /\ \A k \in 1 .. i : Append(cells, x)[k] = cells[k]
          /\ Append(cells, x)[i + 1] = x
      BY <3>2
    <3> QED
      BY <2>1, <3>3, <3>4
  <2>5. BocTypes'
    <3>1. ASSUME NEW k \in DOMAIN cells'
          PROVE  /\ cells'[k].array \in Seq(0 .. 255)
                 /\ cells'[k].cursor \in 0 .. 8 * Len(cells'[k].array)
                 /\ cells'[k].length \in 0 .. cells'[k].cursor
                 /\ \A j \in DOMAIN cells'[k].refs : cells'[k].refs[j] \in 0 .. CellsNum - 1
      <4>1. CASE k \in 1 .. i
        <5>1. k \in DOMAIN cells /\ cells'[k] = cells[k]
          BY <2>4, <4>1
        <5> QED
          BY <1>3, <5>1 DEF BocTypes
      <4>2. CASE k = i + 1
        <5>1. cells'[k] = x
          BY <2>4, <4>2
        <5>2. \A j \in DOMAIN x.refs : x.refs[j] \in 0 .. CellsNum - 1
          BY <2>2, <2>3
        <5> QED
          BY <2>2, <2>3, <5>1, <5>2 DEF Byte
      <4> QED
        BY <1>3, <2>4, <4>1, <4>2
    <3> QED
      BY <1>1, <1>3, <1>6, <2>1, <2>2, <3>1 DEF BocTypes
  <2>6. Good => /\ offset' = Len(f[i + 1]) /\ x = CellRead(order[i + 1])
    BY <1>4, <2>1, ReadsNext DEF x
  <2>7. AllWritten'
    <3>1. Laid(f)'
      BY <1>1, <1>4, <1>6, <2>4, <2>6 DEF Laid
    <3> QED
      BY <1>6, <3>1 DEF AllWritten
  <2>8. ReadSoFar'
    <3>1. Len(cells') <= CellsNum'
      BY <1>1, <1>3, <1>6, <2>4
    <3>2. ASSUME Good, NEW k \in DOMAIN cells'
          PROVE  cells'[k] = CellRead(order[k])
      <4>1. CASE k \in 1 .. i
        BY <1>3, <2>4, <3>2, <4>1 DEF ReadSoFar
      <4>2. CASE k = i + 1
        BY <2>4, <2>6, <3>2, <4>2
      <4> QED
        BY <1>3, <2>4, <4>1, <4>2
    <3> QED
      BY <1>1, <1>6, <2>1, <2>4, <3>1, <3>2 DEF ReadSoFar
  <2> QED
    BY <1>6, <1>7, <2>5, <2>7, <2>8 DEF BagInv
<1> QED
  BY <1>8, <1>9

LEMMA NextBag ==
    BagInv /\ [CellsNext]_allVars => BagInv'
<1> SUFFICES ASSUME BagInv, [CellsNext]_allVars PROVE BagInv'
  OBVIOUS
<1>1. CASE WalkStep
  BY <1>1, WalkKeepsBag
<1>2. CASE ToBoc
  BY <1>2, ToBocKeepsBag
<1>3. CASE ParseCell
  BY <1>3, ParseKeepsBag
<1>4. CASE EndParse
  <2>1. /\ phase = "parse" /\ Len(cells) = CellsNum /\ phase' = "done" /\ UNCHANGED walkVars
        /\ UNCHANGED <<bits, hasIdx, hasCacheBits, boc, offset, cells>>
    BY <1>4 DEF EndParse
  <2>2. IInv'
    BY <2>1, NextIInv DEF BagInv
  <2>3. /\ FewRefs' /\ CellsNum' = CellsNum /\ WrittenBag' = WrittenBag /\ Good' = Good
        /\ Walked' = Walked
    BY <2>1 DEF BagInv, FewRefs, CellsNum, WrittenBag, SerializeForBoc, DataByte, Good, OneByteRefs, Walked,
                walkVars
  <2>4. \A c : CellRead(c)' = CellRead(c)
    BY <2>1 DEF CellRead, DataByte, walkVars
  <2>5. BocTypes'
    BY <2>1, <2>3 DEF BagInv, BocTypes
  <2>6. NothingWritten'
    BY <2>1 DEF NothingWritten
  <2>7. AllWritten'
    <3>1. Walked /\ Indexed
      BY <2>1 DEF BagInv, AllWritten
    <3>2. PICK f : Laid(f)
      BY <2>1 DEF BagInv, AllWritten
    <3>3. Laid(f)'
      BY <2>1, <2>3, <3>2 DEF Laid
    <3>4. Indexed'
      BY <2>1, <2>3, <3>1 DEF Indexed, walkVars
    <3> QED
      BY <2>3, <3>1, <3>3, <3>4 DEF AllWritten
  <2>8. ReadSoFar'
    <3>1. ReadSoFar
      BY DEF BagInv
    <3>2. order' = order /\ cells' = cells /\ phase' = "done"
      BY <2>1 DEF walkVars
    <3> QED
      BY <2>1, <2>3, <2>4, <3>1, <3>2 DEF ReadSoFar
  <2> QED
    BY <2>2, <2>3, <2>5, <2>6, <2>7, <2>8 DEF BagInv
<1>5. CASE UNCHANGED vars
  <2>1. UNCHANGED walkVars /\ UNCHANGED bocVars
    BY <1>5 DEF vars, bocVars, walkVars
  <2>2. IInv'
    BY <2>1, NextIInv DEF BagInv
  <2>3. /\ FewRefs' /\ CellsNum' = CellsNum /\ WrittenBag' = WrittenBag /\ Good' = Good
        /\ Walked' = Walked
    BY <2>1 DEF BagInv, FewRefs, CellsNum, WrittenBag, SerializeForBoc, DataByte, Good, OneByteRefs, Walked,
                walkVars, bocVars
  <2>4. \A c : CellRead(c)' = CellRead(c)
    BY <2>1 DEF CellRead, DataByte, walkVars, bocVars
  <2>5. BocTypes'
    BY <2>1, <2>3 DEF BagInv, BocTypes, bocVars
  <2>6. NothingWritten'
    BY <2>1 DEF BagInv, NothingWritten, bocVars
  <2>7. AllWritten'
    <3> SUFFICES ASSUME phase # "walk" PROVE AllWritten'
      BY <2>1 DEF AllWritten, bocVars
    <3>1. Walked /\ Indexed
      BY DEF BagInv, AllWritten
    <3>2. PICK f : Laid(f)
      BY DEF BagInv, AllWritten
    <3>3. Laid(f)'
      BY <2>1, <2>3, <3>2 DEF Laid, bocVars
    <3>4. Indexed'
      BY <2>1, <2>3, <3>1 DEF Indexed, walkVars, bocVars
    <3> QED
      BY <2>3, <3>1, <3>3, <3>4 DEF AllWritten
  <2>8. ReadSoFar'
    <3>1. ReadSoFar
      BY DEF BagInv
    <3>2. order' = order /\ cells' = cells /\ phase' = phase
      BY <2>1 DEF walkVars, bocVars
    <3> QED
      BY <2>3, <2>4, <3>1, <3>2 DEF ReadSoFar
  <2> QED
    BY <2>2, <2>3, <2>5, <2>6, <2>7, <2>8 DEF BagInv
<1>6. [BocNext]_vars
  BY DEF CellsNext, allVars
<1> QED
  BY <1>1, <1>2, <1>3, <1>4, <1>5, <1>6 DEF BocNext

LEMMA BagIsRead ==
    BagInv => BagReadBack
<1> SUFFICES ASSUME BagInv PROVE BagReadBack
  OBVIOUS
<1>1. /\ IInv /\ FewRefs /\ BocTypes /\ ReadSoFar /\ bits \in [Cells -> BitLengths]
      /\ cells # << >> => phase # "walk"
  BY DEF BagInv, BocTypes, NothingWritten
<1>2. CellsNum \in Nat /\ CellsNum = Len(order) /\ DOMAIN order = 1 .. CellsNum
  BY <1>1, FewCells, NAssumption DEF CellsNum, IInv, TypeOK
<1>3. DOMAIN cells = 1 .. Len(cells) /\ Len(cells) \in Nat /\ Len(cells) <= CellsNum
  BY <1>1 DEF ReadSoFar
<1>4. ASSUME NEW k \in DOMAIN cells
      PROVE  /\ phase # "walk" /\ Walked /\ k \in 1 .. CellsNum /\ k \in DOMAIN order
             /\ order[k] \in Cells /\ refs[order[k]] \in Seq(Cells)
  <2>1. phase # "walk" /\ k \in 1 .. CellsNum
    BY <1>1, <1>2, <1>3
  <2>2. Walked
    BY <2>1 DEF BagInv, AllWritten
  <2> QED
    BY <1>1, <1>2, <2>1, <2>2, WrittenCells DEF IInv, TypeOK
<1>5. ReadBack
  <2> SUFFICES ASSUME Good
               PROVE  phase # "failed" /\ \A k \in DOMAIN cells : ReadAs(k, order[k])
    BY DEF ReadBack, Good
  <2>1. phase # "failed" /\ \A k \in DOMAIN cells : cells[k] = CellRead(order[k])
    BY <1>1 DEF ReadSoFar
  <2>2. ASSUME NEW k \in DOMAIN cells PROVE ReadAs(k, order[k])
    <3> DEFINE c == order[k]
               w == Len(refs[c])
    <3>1. w \in Nat /\ refs[c] \in Seq(Cells)
      BY <1>4
    <3>2. /\ cells[k].array = <<DataByte(c)>> /\ cells[k].length = bits[c]
          /\ cells[k].exotic = FALSE
          /\ cells[k].refs = [j \in 1 .. w |-> index[refs[c][1]]]
      BY <2>1 DEF CellRead
    <3>3. Len(cells[k].refs) = w
      BY <3>1, <3>2
    <3>4. refs[c] # << >> => cells[k].refs[1] = index[refs[c][1]]
      <4> SUFFICES ASSUME refs[c] # << >> PROVE cells[k].refs[1] = index[refs[c][1]]
        OBVIOUS
      <4>1. 1 \in 1 .. w
        BY <3>1, EmptySeq
      <4> QED
        BY <3>2, <4>1
    <3> QED
      BY <3>2, <3>3, <3>4 DEF ReadAs
  <2> QED
    BY <2>1, <2>2
<1>6. SameChain
  <2> SUFFICES ASSUME Finished, OneByteRefs, ~hasIdx, ~hasCacheBits,
                      \A c \in DOMAIN index : bits[c] = 8 /\ Len(refs[c]) <= 1
               PROVE  /\ phase = "done"
                      /\ \A k \in DOMAIN order :
                            /\ cells[k].cursor = bits[order[k]]
                            /\ cells[k].refs = [j \in DOMAIN refs[order[k]] |-> index[refs[order[k]][j]]]
    BY DEF SameChain
  <2>1. Good
    BY DEF Good
  <2>2. phase = "done" /\ Len(cells) = CellsNum /\ DOMAIN cells = DOMAIN order
        /\ \A k \in DOMAIN cells : cells[k] = CellRead(order[k])
    BY <1>1, <1>2, <1>3, <2>1 DEF ReadSoFar, Finished
  <2>3. ASSUME NEW k \in DOMAIN order
        PROVE  /\ cells[k].cursor = bits[order[k]]
               /\ cells[k].refs = [j \in DOMAIN refs[order[k]] |-> index[refs[order[k]][j]]]
    <3> DEFINE c == order[k]
               w == Len(refs[c])
    <3>1. c \in DOMAIN index
      BY <1>1 DEF IInv, IndexMatchesOrder
    <3>2. bits[c] = 8 /\ w <= 1
      BY <3>1
    <3>3. refs[c] \in Seq(Cells)
      BY <1>4, <2>2
    <3>8. w \in Nat /\ DOMAIN refs[c] = 1 .. w
      BY <3>3
    <3>9. cells[k] = CellRead(c)
      BY <2>2
    <3>4. w \in 0 .. 1 /\ DOMAIN refs[c] = 1 .. w
      <4> DEFINE v == w
      <4>1. v \in Nat /\ v <= 1
        BY <3>2, <3>8
      <4> HIDE DEF v
      <4>2. v \in 0 .. 1
        BY <4>1
      <4> QED
        BY <3>8, <4>2 DEF v
    <3>5. cells[k].cursor = 8 /\ cells[k].refs = [j \in 1 .. w |-> index[refs[c][1]]]
      BY <3>9 DEF CellRead
    <3> HIDE DEF w
    <3>6. \A j \in 1 .. w : j = 1
      BY <3>4
    <3>7. [j \in 1 .. w |-> index[refs[c][1]]] = [j \in 1 .. w |-> index[refs[c][j]]]
      BY <3>6
    <3> QED
      BY <3>2, <3>4, <3>5, <3>7
  <2> QED
    BY <2>2, <2>3
<1> QED
  BY <1>1, <1>5, <1>6 DEF BagReadBack

\* A bag of fewer than 256 cells that to_boc writes is read back by
\* from_boc_multi_root without an index whatever cells share one another: each
\* cell with its data, its length, its number of references and the first of
\* them; with an index as far as two cells, and with cache bits as far as one.
\* From 256 cells on the two functions disagree about the width of a reference
\* (types/_cell.py).
THEOREM BagIsReadBack == CellsSpec => []BagReadBack
<1>1. CellsInit => BagInv
  BY InitBag
<1>2. BagInv /\ [CellsNext]_allVars => BagInv'
  BY NextBag
<1>3. BagInv => BagReadBack
  BY BagIsRead
<1> QED
  BY <1>1, <1>2, <1>3, PTL DEF CellsSpec

================================================================================
