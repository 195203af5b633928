------------------------------- MODULE TreeWalk -------------------------------
(***************************************************************************)
(* tree_walk and move_to_end (utils/_utils.py), which put the cells below  *)
(* a root cell in the order a bag of cells is written in: every cell once  *)
(* and before the cells it refers to.                                      *)
(*                                                                         *)
(* Cells are named by their hashes, so equal cells are one cell and a tree *)
(* of cells is an acyclic graph.  The names are numbered so that a cell    *)
(* comes before the cells it refers to; the algorithm does not look at     *)
(* the numbers.  The two functions recurse: their frames are the stack.    *)
(***************************************************************************)
EXTENDS Naturals, Sequences

CONSTANTS
    N,        \* bound: cells below the root, with it
    MaxRefs   \* the most references of a cell (4 in a TON cell)

ASSUME NAssumption == N \in Nat \ {0}
ASSUME MaxRefsAssumption == MaxRefs \in Nat

Cells == 1 .. N
Root == 1

VARIABLES
    refs,    \* refs[c]: the cells that c refers to, in order
    order,   \* topological_order_arr
    index,   \* index_hashmap, a function on the cells met so far
    stack    \* the calls in progress, [cell, next]: the loop over the
             \* references of cell is at number next

walkVars == <<refs, order, index, stack>>

Tuples(S, n) == UNION {[1 .. k -> S] : k \in 0 .. n}

Init ==
    /\ refs \in [Cells -> Tuples(Cells, MaxRefs)]
    /\ \A c \in Cells : \A i \in DOMAIN refs[c] : c < refs[c][i]
    /\ order = <<Root>>
    /\ index = [c \in {Root} |-> 0]
    /\ stack = <<[cell |-> Root, kind |-> "walk", next |-> 1]>>

Top == stack[Len(stack)]
Below == SubSeq(stack, 1, Len(stack) - 1)

\* Mutant: the loop starts again after a reference that is in place.
Advanced_never == Top

\* The caller's loop goes on to its next reference.
Advanced == [Top EXCEPT !.next = @ + 1]

\* Whether the loop of the running call has a reference left, and which.
Looping == stack # << >> /\ Top.next <= Len(refs[Top.cell])
Ref == refs[Top.cell][Top.next]

Call(kind, cell) ==
    stack' = Append(Append(Below, Advanced),
                    [cell |-> cell, kind |-> kind, next |-> 1])

\* tree_walk of a cell that is not in index_hashmap yet.
VisitNew ==
    /\ Looping /\ Top.kind = "walk"
    /\ Ref \notin DOMAIN index
    /\ order' = Append(order, Ref)
    /\ index' = [c \in DOMAIN index \cup {Ref} |->
                    IF c = Ref THEN Len(order) ELSE index[c]]
    /\ Call("walk", Ref)
    /\ refs' = refs

\* tree_walk of a cell that comes after the one that refers to it.
VisitInPlace ==
    /\ Looping /\ Top.kind = "walk"
    /\ Ref \in DOMAIN index
    /\ index[Top.cell] <= index[Ref]
    /\ stack' = Append(Below, Advanced)
    /\ UNCHANGED <<refs, order, index>>

\* order without the element at position p (from 0), and that one at its end.
OrderMoved(p) ==
    [i \in 1 .. Len(order) |->
        IF i < p + 1 THEN order[i]
        ELSE IF i < Len(order) THEN order[i + 1]
        ELSE order[p + 1]]

\* Mutant: the cells behind the moved one keep their indexes.
IndexMoved_keeps_others(target) ==
    [c \in DOMAIN index |->
        IF c = target THEN Len(order) - 1 ELSE index[c]]

\* index_hashmap after the same move.
IndexMoved(target) ==
    [c \in DOMAIN index |->
        IF c = target THEN Len(order) - 1
        ELSE IF index[c] > index[target] THEN index[c] - 1
        ELSE index[c]]

MoveToEnd(target) ==
    /\ order' = OrderMoved(index[target])
    /\ index' = IndexMoved(target)
    /\ Call("move", target)
    /\ refs' = refs

\* Whether the running call moves the reference: tree_walk one that comes
\* before the cell that refers to it, move_to_end every one.
Moves ==
    \/ Top.kind = "move"
    \/ Top.kind = "walk" /\ Ref \in DOMAIN index /\ index[Top.cell] > index[Ref]

Move == Looping /\ Moves /\ MoveToEnd(Ref)

\* Mutant: move_to_end leaves the references of a moved cell where they are.
Return_without_references ==
    /\ stack # << >> /\ (~Looping \/ Top.kind = "move")
    /\ stack' = Below
    /\ UNCHANGED <<refs, order, index>>

Return ==
    /\ stack # << >> /\ ~Looping
    /\ stack' = Below
    /\ UNCHANGED <<refs, order, index>>

Walk == VisitNew \/ VisitInPlace \/ Move \/ Return

Walked == stack = << >>

Next == Walk \/ (Walked /\ UNCHANGED walkVars)

Spec == Init /\ [][Next]_walkVars

\* The functions run on: nothing interrupts them.
FairSpec == Spec /\ WF_walkVars(Walk)

-----------------------------------------------------------------------------
Frames == [cell : Cells, kind : {"walk", "move"}, next : Nat]

TypeOK ==
    /\ refs \in [Cells -> Seq(Cells)]
    /\ \A c \in Cells : \A i \in DOMAIN refs[c] : c < refs[c][i]
    /\ order \in Seq(Cells)
    /\ DOMAIN index \subseteq Cells
    /\ index \in [DOMAIN index -> 0 .. Len(order) - 1]
    /\ stack \in Seq(Frames)
    /\ \A f \in DOMAIN stack : stack[f].next \in 1 .. Len(refs[stack[f].cell]) + 1

\* order and index_hashmap are kept by separate code and must tell the same
\* story: each cell is in order once, at the place index_hashmap has for it.
IndexMatchesOrder ==
    /\ \A c \in DOMAIN index : order[index[c] + 1] = c
    /\ \A i \in DOMAIN order : order[i] \in DOMAIN index
                               /\ index[order[i]] = i - 1

\* The calls in progress are about ever deeper cells that have been met.
StackDescends ==
    /\ \A f \in DOMAIN stack : stack[f].cell \in DOMAIN index
    /\ \A f, g \in DOMAIN stack : f < g => stack[f].cell < stack[g].cell

\* A reference i of cell c that a call in progress has yet to look at.
Pending(c, i) ==
    \E f \in DOMAIN stack : stack[f].cell = c /\ stack[f].next <= i

\* The induction behind ParentsFirst: only pending references may point back.
OnlyPendingPointBack ==
    \A c \in DOMAIN index : \A i \in DOMAIN refs[c] :
        \/ Pending(c, i)
        \/ refs[c][i] \in DOMAIN index /\ index[c] < index[refs[c][i]]

\* move_to_end only ever looks up cells that index_hashmap has.
MovedAreKnown ==
    \A f \in DOMAIN stack : stack[f].kind = "move" =>
        \A i \in DOMAIN refs[stack[f].cell] :
            refs[stack[f].cell][i] \in DOMAIN index

\* The root comes first: to_boc writes 0 as the root's index.
RootFirst == order # << >> /\ order[1] = Root

\* The inductive invariant.
IInv ==
    /\ TypeOK
    /\ IndexMatchesOrder
    /\ StackDescends
    /\ OnlyPendingPointBack
    /\ MovedAreKnown
    /\ RootFirst

\* When the walk is over every cell comes before the cells it refers to: what
\* parse_cells insists on ("Reference to index which is behind parent cell").
ParentsFirst ==
    Walked => \A c \in DOMAIN index : \A i \in DOMAIN refs[c] :
                  refs[c][i] \in DOMAIN index /\ index[c] < index[refs[c][i]]

\* However often cells are shared, the moves come to an end.
WalkEnds == <>Walked
===============================================================================
