------------------------------ MODULE HashmapDict ------------------------------
(***************************************************************************)
(* DictBuilder (types/_dict_builder.py) and serialize_dict                 *)
(* (types/_dict/serialize_dict.py): a dictionary with keys of KeySize bits *)
(* is stored as a binary tree of cells, each of which begins with a label, *)
(* the bits that the keys below it share.  Nothing in the repository reads *)
(* such a tree; contracts do, as the scheme Hashmap of the TON block       *)
(* format describes it (HashmapReader below).                              *)
(*                                                                         *)
(* The keys are those that fit in KeySize bits, as the numbers of messages *)
(* that the library itself stores do.  Neither store_cell nor pad refuses  *)
(* a wider or a negative one: pad leaves it as long as it is, and what is  *)
(* written then is not a tree of that scheme, so that there is nothing for *)
(* a reader to be right about.  Such dictionaries are not modelled.        *)
(*                                                                         *)
(* A cell is its bits and its references; what a stored cell refers to is *)
(* just a name, and a cell of the tree is named by the bits that lead to   *)
(* it.  build_tree and write_edge, which walk the same edges one after the *)
(* other, are one walk here, with a step for every edge.                   *)
(***************************************************************************)
EXTENDS CommonPrefix, FiniteSets

CONSTANTS
    KeySize,   \* key_size
    Values,    \* cells that are stored, [bits, refs]
    Names,     \* cells that are stored by store_ref
    MaxItems   \* bound: items of a dictionary

IsCell(c) == c.bits \in Seq(Bits) /\ c = [bits |-> c.bits, refs |-> c.refs]

ASSUME DictAssumption == KeySize \in Nat /\ \A value \in Values : IsCell(value)

VARIABLES
    items,
    stage,     \* "open"; ended: "writing", then "ended" or, by an assertion, "failed"
    edges,     \* calls of write_edge that are to come, [path, src, n]
    tree,      \* tree[path]: a cell written
    lookup     \* the contract's latest search, [key, at, n, done, found], or None

dictVars == <<items, stage, edges, tree, lookup>>

None == [none |-> TRUE]

\* An unsigned number in as many bits.
Uint(number, width) == [i \in 1 .. width |-> (number \div 2 ^ (width - i)) % 2]

\* ceil(log2(n + 1))
LengthBits(n) ==
    CHOOSE l \in 0 .. n : 2 ^ l >= n + 1 /\ \A m \in 0 .. l - 1 : 2 ^ m < n + 1

is_same(label) == \A i \in DOMAIN label : label[i] = label[1]

label_short_length(label) == 1 + Len(label) + 1 + Len(label)
label_long_length(label, n) == 1 + 1 + LengthBits(n) + Len(label)
label_same_length(n) == 1 + 1 + 1 + LengthBits(n)

\* Mutant: "same" is compared with "short" only when "long" did not win.
detect_label_type_long_first(label, n) ==
    IF label_long_length(label, n) <= label_short_length(label) THEN "long"
    ELSE IF is_same(label) /\ label_same_length(n) < label_short_length(label)
         THEN "same" ELSE "short"

\* The shortest of the three forms, in a tie the one tried first.
detect_label_type(label, n) ==
    LET short == label_short_length(label)
        long == label_long_length(label, n)
        same == label_same_length(n)
    IN  IF is_same(label) /\ same < short /\ same < long THEN "same"
        ELSE IF long < short THEN "long" ELSE "short"

write_label(label, n) ==
    LET kind == detect_label_type(label, n)
        length == Uint(Len(label), LengthBits(n))
        unary == [i \in DOMAIN label |-> 1]
    IN  CASE kind = "short" -> <<0>> \o unary \o <<0>> \o label
          [] kind = "long" -> <<1, 0>> \o length \o label
          [] kind = "same" -> <<1, 1, label[1]>> \o length

\* Mutant: the two branches change places.
Branch_swapped(src, shared, bit) ==
    LET keys == {k \in DOMAIN src : k[shared + 1] # bit}
        Rest(k) == SubSeq(k, shared + 2, Len(k))
    IN  [w \in {Rest(k) : k \in keys} |-> src[CHOOSE k \in keys : Rest(k) = w]]

\* remove_prefix_map and fork_map: the items whose key goes on with bit.
Branch(src, shared, bit) ==
    LET keys == {k \in DOMAIN src : k[shared + 1] = bit}
        Rest(k) == SubSeq(k, shared + 2, Len(k))
    IN  [w \in {Rest(k) : k \in keys} |-> src[CHOOSE k \in keys : Rest(k) = w]]

EmptyCell == [bits |-> << >>, refs |-> << >>]

DictInit ==
    /\ items = << >> /\ stage = "open"
    /\ edges = << >> /\ tree = << >>
    /\ lookup = None

\* A key that is there already and a builder that has ended are assertions.
store_cell(index, value) ==
    /\ stage = "open"
    /\ index \notin DOMAIN items
    /\ items' = [k \in DOMAIN items \cup {index} |->
                    IF k = index THEN value ELSE items[k]]
    /\ UNCHANGED <<stage, edges, tree, lookup>>

store_ref(index, name) == store_cell(index, [bits |-> << >>, refs |-> <<name>>])

\* build_tree pads the keys to key_size bits.
Padded(src) ==
    LET Number(w) == CHOOSE k \in DOMAIN src : Uint(k, KeySize) = w
    IN  [w \in {Uint(k, KeySize) : k \in DOMAIN src} |-> src[Number(w)]]

\* end_cell is the same for a dictionary that is not empty.
end_dict ==
    /\ stage = "open"
    /\ IF items = << >>
       THEN /\ tree' = [path \in {<< >>} |-> EmptyCell]
            /\ stage' = "ended" /\ edges' = edges
       ELSE /\ edges' = <<[path |-> << >>, src |-> Padded(items), n |-> KeySize]>>
            /\ stage' = "writing" /\ tree' = tree
    /\ UNCHANGED <<items, lookup>>

\* One edge: its label, and the value of its only item or a reference to each of
\* the two edges below it.  fork_map asserts that both have items.
write_edge ==
    /\ stage = "writing"
    /\ LET edge == Head(edges)
           label == find_common_prefix(DOMAIN edge.src)
           leaf == Cardinality(DOMAIN edge.src) = 1
           written == write_label(label, edge.n)
           Below(bit) == [path |-> edge.path \o label \o <<bit>>,
                          src |-> Branch(edge.src, Len(label), bit),
                          n |-> edge.n - Len(label) - 1]
           cell == IF leaf THEN [bits |-> written \o edge.src[label].bits,
                                 refs |-> edge.src[label].refs]
                   ELSE [bits |-> written, refs |-> <<Below(0).path, Below(1).path>>]
       IN  IF ~leaf /\ \E bit \in Bits : DOMAIN Below(bit).src = {}
           THEN stage' = "failed" /\ UNCHANGED <<edges, tree>>
           ELSE /\ tree' = [path \in DOMAIN tree \cup {edge.path} |->
                               IF path = edge.path THEN cell ELSE tree[path]]
                /\ edges' = (IF leaf THEN << >> ELSE <<Below(0), Below(1)>>) \o Tail(edges)
                /\ stage' = IF edges' = << >> THEN "ended" ELSE "writing"
    /\ UNCHANGED <<items, lookup>>

-----------------------------------------------------------------------------
(* HashmapReader: how a contract reads the tree.                            *)

\* The label at the start of a cell's bits, and the bits behind it.
ReadLabel(bits, n) ==
    LET Number(from, to) ==
            CHOOSE x \in 0 .. n : Uint(x, LengthBits(n)) = SubSeq(bits, from, to)
        w == LengthBits(n)
    IN  IF bits[1] = 0
        THEN LET k == CHOOSE k \in 0 .. n : /\ bits[k + 2] = 0
                                            /\ \A i \in 1 .. k : bits[i + 1] = 1
             IN  [label |-> SubSeq(bits, k + 3, 2 * k + 2),
                  rest |-> SubSeq(bits, 2 * k + 3, Len(bits))]
        ELSE IF bits[2] = 0
        THEN LET k == Number(3, w + 2)
             IN  [label |-> SubSeq(bits, w + 3, w + k + 2),
                  rest |-> SubSeq(bits, w + k + 3, Len(bits))]
        ELSE [label |-> [i \in 1 .. Number(4, w + 3) |-> bits[3]],
              rest |-> SubSeq(bits, w + 4, Len(bits))]

\* A search starts at the root, with all bits of the key left.
LookUp(key) ==
    /\ stage = "ended" /\ items # << >>
    /\ lookup # None => lookup.done
    /\ lookup' = [key |-> key, at |-> << >>, n |-> KeySize, done |-> FALSE, found |-> << >>]
    /\ UNCHANGED <<items, stage, edges, tree>>

\* The label of a cell has to be what the key goes on with; the next bit tells
\* which reference to follow, unless that was the whole key.
ReadCell ==
    /\ lookup # None /\ ~lookup.done
    /\ LET cell == tree[lookup.at]
           read == ReadLabel(cell.bits, lookup.n)
           shared == Len(read.label)
           rest == SubSeq(lookup.key, KeySize - lookup.n + 1, KeySize)
           matches == shared <= lookup.n /\ SubSeq(rest, 1, shared) = read.label
       IN  lookup' = IF matches /\ shared < lookup.n
                     THEN [lookup EXCEPT !.at = cell.refs[rest[shared + 1] + 1],
                                         !.n = @ - shared - 1]
                     ELSE [lookup EXCEPT !.done = TRUE,
                                         !.found = IF matches
                                                 THEN <<[bits |-> read.rest, refs |-> cell.refs]>>
                                                 ELSE << >>]
    /\ UNCHANGED <<items, stage, edges, tree>>

\* Keys that fit; see above.
DictNext ==
    \/ /\ Cardinality(DOMAIN items) < MaxItems
       /\ \E index \in 0 .. 2 ^ KeySize - 1 :
            \/ \E value \in Values : store_cell(index, value)
            \/ \E name \in Names : store_ref(index, name)
    \/ end_dict \/ write_edge
    \/ \E key \in Words(KeySize) : LookUp(key)
    \/ ReadCell
    \/ stage = "ended" /\ items = << >> /\ UNCHANGED dictVars

-----------------------------------------------------------------------------
\* In a dictionary whose keys fit in KeySize bits a contract that looks a key up
\* finds what was stored under it, the bits and the references of its cell, and
\* nothing under a key that was not stored, whatever the labels' forms and however
\* the keys branch; and the assertions of fork_map hold.
DictReadBack ==
    /\ stage # "failed"
    /\ lookup # None /\ lookup.done =>
          /\ \A k \in DOMAIN items : Uint(k, KeySize) = lookup.key => lookup.found = <<items[k]>>
          /\ lookup.key \notin {Uint(k, KeySize) : k \in DOMAIN items} => lookup.found = << >>

\* Labels have the one form the block format's own writer gives them, so that
\* a dictionary has the hash a contract computes: equal bits as "same" when the
\* length field is shorter than 2 * len - 1, else "long" when it is shorter
\* than the label, else "short".
LabelsCanonical ==
    items # << >> =>
        \A path \in DOMAIN tree :
            LET n == KeySize - Len(path)
                head == SubSeq(tree[path].bits, 1, 2)
                label == ReadLabel(tree[path].bits, n).label
                w == LengthBits(n)
                len == Len(label)
                same == is_same(label) /\ len > 1 /\ w < 2 * len - 1
            IN  CASE same -> head = <<1, 1>>
                  [] ~same /\ w < len -> head = <<1, 0>>
                  [] ~same /\ w >= len -> head[1] = 0
================================================================================
