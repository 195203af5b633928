-------------------------------- MODULE CellData --------------------------------
(***************************************************************************)
(* What an application stores through builders and reads back through      *)
(* slices (types/_bit_string.py, _builder.py, _slice.py).  A builder's     *)
(* cell is the builder: end_cell hands out its bit string and its list of  *)
(* references, so that whatever is stored afterwards is in the cell, too.  *)
(* A slice copies the bits and shares the list.                            *)
(*                                                                         *)
(* A bit string is the sequence of the bits up to its cursor.  A store is  *)
(* [bits, raises]: what it writes, and whether it then raises; what was    *)
(* written before an exception stays.                                      *)
(***************************************************************************)
EXTENDS Integers, Sequences

CONSTANTS
    Length,     \* bits of a BitString: 1023; its array has whole bytes, one bit more
    HashBytes,  \* bytes of an address's hash_part: 32
    Outer,      \* what is stored in the outer builder: items [kind, datum, width]
    Inner,      \* what is stored in the inner one
    MaxItems    \* bound: items stored in a builder

\* The outer builder may refer to cells of the inner one; "leaf" is a cell
\* from elsewhere.
Builders == {"outer", "inner"}
None == [none |-> TRUE]

VARIABLES
    bits,     \* bits[b]: of builder b and of its cell
    refs,     \* refs[b]
    ended,    \* builders whose cell has been taken
    slice,    \* the slice being read, [cell, bits, ref_offset], or None
    answer,   \* the latest read: [asked, got], or None
    outcome,  \* of end_parse: "none", "clean" or "raised"
    stored,   \* history: stored[b], the items, those of copied cells included
    torn,     \* history: builders that a store has raised in
    sealed,   \* history: sealed[b], what b's cell was when it was taken
    later,    \* history: builders something was stored in since then
    due,      \* history: items the slice has not been asked for
    seen      \* history: references there were when the slice was made

builderVars == <<bits, refs, ended, stored, torn, sealed, later>>
sliceVars == <<slice, answer, outcome, due, seen>>
cellVars == <<builderVars, sliceVars>>

-----------------------------------------------------------------------------
(* Writing.                                                                 *)

Quiet(s) == [bits |-> s, raises |-> FALSE]
Raises == [bits |-> << >>, raises |-> TRUE]
Then(a, b) == IF a.raises THEN a ELSE [b EXCEPT !.bits = a.bits \o @]

\* len(f"{number:b}"); a negative number has a sign before it.
BinaryLength(n) ==
    LET size == IF n < 0 THEN -n ELSE n
        digits == IF n = 0 THEN 1 ELSE CHOOSE l \in 1 .. size : 2 ^ (l - 1) <= size /\ size < 2 ^ l
    IN  digits + (IF n < 0 THEN 1 ELSE 0)

\* write_uint: a negative number that is let through is written as zeros.
Uint(n, w) ==
    IF w = 0 \/ BinaryLength(n) > w
    THEN IF n = 0 THEN Quiet(<< >>) ELSE Raises
    ELSE Quiet([i \in 1 .. w |-> IF n < 0 THEN 0 ELSE (n \div 2 ^ (w - i)) % 2])

\* write_int: the sign goes first, whatever comes of the rest.
Int_(n, w) ==
    IF w = 1 THEN IF n \in {-1, 0} THEN Quiet(<<-n>>) ELSE Raises
    ELSE IF n < 0 THEN Then(Quiet(<<1>>), Uint(2 ^ (w - 1) + n, w - 1))
    ELSE Then(Quiet(<<0>>), Uint(n, w - 1))

\* write_bytes and write_string.
Bytes(s) ==
    Quiet([i \in 1 .. 8 * Len(s) |-> (s[(i + 7) \div 8] \div 2 ^ ((-i) % 8)) % 2])

\* write_grams: half a byte says how many bytes follow.
Grams(n) ==
    LET sz == (BinaryLength(n) + 7) \div 8
    IN  IF n = 0 THEN Uint(0, 4) ELSE Then(Uint(sz, 4), Uint(n, 8 * sz))

\* write_address
AddressBits(a) ==
    IF a = None THEN Uint(0, 2)
    ELSE Then(Then(Uint(2, 2), Uint(0, 1)), Then(Int_(a.wc, 8), Bytes(a.hash_part)))

\* Cell.__bool__: an empty cell is no cell to store_maybe_ref, as None is.
IsTrue(c) == c # "none" /\ (c \in Builders => bits[c] # << >> \/ refs[c] # << >>)
MaybeCell(c) == IF IsTrue(c) THEN <<c>> ELSE << >>

\* What storing an item writes.  store_slice hands the slice's bits to
\* write_bit_array, which calls decode("utf-8") on them: a bitarray refuses.
Written(item) ==
    CASE item.kind \in {"bit", "bits"} -> Quiet(item.datum)
      [] item.kind = "uint" -> Uint(item.datum, item.width)
      [] item.kind = "int" -> Int_(item.datum, item.width)
      [] item.kind = "bytes" -> Bytes(item.datum)
      [] item.kind = "grams" -> Grams(item.datum)
      [] item.kind = "address" -> AddressBits(item.datum)
      [] item.kind = "ref" -> Quiet(<< >>)
      [] item.kind = "maybe_ref" -> Quiet(<<Len(MaybeCell(item.datum))>>)
      [] item.kind = "cell" -> Quiet(bits[item.datum])
      [] item.kind = "slice" -> Raises
      [] item.kind = "maybe_slice" -> Then(Quiet(<<1>>), Raises)

\* Mutant: store_cell refers to the cell instead of copying its references.
NewRefs_shared(item) ==
    CASE item.kind \in {"ref", "cell"} -> <<item.datum>>
      [] item.kind = "maybe_ref" -> MaybeCell(item.datum)
      [] OTHER -> << >>

\* The references it adds.
NewRefs(item) ==
    CASE item.kind = "ref" -> <<item.datum>>
      [] item.kind = "maybe_ref" -> MaybeCell(item.datum)
      [] item.kind = "cell" -> refs[item.datum]
      [] OTHER -> << >>

\* The cell an item is.
Cells(item) == IF item.kind \in {"ref", "maybe_ref", "cell"} THEN {item.datum} ELSE {}

\* store_maybe_ref of no cell.  A cell that is empty when it is stored is none
\* from then on, whatever it holds by the time the slice is asked for it.
NoCell == [kind |-> "maybe_ref", datum |-> "none", width |-> 0]
AsHeld(item) == IF item.kind = "maybe_ref" /\ ~IsTrue(item.datum) THEN NoCell ELSE item

\* The items a slice will be asked for.
Items(item) == IF item.kind = "cell" THEN stored[item.datum] ELSE <<AsHeld(item)>>

\* A cell is what it holds and what the cells below it hold.
Content(b) ==
    [bits |-> bits[b],
     refs |-> [k \in DOMAIN refs[b] |->
                 IF refs[b][k] = "inner" THEN <<bits["inner"], refs["inner"]>>
                 ELSE refs[b][k]]]

Init ==
    /\ bits = [b \in Builders |-> << >>] /\ refs = [b \in Builders |-> << >>]
    /\ ended = {} /\ stored = [b \in Builders |-> << >>] /\ torn = {}
    /\ sealed = [b \in Builders |-> None] /\ later = [b \in Builders |-> {}]
    /\ slice = None /\ answer = None /\ outcome = "none"
    /\ due = << >> /\ seen = 0

\* One store_... call; check_range lets one bit more than Length through.
\* Bounds: MaxItems, nothing more after an exception, and a builder that is
\* stored has ended.
Store(b, item) ==
    LET written == Written(item)
        room == Length + 1 - Len(bits[b])
        fits == Len(written.bits) <= room
        raises == written.raises \/ ~fits
    IN
    /\ Len(stored[b]) < MaxItems /\ b \notin torn
    /\ Cells(item) \cap Builders \subseteq ended \ torn
    /\ bits' = [bits EXCEPT ![b] =
                   @ \o (IF fits THEN written.bits ELSE SubSeq(written.bits, 1, room))]
    /\ refs' = IF raises THEN refs ELSE [refs EXCEPT ![b] = @ \o NewRefs(item)]
    /\ stored' = IF raises THEN stored ELSE [stored EXCEPT ![b] = @ \o Items(item)]
    /\ torn' = IF raises THEN torn \cup {b} ELSE torn
    /\ later' = [c \in Builders |-> IF c \in ended THEN later[c] \cup {b} ELSE {}]
    /\ UNCHANGED <<ended, sealed, sliceVars>>

EndCell(b) ==
    /\ b \notin ended
    /\ ended' = ended \cup {b}
    /\ sealed' = [sealed EXCEPT ![b] = Content(b)]
    /\ UNCHANGED <<bits, refs, stored, torn, later, sliceVars>>

-----------------------------------------------------------------------------
(* Reading.                                                                 *)

Number(s) ==
    LET value[i \in 0 .. Len(s)] == IF i = 0 THEN 0 ELSE 2 * value[i - 1] + s[i]
    IN  value[Len(s)]
From(s, i) == SubSeq(s, i, Len(s))

ReadInt(s, w) ==
    IF w = 1 THEN -s[1]
    ELSE Number(SubSeq(s, 2, w)) - (IF s[1] = 1 THEN 2 ^ (w - 1) ELSE 0)

ReadBytes(s, n) == [i \in 1 .. n |-> Number(SubSeq(s, 8 * i - 7, 8 * i))]

\* read_msg_addr: 00 is no address; from_string takes what it is told of the two
\* workchains that are stored here.
ReadAddress(s) ==
    IF Number(SubSeq(s, 1, 2)) = 0 THEN [value |-> None, size |-> 2]
    ELSE [value |-> [wc |-> ReadInt(From(s, 4), 8),
                     hash_part |-> ReadBytes(From(s, 12), HashBytes)],
          size |-> 11 + 8 * HashBytes]

ReadCoins(s) ==
    LET length == Number(SubSeq(s, 1, 4))
    IN  [value |-> Number(SubSeq(s, 5, 4 + 8 * length)), size |-> 4 + 8 * length]

NextRef == refs[slice.cell][slice.ref_offset + 1]

\* The read that goes with an item, from the bits s and the reference that is
\* next: its value, the bits and references it takes.
Reading(item, s, next) ==
    LET Fixed(value, size) == [value |-> value, size |-> size, refs |-> 0] IN
    CASE item.kind \in {"bit", "bits"} -> Fixed(SubSeq(s, 1, item.width), item.width)
      [] item.kind = "uint" -> Fixed(Number(SubSeq(s, 1, item.width)), item.width)
      [] item.kind = "int" -> Fixed(ReadInt(s, item.width), item.width)
      [] item.kind = "bytes" -> Fixed(ReadBytes(s, item.width), 8 * item.width)
      [] item.kind = "grams" -> Fixed(ReadCoins(s).value, ReadCoins(s).size)
      [] item.kind = "address" -> Fixed(ReadAddress(s).value, ReadAddress(s).size)
      [] item.kind = "ref" -> [value |-> next, size |-> 0, refs |-> 1]
      [] item.kind = "maybe_ref" ->
            IF s[1] = 1 THEN [value |-> next, size |-> 1, refs |-> 1]
            ELSE Fixed("none", 1)

BeginParse(b) ==
    /\ b \in ended
    /\ slice' = [cell |-> b, bits |-> bits[b], ref_offset |-> 0]
    /\ answer' = None /\ outcome' = "none"
    /\ due' = stored[b] /\ seen' = Len(refs[b])
    /\ UNCHANGED builderVars

\* read_..., and preload_int: it reads from the bit string it means to keep.
Read ==
    /\ slice # None /\ due # << >>
    /\ LET read == Reading(Head(due), slice.bits, NextRef) IN
       /\ answer' = [asked |-> Head(due), got |-> read.value]
       /\ slice' = [slice EXCEPT !.bits = From(@, read.size + 1), !.ref_offset = @ + read.refs]
    /\ due' = Tail(due) /\ outcome' = "none"
    /\ UNCHANGED <<builderVars, seen>>

\* preload_bit(s), preload_uint, preload_ref, preload_dict.
Preload ==
    /\ slice # None /\ due # << >>
    /\ Head(due).kind \in {"bit", "bits", "uint", "ref", "maybe_ref"}
    /\ answer' = [asked |-> Head(due), got |-> Reading(Head(due), slice.bits, NextRef).value]
    /\ outcome' = "none"
    /\ UNCHANGED <<builderVars, slice, due, seen>>

\* Mutant: end_parse looks at the bits only.
EndParse_bits_only ==
    /\ slice # None
    /\ outcome' = IF slice.bits = << >> THEN "clean" ELSE "raised"
    /\ UNCHANGED <<builderVars, slice, answer, due, seen>>

EndParse ==
    /\ slice # None
    /\ outcome' = IF slice.bits = << >> /\ slice.ref_offset = Len(refs[slice.cell])
                  THEN "clean" ELSE "raised"
    /\ UNCHANGED <<builderVars, slice, answer, due, seen>>

Next ==
    \/ \E item \in Outer : Store("outer", item)
    \/ \E item \in Inner : Store("inner", item)
    \/ \E b \in Builders : EndCell(b) \/ BeginParse(b)
    \/ Read \/ Preload \/ EndParse

Spec == Init /\ [][Next]_cellVars

-----------------------------------------------------------------------------
TypeOK ==
    /\ \A b \in Builders :
          /\ bits[b] \in Seq({0, 1}) /\ Len(bits[b]) <= Length + 1
          /\ \A k \in DOMAIN refs[b] : refs[b][k] \in {"leaf", "inner"}
    /\ ended \subseteq Builders /\ torn \subseteq Builders
    /\ outcome \in {"none", "clean", "raised"}

\* The values a field of their kind cannot hold: a negative uint and an int below
\* its range, which are stored as other numbers.
IsHeld(item) ==
    /\ item.kind = "uint" => item.datum >= 0
    /\ item.kind = "int" => item.datum >= -(2 ^ (item.width - 1))

\* Stored is read: in the order of storing each read gives the value stored, out
\* of a copied cell, too, and whatever is stored while the slice is read; and
\* end_parse tells whether all has been read, except for references that have
\* been added since and the bits that a failed store left.
ReadBack ==
    /\ TypeOK
    /\ answer # None /\ IsHeld(answer.asked) => answer.got = answer.asked.datum
    /\ outcome = "clean" => due = << >>
    /\ outcome = "raised" =>
          due # << >> \/ slice.cell \in torn \/ Len(refs[slice.cell]) > seen

\* A cell that was taken stays as it was as long as nothing is stored in its own
\* builder or in that of a cell it refers to; cells that were copied into it do
\* not count.
TakenCellsStay ==
    \A b \in ended :
        \/ Content(b) = sealed[b]
        \/ b \in later[b]
        \/ /\ \E k \in DOMAIN stored[b] :
                 stored[b][k].kind \in {"ref", "maybe_ref"} /\ stored[b][k].datum = "inner"
           /\ "inner" \in later[b]
=================================================================================
