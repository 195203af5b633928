------------------------------ MODULE BagOfCells ------------------------------
(***************************************************************************)
(* A bag of cells written by Cell.to_boc and read back by                  *)
(* from_boc_multi_root (types/_cell.py).  The cells are put in order by    *)
(* TreeWalk, written one after the other as bytes, and read back cell by   *)
(* cell.                                                                   *)
(*                                                                         *)
(* A cell's data is a few bits, which differ from cell to cell among the   *)
(* first fifteen.  The magic number, the checksum and the widths of the    *)
(* header's numbers, which to_boc and from_boc_multi_root agree on, are    *)
(* left out; the widths of the references are not: the writer gives each   *)
(* the bytes its own number needs, the reader the bytes that the number of *)
(* cells needs.                                                            *)
(***************************************************************************)
EXTENDS TreeWalk

CONSTANTS
    BitLengths,  \* numbers of data bits a cell may have, from 1 to 8
    ByteValues   \* how many numbers a byte of a reference tells apart: 256,
                 \* or fewer for references to take two bytes in small bags

ASSUME BitLengthsAssumption == BitLengths \subseteq 1 .. 8
ASSUME ByteValuesAssumption == ByteValues \in 2 .. 256
ASSUME TwoBytesAssumption == N < ByteValues * ByteValues
ASSUME FourRefsAssumption == MaxRefs <= 4

VARIABLES
    bits,    \* bits[c]: the number of data bits of c, bits.cursor
    hasIdx, hasCacheBits,  \* arguments of to_boc, looked at after the walk
    boc,     \* what to_boc has written: the index and the bytes of the cells
    offset,  \* parse_cells: where it reads
    cells,   \* parse_cells: the cells read so far
    phase    \* "walk", "parse", "done" or "failed"

bocVars == <<bits, hasIdx, hasCacheBits, boc, offset, cells, phase>>
vars == <<walkVars, bits, hasIdx, hasCacheBits, boc, offset, cells, phase>>

BocInit ==
    /\ Init
    /\ bits \in [Cells -> BitLengths]
    /\ hasIdx = FALSE /\ hasCacheBits = FALSE
    /\ boc = [index |-> << >>, data |-> << >>]
    /\ offset = 0
    /\ cells = << >>
    /\ phase = "walk"

CellsNum == Len(order)

\* How many bytes a number takes, and those bytes, the highest first.
Width(n) == IF n < ByteValues THEN 1 ELSE 2
ToBytes(n) == IF n < ByteValues THEN <<n>> ELSE <<n \div ByteValues, n % ByteValues>>

\* Both sides work out s_bytes from the number of cells.
RefSize == Width(CellsNum)

\* The data of a cell: its bits, a tag bit if they do not fill the byte, zeros.
DataByte(c) == IF bits[c] = 8 THEN (16 * c + 1) % 256
               ELSE (c % 2 ^ bits[c]) * 2 ^ (8 - bits[c]) + 2 ^ (7 - bits[c])

\* Mutant: the two halves of the descriptor are both rounded down.
BitsDescriptor_rounded_down(n) == (n \div 8) + (n \div 8)

\* ceil(bits / 8) + floor(bits / 8)
BitsDescriptor(n) == ((n + 7) \div 8) + (n \div 8)

\* One sequence behind the other.
Joined(ss) ==
    LET joined[i \in 0 .. Len(ss)] == IF i = 0 THEN << >> ELSE joined[i - 1] \o ss[i]
    IN  joined[Len(ss)]

\* serialize_for_boc: a reference is as many bytes as its own number takes.
SerializeForBoc(c) ==
    <<Len(refs[c]), BitsDescriptor(bits[c]), DataByte(c)>>
    \o Joined([i \in DOMAIN refs[c] |-> ToBytes(index[refs[c][i]])])

ToBoc ==
    /\ phase = "walk" /\ Walked
    /\ hasIdx' \in BOOLEAN /\ hasCacheBits' \in BOOLEAN
    /\ LET written == [k \in DOMAIN order |-> SerializeForBoc(order[k])] IN
       boc' = [index |-> IF hasIdx' THEN [k \in DOMAIN order |-> Len(written[k])]
                         ELSE << >>,
               data |-> Joined(written)]
    /\ phase' = "parse"
    /\ UNCHANGED <<walkVars, bits, offset, cells>>

\* The byte at a place counted from 0, and the bytes of a slice data[from : to].
ByteAt(at) == boc.data[at + 1]
Slice(from, to) == SubSeq(boc.data, from + 1, IF to < Len(boc.data) THEN to ELSE Len(boc.data))

\* big_int
BigInt(bytes) ==
    LET value[i \in 0 .. Len(bytes)] ==
            IF i = 0 THEN 0 ELSE ByteValues * value[i - 1] + bytes[i]
    IN  value[Len(bytes)]

\* The hashes that a cell with the flag 0b10000 has before its data.
HashesSize(flags) ==
    IF (flags \div 16) % 2 = 0 THEN 0
    ELSE LET level == flags \div 32
             mask_bits == IF level = 0 THEN 0 ELSE IF level = 1 THEN 1
                          ELSE IF level < 4 THEN 2 ELSE 3
         IN  (mask_bits + 1) * (32 + 2)

\* The number of bits after cutting the tag: its place y is counted from the
\* low end of the last byte.
UntaggedSize(ln, payload) ==
    LET ones == {y \in 0 .. 7 : (payload[Len(payload)] \div 2 ^ y) % 2 = 1} IN
    IF ln % 2 = 0 \/ ones = {} THEN ln * 4
    ELSE ln * 4 + 3 - (CHOOSE y \in ones : \A z \in ones : y <= z)

Fail == phase' = "failed" /\ UNCHANGED <<offset, cells>>

\* What from_boc_multi_root looks at before it reads the cells.
HeaderRefused ==
    \/ hasCacheBits /\ ~hasIdx
    \/ CellsNum > Len(boc.data) \div 2

\* The index has no cache bits in it, but is read as if it had.
Index(i) == IF hasCacheBits THEN boc.index[i] \div 2 ELSE boc.index[i]

\* One cell, with every check that parse_cells makes on the way.
ParseCell ==
    LET i == Len(cells)
        size == Len(boc.data)
        at == IF boc.index = << >> THEN offset
              ELSE IF i > 0 THEN Index(i) ELSE 0
        flags == ByteAt(at)
        refs_num == flags % 8
        ln == ByteAt(at + 1)
        sz == (ln \div 2) + (ln % 2)
        data_at == at + 2 + HashesSize(flags)
        payload == Slice(data_at, data_at + sz)
        refs_at == data_at + sz
        \* the comprehension reads the same bytes for every reference
        id == BigInt(Slice(refs_at, refs_at + RefSize))
        behind == boc.index = << >> /\ id < i
    IN
    /\ phase = "parse" /\ i < CellsNum
    /\ IF \/ HeaderRefused
          \/ size - offset < 2
          \/ at + 2 > size
          \/ refs_num > 4
          \/ size - (at + 2) < sz
          \/ size - refs_at < refs_num * RefSize
          \/ refs_num > 0 /\ (id = i \/ behind \/ id >= CellsNum)
       THEN Fail
       ELSE /\ offset' = refs_at + refs_num * RefSize
            /\ cells' = Append(cells,
                          [exotic |-> (flags \div 8) % 2 = 1,
                           array |-> payload,
                           cursor |-> 8 * sz,
                           length |-> UntaggedSize(ln, payload),
                           refs |-> [k \in 1 .. refs_num |-> id]])
            /\ phase' = phase
    /\ UNCHANGED <<walkVars, bits, hasIdx, hasCacheBits, boc>>

EndParse ==
    /\ phase = "parse" /\ Len(cells) = CellsNum
    /\ phase' = "done"
    /\ UNCHANGED <<walkVars, bits, hasIdx, hasCacheBits, boc, offset, cells>>

WalkStep == phase = "walk" /\ Walk /\ UNCHANGED bocVars

Finished == phase \in {"done", "failed"}

BocNext ==
    \/ WalkStep \/ ToBoc \/ ParseCell \/ EndParse
    \/ Finished /\ UNCHANGED vars

BocSpec == BocInit /\ [][BocNext]_vars

\* Nothing interrupts the two functions.
FairBocSpec == BocSpec /\ WF_vars(BocNext)

-----------------------------------------------------------------------------
BocTypes ==
    /\ bits \in [Cells -> BitLengths]
    /\ hasIdx \in BOOLEAN /\ hasCacheBits \in BOOLEAN
    /\ boc.index \in Seq(1 .. 3 + 2 * MaxRefs)
    /\ boc.data \in Seq(0 .. 255)
    /\ offset \in 0 .. Len(boc.data)
    /\ \A k \in DOMAIN cells :
          /\ cells[k].array \in Seq(0 .. 255)
          /\ cells[k].cursor \in 0 .. 8 * Len(cells[k].array)
          /\ cells[k].length \in 0 .. cells[k].cursor
          /\ \A j \in DOMAIN cells[k].refs : cells[k].refs[j] \in 0 .. CellsNum - 1
    /\ phase \in {"walk", "parse", "done", "failed"}

\* Whether what was read for place k is the cell that was written there, up to
\* its references after the first.
ReadAs(k, c) ==
    /\ cells[k].array = <<DataByte(c)>>
    /\ cells[k].length = bits[c]
    /\ ~cells[k].exotic
    /\ Len(cells[k].refs) = Len(refs[c])
    /\ refs[c] # << >> => cells[k].refs[1] = index[refs[c][1]]

\* The bags whose number of cells takes one byte, as all their references then do.
OneByteRefs == CellsNum < ByteValues

\* Of bags of fewer than ByteValues cells every one is read back without an index,
\* each cell with its data, its number of references and its first reference;
\* with an index, bags of up to two cells, and with cache bits, which need one,
\* single cells.
ReadBack ==
    /\ OneByteRefs
    /\ \/ ~hasIdx /\ ~hasCacheBits
       \/ hasIdx /\ CellsNum <= (IF hasCacheBits THEN 1 ELSE 2)
    =>
        /\ phase # "failed"
        /\ \A k \in DOMAIN cells : ReadAs(k, order[k])

\* In such a bag cells of whole bytes that refer to one cell at most come back as
\* they were.
SameChain ==
    /\ Finished /\ OneByteRefs /\ ~hasIdx /\ ~hasCacheBits
    /\ \A c \in DOMAIN index : bits[c] = 8 /\ Len(refs[c]) <= 1
    => /\ phase = "done"
       /\ \A k \in DOMAIN order :
             /\ cells[k].cursor = bits[order[k]]
             /\ cells[k].refs = [j \in DOMAIN refs[order[k]] |-> index[refs[order[k]][j]]]

\* What is written is what is read, as far as the two sides agree: that leaves out
\* bags of ByteValues cells or more, tags, and what comes behind the first reference
\* of a cell.
BagReadBack == BocTypes /\ ReadBack /\ SameChain

\* What the comment in parse_cells says of a last byte that is not full ("find
\* last bit of byte which indicates the end and cut it and next"): the tag is no
\* part of the bits that are read from the cell.
TagIsCut ==
    phase = "done" /\ ~hasIdx => \A k \in DOMAIN cells : cells[k].cursor = bits[order[k]]
===============================================================================
