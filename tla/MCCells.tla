-------------------------------- MODULE MCCells --------------------------------
(***************************************************************************)
(* What cells hold and are built from: a bag of cells (BagOfCells), a      *)
(* dictionary (HashmapDict), and the data that builders store and slices   *)
(* read (CellData).  A behaviour is about one of them; the others stay as  *)
(* they are at the start, the bag as a single cell that has been walked,   *)
(* the dictionary and the builders empty.                                  *)
(***************************************************************************)
EXTENDS MCBagOfCells, HashmapDict, Integers

CONSTANTS Length, HashBytes, MaxStores

ASSUME StorageAssumption == Length \in Nat /\ HashBytes \in Nat

VARIABLES
    made, built, built_refs, taken, slice, answer, outcome, stored, torn, sealed, later, due, seen

\* A cell with bits and a reference of its own; store_ref's have no bits.
CellValues == {[bits |-> <<1, 0>>, refs |-> <<"a">>]}

\* What is stored: numbers in and out of their range, an address of the
\* masterchain and none, and cells that share the inner builder's.
Item(kind, datum, width) == [kind |-> kind, datum |-> datum, width |-> width]
Inner == {Item("uint", 1, 1), Item("ref", "leaf", 0)}
Masterchain == [wc |-> -1, hash_part |-> [i \in 1 .. HashBytes |-> 200]]
Outer ==
    {Item("uint", 9, 3), Item("uint", -1, 2), Item("int", -4, 3), Item("int", -5, 3),
     Item("bytes", <<65, 66>>, 2), Item("grams", 300, 0),
     Item("address", Masterchain, 0), Item("address", [none |-> TRUE], 0),
     Item("ref", "inner", 0), Item("maybe_ref", "leaf", 0), Item("maybe_ref", "inner", 0),
     Item("maybe_ref", "none", 0),
     Item("cell", "inner", 0), Item("slice", "inner", 0)}

C == INSTANCE CellData
        WITH bits <- built, refs <- built_refs, ended <- taken, MaxItems <- MaxStores

dataVars == <<built, built_refs, taken, slice, answer, outcome, stored, torn, sealed,
              later, due, seen>>
allVars == <<made, vars, dictVars, dataVars>>

SingleCell ==
    /\ refs = [c \in Cells |-> << >>]
    /\ order = <<Root>> /\ index = [c \in {Root} |-> 0] /\ stack = << >>
    /\ bits = [c \in Cells |-> 8]
    /\ hasIdx = FALSE /\ hasCacheBits = FALSE /\ boc = [index |-> << >>, data |-> << >>]
    /\ offset = 0 /\ cells = << >> /\ phase = "walk"

CellsInit ==
    /\ DictInit /\ C!Init
    /\ \/ made = "bag" /\ MCInit
       \/ made \in {"dictionary", "data"} /\ SingleCell

CellsNext ==
    \/ made = "bag" /\ BocNext /\ UNCHANGED <<made, dictVars, dataVars>>
    \/ made = "dictionary" /\ DictNext /\ UNCHANGED <<made, vars, dataVars>>
    \/ made = "data" /\ C!Next /\ UNCHANGED <<made, vars, dictVars>>

\* The bag has the fairness of its own module.
CellsSpec == CellsInit /\ [][CellsNext]_allVars /\ WF_vars(made = "bag" /\ BocNext)

-----------------------------------------------------------------------------
\* The properties of CellData, as stated and explained there.
StoredIsRead == C!ReadBack
TakenCellsStay == C!TakenCellsStay
===============================================================================
