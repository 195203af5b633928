CONSTANTS
    N = 5
    MaxRefs = 2
    BitLengths = {5, 8}
    ByteValues = 5
    KeySize = 4
    Values <- CellValues
    Names = {"b"}
    MaxItems = 3
    Length = 31
    HashBytes = 1
    MaxStores = 2
SPECIFICATION CellsSpec
INVARIANTS IInv ParentsFirst BagReadBack DictReadBack LabelsCanonical StoredIsRead TakenCellsStay
PROPERTY WalkEnds
