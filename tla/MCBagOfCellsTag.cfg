CONSTANTS
    N = 3
    MaxRefs = 2
    BitLengths = {5, 8}
    ByteValues = 256
SPECIFICATION MCSpec
INVARIANT TagIsCut
