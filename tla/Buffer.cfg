CONSTANTS
    Streams = {s1, s2}
    MDU = 1
    MaxChunkLen = 2
    CompressAbove = 1
    Sizes = {3}
    MaxMessages = 3
SPECIFICATION Spec
INVARIANTS
    BytesInOrder
    EofIsTheEnd
    SleeperHasNothing
CHECK_DEADLOCK FALSE
SYMMETRY StreamSymmetry
