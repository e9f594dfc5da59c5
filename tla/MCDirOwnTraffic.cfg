SPECIFICATION Spec
CONSTANTS
    a = a
    b = b
    h1 = h1
    h2 = h2
    Nid = {n1, n2}
    NoNid = NoNid
    NoTag = NoTag
    NumPointers = 2
    NumWays = 2
    NumSlots = 2
    L2id = {1}
    Lines = {a, b}
    Line0 = a
    SetOf <- SameSet
    HashOf <- TwoHashes
    Cmds = {0, 1}
    Displacements = {"WI", "WS", "I", "NC"}
    Prefetches = TRUE
    SharersReturnData = TRUE
    SilentDrops = TRUE
    FaultyReplies = TRUE
    DackOnValid = TRUE
    MaxReq = 3
SYMMETRY NodeSymmetry
CHECK_DEADLOCK FALSE
INVARIANTS
    TagsOneHot
    AnsweredOnce
