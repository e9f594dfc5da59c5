SPECIFICATION Spec
CONSTANTS
    a = a
    b = b
    h1 = h1
    h2 = h2
    Nid = {n1, n2, n3, n4}
    NoNid = NoNid
    NoTag = NoTag
    NumPointers = 3
    NumWays = 2
    NumSlots = 2
    L2id = {1}
    Lines = {a}
    Line0 = a
    SetOf <- OneSet
    HashOf <- OneHash
    Cmds = {0, 1}
    Displacements = {}
    Prefetches = FALSE
    SharersReturnData = TRUE
    SilentDrops = FALSE
    FaultyReplies = FALSE
    DackOnValid = FALSE
    MaxReq = 4
SYMMETRY NodeSymmetry
CHECK_DEADLOCK FALSE
INVARIANTS
    FoundMeansAnswered
