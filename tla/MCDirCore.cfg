SPECIFICATION FairSpec
CONSTANTS
    a = a
    b = b
    h1 = h1
    h2 = h2
    Nid = {n1, n2, n3}
    NoNid = NoNid
    NoTag = NoTag
    NumPointers = 3
    NumWays = 2
    NumSlots = 3
    L2id = {1}
    Lines = {a}
    Line0 = a
    SetOf <- OneSet
    HashOf <- OneHash
    Cmds = {0, 1}
    Displacements = {}
    Prefetches = FALSE
    SharersReturnData = FALSE
    SilentDrops = TRUE
    FaultyReplies = FALSE
    DackOnValid = FALSE
    MaxReq = 3
CHECK_DEADLOCK FALSE
INVARIANTS
    BuffersConsistent
    NoUnexpectedAnswer
    SingleWriter
    HoldersTracked
PROPERTIES
    EventuallyAnswered
