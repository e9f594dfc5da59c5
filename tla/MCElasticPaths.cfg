SPECIFICATION PathsSpec
CONSTANTS
    Data = {d1, d2}
    Pos = {p1, p2}
    Width = 2
    MaxSent = 4
    MaxForked = 3
    MaxJoined = 3
    MaxChained = 9
    X = X
    NoRequest = NoRequest
INVARIANTS
    SameOnBothBranches
    PairwiseSums
    AnswersInOrder
PROPERTIES
    ChainIsFifo
    StableUntilTaken
    FifoSpec
    EventuallyDelivered
    EventuallyThrough
    EventuallyAccepted
