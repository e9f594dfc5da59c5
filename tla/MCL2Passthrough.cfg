SPECIFICATION FairSpec
CONSTANTS
    ReadIds <- MCReadIds
    DispIds <- MCDispIds
    Lines <- MCLines
    Masks = {"full", "partial"}
    MaxReads = 3
    MaxDisps = 1
    MaxPrefetches = 1
    MaxSnacks = 2
    MaxAccesses = 3
INVARIANTS
    ReadsInOrder
    SnacksInOrder
    DispsOwnAddress
PROPERTIES
    EventuallyRequested
