SPECIFICATION Spec
CONSTANTS
    ReadIds <- MCReadIds
    DispIds <- MCDispIds
    Lines <- MCLines
    Masks = {"full"}
    MaxReads = 0
    MaxDisps = 2
    MaxPrefetches = 0
    MaxSnacks = 0
    MaxAccesses = 2
PROPERTIES
    DackWithDisp
