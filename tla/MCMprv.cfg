CONSTANTS
  Vpns = {0}
  Following = 1
  Crossing = {}
  TLB_ENTRIES = 1
  ICACHE_ENTRIES = 1
  MemPages = 2
  leafPage = leafPage
  Tables = {leafPage}
  RootPtes <- MprvRootPtes
  LeafPtes <- MprvLeafPtes
  Modes <- MprvModes
  Interests = {}
SPECIFICATION Spec
INVARIANT TlbTransparent
CHECK_DEADLOCK FALSE
