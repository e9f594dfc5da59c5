CONSTANTS
  Vpns = {0, 2}
  Following = 2
  Crossing = {0}
  TLB_ENTRIES = 1
  ICACHE_ENTRIES = 3
  MemPages = 3
  leafPage = leafPage
  Tables = {leafPage}
  RootPtes <- MCRootPtes
  LeafPtes <- MCLeafPtes
  Modes <- MCModes
  Interests <- MCInterests
  InsnList <- MCInsnList
  Words = {0, 1, 2, 3, 5, 6, 7, 8, 9, 10, 11, 12, 14, 15}
  OPCODE_CACHE_SIZE = 3
  AddrSpace = 128
  memsz = 16
  Harts = 2
  max_devtree_size = 16
  RomSize = 12
  XlenBytes = 8
  NCSR = 4
  IntSpace = 4
  Implemented = {1, 2}
  Lens = {1, 2, 4, 8}
SPECIFICATION MCSpec
INVARIANTS TlbTransparent IcacheTransparent EveryAccessTraced DecodesAsListed MmioReachesOwner
CHECK_DEADLOCK FALSE
