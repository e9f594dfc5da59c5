SPECIFICATION Spec
CONSTANTS
  Wrap = 2
  NoWord = NoWord
  Interleave = 2
  MaxRtc = 1
  x = x
  y = y
  Programs <- MCPrograms
CHECK_DEADLOCK FALSE
INVARIANTS ReturnsWhereTrapped ScAtomic InstretExact MessagesKept
PROPERTIES TimerTaken TurnsForAll
