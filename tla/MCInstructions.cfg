CONSTANTS
  Harts = {h1, h2}
  Kinds = {"arith", "convert", "harts", "integer", "memory"}
SPECIFICATION Spec
INVARIANTS FloatExact IntegerExact
CHECK_DEADLOCK FALSE
