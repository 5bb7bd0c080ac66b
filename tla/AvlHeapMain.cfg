CONSTANTS
  AVL_EMPTY = AVL_EMPTY
  NoKey = NoKey
  DeleteGuard = "as_written"
  N = 1024
  MULTIPLIER = 97
  Keys <- MCKeys
  Addr <- MCAddr
SPECIFICATION Spec
INVARIANTS DriverAssertsHold OneKeyLeft HeightBound FreesEverything
CHECK_DEADLOCK FALSE
