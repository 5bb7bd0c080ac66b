CONSTANTS
  AVL_EMPTY = AVL_EMPTY
  NoKey = NoKey
  DeleteGuard = "as_written"
  Keys <- MCKeys
SPECIFICATION Spec
PROPERTY AbstractSpec
CHECK_DEADLOCK FALSE
