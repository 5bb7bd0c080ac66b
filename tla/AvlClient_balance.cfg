CONSTANTS
  AVL_EMPTY = AVL_EMPTY
  NoKey = NoKey
  DeleteGuard = "as_written"
  Keys <- MCKeys
SPECIFICATION Spec
INVARIANT Balanced
CHECK_DEADLOCK FALSE
