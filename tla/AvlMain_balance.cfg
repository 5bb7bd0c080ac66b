CONSTANTS
  AVL_EMPTY = AVL_EMPTY
  DeleteGuard = "as_written"
  N = 1024
  MULTIPLIER = 97
SPECIFICATION Spec
INVARIANT Balanced
CHECK_DEADLOCK FALSE
