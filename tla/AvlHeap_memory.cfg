CONSTANTS
  AVL_EMPTY = AVL_EMPTY
  NoKey = NoKey
  DeleteGuard = "fixed"
  Keys <- MCKeysMemory
  Addr = {a1, a2, a3, a4, a5}
SYMMETRY MCSymmetry
SPECIFICATION Spec
INVARIANTS TreeShaped NoDangling NoLeak
CHECK_DEADLOCK FALSE
