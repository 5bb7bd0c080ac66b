CONSTANTS
  AVL_EMPTY = AVL_EMPTY
  NoKey = NoKey
  DeleteGuard = "fixed"
  Keys <- MCKeys
SPECIFICATION Spec
INVARIANTS TypeOK HeightsCorrect BSTOrder
PROPERTIES AbstractSpec
