CONSTANTS
  AVL_EMPTY = AVL_EMPTY
  NoKey = NoKey
  DeleteGuard = "fixed"
  Keys <- MCKeys
  Addr = {a1, a2, a3, a4}
SPECIFICATION CallSpec
PROPERTY RefinesClient
