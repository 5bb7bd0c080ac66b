CONSTANTS
  Off = Off
  Fixtures = {"aliasing"}
  AliasProgs = {"global"}
  AliasYValues <- AliasYRange
SPECIFICATION Spec
INVARIANT AsmAddsFour
CHECK_DEADLOCK FALSE
