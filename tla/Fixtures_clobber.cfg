CONSTANTS
  Off = Off
  Fixtures = {"clobber"}
  AliasProgs = {"stack"}
  AliasYValues = {0}
SPECIFICATION Spec
PROPERTY BarReturnsToMain
CHECK_DEADLOCK FALSE
