CONSTANTS
  Off = Off
  Fixtures = {"aliasing", "ex", "switches", "predicates", "callstack", "duff", "arrayint", "clobber", "cars"}
  AliasProgs = {"stack"}
  AliasYValues = {0}
SPECIFICATION Spec
INVARIANTS
  AsmAddsFour
  ReachableOnlyThroughState
  NoFallThrough DeadCases
  SiblingCallsBounded OverflowInNonterm FArgAboveTwo
  CopiesExactly
  Telescopes
  LoopBodyDead CarsNeverUnreachable
PROPERTIES AliasingTerminates Outcome DuffTerminates ExLoopEnds
CHECK_DEADLOCK FALSE
