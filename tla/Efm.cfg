CONSTANT MaxX1 <- MCMaxX1
SPECIFICATION Spec
INVARIANTS TypeOK NeverUnreachable ChainCallsInert
CHECK_DEADLOCK FALSE
