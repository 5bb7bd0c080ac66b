SPECIFICATION Spec
INVARIANTS TypeOK NeverReturnsOne CustomersAccounted
CHECK_DEADLOCK FALSE
