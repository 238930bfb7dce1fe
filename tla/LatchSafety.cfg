SPECIFICATION Spec
CONSTANT Workers = {w1, w2, w3}
SYMMETRY Symmetry
INVARIANTS TypeOK MutualExclusion WaitersFlagged ListMembership TokensConserved WokenHasToken
PROPERTY ImplementsLatch
CHECK_DEADLOCK FALSE
