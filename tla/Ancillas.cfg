CONSTANTS
    System = {1, 2}
    Clean = {3}
    Borrowable = {4, 5}
    OpQubits <- OneOrTwo
    MaxOps = 4
    MaximizeReuse = FALSE
    MaxSize = 4
    SetupSize = 1
SPECIFICATION Spec
INVARIANTS TypeOK PoolPartition NoAssertionFails LoansAreExclusive LoansAreDistinct
CHECK_DEADLOCK FALSE
