CONSTANTS
    t1 = t1
    t2 = t2
SPECIFICATION Spec
INVARIANTS TypeOK GetReturnsAllInOrder HashJoinMatchesNestedLoop DisjointClaimsAndSlices ParallelJoinCorrect
PROPERTY Termination
CHECK_DEADLOCK FALSE
