CONSTANTS
    Vals = {0, 1, 2, 3}
    JoinVals = {0, 1}
    MaxLen = 4
    BlockInts = 3
SPECIFICATION Spec
INVARIANTS PosInSortedKeepsOrder MergeSortIsStableSort NestedJoinsAreEquiJoin
    ScanSelectsAreConjunction AggregatesMatchReference TableKeepsRowsWhole
