CONSTANTS
    Fanout = 3
    Values <- DistinctKeys
    Kinds = {"btree"}
    Layouts = {"unclustered"}
    UniqueKeys = TRUE
    InitRows <- Rows3
    MaxRows <- Rows6
    MinRows <- Rows0
    MaxNodes = 7
SPECIFICATION Spec
CHECK_DEADLOCK FALSE
INVARIANT IndexInKeyOrder
