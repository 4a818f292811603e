CONSTANTS
    Fanout = 3
    Values <- DistinctKeys
    Kinds = {"btree"}
    Layouts = {"unclustered"}
    UniqueKeys = TRUE
    InitRows <- Rows4
    MaxRows <- Rows5
    MinRows <- Rows0
    MaxNodes = 5
SPECIFICATION Spec
CHECK_DEADLOCK FALSE
INVARIANT NoCrash
