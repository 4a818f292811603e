CONSTANTS
    Fanout = 3
    Values <- RepeatedKeys
    Kinds = {"btree"}
    Layouts = {"unclustered"}
    UniqueKeys = FALSE
    InitRows <- Rows3
    MaxRows <- Rows4
    MinRows <- Rows0
    MaxNodes = 5
SPECIFICATION Spec
CHECK_DEADLOCK FALSE
INVARIANT RangeSelectCorrect
