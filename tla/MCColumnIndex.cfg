CONSTANTS
    Fanout = 3
    Values <- DistinctKeys
    Kinds = {"btree", "sorted"}
    Layouts = {"clustered", "unclustered"}
    UniqueKeys = TRUE
    InitRows <- CheckedInit
    MaxRows <- CheckedMax
    MinRows <- CheckedMin
    MaxNodes = 5
SPECIFICATION Spec
VIEW LiveView
INVARIANTS TypeOK IndexInKeyOrder RangeSelectCorrect
PROPERTY IndexRefinement
CHECK_DEADLOCK FALSE
