CONSTANTS
    Fanout = 3
    Values <- DistinctKeys
    Kinds = {"btree", "sorted"}
    Layouts = {"other_clustered", "unclustered"}
    UniqueKeys = TRUE
    InitRows <- Rows3
    MaxRows <- RenumberMax
    MinRows <- Rows0
    MaxNodes = 5
SPECIFICATION Spec
CHECK_DEADLOCK FALSE
PROPERTY IndexRefinement
