CONSTANTS
    t1 = t1
    t2 = t2
    a = a
    b = b
    Threads <- Workers
    Handles <- Names
    MaxResults = 4
    MaxBatch = 3
SPECIFICATION Spec
INVARIANTS ClaimsPartitionBatch ResultsOwnedOnce
PROPERTIES FiledInSubmissionOrder Termination
CHECK_DEADLOCK FALSE
