CONSTANTS
    PageSize = 4096
    IntSize = 4
    SizeTSize = 8
    TableCapacity = 256
    LoadSizes = {1, 255, 256, 1024}
    MaxRows = 2048
    MaxRestarts = 2
SPECIFICATION Spec
INVARIANT NoInvalidAccess
CHECK_DEADLOCK FALSE
