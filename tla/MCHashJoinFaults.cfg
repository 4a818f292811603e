CONSTANTS
    Slot = 4
    Keys <- JoinKeys
    ProbeKeysOf <- AnyKey
    Sizes <- ResizeSizes
    DefaultCapacity = 32
SPECIFICATION Spec
INVARIANT NoMemoryFault
CHECK_DEADLOCK FALSE
