SPECIFICATION FairSpec
CONSTANTS
    a1 = a1
    a2 = a2
    a3 = a3
    o1 = o1
    o2 = o2
    o3 = o3
    NoObject = NoObject
    Attempts <- MCAttempts
    Objects <- TwoObjects
    Limits <- AllLimits
    AdminLimit = TRUE
    AdminClear = TRUE
INVARIANTS
    SlotsAccounted
    NoLostWakeup
PROPERTIES
    ImplementsPool
    DroppedDrained
