SPECIFICATION Spec
CONSTANTS
    h1 = h1
    h2 = h2
    h3 = h3
    a1 = a1
    a2 = a2
    Handlers <- ThreeRequests
    Callers <- Calls
    MaxLate = 1
    QueueCapacity = 1
    FlushThreshold = 2
    MaxRows = 1
    Keep = 1
    PendingMaxBytes = 2
    RetentionDays = 2
    DirMaxRecords = 1
    MaxDay = 3
    MaxFaults = 1
    MaxClears = 1
    Addresses <- TwoAddresses
    AddressOf <- Clients
    MaxClients = 1
    MaxReloads = 1
INVARIANT RefusedOnlyAtShutdown
CHECK_DEADLOCK FALSE
