SPECIFICATION FairSpec
CONSTANTS
    x = x
    y = y
    w1 = w1
    w2 = w2
    a1 = a1
    a2 = a2
    NoTask = NoTask
    NoTarget = NoTarget
    MaxTasks = 2
    Targets <- MCTargets
    EvalConcurrency = 1
    Goroutines <- MCGoroutines
    Admins <- OneAdmin
    Enqueuers <- MCEnqueuers
    Batches <- OneBatch
    MaxEnds = 1
INVARIANTS
    WorkersBounded
PROPERTIES
    QueuedDispatched
    StopReturns
