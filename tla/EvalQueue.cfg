SPECIFICATION Spec
CONSTANTS
    x = x
    y = y
    w1 = w1
    w2 = w2
    a1 = a1
    a2 = a2
    NoTask = NoTask
    NoTarget = NoTarget
    MaxTasks = 2
    Targets <- MCTargets
    EvalConcurrency = 2
    Goroutines <- MCGoroutines
    Admins <- OneAdmin
    Enqueuers <- MCEnqueuers
    Batches <- MCBatches
    MaxEnds = 2
INVARIANTS
    OneWorkerPerTask
    RunningOwned
    StopDrains
    ActiveDistinct
PROPERTIES
    FinishedStaysFinished
SYMMETRY Symmetry
