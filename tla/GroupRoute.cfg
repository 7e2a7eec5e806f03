SPECIFICATION Spec
CONSTANTS
    m1 = m1
    m2 = m2
    r1 = r1
    r2 = r2
    NoItem = NoItem
    Items <- MCItems
    Requests <- MCRequests
    Rank <- ClientOrder
    Threshold <- InfraFirst
    EmergencyItem = m2
    EmergencyMaxConcurrent = 1
    MaxAttempts = 2
    MaxRounds = 2
    MaxLevel = 1
    AffinityOn = TRUE
    BackgroundProbe = TRUE
    CooldownClear = TRUE
    AdminReset = FALSE
    AdminToggle = FALSE
INVARIANTS
    CandidateOwned
    HalfOpenOwned
    AffinityHasCurrent
PROPERTY
    LevelFallsOnlyOnRestore
