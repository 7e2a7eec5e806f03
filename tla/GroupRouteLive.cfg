SPECIFICATION FairSpec
CONSTANTS
    m1 = m1
    m2 = m2
    r1 = r1
    r2 = r2
    NoItem = NoItem
    Items <- MCItems
    Requests <- MCRequests
    Rank <- ClientOrder
    Threshold <- InfraFirst
    EmergencyItem = m2
    EmergencyMaxConcurrent = 1
    MaxAttempts = 2
    MaxRounds = 1
    MaxLevel = 1
    AffinityOn = TRUE
    BackgroundProbe = TRUE
    CooldownClear = TRUE
    AdminReset = TRUE
    AdminToggle = TRUE
PROPERTIES
    CandidateResolved
    HalfOpenResolved
    RequestLeavesLoop
