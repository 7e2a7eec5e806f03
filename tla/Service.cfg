SPECIFICATION Spec
CONSTANTS
    r1 = r1  r2 = r2  a1 = a1  a2 = a2  c1 = c1  c2 = c2  k1 = k1  k2 = k2  m1 = m1  m2 = m2
    Clients <- MCClients
    Settings <- MCSettings
    NoKey = NoKey
    MaxTime = 3
    MaxEdits = 2
    Window = 2
    MaxLag = 1
    Rounds <- MCRounds
    Keys <- MCKeys
    Rpm = 1
    Cooldowns = {1, 2}
    WindowMax = 1
    MaxNow = 3
    MaxTries = 2
    MaxWipes = 1
    Calls <- MCCalls
    MaxFails = 1
    FailWindow = 1
    SweepEvery = 1
    MaxHour = 2
    MaxSecrets = 3
    MaxPasswords = 3
    MaxMishaps = 1
    NoFile = NoFile
    Partial = Partial
    MaxRetries = 3
    MaxUpdates = 2
    MaxEnds = 3
    MaxFaults = 1
    Models <- MCModels
    Reports <- MCReports
    Retentions = {0, 30}
    Hours <- MCHours
    MaxCounted = 2
SYMMETRY Symmetric
INVARIANTS SlotsReturned AccountSafe
PROPERTIES LimitsHold UpdateSafe UsageKept
CHECK_DEADLOCK FALSE
