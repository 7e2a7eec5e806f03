SPECIFICATION FairSpec
CONSTANTS
    r1 = r1
    r2 = r2
    a1 = a1
    a2 = a2
    NoRequest = NoRequest
    Requests <- OneRequest
    Streaming <- Streams
    Admins <- TwoAdmins
    MaxRounds = 2
    MaxFinished = 1
    Controls <- StopOrInterrupt
INVARIANTS
    NoOrphanResponse
    StopReachesResponse
PROPERTIES
    LateStopHarmless
    CutRoundEnds
    StopHeeded
