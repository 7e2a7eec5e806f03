SPECIFICATION Spec
CONSTANTS
    r1 = r1
    r2 = r2
    a1 = a1
    a2 = a2
    NoRequest = NoRequest
    Requests <- MCRequests
    Streaming <- NoStreams
    Admins <- OneAdmin
    MaxRounds = 1
    MaxFinished = 1
    Controls <- History
SYMMETRY SameRequests
INVARIANTS
    StopAllCovers
    HistoryBounded

