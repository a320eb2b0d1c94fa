\* Replay of an intact archive; patterns and staleness notwithstanding.
CONSTANTS
    Clients = {c1, c2}
    v1 = v1
    v2 = v2
    NoObject = NoObject
    Empty = Empty
    Damaged = Damaged
    NoFile = NoFile
    NoURL = NoURL
    NoDigest = NoDigest
    NoResponse = NoResponse
    ExcludePatterns <- TokenPattern
    RevalidatePatterns <- BothPattern
    Contents <- MCContents
    Keys <- MCKeys
    Metas <- MCMetas
    PathDigest <- MCPathDigest
    Requests <- OfflineRequests
    InitialStores <- Archives
    Mode = "offline"
    ReadOnly = TRUE
    StorageFaults = FALSE
    Methods = {}
    Interval = 1
    VerifyDigests = TRUE
    OnMismatch = "error"
    Statuses = {200, 500}
    MaxClock = 1
SPECIFICATION Spec
INVARIANTS OfflineReplay
