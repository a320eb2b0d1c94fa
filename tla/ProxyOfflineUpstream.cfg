\* A poisoned archive entry in offline mode.
CONSTANTS
    Clients = {c1}
    v1 = v1
    v2 = v2
    NoObject = NoObject
    Empty = Empty
    Damaged = Damaged
    NoFile = NoFile
    NoURL = NoURL
    NoDigest = NoDigest
    NoResponse = NoResponse
    Contents <- MCContents
    Keys <- MCKeys
    Metas <- MCMetas
    PathDigest <- MCPathDigest
    Requests <- BlobOnce
    InitialStores <- PoisonedArchive
    Mode = "offline"
    ReadOnly = TRUE
    StorageFaults = FALSE
    Methods = {}
    ExcludePatterns = {}
    RevalidatePatterns = {}
    Interval = 0
    VerifyDigests = TRUE
    OnMismatch = "error"
    Statuses = {200, 500}
    MaxClock = 0
SPECIFICATION Spec
INVARIANTS OfflineForbidsUpstream
