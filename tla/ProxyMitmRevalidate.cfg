\* A revalidated tag asked for through the MITM path.
CONSTANTS
    Clients = {c1}
    v1 = v1
    v2 = v2
    NoObject = NoObject
    Empty = Empty
    Damaged = Damaged
    NoFile = NoFile
    NoURL = NoURL
    NoDigest = NoDigest
    NoResponse = NoResponse
    RevalidatePatterns <- TagPattern
    Contents <- MCContents
    Keys <- MCKeys
    Metas <- MCMetas
    PathDigest <- MCPathDigest
    Requests <- MitmRequests
    InitialStores <- MitmStores
    Mode = "serve"
    ReadOnly = FALSE
    StorageFaults = FALSE
    Methods = {}
    ExcludePatterns = {}
    Interval = 1
    VerifyDigests = TRUE
    OnMismatch = "error"
    Statuses = {200, 500}
    MaxClock = 1
SPECIFICATION Spec
PROPERTIES NoStaleHit
