\* Two clients ask for a tag that is revalidated after one tick, and for an excluded URL.
CONSTANTS
    Clients = {c1, c2}
    v1 = v1
    v2 = v2
    NoObject = NoObject
    Empty = Empty
    Damaged = Damaged
    NoFile = NoFile
    NoURL = NoURL
    NoDigest = NoDigest
    NoResponse = NoResponse
    ExcludePatterns <- TokenPattern
    RevalidatePatterns <- TagPattern
    Contents <- OneContent
    Keys <- MCKeys
    Metas <- MCMetas
    PathDigest <- MCPathDigest
    Requests <- TagRequests
    InitialStores <- StaleStores
    Mode = "serve"
    ReadOnly = FALSE
    StorageFaults = FALSE
    Methods = {}
    Interval = 1
    VerifyDigests = TRUE
    OnMismatch = "error"
    Statuses = {200, 304, 500}
    MaxClock = 1
SPECIFICATION FairSpec
INVARIANTS FallbackHonoured OnlySuccessStored CountedOnce BypassUncached
PROPERTIES NoStaleHit EventuallyAnswered
