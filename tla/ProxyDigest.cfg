\* Two clients ask for a blob by digest, with GET and HEAD; the store may start poisoned
\* and may fail.
CONSTANTS
    Clients = {c1, c2}
    v1 = v1
    v2 = v2
    NoObject = NoObject
    Empty = Empty
    Damaged = Damaged
    NoFile = NoFile
    NoURL = NoURL
    NoDigest = NoDigest
    NoResponse = NoResponse
    Contents <- MCContents
    Keys <- MCKeys
    Metas <- MCMetas
    PathDigest <- MCPathDigest
    Requests <- BlobRequests
    InitialStores <- PoisonedStores
    Mode = "serve"
    ReadOnly = FALSE
    StorageFaults = TRUE
    Methods = {}
    ExcludePatterns = {}
    RevalidatePatterns = {}
    Interval = 0
    VerifyDigests = TRUE
    OnMismatch = "error"
    Statuses = {200}
    MaxClock = 0
SPECIFICATION Spec
INVARIANTS TypeOK DigestServed HeadLength
PROPERTIES WrongBodyNeverStored
