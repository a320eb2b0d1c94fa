\* Two clients and the evict command over a local and a cloud tier that may
\* disagree at the start and fail at any time.
CONSTANTS
    N = 2
    Clients = {c1, c2}
    v1 = v1
    Versions = {v1, v2}
    Operations = {"put", "get", "delete", "evict"}
    Torn = {1}
    Damaged = Damaged
    NoObject = NoObject
    Unknown = Unknown
    ReadFaults = TRUE
    WriteFaults = TRUE
    InitialTiers <- EmptyOrShared
SPECIFICATION Spec
INVARIANTS SettledAgree
PROPERTIES BackfillTransparent
