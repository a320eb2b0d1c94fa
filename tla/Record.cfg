\* Two sessions in each format, with crashes and failures at any step; a CAS
\* destination is not used twice.
CONSTANTS
    Keys = {k1, k2}
    Clients = {c1}
    Versions = {v1, v2}
    Formats = {"tgz", "cas", "oci"}
    Reuse = {"oci"}
    EntriesPerLayer = 2
    Damaged = Damaged
    NoObject = NoObject
    StorageFaults = TRUE
    ArchiveFaults = TRUE
    InitialStores <- Empty
    MaxSessions = 2
    MaxCalls = 3
SPECIFICATION Spec
INVARIANTS FinalizedReplays QuietComplete UnfinishedStaysOut
SYMMETRY Alike
CHECK_DEADLOCK FALSE
