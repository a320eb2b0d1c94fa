\* Any of the commands, with at most one failing call, over a local and a cloud
\* tier and an index that may have drifted, beside one operation of serve.  The
\* system comes to rest when both are done: deadlock is not an error.
CONSTANTS
    Keys = {k1, k2}
    k1 = k1
    N = 2
    Sizes = {1, 2}
    Good = Good
    Damaged = Damaged
    Absent = Absent
    PagedTiers = {}
    PageSize = 0
    Invocations <- AllCommands
    MaxFaults = 1
    MaxServed = 1
    InitialTiers <- SomeTiers
    InitialRows <- SomeRows
SPECIFICATION Spec
INVARIANTS TypeOK InvalidateComplete ReportExact TiersIndexed ListComplete RowsFollow
PROPERTIES OthersUntouched
CHECK_DEADLOCK FALSE
