\* The same with S3 as the cloud tier, whose page is full with one entry: no call
\* fails and serve does nothing, and yet invalidate --all leaves an entry.
CONSTANTS
    Keys = {k1, k2}
    k1 = k1
    N = 2
    Sizes = {1, 2}
    Good = Good
    Damaged = Damaged
    Absent = Absent
    PagedTiers = {2}
    PageSize = 2
    Invocations <- AllCommands
    MaxFaults = 0
    MaxServed = 0
    InitialTiers <- SomeTiers
    InitialRows <- SomeRows
SPECIFICATION Spec
INVARIANTS DeletesEveryEntry
CHECK_DEADLOCK FALSE
