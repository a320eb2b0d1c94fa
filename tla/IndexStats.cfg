\* Two workers read, write and delete an entry beside the flush loop and the
\* automatic reindex; statements fail, the process stops or is killed.
CONSTANTS
    Keys = {k1}
    k1 = k1
    Sizes = {1}
    Workers = {w1, w2}
    Operations = {"put", "get", "delete"}
    Jobs = {"autoreindex", "stop", "crash"}
    Faults = TRUE
    TargetSize = 1
    MinAge = 0
    StartClock = 3
    MaxClock = 4
    MaxHits = 2
    InitialStates <- NoIndex
SPECIFICATION FairSpec
VIEW Unmarked
INVARIANTS TypeOK NoHitCountedTwice StatsPreserved
PROPERTIES HitsReachTable ImplementsLedger
