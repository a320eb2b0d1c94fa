\* The commands reindex and evict, one beside the other, over any small directory
\* with an index that agrees with it or has drifted, while a worker of serve reads,
\* writes and deletes entries.  The system comes to rest when all hits are in:
\* deadlock is not an error.
CONSTANTS
    Keys = {k1, k2}
    k1 = k1
    Sizes = {1, 2}
    Workers = {w1}
    Operations = {"put", "get", "delete"}
    Jobs = {"reindex", "evict"}
    Faults = TRUE
    TargetSize = 1
    MinAge = 1
    StartClock = 4
    MaxClock = 4
    MaxHits = 2
    InitialStates <- AgreeingOrDrifted
SPECIFICATION Spec
INVARIANTS ReindexExact EvictExact
CONSTRAINT SaysSomething
CHECK_DEADLOCK FALSE
