\* A proxy and two exports start, stop, fail and are killed at any point, while
\* the proxy signs leaves of three hours for three hosts into two slots.
CONSTANTS
    Hosts = {h1, h2, h3}
    NoCert = NoCert
    MaxSize = 2
    Lifetime = 3
    renewMargin = 1
    MaxClock = 5
    Server = server
    Exporters = {e1, e2}
    NoFile = NoFile
    Damaged = Damaged
    Faults = TRUE
    MaxAuthorities = 2
SPECIFICATION AuthoritySpec
INVARIANTS OrderMatchesMap ServedOutlivesMargin ExportedRootKept ServedChainsToTrusted PairMatches
