\* The network recovers and everything decodes; catch-ups may be split.
\* A load that hangs stops everything once the server has published its last version.
SPECIFICATION FairSpec
CONSTANTS
    Key = {k1, k2}
    Reader = {}
    ProjectEnvId = 7
    MaxId = 4
    MaxRetries = 1
    SplitCatchUp = TRUE
    LibraryRetries = FALSE
    Undecodable = FALSE
CHECK_DEADLOCK FALSE
INVARIANTS
    NoMissedUpdate
PROPERTIES
    ImplementsReplica
    EventuallyConverged
    StreamStartsUnlessLoadHangs
