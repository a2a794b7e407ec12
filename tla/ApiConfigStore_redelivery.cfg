\* The harshest stream: split catch-ups, old headers, undecodable messages.
\* A load that hangs stops everything once the server has published its last version.
SPECIFICATION Spec
CONSTANTS
    Key = {k1, k2}
    Reader = {r1}
    ProjectEnvId = 7
    MaxId = 3
    MaxRetries = 1
    SplitCatchUp = TRUE
    LibraryRetries = TRUE
    Undecodable = TRUE
CHECK_DEADLOCK FALSE
SYMMETRY KeySymmetry
INVARIANTS
    TypeOK
    SingleWriter
    EvaluationIsConsistent
    LoadedStoreIsUsable
PROPERTIES
    NoRollback
