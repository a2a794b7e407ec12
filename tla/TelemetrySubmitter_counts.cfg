\* Every combination of options; two contexts with one key, a queue of two, one retry.
SPECIFICATION Spec
CONSTANTS
    Evaluation = {e1, e2}
    Context = {c1, c2}
    GroupedKey <- SameKey
    NoKey = NoKey
    Options <- AllOptions
    Sender = {s1}
    Ticker = ticker
    QueueSize = 2
    MaxAttempts = 2
CHECK_DEADLOCK FALSE
SYMMETRY ItemSymmetry
INVARIANTS
    TypeOK
    EverythingCountedOnce
    DrainMissesAtMostOne
    OneExamplePerKey
PROPERTIES
    SuccessMeansReceived
