\* Every sound combination of options. A missing file stops NewClient, a panic the process.
SPECIFICATION FairSpec
CONSTANTS
    Caller = {c1, c2}
    Key = {k1, k2}
    LocalKey = {k1}
    Options <- Sound
CHECK_DEADLOCK FALSE
INVARIANTS
    TypeOK
    NeverCrashes
    AnswersComeFromInitializedStore
    InitializedClientNeverTimesOut
PROPERTIES
    EveryCallReturns
    LoadReleasesCallers
