\* An API key in the environment, and no option.
SPECIFICATION Spec
CONSTANTS
    NoValue = NoValue
    Null = Null
    TicksPerSecond = 2
    ParserMonth = 5184000
    ParserYear = 63072000
    Env <- KeyInEnv
    Given <- NoOptions
    File <- MCFile
    LogLevelName = {"warn"}
    ServerConfigs <- MCServerConfigs
    AcceptedKey = "key"
    Name <- MCName
    MaxDepth = 2
CHECK_DEADLOCK FALSE
INVARIANTS
    KeyReachesEveryService
