\* Every kind of source, value and environment; two ticks to a second.
SPECIFICATION Spec
CONSTANTS
    NoValue = NoValue
    Null = Null
    TicksPerSecond = 2
    ParserMonth = 5184000
    ParserYear = 63072000
    Env <- MCEnv
    Given <- MCGiven
    File <- MCFile
    LogLevelName = {"warn"}
    ServerConfigs <- MCServerConfigs
    AcceptedKey = "key"
    Name <- MCName
    MaxDepth = 2
CHECK_DEADLOCK FALSE
INVARIANTS
    FirstSourceWins
    ConfigsComeBack
    OfflineStaysOffline
    PanicsForKnownReasons
