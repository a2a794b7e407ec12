\* Two callers, a bound client and two calls.
SPECIFICATION Spec
CONSTANTS
    c1 = c1
    c2 = c2
    NoValue = NoValue
    Null = Null
    TicksPerSecond = 2
    ParserMonth = 5184000
    ParserYear = 63072000
    Caller = {c1, c2}
    NamedContext <- MCNamedContext
    Name <- MCName
    Data <- MCData
    Written <- MCWritten
    GivenToBind <- MCGivenToBind
    GivenToCall <- MCGivenToCall
    Global <- MCGlobal
    Config <- MCConfig
    Mode <- MCMode
    MaxCalls = 2
    MaxBound = 1
    MaxChanges = 1
INVARIANTS
    ExamplesAreWhatCallsSaw
    ShapesAreWhatWasSeen
    SummariesCountEveryMatch
    PanicsForOddContextsOnly
PROPERTY
    AnswersAreForTheirContexts
SYMMETRY MCSymmetry
CHECK_DEADLOCK FALSE
