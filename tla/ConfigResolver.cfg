\* One call at a time; the API store changes up to twice during it.
SPECIFICATION Spec
CONSTANTS
    Spelling <- MCSpelling
    ContextValue <- MCContextValue
    MatchValue <- MCMatchValue
    HasPrefix <- MCHasPrefix
    HasSuffix <- MCHasSuffix
    ContainsText <- MCContainsText
    Formatted <- MCFormatted
    MatchString <- MCMatchString
    Compiles <- MCCompiles
    parseDate <- MCparseDate
    NoDate = NoDate
    NoVersion = NoVersion
    FloatBits = 3
    MaxExponent = 4
    MaxInt = 31
    Buckets = 12
    MaxInt32 = 7
    Key <- Keys
    Property <- Properties
    CurrentTime = {"now"}
    Times = {4, 6}
    Stores <- MCStores
    ApiAt = 2
    ApiContents <- MCApiContents
    PassedContexts <- MCPassedContexts
    LookupEnv <- MCLookupEnv
    OSLookupEnv <- MCOSLookupEnv
    JsonText <- MCJsonText
    ParseFloat <- MCParseFloat
    Parts <- MCParts
    HexDigits <- MCHexDigits
    OpenGCM <- MCOpenGCM
    Sum32 <- MCSum32
    MaxUint32 = 255
    NoConfig = NoConfig
    NoText = NoText
    Panics = Panics
    NoKey = NoKey
    MaxUpdates = 2
INVARIANTS
    AnswerIsTheMeaning
    SegmentsNestFinitely
    ConfidentialStaysConfidential
    ProvidedValueHasItsType
    EveryValueGetsItsShare
PROPERTIES
    EveryCallReturns
