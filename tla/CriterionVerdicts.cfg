\* Every value a context may hold against every value of a criterion.
SPECIFICATION Spec
CONSTANTS
    Spelling <- MCSpelling
    ContextValue <- MCContextValue
    MatchValue <- MCMatchValue
    HasPrefix <- MCHasPrefix
    HasSuffix <- MCHasSuffix
    ContainsText <- MCContainsText
    Formatted <- MCFormatted
    MatchString <- MCMatchString
    Compiles <- MCCompiles
    parseDate <- MCparseDate
    NoDate = NoDate
    NoVersion = NoVersion
    FloatBits = 3
    MaxExponent = 4
    MaxInt = 31
INVARIANTS
    NegationsAreComplements
    NumbersKeepTheirOrder
    VersionsAreOrdered
