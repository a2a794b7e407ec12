\* The first fetch fails for good and the stream then delivers.
SPECIFICATION FairSpec
CONSTANTS
    Caller = {c1, c2}
    Key = {k1, k2}
    LocalKey = {k1}
    Options <- ApiOnly
CHECK_DEADLOCK FALSE
PROPERTIES
    StoreWithDataServes
