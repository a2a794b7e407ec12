\* Shapes with or without summaries, or nothing; the ticker and a sender compete for the mutex.
SPECIFICATION FairSpec
CONSTANTS
    Evaluation = {e1, e2}
    Context = {c1}
    GroupedKey <- KeyLess
    NoKey = NoKey
    Options <- ShapesOrNothing
    Sender = {s1}
    Ticker = ticker
    QueueSize = 1
    MaxAttempts = 2
CHECK_DEADLOCK FALSE
PROPERTIES
    EverySubmitReturns
    EverythingIsSettled
