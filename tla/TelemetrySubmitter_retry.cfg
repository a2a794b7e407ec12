\* Summaries only, two retries: does a retry have something to send?
SPECIFICATION Spec
CONSTANTS
    Evaluation = {e1}
    Context = {c1}
    GroupedKey <- SameKey
    NoKey = NoKey
    Options <- SummariesOnly
    Sender = {s1}
    Ticker = ticker
    QueueSize = 1
    MaxAttempts = 3
CHECK_DEADLOCK FALSE
INVARIANTS
    RetriesCarryThePayload
