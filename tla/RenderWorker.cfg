CONSTANTS
    front = front
    back = back
    Tabs = {front, back}
    Workers = {w1, w2}
    QueueCapacity = 1
    CompletionSlack = 1
    MaxGeneration <- MCMaxGeneration
SPECIFICATION FairSpec
INVARIANTS
    LatestWithinBounds
    BusyIsExact
PROPERTIES
    EverySubmissionSettles
    NoLostWakeUp
CHECK_DEADLOCK FALSE
