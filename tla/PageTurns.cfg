CONSTANTS
    MaxPendingTasks = 2
    MaxPendingTimers = 2
    MaxPendingMicrotasks = 2
    MaxTimers = 2
    Delay <- MCDelay
    Intervals <- MCIntervals
    MaxMicrotasks = 2
    MaxTasks = 2
    MaxSettled = 1
    MaxSourceBytes = 2
    MaxPerCheckpoint = 1
    TurnBudget = 2
    MaxTime = 1
SPECIFICATION FairSpec
INVARIANTS
    TimersAccounted
    RunInOrder
PROPERTIES
    EveryTurnComes
