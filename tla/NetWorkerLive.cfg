CONSTANTS
    solo = solo
    wide = wide
    pair = pair
    blocked = blocked
    zero = zero
    empty = empty
    home = home
    cdn = cdn
    Ops = {solo, pair, empty}
    Batches = {pair, empty}
    Origins = {home, cdn}
    Timed = {pair}
    Workers = {w1}
    QueueCapacity = 1
    OperationCapacity = 2
    Requests <- MCRequests
    MaxConcurrency <- MCMaxConcurrency
    OriginLimit <- MCOriginLimit
SPECIFICATION FairSpec
PROPERTIES
    WorkerWindsUp
    AnsweredWithoutTransfers
CHECK_DEADLOCK FALSE
