CONSTANTS
    solo = solo
    wide = wide
    pair = pair
    blocked = blocked
    zero = zero
    empty = empty
    home = home
    cdn = cdn
    Ops = {wide, blocked, zero}
    Batches = {wide, blocked, zero}
    Origins = {home, cdn}
    Timed = {wide}
    Workers = {w1, w2}
    QueueCapacity = 2
    OperationCapacity = 1
    Requests <- MCRequests
    MaxConcurrency <- MCMaxConcurrency
    OriginLimit <- MCOriginLimit
SPECIFICATION Spec
SYMMETRY MCSymmetry
INVARIANTS
    TypeOK
    OneOwnerOneAnswer
    PermitsMatchOperations
    BatchesInPolicy
    NothingUnattended
PROPERTIES
    AdmittedInOrder
    ImplementsService
CHECK_DEADLOCK FALSE
