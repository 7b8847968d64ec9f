SPECIFICATION Spec
CONSTANTS
    a = a
    b = b
    w1 = w1
    w2 = w2
    w3 = w3
    None = None
    Keys <- MCKeys
    Hash <- MCHash
    Writes <- MCWrites
    Key <- MCKey
    Size <- MCSize
    MaxBytes = 3
    MaxEntryBytes = 2
    QueueCapacity = 1
    MaxClears = 1
    MaxTrouble = 2
INVARIANTS ReadsAreCurrent ClearedStaysGone WithinCapacity
PROPERTY ClearResolves
CHECK_DEADLOCK FALSE
