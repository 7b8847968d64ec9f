CONSTANTS
    sheet1 = sheet1
    sheet2 = sheet2
    image = image
    Fetches = {sheet1, sheet2, image}
    Ordered <- MCOrdered
    Drained <- MCDrained
    Cached = {image}
    MaxAttempts <- MCMaxAttempts
SPECIFICATION FairSpec
INVARIANTS
    HandlesMatchSubmissions
    ResultsAreOwn
PROPERTIES
    CancelledStaysParked
    EveryBatchDelivered
CHECK_DEADLOCK FALSE
