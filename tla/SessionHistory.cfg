CONSTANTS
    p = p
    q = q
    Urls = {p, q}
    Home = Home
    Nothing = Nothing
    MaxEntries = 3
    MaxRequests = 2
    MaxDocuments = 5
SPECIFICATION HistorySpec
SYMMETRY MCSymmetry
INVARIANTS SettledEntry PopstateIsOwn
CHECK_DEADLOCK FALSE
