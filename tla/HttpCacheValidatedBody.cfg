CONSTANTS
    page = page
    font = font
    en1 = en1
    en2 = en2
    en3 = en3
    fr1 = fr1
    ft1 = ft1
    Keys = {page, font}
    Fetches = {en1, en2, en3}
    Fields = {"lang"}
    Cacheable = {en1, en2, en3}
    KeyOf <- MCKeyOf
    HeaderOf <- MCHeaderOf
    Needs <- MCNeeds
    SizeOf <- MCSizeOf
    Answers <- SimpleAnswers
    Updates <- SimpleUpdates
    MaxEntries = 2
    MaxBytes = 3
    MaxEntryBytes = 2
    MaxTime = 2
    MaxClears = 0
    MaxVersion = 2
SPECIFICATION Spec
INVARIANTS
    ValidatedBody
CHECK_DEADLOCK FALSE
