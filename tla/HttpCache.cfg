CONSTANTS
    page = page
    font = font
    en1 = en1
    en2 = en2
    en3 = en3
    fr1 = fr1
    ft1 = ft1
    Keys = {page, font}
    Fetches = {en1, en2, fr1, ft1}
    Fields = {"lang", "dpr"}
    Cacheable = {en1, en2, fr1, ft1}
    KeyOf <- MCKeyOf
    HeaderOf <- MCHeaderOf
    Needs <- MCNeeds
    SizeOf <- MCSizeOf
    Answers <- MCAnswers
    Updates <- MCUpdates
    MaxEntries = 2
    MaxBytes = 2
    MaxEntryBytes = 2
    MaxTime = 1
    MaxClears = 1
    MaxVersion = 2
SPECIFICATION Spec
INVARIANTS
    WithinBudget
    VariantsApart
    ClearedStaysCleared
PROPERTIES
    RetainedIsServed
CHECK_DEADLOCK FALSE
