CONSTANTS
    news = news
    mail = mail
    Tabs = {news, mail}
    Workers = {w1}
    QueueCapacity = 1
    CompletionSlack = 0
    MaxGeneration <- NoBound
    Viewports = {"small", "large"}
    FirstTab = news
    FirstViewport = "small"
    MaxChanges = 2
SPECIFICATION PageFairSpec
INVARIANTS
    OneRenderPerTab
    ShowsOwnDocument
    NothingForgotten
PROPERTIES
    Converges
CHECK_DEADLOCK FALSE
