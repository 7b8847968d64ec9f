CONSTANTS
    get = get
    post = post
    None = None
    Requests = {get, post}
    Conns = {1, 2}
    Body <- MCBody
    Safe = {get}
    StreamLimit <- MCStreamLimit
    ConnWindow = 2
    SendWindow = 1
    RecvWindow = 2
    NewWindow = 0
    MaxBodySize = 1
    MaxResponse <- MCMaxResponse
    MaxInbound = 2
    Eventful = {1}
SPECIFICATION Spec
INVARIANT HeaderBlockHasStream
CHECK_DEADLOCK FALSE
