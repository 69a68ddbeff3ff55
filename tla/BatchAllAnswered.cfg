SPECIFICATION BatchFairSpec
CONSTANTS
    Elements = {e1, e2}
    NoElement = NoElement
    Asking = {e1, e2}
    Providers = {p1}
    Missing = {}
    MaxCalls = 1
    MaxAsks = 1
PROPERTY AllAnswered
CHECK_DEADLOCK FALSE
