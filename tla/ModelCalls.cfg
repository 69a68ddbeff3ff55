SPECIFICATION CallSpec
CONSTANTS
    Calls = {c1, c2, c3}
    Retried = {c1, c2}
    Count = 2
    Interval = 2
    Concurrent = 2
    Waits = {1, 3}
    MAX_RETRIES = 1
    MAX_WAIT = 1
    MAX_PAUSE = 2
    Horizon = 2
    Elements = {e1, e2, e3}
    NoElement = NoElement
    Asking = {e1, e2}
    Providers = {p1, p2}
    Missing = {p2}
    MaxCalls = 2
    MaxAsks = 1
    BridgeCalls = {b1, b2}
    NoCall = NoCall
    Pure = {b2}
INVARIANTS TurnsApart RoundsWhole RunOnce
PROPERTIES EveryCallGoes BatchEnds CallsEnd
CHECK_DEADLOCK FALSE
