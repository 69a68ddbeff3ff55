SPECIFICATION Spec
CONSTANTS
    Sizes = {1, 2}
    Pending = 3
    MaxEvents = 3
    Callers = {f1, f2}
    Closers = {f2}
    MaxQueue = 3
    MaxBatch = 2
    MAX_ATTEMPTS = 2
    MaxSpans = 4
INVARIANTS StreamFaithful BytesHeld SpansAccounted FlushTells
PROPERTIES WriterEnds NothingWaits
CHECK_DEADLOCK FALSE
