SPECIFICATION Spec
CONSTANTS
    Paths = {1, 2}
    Contents = {a, b}
    None = None
    Partial = Partial
    Link = Link
    Unread = Unread
    MAX_ATTEMPTS = 2
    MaxChanges <- ChangesOf
    MaxCrashes = 1
    MaxUid = 2
    BATCH = 1
    MAX_RUNS = 2
    MaxValidity = 2
    MaxLosses = 2
    Sockets = {s1, s2, s3}
    NoSocket = NoSocket
    Connections = 2
    Budget = 2
INVARIANTS OncePerContent KnownWasHanded MessagesKept CountsTrue OneWriter
PROPERTIES NothingMissed NoneForgotten
CHECK_DEADLOCK FALSE
