SPECIFICATION FairSpec
CONSTANTS
    Tasks = {t1, t2, t3}
    First = t1
    NoTask = NoTask
    Workers = {w1, w2}
    Threads = {timer}
INVARIANTS OnePlace
PROPERTIES ParkAndWake AllStop QueuedRuns
CHECK_DEADLOCK FALSE
