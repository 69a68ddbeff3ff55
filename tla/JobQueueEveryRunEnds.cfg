SPECIFICATION AllSpec
CONSTANTS
    j1 = j1
    j2 = j2
    NoJob = NoJob
    Jobs <- MCJobs
    Questions <- MCQuestions
    Workers = {w1}
    Deciders = {d1}
    ATTEMPTS = 2
    MaxFaults = 1
    Program <- MCProgram
    Asks <- MCAsks
    Cuts = {}
    MaxMishaps = 0
PROPERTY EveryRunEnds
CHECK_DEADLOCK FALSE
