SPECIFICATION AllSpec
CONSTANTS
    j1 = j1
    j2 = j2
    NoJob = NoJob
    Jobs <- MCJobs
    Questions <- MCQuestions
    Workers = {w1, w2}
    Deciders = {d1}
    ATTEMPTS = 3
    MaxFaults = 0
    Program <- MCProgram
    Asks <- MCAsks
    Cuts = {}
    MaxMishaps = 0
INVARIANT NoDecisionLost
CHECK_DEADLOCK FALSE
