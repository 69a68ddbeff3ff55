SPECIFICATION AllSpec
CONSTANTS
    j1 = j1
    j2 = j2
    NoJob = NoJob
    Jobs <- MCJobs
    Questions <- MCQuestions
    Workers = {w1, w2}
    Deciders = {d1}
    ATTEMPTS = 2
    MaxFaults = 1
    Program <- MCProgram
    Asks <- MCAsks
    Cuts = {"cut", "split", "unended"}
    MaxMishaps = 3
INVARIANTS OneRunner PassedApproved ReplayFaithful StepsRunOnce
PROPERTIES ClaimIsALock SettledStays EveryJobIsTaken
CHECK_DEADLOCK FALSE
