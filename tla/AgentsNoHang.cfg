SPECIFICATION Spec
CONSTANTS
    a1 = a1
    a2 = a2
    t1 = t1
    c1 = c1
    c2 = c2
    Agents <- MCAgentsSet
    Order <- MCOrder
    Strategy = "rest_for_one"
    MaxRestarts = 1
    MaxChain = 2
    Tasks <- MCTasks
    Roots = {t1}
    NoTask = NoTask
    NoAgent = NoAgent
    MaxDepth = 2
    MaxFaults = 0
INVARIANT NoHang
CHECK_DEADLOCK FALSE
