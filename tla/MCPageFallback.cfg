SPECIFICATION PageSpec
CONSTANTS
    Threads = {agent, rev1}
    Agent = agent
    Loaders = {l1, l2}
    Paths = {p1}
    Frags = {f1}
    Targets = {x1}
    Rules = {rule}
    MaxHist = 2
    MaxGen = 0
    MaxTries = 1
    Policies <- StrictPolicies
    BoxMs = 1
    MaxNow = 0
    MaxIds = 2
    MaxEpoch = 0
    MaxSets = 0
INVARIANT
    ActedWhereEnforced
CHECK_DEADLOCK FALSE
