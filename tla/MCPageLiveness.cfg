SPECIFICATION PageFairSpec
CONSTANTS
    Threads = {agent, rev1}
    Agent = agent
    Loaders = {l1, l2}
    Paths = {p1}
    Frags = {f1}
    Targets = {x1}
    Rules = {rule}
    MaxHist = 2
    MaxGen = 1
    MaxTries = 2
    Policies <- MixedPolicies
    BoxMs = 1
    MaxNow = 0
    MaxIds = 1
    MaxEpoch = 1
    MaxSets = 1
PROPERTY
    OperationsEnd
CHECK_DEADLOCK FALSE
