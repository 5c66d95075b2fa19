SPECIFICATION PageSpec
CONSTANTS
    Threads = {agent, rev1}
    Agent = agent
    Loaders = {l1}
    Paths = {p1}
    Frags = {f1, f2}
    Targets = {x1}
    Rules = {rule}
    MaxHist = 3
    MaxGen = 0
    MaxTries = 1
    Policies <- StrictPolicies
    BoxMs = 1
    MaxNow = 0
    MaxIds = 2
    MaxEpoch = 0
    MaxSets = 0
INVARIANT
    UntilNavigationEndsWithFragment
CHECK_DEADLOCK FALSE
