SPECIFICATION PageSpec
CONSTANTS
    Threads = {agent, rev1, rev2}
    Agent = agent
    Loaders = {l1}
    Paths = {p1}
    Frags = {f1}
    Targets = {x1}
    Rules = {rule}
    MaxHist = 1
    MaxGen = 0
    MaxTries = 1
    Policies <- ScopePolicies
    BoxMs = 1
    MaxNow = 2
    MaxIds = 2
    MaxEpoch = 1
    MaxSets = 1
SYMMETRY Symmetry
INVARIANTS
    DecidedOnce
    ActionOnlyUsedOnce
    NewRulesRevoke
CHECK_DEADLOCK FALSE
