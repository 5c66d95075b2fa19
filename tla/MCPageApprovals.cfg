SPECIFICATION PageSpec
CONSTANTS
    Threads = {agent, rev1}
    Agent = agent
    Loaders = {l1, l2}
    Paths = {p1, p2}
    Frags = {f1}
    Targets = {x1}
    Rules = {rule}
    MaxHist = 3
    MaxGen = 0
    MaxTries = 1
    Policies <- StrictPolicies
    BoxMs = 1
    MaxNow = 0
    MaxIds = 2
    MaxEpoch = 0
    MaxSets = 0
SYMMETRY Symmetry
INVARIANTS
    PageTypeOK
    EqualRevisionsMeanNoNavigation
    UsedGrantStayedOnItsDocument
    PendingWasCapturedOnItsDocument
CHECK_DEADLOCK FALSE
