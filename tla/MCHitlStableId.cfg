SPECIFICATION Spec
CONSTANTS
    Workers = {w1, w2}
    Reviewers = {alice, bob}
    Capacity = 1
    MaxReqs = 2
    MaxSessions = 1
    MaxIds = 3
    MaxClicks = 2
    MaxPosts = 1
SYMMETRY Symmetry
INVARIANT
    OneIdPerRequest
CHECK_DEADLOCK FALSE
