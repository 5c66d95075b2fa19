SPECIFICATION FairSpec
CONSTANTS
    home = home
    guarded = guarded
    private = private
    vetoed = vetoed
    Dests = {home, guarded, private, vetoed}
    Home = home
    Public = {home, guarded, vetoed}
    Verdicts <- MCVerdicts
    Scopes <- MCScopes
    Vetoed = {vetoed}
    MaxReqs = 2
    MaxStray = 1
    MaxOps = 2
INVARIANTS
    SentWasAdmitted
    OutcomeIsTold
PROPERTY
    CallsReturn
CHECK_DEADLOCK FALSE
