SPECIFICATION ProgressSpec
CONSTANTS
    Workers = {w1, w2}
    Reviewers = {alice, bob}
    Capacity = 1
    MaxReqs = 1
    MaxSessions = 1
    MaxIds = 3
    MaxClicks = 2
    MaxPosts = 1
    Callers = {"agent"}
    Contents = {"a", "b"}
    AuditEnvs <- McEnvs
    MaxRecent = 1
    MaxRetries = 1
    RenderCapacity = 0
    SreCapacity = 2
    AuditCapacity = 1
    MaxSubmits = 3
    MaxAudits = 1
    SessionTools = {"full", "act", "ask", "skill"}
    Plans = {2}
    Probes = TRUE
    MaxAliveSkips = 1
    RestartMax = 1
    RestartWindow = 1
    CostMax = 300
    MaxCalls = 2
    MaxTime = 1
    MaxServerFaults = 2
    Skills <- McSkills
    ParamKeys = {"p"}
    MaxOperations = 6
    VaultClients = {c1, c2}
    SessionIds = {s1}
    Cookies = {k1}
    KeyIds = {"a", "b", "x"}
    KeyBytes = {1, 2}
    SpareKeys = {"x"}
    MaxVaultCalls = 3
    MaxVaultFaults = 1
PROPERTIES
    ResolveReturns LogDrains PipelineDelivers CallsAreAnswered SkillsEnd
    VaultCallsEnd VaultIsAStore
CHECK_DEADLOCK FALSE
