SPECIFICATION Spec
CONSTANTS
    Callers = {"agent"}
    Contents = {"a", "b"}
    AuditEnvs <- McEnvs
    MaxRecent = 2
    MaxRetries = 1
    Parent <- McParent
    Tag <- McTag
    Changing = {3, 4, 5}
    Optional = {5}
    Presentational = {6}
    Texts = {"a", "b"}
    MaxDirty = 2
    MaxChanges = 3
    PageHashes = {1, 2}
    Acts = {1, 2}
    Effect <- McEffect
    Packs <- McPacks
    SnapshotCapacity = 2
    MaxActs = 4
    MaxUpsets = 1
    SessionTools = {"full", "delta", "act", "ask", "skill"}
    Plans = {2}
    Probes = TRUE
    MaxAliveSkips = 1
    RestartMax = 1
    RestartWindow = 1
    CostMax = 300
    MaxCalls = 3
    MaxTime = 2
    MaxServerFaults = 2
    Skills <- McSkills
    ParamKeys = {"p"}
    MaxOperations = 6
    VaultClients = {c1, c2}
    SessionIds = {s1}
    Cookies = {k1}
    KeyIds = {"a", "b", "x"}
    KeyBytes = {1, 2}
    SpareKeys = {"x"}
    MaxVaultCalls = 3
    MaxVaultFaults = 1
    Authors = {"ann", "bob"}
    PackValues = {0, 1}
    MaxPublished = 2
    MaxAlterations = 1
    Configurations <- McConfigurations
    PackageValues <- McPackageValues
    Modules <- McModules
    TrustedKeys = {"k"}
    MaxHookRuns = 2
    MaxEdits = 1
    DefaultRules <- McDefaultRules
    RuleSets <- McRuleSets
    Contexts <- McContexts
    MaxRuleChanges = 1
    PageElements <- McPageElements
    Definitions <- McDefinitions
    RuleNames = {"page_title", "mine"}
    BuiltinRules <- McBuiltinRules
    MaxMatches = 2
    MaxPageChanges = 1
    MaxExtracts = 1
    ClientLines <- McClientLines
    MaxLine = 3
    MaxLines = 2
    FirstTrees <- McFirstTrees
    LaterTrees <- McLaterTrees
    SanModes = {"off", "report_only", "redact"}
    LoadProfiles = {"minimal", "interactive"}
    DeltaOperations = 2
    MaxTreeChanges = 2
    MaxUpdates = 3
    Layouts <- McLayouts
    IdentityAttrs = {"id", "name"}
    MaxRenders = 1
    MaxHealActs = 3
INVARIANTS
    LogIsFaithful CaptureIsFaithful SpeculationIsHonest SkillsAreSafe
    VaultKeepsSessions AcceptedIsAuthored PluginsAreSafe DecisionIsSound
    StdioKeepsStep DeliveryIsFaithful RecoveryFindsTheOne
PROPERTIES
    RecoveryIsSafe ExtractionIsHonest
CHECK_DEADLOCK FALSE
