SPECIFICATION WebSpec
\* An application whose loads have settled and whose user does nothing is idle.
CHECK_DEADLOCK FALSE
CONSTANTS
    Environments <- MCEnvironments
    MayVisit <- MCMayVisit
    CommitmentIds = {"c1"}
    MaxCalls = 2
    MaxMoves = 1
    MaxRetries = 1
    CommitmentFilters = {"all", "dismissed"}
    CommitmentsSeed <- MCCommitmentsSeed
    AuditSeed <- MCAuditSeed
    AuditLists <- MCAuditLists
    InboxSeed <- MCInboxSeed
    InboxLists <- MCInboxLists
    InboxChipsPicked = {"awaiting", "all"}
    HomeSeed <- MCHomeSeed
    HomeLists <- MCHomeLists
    HealthSeed <- MCHealthSeed
    HealthLists <- MCHealthLists
    MemorySeed <- MCMemorySeed
    MemoryWords <- MCMemoryWords
    SettingsConnectors <- MCSettingsConnectors
    SettingsRequests <- MCSettingsRequests
    NotifEvents = {"blocked"}
    NotifChannels = {"email", "digest"}
    SwitchDays = 1
    DefaultDays = 2
    MaxClock = 3
    MaxEdits = 1
    RecipesSeed <- MCRecipesSeed
    RecipeWords <- MCRecipeWords
    SecurityPolicies <- MCSecurityPolicies
    SecurityAudit <- MCSecurityAudit
    ResearchFindings <- MCResearchFindings
INVARIANTS
    WebTypeOK
    CommitmentsShownFresh
    InboxDraftOwn
    LiveDecisionsKept
    MemoryNothingLost
    ScrollLockFollowsDrawer
PROPERTIES
    SettingsUndoTimely
    ButtonsUnlock
    LoadsSettle
