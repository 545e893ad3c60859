SPECIFICATION Spec
CONSTANTS
    NoUivk = NoUivk
    NoUrl = NoUrl
    NoTask = NoTask
    NoIdentity = NoIdentity
    NoMetadata = NoMetadata
    NoAccount = NoAccount
    Procs = {"p1", "p2"}
    Tasks <- SmallTasks
    Crews <- SmallCrews
    Envs <- SmallEnvs
    FirstEnv <- Testnet
    Accounts <- SomeAccounts
    Schemas = {"fresh", "before_mempool", "before_ironwood"}
    KeyNetwork <- SmallKeys
    MaxFailures = 1
INVARIANTS
    IdentityAgreed
    SettingsAgreed
    SchemaComplete
    SiblingsKeepOut
    ScansRealOnly
PROPERTIES
    EventuallyUp
CHECK_DEADLOCK FALSE
