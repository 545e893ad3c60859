SPECIFICATION Spec
CONSTANTS
    Decimals = 2
    MaxZat = 999
    NotDecimal = NotDecimal
    NoAmount = NoAmount
    NoUrl = NoUrl
    NoSession = NoSession
    NoIndex = NoIndex
    NoAddress = NoAddress
    Sessions = {"s1", "s2"}
    Origins <- ShopOrigin
    MaxIndex = 3
    Scenarios <- SmallScenarios
    Mainnet = TRUE
    SpamWindow = {2}
    SpamThreshold = 2
    Activation = 2
    ReportConf = 0
    Readers = {"s1", "s2"}
    SimTxids = {"x"}
    SimAmounts <- SmallAmounts
    SimDepths = {0, 1}
    MaxTip = 2
INVARIANTS
    AnsweredIsPayable
    RefusedOnlyWhenBlocked
    CreditedExactly
    RestCompletes
PROPERTIES
    PagesCatchUp
CHECK_DEADLOCK FALSE
