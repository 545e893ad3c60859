SPECIFICATION Spec
CONSTANTS
    MaxU32 = 15
    Txs <- OneTx
    Addresses <- OneAddress
    Owner <- OneOwner
    Birthday = 2
    Finality = 3
    ReportConf = 2
    ArrayDepth = 0
    Threshold = 2
    BatchSize = 2
    Ahead = 2
    MaxTip = 8
    Faults = {"reorg", "io_error", "db_error", "crash"}
INVARIANTS
    WindowExact
    QuietIsExact
    ReorgLowersTotal
