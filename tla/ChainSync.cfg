SPECIFICATION Spec
CONSTANTS
    MaxU32 = 15
    Txs = {t1, t2}
    Addresses <- OneAddress
    Owner <- OneOwner
    Birthday = 1
    Finality = 2
    ReportConf = 0
    ArrayDepth = 2
    Threshold = 2
    BatchSize = 2
    Ahead = 2
    MaxTip = 4
    Faults = {"reorg", "evict", "aging", "io_error", "db_error", "crash"}
INVARIANTS
    TypeOK
    TotalsMatchReceipts
    WindowExact
    QuietIsExact
    NothingForgotten
SYMMETRY TxSymmetry
VIEW LiveView
