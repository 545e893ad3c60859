SPECIFICATION FairSpec
CONSTANTS
    MaxU32 = 15
    Txs <- TwoTxs
    Addresses <- OneAddress
    Owner <- OneOwner
    Birthday = 1
    Finality = 2
    ReportConf = 0
    ArrayDepth = 1
    Threshold = 2
    BatchSize = 1
    Ahead = 2
    MaxTip = 3
    Faults = {"io_error", "db_error", "crash"}
PROPERTIES
    NoDip
    EventuallyScanned
