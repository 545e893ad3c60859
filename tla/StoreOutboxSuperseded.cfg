SPECIFICATION StoreOutboxSpec
CONSTANTS
    Addresses <- OneAddress
    NoAddress = NoAddress
    Totals <- SmallTotals
    Settings <- UnsetOnly
    MaxAttempts = 2
    MaxVersion = 3
    Faults = {}
    Due = 1
    Prices <- OnePrice
    MaxMoves = 0
    StoreFaults = {}
INVARIANTS
    CoveredIsAccepted
CHECK_DEADLOCK FALSE
