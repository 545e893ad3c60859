SPECIFICATION Spec
CONSTANTS
    Addresses <- OneAddress
    NoAddress = NoAddress
    Totals <- SmallTotals
    Settings <- UnsetOrOne
    MaxAttempts = 2
    MaxVersion = 2
    Faults = {"crash", "sync_error", "record_error", "late_arrival"}
INVARIANTS
    LastWord
    ReceiverAgrees
    RetryBudget
    OutboxInv
PROPERTIES
    AckNeverMovesBack
    ImplementsReportedTotal
