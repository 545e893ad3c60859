SPECIFICATION FairSpec
CONSTANTS
    Addresses <- OneAddress
    NoAddress = NoAddress
    Totals <- SmallTotals
    Settings <- UnsetOnly
    MaxAttempts = 2
    MaxVersion = 2
    Faults = {"sync_error"}
PROPERTIES
    DirtyIsPosted
