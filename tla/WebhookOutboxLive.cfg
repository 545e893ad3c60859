SPECIFICATION FairSpec
CONSTANTS
    Addresses <- OneAddress
    NoAddress = NoAddress
    Totals <- SmallTotals
    Settings <- UnsetOrOne
    MaxAttempts = 2
    MaxVersion = 2
    Faults = {"crash"}
INVARIANTS
    SendingIsOwned
PROPERTIES
    EventuallyTold
