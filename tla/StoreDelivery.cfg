SPECIFICATION Spec
CONSTANTS
    Due = 1
    Prices <- TwoPrices
    MaxMoves = 4
    StoreFaults = {"state_error", "db_error", "died", "hook_lost", "lock_timeout"}
    Amounts <- PaidOrNot
    MaxVersions = 3
INVARIANTS
    ShortIsHeld
PROPERTIES
    OwnHoldOnly
    FlaggedNeverCompleted
CHECK_DEADLOCK FALSE
