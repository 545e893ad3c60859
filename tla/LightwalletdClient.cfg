SPECIFICATION Spec
CONSTANTS
    Fetchers = {"f1", "f2"}
    Channels <- SmallChannels
    NoChannel = NoChannel
    RetryLimit = 2
    RangeLength = 2
    MaxFaults = 2
INVARIANTS
    RetryOnFresh
    RangeExact
PROPERTIES
    CallsEnd
    TipMoveWakes
