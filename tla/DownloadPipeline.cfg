SPECIFICATION FairSpec
CONSTANTS
    MaxU32 = 7
    Concurrency = 3
    Depth = 4
    FirstHeights <- SomeFirst
    FinalHeights <- SomeFinal
    BatchSizes <- SomeSizes
INVARIANTS
    InOrder
    Complete
    PipelineInv
PROPERTIES
    Terminates
