SPECIFICATION Spec
CONSTANTS
    MaxTests = 3
    MaxWorkers = 3
    Cancellable = TRUE
INVARIANTS
    TypeOK
    ClosedAfterLastSend
    SendNeverBlocks
    ExecutedOnce
    ParallelOmitsNothing
PROPERTIES
    ImplementsTestSuite
    AlwaysReturns
