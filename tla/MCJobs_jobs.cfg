SPECIFICATION FairSpec
CONSTANTS
    Workers = {w1, w2}
    NoWorker = NoWorker
    MaxSteps = 3
    MaxRetries = 2
    KindOf <- MCEngineKinds
    OnError <- MCRouteToStep
    Replayable = FALSE
INVARIANTS
    TypeOK
    LedgerMatchesJob
    FrontierMatchesRun
    HandlerOwnsClaim
PROPERTIES
    ClosedStaysClosed
    RunSettles
CHECK_DEADLOCK FALSE
