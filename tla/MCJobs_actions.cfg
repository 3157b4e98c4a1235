SPECIFICATION Spec
CONSTANTS
    Workers = {w1, w2}
    NoWorker = NoWorker
    MaxSteps = 1
    MaxRetries = 2
    KindOf <- MCEffectKinds
    OnError <- MCRouteToEnd
    Replayable = FALSE
SYMMETRY MCWorkerSymmetry
INVARIANTS
    NoBlindResend
    SuccessHasEffect
CHECK_DEADLOCK FALSE
