\* A workflow message delivery that shares a batch with one without an adapter: two workers,
\* evidence, proofs and reopens.
SPECIFICATION Spec
CONSTANTS
    d1 = d1
    d2 = d2
    w1 = w1
    w2 = w2
    Deliveries = {d1, d2}
    Workers = {w1, w2}
    NoWorker = NoWorker
    NoDelivery = NoDelivery
    NParts = 1
    MaxAttempts = 2
    MaxClaims = 2
    BatchLimit = 2
    DependsOn <- NoDependency
    Linked = {d1}
    Explicit = {d1}
    Replayed = {}
    Unkeyed = {}
    Unroutable = {d2}
SYMMETRY WorkerSymmetry
INVARIANTS AtMostOnce RowsTellTheTruth StoredChecks WaitingStaysRenewed
PROPERTIES CancellationSticks OutcomesAreFinal ImplementsContract
