\* Two-part deliveries, the second threading under the first.
SPECIFICATION Spec
CONSTANTS
    d1 = d1
    d2 = d2
    w1 = w1
    w2 = w2
    Deliveries = {d1, d2}
    Workers = {w1, w2}
    NoWorker = NoWorker
    NoDelivery = NoDelivery
    NParts = 2
    MaxAttempts = 2
    MaxClaims = 2
    BatchLimit = 2
    DependsOn <- Chain
    Linked = {d1}
    Explicit = {}
    Replayed = {d2}
    Unkeyed = {}
    Unroutable = {}
SYMMETRY WorkerSymmetry
INVARIANTS AtMostOnce ParentMatchesParts SnapshotFresh DependencyFirst
PROPERTIES ImplementsContract
