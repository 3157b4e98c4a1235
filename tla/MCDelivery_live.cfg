\* Progress of a chain of two deliveries with one crashing worker.
SPECIFICATION FairSpec
CONSTANTS
    d1 = d1
    d2 = d2
    w1 = w1
    w2 = w2
    Deliveries = {d1, d2}
    Workers = {w1}
    NoWorker = NoWorker
    NoDelivery = NoDelivery
    NParts = 1
    MaxAttempts = 2
    MaxClaims = 3
    BatchLimit = 2
    DependsOn <- Chain
    Linked = {}
    Explicit = {}
    Replayed = {d2}
    Unkeyed = {}
    Unroutable = {}
INVARIANTS TypeOK
PROPERTIES LeasesEnd QueuedSettles
