\* What complete_part reports against what it wrote.
SPECIFICATION Spec
CONSTANTS
    d1 = d1
    d2 = d2
    w1 = w1
    w2 = w2
    Deliveries = {d1}
    Workers = {w1}
    NoWorker = NoWorker
    NoDelivery = NoDelivery
    NParts = 1
    MaxAttempts = 2
    MaxClaims = 2
    BatchLimit = 1
    DependsOn <- NoDependency
    Linked = {d1}
    Explicit = {d1}
    Replayed = {}
    Unkeyed = {}
    Unroutable = {}
PROPERTIES ReportIsWhatWasWritten
