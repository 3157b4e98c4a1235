\* A schedule, daily, shorter than the shift or one-off, across a spring shift of two
\* units; one worker and one run-now request.
SPECIFICATION FairSpec
CONSTANTS
    k1 = k1
    None = None
    Workers = {w1}
    Callers = {c1}
    KeyOf <- OneKey
    Intervals = {1, 3}
    Instants = {4}
    Day = 3
    ShiftAt = 4
    ShiftBy = 2
    MaxTime = 4
    MaxCaptures = 1
    MaxEdits = 1
    MaxAttempts = 2
    MaxStale = 1
INVARIANTS TypeOK OutcomeIsTheLatestClaims
PROPERTIES CadenceHolds OccurrencesSettle
