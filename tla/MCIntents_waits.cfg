SPECIFICATION FairSpec
CONSTANTS
    Workers = {w1, w2}
    Intents = {i1}
    Rejected = {}
    Quiet = {}
    Bindings = {b1}
    Signals = {s1, s2}
    Answers = {s1}
    None = None
    MaxAttempts = 2
    MaxEvents = 1
INVARIANTS
    TypeOK
    ReplyUsedOnce
    OutcomeIsTrue
PROPERTIES
    NeverExpiredOver
    RecordedReplyAnswers
    IntentsSettle
CHECK_DEADLOCK FALSE
