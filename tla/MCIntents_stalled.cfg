SPECIFICATION Spec
CONSTANTS
    Workers = {w1, w2}
    Intents = {i1}
    Rejected = {}
    Quiet = {}
    Bindings = {b1}
    Signals = {}
    Answers = {}
    None = None
    MaxAttempts = 2
    MaxEvents = 1
INVARIANTS
    AnswersOrAdmits
CHECK_DEADLOCK FALSE
