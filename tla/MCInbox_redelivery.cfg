\* The same mail over SMTP twice, its attachments uploaded once and not the
\* other time.
SPECIFICATION Spec
CONSTANTS
    m1 = m1
    m2 = m2
    m3 = m3
    w1 = w1
    w2 = w2
    s1 = s1
    s2 = s2
    c1 = c1
    NoWorker = NoWorker
    NoMail = NoMail
    Mails = {m1}
    Direct = {m1}
    WithAttachments = {m1}
    Sessions = {s1}
    Workers = {w1}
    MaxAttempts = 1
    MaxArrivals = 2
    MaxEdits = 0
    BatchLimit = 1
    Concurrency = 1
    PerCompany = 1
    ScopeOf <- OneCompany
    Accepts <- AlwaysAccepted
    Drops = {}
    CompanyOf <- OneCompany
CHECK_DEADLOCK FALSE
INVARIANTS RedeliveryIsNotAnError
