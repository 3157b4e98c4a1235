\* Progress of a batch of three mails, two of one installation.
SPECIFICATION FairSpec
CONSTANTS
    m1 = m1
    m2 = m2
    m3 = m3
    w1 = w1
    w2 = w2
    s1 = s1
    s2 = s2
    c1 = c1
    NoWorker = NoWorker
    NoMail = NoMail
    Mails = {m1, m2, m3}
    Direct = {}
    WithAttachments = {}
    Sessions = {}
    Workers = {w1}
    MaxAttempts = 2
    MaxArrivals = 1
    MaxEdits = 0
    BatchLimit = 3
    Concurrency = 2
    PerCompany = 2
    ScopeOf <- TwoInstallations
    Accepts <- AlwaysAccepted
    Drops = {}
    CompanyOf <- OneCompany
CHECK_DEADLOCK FALSE
PROPERTIES EventsSettle
