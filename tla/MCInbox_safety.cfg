\* A webhook mail and an SMTP mail, each delivered twice; two workers, two
\* sessions; an edit closes the channel, and the next one opens it again to
\* the webhook mail.  The SMTP mail is dropped under the first edit's settings
\* and refused under the second's.
SPECIFICATION Spec
CONSTANTS
    m1 = m1
    m2 = m2
    m3 = m3
    w1 = w1
    w2 = w2
    s1 = s1
    s2 = s2
    c1 = c1
    NoWorker = NoWorker
    NoMail = NoMail
    Mails = {m1, m2}
    Direct = {m2}
    WithAttachments = {m1}
    Sessions = {s1, s2}
    Workers = {w1, w2}
    MaxAttempts = 2
    MaxArrivals = 2
    MaxEdits = 2
    BatchLimit = 1
    Concurrency = 1
    PerCompany = 1
    ScopeOf <- OneCompany
    Accepts <- SmtpClosesForGood
    Drops <- DropsOnce
    CompanyOf <- OneCompany
SYMMETRY ActorSymmetry
CHECK_DEADLOCK FALSE
INVARIANTS TypeOK AdmittedOnce MessageMovesWithEvent AcceptedIsStored
           StoredUnderSettingsInForce
PROPERTIES SettledIsFinal
