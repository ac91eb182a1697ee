CONSTANTS
    r1 = r1
    r2 = r2
    o1 = o1
    a = a
    k1 = k1
    NoDecision = NoDecision
    NoWorker = NoWorker
    Requests = {r1, r2}
    Operators = {o1}
    Cases = {a}
    Custodies = {k1}
    CustodyOf <- OneCase
    Objective = {}
    Decisions <- Answers
    Principal = 3
    AutoResolveEnabled = TRUE
    Lease = 0
    MaxAttempts = 2
    MaxTime = 1
SPECIFICATION FairSpec
INVARIANTS
    ActsOnPersisted
    ResolvedWithConsent
PROPERTIES
    FirstDecisionStands
    RequestsFinish
