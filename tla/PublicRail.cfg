CONSTANTS
    c1 = c1
    c2 = c2
    t1 = t1
    e1 = e1
    a1 = a1
    a2 = a2
    a3 = a3
    Custodies = {c1}
    Tokens = {t1}
    Evidence = {e1}
    NoEvidence = NoEvidence
    NoCustody = NoCustody
    Plans <- MCPlans
    Transfers = {3}
    HasExternalVerifier = TRUE
    MAX_FULFILLMENT_WINDOW = 2
    MIN_REVIEW_WINDOW = 1
    MAX_REVIEW_WINDOW = 2
    MAX_FULFILLMENT_ROUNDS = 2
    MAX_REVISION_ROUNDS = 1
    MAX_U128 = 2
    MaxTime = 4
    Accounts = {a1, a2, a3}
    NoAccount = NoAccount
SPECIFICATION RailSpec
SYMMETRY AccountSymmetry
INVARIANTS
    HandedAsDecided
    DrainsMatch
    NoFreeAction
    CertifiedIsClean
