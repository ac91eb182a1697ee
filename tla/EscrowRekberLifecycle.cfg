CONSTANTS
    c1 = c1
    t1 = t1
    e1 = e1
    e2 = e2
    Custodies = {c1}
    Tokens = {t1}
    Evidence = {e1, e2}
    NoEvidence = NoEvidence
    NoCustody = NoCustody
    Plans <- LifecyclePlans
    Transfers = {2, 3}
    HasExternalVerifier = TRUE
    MAX_FULFILLMENT_WINDOW = 2
    MIN_REVIEW_WINDOW = 1
    MAX_REVIEW_WINDOW = 2
    MAX_FULFILLMENT_ROUNDS = 3
    MAX_REVISION_ROUNDS = 2
    MAX_U128 = 3
    MaxTime = 9
SPECIFICATION FairSpec
INVARIANTS
    SettledByRight
    NoDeadEnd
    Solvent
PROPERTIES
    DisputeFreezes
    SilentPayeeRefunded
    SilentPayerReleased
    DisputeSettles
    DeliversPromise
CHECK_DEADLOCK FALSE
