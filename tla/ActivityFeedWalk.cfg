CONSTANTS
    a = a
    b = b
    c = c
    d = d
    e = e
    discovery = discovery
    rekber = rekber
    certificate = certificate
    AllKinds = AllKinds
    Sources = {discovery, rekber, certificate}
    Kinds = {"message", "submitted", "confirmed", "issued"}
    Items = {a, b, c, d, e}
    SourceOf <- MCSourceOf
    KindOf <- MCKindOf
    Key <- DistinctKeys
    Filters = {AllKinds, "message", "submitted", "issued"}
    Limit = 2
SPECIFICATION FeedSpec
INVARIANTS
    ShownOnce
CHECK_DEADLOCK FALSE
