CONSTANTS
    i1 = i1
    i2 = i2
    s1 = s1
    s2 = s2
    e1 = e1
    e2 = e2
    Instances = {i1, i2}
    Streams = {s1, s2}
    Definitions <- TwoStreams
    Hydrated = {s1}
    Broken = {s1}
    StartBlock <- FromBlockOne
    Events = {e1, e2}
    StreamOf <- OneInEach
    BlockRange = 2
    MaxBlock = 2
    MaxFaults = 1
SPECIFICATION FairSpec
PROPERTIES
    EventuallyStored
INVARIANTS
    NoGap
    CaughtUpIsTrue
