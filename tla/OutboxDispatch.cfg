SPECIFICATION SafeSpec
CONSTANTS
    r1 = r1
    r2 = r2
    e1 = e1
    e2 = e2
    e3 = e3
    g1 = g1
    g2 = g2
    w1 = w1
    w2 = w2
    NoEvent = NoEvent
    Requests = {r1, r2}
    Events = {e1, e2, e3}
    Groups = {g1, g2}
    Workers = {w1, w2}
    Conns = {}
    Authorized = {}
    BatchSize = 2
    Capacity = 1
    MaxCrashes = 1
    RequestOf <- DispatchRequestOf
    Target <- DispatchTarget
    GroupOf <- DeliveryGroupOf
SYMMETRY WorkerSymmetry
INVARIANTS
    TypeOK
    PublishedOnlyIfCommitted
    DispatchedWasPublished
    DuplicateOnlyByOverlapOrCrash
    SettledInCreationOrder
CHECK_DEADLOCK FALSE
