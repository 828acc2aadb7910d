SPECIFICATION Spec
CONSTANTS
    r1 = r1
    r2 = r2
    e1 = e1
    e2 = e2
    e3 = e3
    g1 = g1
    g2 = g2
    c1 = c1
    c2 = c2
    w1 = w1
    w2 = w2
    NoEvent = NoEvent
    Requests = {r1}
    Events = {e1, e2}
    Groups = {g1, g2}
    Workers = {w1, w2}
    Conns = {c1, c2}
    Authorized = {c1}
    BatchSize = 1
    Capacity = 1
    MaxCrashes = 1
    RequestOf <- DeliveryRequestOf
    Target <- DeliveryTarget
    GroupOf <- DeliveryGroupOf
INVARIANT DeliveredAsAddressed
PROPERTIES
    CommittedReachesConnected
    ImplementsDelivery
CHECK_DEADLOCK FALSE
