SPECIFICATION Spec
CONSTANTS
    x1 = x1
    x2 = x2
    u1 = u1
    u2 = u2
    a1 = a1
    a2 = a2
    None = None
    Objects = {x1, x2}
    Users = {u1, u2}
    Requests = {a1, a2}
    MaxOps <- InstanceMaxOps
    MaxFaults = 1
SYMMETRY UserSymmetry
INVARIANTS
    MirrorsProvider
    OwnerIsLastAssigned
    OwnerHoldsCurrentSecret
    OneExtensionPerUser
CHECK_DEADLOCK FALSE
