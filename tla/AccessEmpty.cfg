SPECIFICATION Spec
CONSTANTS
    n1 = n1
    n2 = n2
    d1 = d1
    d2 = d2
    None = None
    Leads = {u1}
    Callers = {k1}
    Phones = {k1}
    Lines = {n1}
    Departments = {d1}
    Divisions = {v1}
    Groups = {g1}
    Abroad = {d1}
    MaxEntries = 1
    MaxWork = 1
INVARIANT EmptyGrantsShowNobody
CHECK_DEADLOCK FALSE
