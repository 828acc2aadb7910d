SPECIFICATION Spec
CONSTANTS
    n1 = n1
    n2 = n2
    d1 = d1
    d2 = d2
    None = None
    Leads = {u1}
    Callers = {k1}
    Phones = {k1}
    Lines = {n1, n2}
    Departments = {d1, d2}
    Divisions = {v1, v2}
    Groups = {g1, g2}
    Abroad = {n2, d2}
    MaxEntries = 2
    MaxWork = 1
SYMMETRY Symmetry
INVARIANTS
    RosterIsVisible
    VisibleIsOnRoster
    ListsAgree
    FiltersMeet
PROPERTIES
    RemovingNarrows
CHECK_DEADLOCK FALSE
