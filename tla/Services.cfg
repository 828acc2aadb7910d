SPECIFICATION Spec
CONSTANTS
    People = {u1}
    Requests = {q1, q2, q3}
    FaxBoxes = {i1, i2}
    VoicemailBoxes = {v1}
    Seed = Seed
    NoRow = NoRow
    Tokens = {t1}
    Phones = {i1, i2}
    Calls = {c1, c2, c3, c4}
    NoOne = NoOne
    Links = {l1}
    Fetches = {g1, g2}
    LinkHours = 2
    MaxHour = 5
    Staff = {s1, s2}
    Admins = {s1}
    TeamLeads = {s2}
    Team = {s1}
    Faxes = {x1}
    TagCalls = {q1, q2, q3}
    NoTag = NoTag
    Nobody = Nobody
    MaxRow = 3
    FetchPage = 2
    Lines = {n1, n2}
    FetchLimit = 2
    MaxPage = 2
    MaxBlocked = 1
    Waiting = Waiting
    Failed = Failed
    Changes = {q1, q2, q3}
    Builders = {b1, b2}
    NoMap = NoMap
    Exts = {k1, k2}
    NoNumber = NoNumber
    Everyone = Everyone
    NotYet = NotYet
    Error = Error
    Owners = {o1, o2}
    Managers = {o1}
    Contacts = {y1}
    Updates = {q1, q2, q3}
    NoContact = NoContact
    Deleted = Deleted
    NoOwner = NoOwner
    Texts = {m1}
    Handlers = {h1, h2}
    NoText = NoText
    Tenants = {i1, i2}
    Codes = {d1}
    Dids = {z1}
    Posts = {q1, q2, q3}
    NoCode = NoCode
    NoKey = NoKey
    NoDid = NoDid
    NoTenant = NoTenant
    Devices = {dv1}
    NotRead = NotRead
    Refused = Refused
SYMMETRY Symmetry
INVARIANTS
    AccountAsAsked
    NoLockout
    TemporaryMustChange
    OneSessionPerToken
    WindowFromFirstUse
    TriageAsAsked
    FaxListingComplete
    RecordingPageRight
    LabelsCurrent
    DashboardInScope
    ContactUsable
    StatusAsReported
    TenantAsProvisioned
    LineAsReported
    PresenceTrue
PROPERTIES
    ConsumedIsFinal
CHECK_DEADLOCK FALSE
