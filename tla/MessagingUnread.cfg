SPECIFICATION SafeSpec
CONSTANTS
    s1 = s1
    s2 = s2
    d1 = d1
    d2 = d2
    d3 = d3
    m1 = m1
    m2 = m2
    line1 = line1
    u1 = u1
    NoLine = NoLine
    None = None
    Sends = {s1, s2}
    Deliveries = {d1, d2}
    Users = {u1}
    MaxClock = 4
    MaxFaults = 1
    MessageId <- ThreadsMessageId
    Line <- ThreadsLine
    To <- ThreadsTo
    Digits <- InstanceDigits
INVARIANT UnreadWhenNewer
CHECK_DEADLOCK FALSE
