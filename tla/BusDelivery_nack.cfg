\* event-router's handler asks for a retry: one message, one replica, no fault.
CONSTANTS
    m1 = m1
    m2 = m2
    p1 = p1
    p2 = p2
    p3 = p3
    s1 = s1
    s2 = s2
    c1 = c1
    c2 = c2
    c3 = c3
    Msg <- OneMessage
    LogicalId <- OneId
    HasCorrelation = {m1}
    Malformed = {}
    Timed = {}
    Service = {s1}
    Idempotent = {}
    Proc = {p1}
    ServiceOf <- OneReplica
    Copy = {c1}
    Sequential = TRUE
    MaxFaults = 0
SPECIFICATION Spec
INVARIANT NackedIsRetried
