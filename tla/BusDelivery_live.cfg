\* Liveness, without symmetry: m1 is correlated and has a QoS timeout, m2 is
\* malformed; one fault.
CONSTANTS
    m1 = m1
    m2 = m2
    p1 = p1
    p2 = p2
    p3 = p3
    s1 = s1
    s2 = s2
    c1 = c1
    c2 = c2
    c3 = c3
    Msg <- TwoMessages
    LogicalId <- DistinctIds
    HasCorrelation = {m1}
    Malformed = {m2}
    Timed = {m1}
    Service = {s1}
    Idempotent = {s1}
    Proc = {p1, p2}
    ServiceOf <- TwoReplicas
    Copy = {c1, c2}
    Sequential = TRUE
    MaxFaults = 1
SPECIFICATION FairSpec
PROPERTY EveryMessageSettles
