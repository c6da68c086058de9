\* Two services behind Pub/Sub callbacks, both sent the same message: s1 has the
\* Redis check and two replicas, s2 neither; a QoS
\* timeout, two copies, two faults.
CONSTANTS
    m1 = m1
    m2 = m2
    p1 = p1
    p2 = p2
    p3 = p3
    s1 = s1
    s2 = s2
    c1 = c1
    c2 = c2
    c3 = c3
    Msg <- OneMessage
    LogicalId <- OneId
    HasCorrelation = {m1}
    Malformed = {}
    Timed = {m1}
    Service = {s1, s2}
    Idempotent = {s1}
    Proc = {p1, p2, p3}
    ServiceOf <- TwoServicesThree
    Copy = {c1, c2}
    Sequential = FALSE
    MaxFaults = 2
SPECIFICATION Spec
SYMMETRY CopySymmetry
INVARIANTS TypeOK DispatchedOncePerMemory GuardedOncePerKey AckedWasTried
