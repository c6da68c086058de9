\* Four configurations, two of one signature and one parked, one tool, two
\* calls at a time, three connections, three changes and one fault.  The
\* registry and the server come to rest when the changes are used up.
CONSTANTS
    near = near
    nearEdited = nearEdited
    far = far
    off = off
    t1 = t1
    w1 = w1
    w2 = w2
    n1 = n1
    n2 = n2
    n3 = n3
    sigNear = sigNear
    sigFar = sigFar
    sigOff = sigOff
    Config = {near, nearEdited, far, off}
    Signature <- Signatures
    Parked = {off}
    Tool = {t1}
    Call = {w1, w2}
    Connection = {n1, n2, n3}
    MaxChanges = 3
    MaxFaults = 1
SPECIFICATION FairSpec
INVARIANTS TypeOK NoOrphan FollowsRegistry OffersServerTools
PROPERTY MonitorHeals
CHECK_DEADLOCK FALSE
