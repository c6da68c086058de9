SPECIFICATION Spec
CHECK_DEADLOCK FALSE
SYMMETRY Handlers
CONSTRAINT Untorn
CONSTANTS
    in = in
    u1 = u1
    u2 = u2
    f1 = f1
    f2 = f2
    dl = dl
    fz = fz
    w1 = w1
    w2 = w2
    w3 = w3
    Msg <- Small
    Kind <- SmallKind
    Key <- SmallKey
    Keyless = {dl}
    Worker = {w1, w2}
    MaxFaults = 1
INVARIANTS
    TypeOK
    CountIsExact
    AppliedIsKept
    EndIsFinal
PROPERTY ImplementsLedger
