\* A service says ERROR.
CONSTANTS
    c1 = c1
    c2 = c2
    c3 = c3
    N = 3
    Style <- Plain
    Guarded = {}
    Copy = {c1}
    MaxErrors = 1
    MaxFaults = 0
SPECIFICATION Spec
INVARIANT OwnStepOnly
