\* Two copies of an event on a slip of three services of different styles; one
\* ERROR, two faults.  Without symmetry: a liveness property is checked too.
CONSTANTS
    c1 = c1
    c2 = c2
    c3 = c3
    N = 3
    Style <- AllStyles
    Guarded = {2}
    Copy = {c1, c2}
    MaxErrors = 1
    MaxFaults = 2
SPECIFICATION FairSpec
INVARIANTS TypeOK WaitsAtFirstPending VerdictsCarry RunsAccounted LossHasCause
PROPERTY EventLeaves
