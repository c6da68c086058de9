\* Two mutations, one of them announced by a rule, two handlers at a time, an
\* allowed and a foreign key, two faults; both backends.
CONSTANTS
    a = a
    b = b
    h1 = h1
    h2 = h2
    open = open
    foreign = foreign
    Mutation = {a, b}
    Announcing = {a}
    Key = {open, foreign}
    Allowed = {open}
    Handler = {h1, h2}
    MaxFaults = 2
SPECIFICATION FairSpec
INVARIANTS TypeOK OneWinnerPerVersion LogTellsTheTruth
PROPERTIES ImplementsRegister EveryProposalSettles
