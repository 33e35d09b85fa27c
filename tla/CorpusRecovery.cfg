CONSTANTS
    c0 = c0
    c1 = c1
    c2 = c2
    i1 = i1
    i2 = i2
    None = None
    Corpus = {c0, c1, c2}
    Input = {i1, i2}
    Target <- MCTarget
    Initial = c0
    MaxStops = 3
SPECIFICATION FairSpec
CHECK_DEADLOCK FALSE
INVARIANTS
    TransitionIsVisible
    PriorIsKept
    ReceiptsAuthenticate
PROPERTIES
    RecoveryResolves
