SPECIFICATION Spec
CONSTANTS
    root = root
    d = d
    e = e
    x = x
    y = y
    z = z
    capturer = capturer
    m1 = m1
    m2 = m2
    None = None
    Path <- MCPath
    Root <- root
    Above <- MCAbove
    Order <- MCOrder
    Life <- MCLife
    Request <- MCRequest
    MaxFiles = 2
    Capturer <- capturer
    Consumer <- MCConsumer
    MaxCaptures = 1
    MaxTroubles = 1
CONSTRAINT Telling
SYMMETRY Symmetry
CHECK_DEADLOCK FALSE
INVARIANTS
    EvidenceWasThere
    ProjectionsStand
