SPECIFICATION MCSpec
CONSTANTS
    None = None
    Nothing = Nothing
    o1 = o1
    o2 = o2
    o3 = o3
    o4 = o4
    o5 = o5
    p = p
    q = q
    p3 = p3
    p4 = p4
    MaxClaims = 6
    MaxObligations = 7
    MaxHypotheses = 2
    h1 = h1
    h2 = h2
    f = f
    t1 = t1
    t2 = t2
    Node <- MCNode
    Contract <- MCContract
    Target <- MCTargets
    Round <- MCRounds
    Decider <- MCDeciders
    Start <- MCStart
    Query <- MCQuery
    Contested <- MCContested
    MaxRevision = 2
    MaxRecords = 2
CHECK_DEADLOCK FALSE
INVARIANTS
    InquiryIsSound
    CompletionIsHonest
    AssessmentsAreEarned
    ResidencyIsSound
PROPERTIES
    EveryInquiryEnds
