CONSTANTS
    a1 = a1
    a2 = a2
    a3 = a3
    b1 = b1
    c1 = c1
    d1 = d1
    e1 = e1
    o1 = o1
    none = none
    None = none
    Manifest <- Composites
    IdOf <- MCIdOf
    GenerationOf <- MCGenerationOf
    LineageOf <- MCLineageOf
    CapabilityOf <- MCCapabilityOf
    ModelOf <- MCModelOf
    DeltaOf <- MCDeltaOf
    TermsOf <- MCTermsOf
    Promotable <- MCPromotable
    Candidate <- NoCandidate
    MaxRevision = 5
SPECIFICATION Spec
CHECK_DEADLOCK FALSE
INVARIANTS
    RevocationIsNeverRefused
