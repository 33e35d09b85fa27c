CONSTANTS
    a1 = a1
    a2 = a2
    a3 = a3
    b1 = b1
    c1 = c1
    d1 = d1
    e1 = e1
    o1 = o1
    none = none
    None = none
    Manifest <- Manifests
    IdOf <- MCIdOf
    GenerationOf <- MCGenerationOf
    LineageOf <- MCLineageOf
    CapabilityOf <- MCCapabilityOf
    ModelOf <- MCModelOf
    DeltaOf <- MCDeltaOf
    TermsOf <- MCTermsOf
    Promotable <- MCPromotable
    Candidate <- Candidates
    MaxRevision = 5
SPECIFICATION Spec
CONSTRAINT FewPermits
CHECK_DEADLOCK FALSE
INVARIANTS
    EntriesAreSound
    NoStaleAuthority
    OperationsPassValidation
