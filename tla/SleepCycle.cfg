CONSTANTS
    MaxAnalyses = 2
    MaxBundles = 3
    Allowed <- MCAllowed
    Verified <- MCVerified
    MaxStops = 1
    None = None
SPECIFICATION FairSpec
CHECK_DEADLOCK FALSE
INVARIANTS
    FilesAreAuthorized
    CertificatesAreJustified
    PromotionsAreEarned
PROPERTIES
    SleepSettles
