CONSTANTS
    w1 = w1
    w2 = w2
    r1 = r1
    register = register
    reactivate = reactivate
    activate = activate
    none = none
    None = none
    Writer <- MCWriter
    Reader <- MCReader
    Sticky <- MCSticky
    Activation <- MCActivation
    Reversal <- MCReversal
    MaxRevision = 2
SPECIFICATION FairSpec
INVARIANTS
    JournalIsSound
    AnswersAreTrue
    NoDoublePublish
PROPERTIES
    ImplementsCasHistory
    ServiceGoesOn
