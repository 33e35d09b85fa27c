SPECIFICATION FairHeadSpec
CONSTANTS
    p1 = p1
    p2 = p2
    g1 = g1
    g2 = g2
    x = x
    y = y
    Nobody = Nobody
    Process <- MCProcess
    Genesis <- MCGenesis
    Receipt <- MCReceipt
    MaxLength = 3
INVARIANTS
    HeadIsSound
PROPERTIES
    ImplementsCasHistory
    ServiceGoesOn
