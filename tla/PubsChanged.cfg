SPECIFICATION Spec
CONSTANTS
    a = a
    b = b
    c = c
    d = d
    s1 = s1
    s2 = s2
    w1 = w1
    w2 = w2
    Keep = Keep
    NoStage = NoStage
    Plain = Plain
    Pubs <- FourPubs
    Stages <- TwoStages
    Writers <- TwoWriters
    Ops <- AllOps
    Start <- FourStart
    MaxOps = 3
SYMMETRY WriterSymmetry
INVARIANTS
    TypeOK
    OneStage
PROPERTIES
    OrphansAreDeleted
    RelatedPubsAreSpared
\* the bound on operations is reached
CHECK_DEADLOCK FALSE
