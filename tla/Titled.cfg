SPECIFICATION Spec
CONSTANTS
    p1 = p1
    p2 = p2
    name = name
    text = text
    x = x
    y = y
    w1 = w1
    w2 = w2
    None = None
    Pubs <- OnePub
    Fields <- TwoFields
    Values <- TwoValues
    Writers <- TwoWriters
    ValueOps <- AllOps
    MaxOps = 3
SYMMETRY Symmetric
INVARIANTS
    TypeOK
    TitleFollowsValue
\* the bound on transactions is reached
CHECK_DEADLOCK FALSE
