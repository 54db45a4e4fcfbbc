\* One query, run twice at a time, two writers, a linked and an
\* unlinked trigger, one failing command.
SPECIFICATION Spec
CONSTANTS
    plainPub = plainPub
    w1 = w1
    w2 = w2
    q1 = q1
    q2 = q2
    Tables <- PubTables
    Keys <- OneKey
    Writers <- TwoWriters
    Queries <- TwoQueries
    Reads <- PlainPubReads
    LinkedCacheTags <- PubLinks
    TriggerUpdates <- PubTriggers
    Mutated <- ValuesAndStages
    MaxChanges = 2
    MaxFaults = 1
    NoTransaction = NoTransaction
    Absent = Absent
SYMMETRY WriterSymmetry
INVARIANTS
    TypeOK
    OnlyCommitted
    OwnWritesSeen
    StaleHasOverlap
