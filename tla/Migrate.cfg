SPECIFICATION FairSpec
CONSTANTS
    r1 = r1
    r2 = r2
    Free = Free
    NoRow = NoRow
    Replicas <- TwoReplicas
    N = 3
    Latest <- OlderImage
    RowIds <- Rows7
    Idempotent <- First
    Splits <- Second
    MaxCrashes = 2
    MaxFailures = 1
    MaxResolves = 1
INVARIANTS
    TypeOK
    FinishedMeansApplied
    CommittedOnce
PROPERTIES
    ImplementsOrderedSchema
    ReplicasComeUp
CHECK_DEADLOCK FALSE
