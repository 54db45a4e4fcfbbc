SPECIFICATION Spec
CONSTANTS
    p1 = p1
    p2 = p2
    s1 = s1
    s2 = s2
    a1 = a1
    w1 = w1
    w2 = w2
    NoStage = NoStage
    NoRun = NoRun
    Idle = Idle
    Pubs <- OnePub
    Stages <- TwoStages
    Automations <- OneAutomation
    RunIds <- Runs2
    Workers <- TwoWorkers
    StageOf <- OnS1
    NActions <- OneAction
    ChecksOnTrigger <- OneAutomation
    ChecksOnExecution <- OneAutomation
    Movers <- OneAutomation
    MaxEntries <- AllReenter
    MaxCoreFaults = 1
    MaxWorkerCrashes = 1
INVARIANTS
    TypeOK
    OneJobPerKey
    OncePerDelivery
    OneRunPerEntry
    StaleJobIsBeingCancelled
PROPERTY ImplementsDelayedRuns
SYMMETRY SymmetricWorkers
CHECK_DEADLOCK FALSE
