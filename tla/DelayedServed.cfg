SPECIFICATION FairSpec
CONSTANTS
    p1 = p1
    p2 = p2
    s1 = s1
    s2 = s2
    a1 = a1
    w1 = w1
    w2 = w2
    NoStage = NoStage
    NoRun = NoRun
    Idle = Idle
    Pubs <- TwoPubs
    Stages <- OneStage
    Automations <- OneAutomation
    RunIds <- Runs2
    Workers <- TwoWorkers
    StageOf <- OnS1
    NActions <- OneAction
    ChecksOnTrigger <- None
    ChecksOnExecution <- None
    Movers <- None
    MaxEntries <- FirstReenters
    MaxCoreFaults = 0
    MaxWorkerCrashes = 0
PROPERTIES
    StayingPubIsServed
CHECK_DEADLOCK FALSE
