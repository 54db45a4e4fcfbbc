SPECIFICATION FairSpec
CONSTANTS
    a = a
    b = b
    c = c
    w1 = w1
    w2 = w2
    q1 = q1
    NoRun = NoRun
    Idle = Idle
    Automations <- Three
    RunIds <- Runs5
    Workers <- TwoWorkers
    Requests <- OneRequest
    OnSuccess <- Circle
    OnFailure <- AFails
    Conditional <- ThirdConditional
    Resolving <- ThirdConditional
    MaxStackDepth = 2
    WalkDepth = 3
    MaxStarts = 1
    MaxCoreFaults = 1
    MaxWorkerCrashes = 0
PROPERTIES
    ComesToRest
    PubWatchersServed
CHECK_DEADLOCK FALSE
