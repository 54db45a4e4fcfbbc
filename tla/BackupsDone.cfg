\* Liveness: one record, two jobs at a time, two faults.
SPECIFICATION FairSpec
CONSTANTS
    i1 = i1
    i2 = i2
    j1 = j1
    j2 = j2
    Ids <- OneId
    Jobs <- TwoJobs
    Configs <- OnAndOff
    MaxTime = 1
    MaxFaults = 2
    NoRecord = NoRecord
    Queued = Queued
CHECK_DEADLOCK FALSE
PROPERTIES
    AskedIsDone
