\* Two records, two jobs at a time, two seconds, one fault.
SPECIFICATION Spec
CONSTANTS
    i1 = i1
    i2 = i2
    j1 = j1
    j2 = j2
    Ids <- TwoIds
    Jobs <- TwoJobs
    Configs <- Hourly
    MaxTime = 1
    MaxFaults = 1
    NoRecord = NoRecord
    Queued = Queued
SYMMETRY BackupSymmetry
CHECK_DEADLOCK FALSE
INVARIANTS
    TypeOK
    CompletedIsStored
PROPERTIES
    NoObjectForgotten
