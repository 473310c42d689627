\* Three executions, of which some are concurrent calls on one scan.
SPECIFICATION FairSpec
CONSTANTS
    Scans = {s1, s2}
    Attempts = {a1, a2, a3}
    Readers = {r1}
    NoScan = NoScan
    NoAttempt = NoAttempt
    DirectCalls = TRUE
    Configurations <- AnySettings
    MaxCrashes = 1
INVARIANTS TypeOK NoPartialInventory OneInventory ReadsAgree TrailMatchesStatus SingleWriter
PROPERTIES CompletedScansAreImmutable EveryCallEnds
CHECK_DEADLOCK FALSE
