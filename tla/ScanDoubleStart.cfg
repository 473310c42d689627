\* Two calls of execute on one scan.
SPECIFICATION Spec
CONSTANTS
    Scans = {s1}
    Attempts = {a1, a2}
    Readers = {r1}
    NoScan = NoScan
    NoAttempt = NoAttempt
    DirectCalls = TRUE
    Configurations = {TRUE}
    MaxCrashes = 0
PROPERTIES OnlyPendingScansStart
CHECK_DEADLOCK FALSE
