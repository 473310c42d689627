\* The API's schedule: one execution per requested scan, with failures and a
\* crash; the restarted process may have settings that the scan policy rejects.
SPECIFICATION FairSpec
CONSTANTS
    Scans = {s1, s2}
    Attempts = {a1, a2, a3}
    Readers = {r1}
    NoScan = NoScan
    NoAttempt = NoAttempt
    DirectCalls = FALSE
    Configurations <- AnySettings
    MaxCrashes = 1
INVARIANTS NoFailureCodeOnSuccess
PROPERTIES ImplementsPromise OrphansStayPut RequestedScansTerminate
CHECK_DEADLOCK FALSE
