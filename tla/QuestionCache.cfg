\* A question whose claims the validator rejects, asked twice.
SPECIFICATION Spec
CONSTANTS
    e1 = e1
    e2 = e2
    Scans = {s1}
    Contents <- MCContents
    NoAsk = NoAsk
    Questions = {q1}
    Asks = {t1, t2}
    Outcomes = {"VALIDATION"}
    MaxFeedback = 0
INVARIANTS ValidationFailuresAreNotCached
CHECK_DEADLOCK FALSE
