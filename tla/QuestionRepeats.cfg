\* Two requests for the same question.
SPECIFICATION Spec
CONSTANTS
    e1 = e1
    e2 = e2
    Scans = {s1}
    Contents <- MCContents
    NoAsk = NoAsk
    Questions = {q1}
    Asks = {t1, t2}
    Outcomes = {"NONE"}
    MaxFeedback = 0
INVARIANTS RepeatsReturnTheOriginal
CHECK_DEADLOCK FALSE
