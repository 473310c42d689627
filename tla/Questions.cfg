\* Three requests for one or two questions while their scan runs.
SPECIFICATION Spec
CONSTANTS
    e1 = e1
    e2 = e2
    Scans = {s1}
    Contents <- MCContents
    NoAsk = NoAsk
    Questions = {q1, q2}
    Asks = {t1, t2, t3}
    Outcomes = {"NONE", "COVERAGE", "VALIDATION"}
    MaxFeedback = 1
SYMMETRY AskSymmetry
INVARIANTS AnswersComeFromTheSealedScan AnswersAgree StoredTasksAreWhole SecondTaskNeedsOverlap HitsAreTraced CorrectionsStayInTheirTrace
CHECK_DEADLOCK FALSE
