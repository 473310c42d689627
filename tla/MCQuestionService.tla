------------------------- MODULE MCQuestionService -------------------------
\* Small instances of QuestionService for TLC.
EXTENDS QuestionService, TLC

CONSTANTS e1, e2

\* Two possible inventories of a scan, of unlike content.
MCContents == {{e1}, {e1, e2}}

\* Asks are interchangeable.
AskSymmetry == Permutations(Asks)
============================================================================
