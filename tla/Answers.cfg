\* Thirty-three questions of some 500 small scans, with limits that three rows
\* exceed; the assembler alone with any five of twelve candidates; and every walk
\* over every graph of three relationships and three symbols.
SPECIFICATION MCSpec
CONSTANTS
    Questions <- MCQuestions
    Indexes <- MCIndexes
    NoName = 0
    DefaultFramework = 10
    WordsOf <- MCWordsOf
    Within <- MCWithin
    PathWords <- MCPathWords
    CategoryOf <- MCCategoryOf
    RowIds = 100
    Overlong = {18}
    ExactLimit = 2
    ListLimit = 6
    GraphLimit = 2
    TextLimit = 2
    Pool <- MCPool
    MaxOffered = 5
    Contracts <- MCContracts
    UniqueTarget = "unique_target"
    EmptyAllowed = {"import_edges", "inheritance_edges", "route_symbols", "file_categories"}
    ScanId = "this"
    Reserved = 8
    MaxTokens = 64
    MaxItems = 4
    MaxTokensPerSlot = 40
    s1 = s1
    s2 = s2
    s3 = s3
    Symbols <- MCSymbols
    Start = s1
    Edges <- MCEdges
    TypeOf <- MCTypeOf
    MaxDepth = 3
    MaxResults = 3
    Unresolved = Unresolved
SYMMETRY MCSymmetry
INVARIANTS AccountedFor BudgetsKept BudgetGoesToTrust ReadyIsGrounded
INVARIANTS AnswersAreTrue ResolvedRowsAreAnswered AbstentionsAreExplained
INVARIANTS TypeOK ResultsAreBounded DepthIsDistance NothingNearerIsMissing ResultsAreSorted
