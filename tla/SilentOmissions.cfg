\* One question about the heirs of a class, of a scan with three resolved ones, one
\* more than a walk returns, and one in the file of the class, by its bare name.
SPECIFICATION MCSpec
CONSTANTS
    Questions <- OmissionQuestions
    Indexes <- OmissionIndexes
    NoName = 0
    DefaultFramework = 10
    WordsOf <- MCWordsOf
    Within <- MCWithin
    PathWords <- MCPathWords
    CategoryOf <- MCCategoryOf
    RowIds = 100
    Overlong = {18}
    ExactLimit = 2
    ListLimit = 6
    GraphLimit = 2
    TextLimit = 2
    Pool <- MCPool
    MaxOffered = 5
    Contracts <- MCContracts
    UniqueTarget = "unique_target"
    EmptyAllowed = {"import_edges", "inheritance_edges", "route_symbols", "file_categories"}
    ScanId = "this"
    Reserved = 8
    MaxTokens = 64
    MaxItems = 4
    MaxTokensPerSlot = 40
    s1 = s1
    s2 = s2
    s3 = s3
    Symbols <- MCSymbols
    Start = s1
    Edges <- MCEdges
    TypeOf <- MCTypeOf
    MaxDepth = 3
    MaxResults = 3
    Unresolved = Unresolved
INVARIANT OmissionsAreNamed
