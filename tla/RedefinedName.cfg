\* Four files and any three statements in them; files of three lines; inventories of four files.
SPECIFICATION MCSpec
CONSTANTS
    Files <- MCFiles
    Classes = {"a", "C"}
    Constants = {"C"}
    Bases <- MCBases
    RouterTables <- MCRouterTables
    Decorators <- MCDecorators
    Imports <- MCImports
    FromImports <- MCFromImports
    ExportLists <- MCExportLists
    MaxStatements = 3
    MaxNesting = 3
    None = None
    IndexFiles <- MCIndexFiles
    MaxCharacters = 3
    MaxLines = 2
    Inventories <- MCInventories
    LanguageOrder <- MCLanguageOrder
    MarkerLanguages <- MCMarkers
    Registered = {"Python"}
    Threshold = 5
INVARIANT RepeatedNamesAreStored
CHECK_DEADLOCK FALSE
