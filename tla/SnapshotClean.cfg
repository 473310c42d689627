\* REJECT: a clean scan ought to be its commit.
SPECIFICATION Spec
CONSTANTS
    Paths <- MCPaths
    Extracted <- MCExtracted
    Indexed <- MCIndexed
    Oversized = {}
    Unreadable = {4}
    MaxFileCount = 3
    RejectDirty = TRUE
    MaxChanges = 1
INVARIANTS CleanScanMatchesCommit
CHECK_DEADLOCK FALSE
