\* Four paths, two changes, one file too many.
SPECIFICATION FairSpec
CONSTANTS
    Paths <- MCPaths
    Extracted <- MCExtracted
    Indexed <- MCIndexed
    Oversized = {}
    Unreadable = {4}
    MaxFileCount = 2
    RejectDirty = FALSE
    MaxChanges = 2
INVARIANTS TypeOK EvidenceIsOneMoment LimitsHold
PROPERTIES ScanEnds
CHECK_DEADLOCK FALSE
