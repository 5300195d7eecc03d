CONSTANTS
    Files <- MCFiles
    Universes <- MCUniverses
    External <- MCExternal
    Depths <- MCDepths
    MaxFrames = 8
SPECIFICATION Spec
CHECK_DEADLOCK FALSE
INVARIANT
    SelectionMatchesFormat
    ExcludedNeverCopied
    ListedTargetsSynced
