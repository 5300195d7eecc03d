CONSTANTS
    Universes <- MCPassUniverses
    External <- MCExternal
    SeedSets <- MCSeedSets
    Depths <- MCDepths
    Excludes <- MCExcludes
    MaxFrames = 16
    QueryFaults = FALSE
SPECIFICATION Spec
CHECK_DEADLOCK FALSE
INVARIANT
    DfsMatchesReference
PROPERTY
    DfsTerminates
