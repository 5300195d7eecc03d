CONSTANTS
    Universes <- MCUniverses
    External <- MCExternal
    SeedSets <- MCSeedSets
    Depths <- MCDepths
    Excludes <- MCExcludes
    MaxFrames = 16
    QueryFaults = FALSE
SPECIFICATION Spec
CHECK_DEADLOCK FALSE
PROPERTY
    DfsTerminates
