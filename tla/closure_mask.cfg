CONSTANTS
    Universes <- MCSiblingUniverses
    External <- MCExternal
    SeedSets <- MCSiblingSeedSets
    Depths <- MCDepths
    Excludes <- MCSiblingExcludes
    MaxFrames = 16
    QueryFaults = FALSE
SPECIFICATION Spec
CHECK_DEADLOCK FALSE
INVARIANT
    DfsMatchesReference
