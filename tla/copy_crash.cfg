CONSTANTS
    Sources <- MCDistinct
    FastIndexes <- MCNoFast
    Versions <- MCVersions
    NoSha = NoSha
    Absent = Absent
    CrashOn = TRUE
SPECIFICATION Spec
INVARIANTS
    SidecarDescribesIndex
