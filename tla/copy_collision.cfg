CONSTANTS
    Sources <- MCColliding
    FastIndexes <- MCNoFast
    Versions <- MCVersions
    NoSha = NoSha
    Absent = Absent
    CrashOn = FALSE
SPECIFICATION Spec
INVARIANTS
    SidecarDescribesIndex
