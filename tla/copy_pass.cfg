CONSTANTS
    Sources <- MCDistinct
    FastIndexes <- MCFast
    Versions <- MCVersions
    NoSha = NoSha
    Absent = Absent
    CrashOn = TRUE
SPECIFICATION Spec
INVARIANTS
    TypeOK
    CacheMirrorsBatch
    IdempotentResync
    SidecarDescribesIndexUntilKilled
