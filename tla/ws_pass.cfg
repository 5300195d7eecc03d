CONSTANTS
    Files <- MCFiles
    Targets <- MCTargets
    ThirdParty <- MCThirdParty
    Manifests <- MCManifests
    ListedFiles <- MCListedFiles
    Inputs <- MCInputs
    SyncModes <- MCFullSync
    IsOptions <- MCIsOptions
    MANIFEST = MANIFEST
    SOURCES = SOURCES
    NoValue = NoValue
    Missing = Missing
    NotFound = NotFound
    Unreadable = Unreadable
    BAZEL_TARGET = BAZEL_TARGET
    JAVA_MANIFEST = JAVA_MANIFEST
    NoFile = NoFile
    Truncated = Truncated
SPECIFICATION Spec
INVARIANT TypeOK
PROPERTY RefinesWorkspaceIndex
