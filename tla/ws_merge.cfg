CONSTANTS
    Files <- MCFiles
    Targets <- MCTargets
    ThirdParty <- MCThirdParty
    Manifests <- MCManifests
    ListedFiles <- MCListedFiles
    Inputs <- MCAnsweredInputs
    SyncModes <- MCAnySync
    IsOptions <- MCIsOptions
    MANIFEST = MANIFEST
    SOURCES = SOURCES
    NoValue = NoValue
    Missing = Missing
    NotFound = NotFound
    Unreadable = Unreadable
    BAZEL_TARGET = BAZEL_TARGET
    JAVA_MANIFEST = JAVA_MANIFEST
    NoFile = NoFile
    Truncated = Truncated
SPECIFICATION Spec
PROPERTY RefinesWorkspaceIndex
