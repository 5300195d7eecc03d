CONSTANT Files <- MCFilesExclude
SPECIFICATION Spec
INVARIANT SelectionMatchesFormat
CHECK_DEADLOCK FALSE
