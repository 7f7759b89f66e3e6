CONSTANTS
    Commits = 5
    None = None
    Commit <- MCCommit
    Histories <- MCGrown
    Stores <- MCWhole
SPECIFICATION Spec
INVARIANTS AncestorIsTheBase
CHECK_DEADLOCK FALSE
