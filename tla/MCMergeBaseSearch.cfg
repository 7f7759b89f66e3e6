CONSTANTS
    Commits = 4
    None = None
    Commit <- MCCommit
    Histories <- MCHistories
    Stores <- MCStores
SPECIFICATION FairSpec
INVARIANTS BaseIsCommon NoneMeansUnrelated SearchInv
PROPERTIES SearchEnds
CHECK_DEADLOCK FALSE
