CONSTANTS
    alice = alice  bob = bob  main = main
    a1 = a1  t1 = t1  m1 = m1  a2 = a2  b1 = b1
    Later = {}
    UsedOps = {}
    ExistsLimit = 10
    MaxLate = 0
    NoCommit = NoCommit
    Object <- MCObject
    Kind <- MCKind
    Deps <- MCDeps
    Client = {alice, bob}
    Branch = {main}
    Author <- MCAuthor
    RequirePR = {}
    BlockForce = {}
    MergeBase <- MCMergeBase
SPECIFICATION GcSpec
INVARIANT InFlightPushesCovered
