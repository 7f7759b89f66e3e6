CONSTANTS
    alice = alice  bob = bob  main = main  dev = dev
    a1 = a1  t1 = t1  m1 = m1  r1 = r1
    a2 = a2  t2 = t2  s2 = s2
    b2 = b2  t3 = t3
    Extras = {s2}
    UsedOps = {"pull", "clone", "sparse clone"}
    ExistsLimit = 10
    MaxLate = 0
    NoCommit = NoCommit
    Object <- MCObject
    Kind <- MCKind
    Deps <- MCDeps
    Client = {alice, bob}
    Branch = {main}
    Author <- MCAuthor
    RequirePR = {}
    BlockForce = {}
    MergeBase <- MCMergeBase
SPECIFICATION FairSpec
INVARIANTS TypeOK RefClosed StoreLayered HolesServed FsckFindsEveryHole IInv
PROPERTIES FastForwardOnly LocalWorkKept CommandsEnd
