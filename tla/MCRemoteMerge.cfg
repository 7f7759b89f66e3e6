CONSTANTS
    alice = alice  main = main  dev = dev
    a1 = a1  t1 = t1  m1 = m1  r1 = r1
    a2 = a2  t2 = t2  m2 = m2
    d2 = d2  td = td  b2 = b2
    am = am  tm = tm
    NoCommit = NoCommit
    Object <- MCObject
    Kind <- MCKind
    Deps <- MCDeps
    Client = {alice}
    Branch = {main, dev}
    Author <- MCAuthor
    RequirePR = {dev}
    BlockForce = {main}
    MergeBase <- MCMergeBase
    UsedOps = {"fetch"}
    ExistsLimit = 2
    MaxLate = 1
SPECIFICATION Spec
INVARIANTS RefClosed
PROPERTIES KeepsContract FastForwardOnly
