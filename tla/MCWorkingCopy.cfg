CONSTANTS
    a = a  b = b  pic = pic  x = x  y = y  cut = cut  main = main  feat = feat
    Path = {a, b, pic}
    Jsonl = {a, b}
    Content = {x, y, cut}
    Cut = cut
    Gone = Gone  Broken = Broken  Clash = Clash
    Unstaged = Unstaged  Deletion = Deletion  Torn = Torn
    Branch = {main, feat}
    FirstCommits <- MCFirstCommits
    FirstRefs <- MCFirstRefs
    FirstHead = main
    Edits <- MCEdits
    FirstSparse <- MCFirstSparse
    MaxCommits = 5
    MaxCommands = 4
SPECIFICATION Spec
INVARIANTS WorkTypeOK WInv
PROPERTIES HeadsOnlyGrow OnlyCommittedIsReplaced CleanStaysClean StagedIsCommitted
CHECK_DEADLOCK FALSE
