CONSTANTS
    a1 = a1  a2 = a2  a3 = a3  b1 = b1  n1 = n1
    qa = qa  qb = qb  picture = picture  file = file
    MaxRows = 2
    NoQuery = NoQuery
    NoFile = NoFile
    Row = {a1, a2, a3, n1}
    QueryOf <- MCQueryOf
    Blob = {picture}
    Path = {file}
    Content <- MCContent
    MaxEdits = 3
    MaxCommits = 4
SPECIFICATION Spec
SYMMETRY MCSymmetry
INVARIANTS
    HistoryTypeOK UntouchedAnswersSurvive
     MergeRepeatsNoRow BlameIsTheIntroduction
    HistoryAgreesWithBlame
CHECK_DEADLOCK FALSE
