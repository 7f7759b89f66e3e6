CONSTANTS
    main = main  feat = feat  h1 = h1  h2 = h2  h3 = h3
    Branch = {main, feat}
    Handler = {h1, h2, h3}
    Token = {1}
    Serves <- MCServes
    Rules <- MCRules
    PatchStatus = {"closed"}
    Deletable = {feat}
    FirstHist <- MCFirstHist
    FirstHeads <- MCFirstHeads
    FirstPulls <- MCFirstPulls
    Uploads = {{}, {2, 3}}
    MaxCommits = 4
    MaxPulls = 2
SPECIFICATION Spec
INVARIANTS PrTypeOK PInv MergedStaysInTarget
PROPERTIES HeadsKeepHistory MergeIsRecordedWithTheMove MergesWereReviewed
CHECK_DEADLOCK FALSE
