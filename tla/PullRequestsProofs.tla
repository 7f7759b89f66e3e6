------------------------- MODULE PullRequestsProofs -------------------------
(* What module PullRequests checks on a few branches and requests, for any  *)
(* number of them: merges, pushes and their refreshes never take a commit   *)
(* off a guarded branch.                                                    *)
EXTENDS PullRequests, FiniteSetTheorems, SequenceTheorems, TLAPS

(* What one handler has committed is new to the others, never different.    *)
Grown ==
    /\ Len(hist) <= Len(hist') /\ \A c \in Commit : hist'[c] = hist[c]
    /\ Len(pulls) <= Len(pulls') /\ DOMAIN pulls \subseteq DOMAIN pulls'
    /\ \A n \in DOMAIN pulls : pulls'[n].target = pulls[n].target
    /\ DOMAIN reviews \subseteq DOMAIN reviews'

LEMMA Lengths ==
    ASSUME PrTypeOK
    PROVE  /\ Len(hist) \in Nat /\ DOMAIN hist = Commit
           /\ Len(pulls) \in Nat /\ DOMAIN pulls = 1..Len(pulls)
           /\ \A n \in DOMAIN pulls : pulls[n] \in PullRow
  BY DEF PrTypeOK, Commit

(* SQLAlchemy's flush keeps the row a row; each attribute comes from the    *)
(* handler or from the table.                                               *)
RowOver(C) ==
    [source : Branch, target : Branch, status : Status, src : C, tgt : C, merge : {0} \cup C]

LEMMA FlushedRow ==
    ASSUME NEW C, NEW row \in RowOver(C), NEW loaded \in RowOver(C), NEW new \in RowOver(C)
    PROVE  LET f == Flush(row, loaded, new)
           IN  /\ f \in RowOver(C)
               /\ new.target = loaded.target => f.target = row.target
               /\ f.status = IF new.status # loaded.status THEN new.status ELSE row.status
               /\ f.merge = IF new.merge # loaded.merge THEN new.merge ELSE row.merge
  <1> DEFINE f == Flush(row, loaded, new)
  <1>1. DOMAIN row = {"source", "target", "status", "src", "tgt", "merge"}
    BY DEF RowOver
  <1>2. f = [source |-> IF new.source # loaded.source THEN new.source ELSE row.source,
             target |-> IF new.target # loaded.target THEN new.target ELSE row.target,
             status |-> IF new.status # loaded.status THEN new.status ELSE row.status,
             src |-> IF new.src # loaded.src THEN new.src ELSE row.src,
             tgt |-> IF new.tgt # loaded.tgt THEN new.tgt ELSE row.tgt,
             merge |-> IF new.merge # loaded.merge THEN new.merge ELSE row.merge]
    BY <1>1 DEF Flush
  <1> HIDE DEF f
  <1> QED  BY <1>2 DEF f, RowOver

(* What is known of a handler that does nothing while others run.           *)
LEMMA CreateFactsStay ==
    ASSUME PrTypeOK, Grown, NEW h \in Handler, req'[h] = req[h], CreateFacts(req[h])
    PROVE  CreateFacts(req[h])'
  <1>1. Commit \subseteq Commit'  BY Lengths DEF Grown, Commit
  <1>2. PullRow \subseteq PullRow'  BY <1>1 DEF PullRow
  <1>3. 1..(Len(pulls) + 1) \subseteq (1..(Len(pulls) + 1))'
    BY Lengths DEF Grown, PrTypeOK
  <1> QED  BY <1>1, <1>2, <1>3 DEF CreateFacts

LEMMA MergeFactsStay ==
    ASSUME PrTypeOK, Grown, NEW h \in Handler, req'[h] = req[h], MergeFacts(req[h])
    PROVE  MergeFacts(req[h])'
  <1>1. Commit \subseteq Commit'  BY Lengths DEF Grown, Commit
  <1>2. PullRow \subseteq PullRow'  BY <1>1 DEF PullRow
  <1>3. DOMAIN pulls \subseteq DOMAIN pulls'  BY DEF Grown
  <1>4. ASSUME NEW b, NEW n, Reviewed(b, n)  PROVE Reviewed(b, n)'
    <2>1. CASE Matching(b) = {}  BY <2>1 DEF Reviewed, Matching
    <2>2. CASE \E r \in Matching(b) : Cardinality(Reviewers(n)) >= r.approvals
      <3>1. Reviewers(n) \subseteq Reviewers(n)'  BY DEF Reviewers, Grown
      <3>2. IsFiniteSet(Reviewers(n)')
        BY PullAssumption, FS_Subset DEF Reviewers
      <3>3. /\ Cardinality(Reviewers(n)) <= Cardinality(Reviewers(n)')
            /\ Cardinality(Reviewers(n)) \in Nat /\ Cardinality(Reviewers(n)') \in Nat
        BY <3>1, <3>2, FS_Subset, FS_CardinalityType
      <3>4. PICK r \in Matching(b) : Cardinality(Reviewers(n)) >= r.approvals  BY <2>2
      <3>5. r.approvals \in Nat  BY PullAssumption DEF Matching
      <3>6. Cardinality(Reviewers(n)') >= r.approvals  BY <3>3, <3>4, <3>5
      <3> QED  BY <3>4, <3>6 DEF Reviewed, Matching
    <2> QED  BY <1>4, <2>1, <2>2 DEF Reviewed
  <1> QED  BY <1>1, <1>2, <1>3, <1>4 DEF MergeFacts, Grown

LEMMA PushFactsStay ==
    ASSUME PrTypeOK, Grown, NEW h \in Handler, req'[h] = req[h], PushFacts(req[h])
    PROVE  PushFacts(req[h])'
  <1>1. Commit \subseteq Commit'  BY Lengths DEF Grown, Commit
  <1> QED  BY <1>1 DEF PushFacts, PushAllowed, MergeBases, Grown

(* A refreshed row stays one while commits are only added.                  *)
LEMMA FreshenedStays ==
    ASSUME NEW h \in Handler, NEW k, NEW loaded, NEW fresh, Freshened(loaded, fresh),
           Commit \subseteq Commit',
           req'[h].loaded[k] = loaded, req'[h].fresh[k] = fresh
    PROVE  Freshened(req[h].loaded[k], req[h].fresh[k])'
  <1>1. loaded \in PullRow'  BY DEF Freshened, PullRow
  <1>2. PICK src \in Commit, tgt \in Commit :
          fresh = [loaded EXCEPT !.src = src, !.tgt = tgt]
    BY DEF Freshened
  <1>3. src \in Commit' /\ tgt \in Commit'  OBVIOUS
  <1>4. req'[h].fresh[k] = [req'[h].loaded[k] EXCEPT !.src = src, !.tgt = tgt]
    BY <1>2
  <1>5. req'[h].loaded[k] \in PullRow'  BY <1>1
  <1> HIDE DEF Commit, PullRow
  <1> QED  BY <1>3, <1>4, <1>5 DEF Freshened

LEMMA RefreshFactsStay ==
    ASSUME PrTypeOK, Grown, NEW h \in Handler, req'[h] = req[h], RefreshFacts(req[h])
    PROVE  RefreshFacts(req[h])'
  <1>1. Commit \subseteq Commit'  BY Lengths DEF Grown, Commit
  <1>3. DOMAIN pulls \subseteq DOMAIN pulls'  BY DEF Grown
  <1>4. ASSUME NEW n \in DOMAIN req[h].loaded
        PROVE  Freshened(req[h].loaded[n], req[h].fresh[n])'
    <2>1. Freshened(req[h].loaded[n], req[h].fresh[n])  BY DEF RefreshFacts
    <2> QED  BY <2>1, <1>1, FreshenedStays
  <1> QED  BY <1>1, <1>3, <1>4 DEF RefreshFacts

LEMMA OthersKeepFacts ==
    ASSUME PInv, Grown, NEW h \in Handler,
           req' = [req EXCEPT ![h] = req'[h]], HandlerFacts(h)'
    PROVE  DOMAIN req' = Handler /\ \A g \in Handler : HandlerFacts(g)'
  <1>1. DOMAIN req = Handler /\ PrTypeOK  BY DEF PInv, PrTypeOK
  <1>2. ASSUME NEW g \in Handler, g # h  PROVE HandlerFacts(g)'
    <2>1. req'[g] = req[g]  BY <1>1, <1>2
    <2>2. HandlerFacts(g)  BY DEF PInv
    <2> QED
      BY <1>1, <2>1, <2>2, CreateFactsStay, MergeFactsStay, PushFactsStay, RefreshFactsStay
         DEF HandlerFacts
  <1> QED  BY <1>1, <1>2

(* A step that only reads.                                                  *)
LEMMA ReadingStep ==
    ASSUME PInv, NEW h \in Handler, UNCHANGED <<hist, refs, pulls, reviews>>,
           req' = [req EXCEPT ![h] = req'[h]], HandlerFacts(h)'
    PROVE  PInv'
  <1>1. PrTypeOK  BY DEF PInv
  <1>2. Grown  BY Lengths, <1>1 DEF Grown
  <1>3. DOMAIN req' = Handler /\ \A g \in Handler : HandlerFacts(g)'
    BY <1>2, OthersKeepFacts
  <1>4. PrTypeOK'  BY <1>1, <1>3 DEF PrTypeOK, Commit, PullRow
  <1>5. HistoriesNested'  BY DEF PInv, HistoriesNested, Commit
  <1>6. MergedStaysInTarget'  BY DEF PInv, MergedStaysInTarget
  <1> QED  BY <1>3, <1>4, <1>5, <1>6 DEF PInv

LEMMA Ending ==
    ASSUME PInv, NEW h \in Handler, End(h)
    PROVE  req' = [req EXCEPT ![h] = req'[h]] /\ HandlerFacts(h)'
  BY DEF End, Become, PInv, PrTypeOK, HandlerFacts

LEMMA CreateReads ==
    ASSUME PInv, NEW h \in Handler, NEW s \in Branch, NEW t \in Branch,
           Create(h, s, t) \/ CreateTarget(h) \/ CreateNumber(h)
    PROVE  PInv'
  <1>1. /\ DOMAIN req = Handler /\ refs \in [Branch -> 0..Len(hist)]
        /\ Len(hist) \in Nat /\ Len(pulls) \in Nat
    BY Lengths DEF PInv, PrTypeOK
  <1>2. CASE Create(h, s, t)
    <2>1. CreateFacts(req[h])'
      BY <1>1, <1>2 DEF Create, Become, CreateFacts, Commit
    <2> QED  BY <1>1, <1>2, <2>1, ReadingStep DEF Create, Become, HandlerFacts
  <1>3. CASE CreateTarget(h)
    <2>1. req[h] \in [at : {"create_target"}, source : Branch, target : Branch, src : Commit]
      BY <1>3 DEF CreateTarget, At, PInv, HandlerFacts, CreateFacts, MergeFacts, PushFacts,
         RefreshFacts
    <2>2. CASE refs[req[h].target] = 0
      BY <1>3, <2>2, Ending, ReadingStep DEF CreateTarget
    <2>3. CASE refs[req[h].target] # 0
      <3>1. CreateFacts(req[h])'
        BY <1>1, <1>3, <2>1, <2>3 DEF CreateTarget, Become, CreateFacts, Commit
      <3> QED  BY <1>1, <1>3, <2>3, <3>1, ReadingStep DEF CreateTarget, Become, HandlerFacts
    <2> QED  BY <2>2, <2>3
  <1>4. CASE CreateNumber(h)
    <2>1. req[h] \in [at : {"create_number"}, source : Branch, target : Branch, src : Commit,
                      tgt : Commit]
      BY <1>4 DEF CreateNumber, At, PInv, HandlerFacts, CreateFacts, MergeFacts, PushFacts,
         RefreshFacts
    <2>2. NewPull(req[h].source, req[h].target, req[h].src, req[h].tgt) \in PullRow
      BY <2>1 DEF NewPull, PullRow, Status
    <2>3. CreateFacts(req[h])'
      BY <1>1, <1>4, <2>1, <2>2
         DEF CreateNumber, Become, CreateFacts, NewPull, PullRow, Commit
    <2> QED  BY <1>1, <1>4, <2>3, ReadingStep DEF CreateNumber, Become, HandlerFacts
  <1> QED  BY <1>2, <1>3, <1>4

LEMMA PatchReads ==
    ASSUME PInv, NEW h \in Handler, NEW n \in DOMAIN pulls, NEW status \in PatchStatus,
           Patch(h, n, status)
    PROVE  PInv'
  <1>1. DOMAIN req = Handler /\ pulls[n] \in PullRow
    BY Lengths DEF PInv, PrTypeOK
  <1>2. MergeFacts(req[h])'
    BY <1>1 DEF Patch, Become, MergeFacts, PullRow, Commit
  <1> QED  BY <1>1, <1>2, ReadingStep DEF Patch, Become, HandlerFacts

LEMMA PullReads ==
    ASSUME PInv, NEW h \in Handler, NEW n \in DOMAIN pulls, PullMerge(h, n) \/ Resolve(h, n)
    PROVE  PInv'
  <1>1. DOMAIN req = Handler /\ pulls[n] \in PullRow
    BY Lengths DEF PInv, PrTypeOK
  <1>2. MergeFacts(req[h])'
    BY <1>1 DEF PullMerge, Resolve, Become, MergeFacts, PullRow, Commit
  <1> QED  BY <1>1, <1>2, ReadingStep DEF PullMerge, Resolve, Become, HandlerFacts

(* Approvals that were counted are reviews that were given.                 *)
LEMMA ApprovedWereReviewed ==
    ASSUME NEW b, NEW n, ApprovedFor(b, n)
    PROVE  Reviewed(b, n)
  <1> DEFINE approving == {t \in Token : <<n, t>> \in DOMAIN reviews /\
                                         reviews[<<n, t>>] = "approved"}
  <1>1. /\ Cardinality(approving) \in Nat /\ Cardinality(Reviewers(n)) \in Nat
        /\ Cardinality(approving) <= Cardinality(Reviewers(n))
    <2>1. IsFiniteSet(Reviewers(n))  BY PullAssumption, FS_Subset DEF Reviewers
    <2>2. approving \subseteq Reviewers(n)  BY DEF Reviewers
    <2> QED  BY <2>1, <2>2, FS_Subset, FS_CardinalityType
  <1>2. \A r \in Matching(b) : r.approvals \in Nat  BY PullAssumption DEF Matching
  <1>3. Approvals(n) = Cardinality(approving)  BY DEF Approvals
  <1> HIDE DEF approving
  <1> QED  BY <1>1, <1>2, <1>3 DEF ApprovedFor, Reviewed

LEMMA GatesRead ==
    ASSUME PInv, NEW h \in Handler, PullGate(h) \/ MergeGate(h)
    PROVE  PInv'
  <1>1. DOMAIN req = Handler  BY DEF PInv, PrTypeOK
  <1>2. CASE PullGate(h)
    <2>1. /\ req[h] \in [at : {"pull_gate"}, pull : DOMAIN pulls, loaded : PullRow,
                         ours : Commit, theirs : Commit]
          /\ req[h].loaded.status # "merged"
          /\ req[h].loaded.target = pulls[req[h].pull].target
      BY <1>2 DEF PullGate, At, PInv, HandlerFacts, CreateFacts, MergeFacts, PushFacts,
         RefreshFacts
    <2>2. Reviewed(req[h].loaded.target, req[h].pull)
      BY <1>2, ApprovedWereReviewed DEF PullGate
    <2>3. req'[h] = [req[h] EXCEPT !.at = "pull_land"]
      BY <1>1, <1>2 DEF PullGate, Goto, Become
    <2>4. /\ req'[h] \in [at : {"pull_land"}, pull : DOMAIN pulls, loaded : PullRow,
                          ours : Commit, theirs : Commit]
          /\ req'[h].loaded = req[h].loaded /\ req'[h].pull = req[h].pull
      BY <2>1, <2>3
    <2>5. UNCHANGED <<hist, refs, pulls, reviews>>  BY <1>2 DEF PullGate
    <2>6. Reviewed(req[h].loaded.target, req[h].pull)'
      BY <2>2, <2>4, <2>5 DEF Reviewed, Reviewers
    <2>7. MergeFacts(req[h])'
      BY <2>1, <2>4, <2>5, <2>6 DEF MergeFacts, PullRow, Commit
    <2> QED  BY <1>1, <1>2, <2>7, ReadingStep DEF PullGate, Goto, Become, HandlerFacts
  <1>3. CASE MergeGate(h)
    <2>1. req[h] \in [at : {"merge_gate"}, target : Branch, pull : Nat, theirs : Commit,
                      ours : Commit]
      BY <1>3 DEF MergeGate, At, PInv, HandlerFacts, CreateFacts, MergeFacts, PushFacts,
         RefreshFacts
    <2>2. Reviewed(req[h].target, req[h].pull)
      BY <1>3, ApprovedWereReviewed DEF MergeGate
    <2>3. req'[h] = [req[h] EXCEPT !.at = "merge_land"]
      BY <1>1, <1>3 DEF MergeGate, Goto, Become
    <2>4. /\ req'[h] \in [at : {"merge_land"}, target : Branch, pull : Nat, theirs : Commit,
                          ours : Commit]
          /\ req'[h].target = req[h].target /\ req'[h].pull = req[h].pull
      BY <2>1, <2>3
    <2>5. UNCHANGED <<hist, refs, pulls, reviews>>  BY <1>3 DEF MergeGate
    <2>6. Reviewed(req[h].target, req[h].pull)'
      BY <2>2, <2>4, <2>5 DEF Reviewed, Reviewers
    <2>7. MergeFacts(req[h])'
      BY <2>1, <2>4, <2>5, <2>6 DEF MergeFacts, Commit
    <2> QED  BY <1>1, <1>3, <2>7, ReadingStep DEF MergeGate, Goto, Become, HandlerFacts
  <1> QED  BY <1>2, <1>3

LEMMA ResolveReads ==
    ASSUME PInv, NEW h \in Handler, ResolveOurs(h) \/ ResolveTheirs(h)
    PROVE  PInv'
  <1>1. /\ DOMAIN req = Handler /\ refs \in [Branch -> 0..Len(hist)]
        /\ Len(hist) \in Nat
    BY Lengths DEF PInv, PrTypeOK
  <1>2. CASE ResolveOurs(h)
    <2>1. /\ req[h] \in [at : {"resolve_ours"}, pull : DOMAIN pulls, loaded : PullRow]
          /\ req[h].loaded.status # "merged"
          /\ req[h].loaded.target = pulls[req[h].pull].target
      BY <1>2 DEF ResolveOurs, At, PInv, HandlerFacts, CreateFacts, MergeFacts, PushFacts,
         RefreshFacts
    <2>2. refs[req[h].loaded.target] \in Commit
      BY <1>1, <1>2, <2>1 DEF ResolveOurs, PullRow, Commit
    <2>3. MergeFacts(req[h])'
      BY <1>1, <1>2, <2>1, <2>2 DEF ResolveOurs, Become, MergeFacts, PullRow, Commit
    <2> QED  BY <1>1, <1>2, <2>3, ReadingStep DEF ResolveOurs, Become, HandlerFacts
  <1>3. CASE ResolveTheirs(h)
    <2>1. /\ req[h] \in [at : {"resolve_theirs"}, pull : DOMAIN pulls, loaded : PullRow,
                         ours : Commit]
          /\ req[h].loaded.status # "merged"
          /\ req[h].loaded.target = pulls[req[h].pull].target
      BY <1>3 DEF ResolveTheirs, At, PInv, HandlerFacts, CreateFacts, MergeFacts, PushFacts,
         RefreshFacts
    <2>2. refs[req[h].loaded.source] \in Commit
      BY <1>1, <1>3, <2>1 DEF ResolveTheirs, PullRow, Commit
    <2>3. MergeFacts(req[h])'
      BY <1>1, <1>3, <2>1, <2>2 DEF ResolveTheirs, Become, MergeFacts, PullRow, Commit
    <2> QED  BY <1>1, <1>3, <2>3, ReadingStep DEF ResolveTheirs, Become, HandlerFacts
  <1> QED  BY <1>2, <1>3

LEMMA DirectMergeReads ==
    ASSUME PInv, NEW h \in Handler, NEW s \in Branch, NEW t \in Branch,
           NEW n \in 0..MaxPulls, DirectMerge(h, s, t, n) \/ MergeTarget(h)
    PROVE  PInv'
  <1>1. /\ DOMAIN req = Handler /\ refs \in [Branch -> 0..Len(hist)]
        /\ Len(hist) \in Nat /\ n \in Nat
    BY Lengths DEF PInv, PrTypeOK
  <1>2. CASE DirectMerge(h, s, t, n)
    <2>1. MergeFacts(req[h])'
      BY <1>1, <1>2 DEF DirectMerge, Become, MergeFacts, Commit
    <2> QED  BY <1>1, <1>2, <2>1, ReadingStep DEF DirectMerge, Become, HandlerFacts
  <1>3. CASE MergeTarget(h)
    <2>1. req[h] \in [at : {"merge_target"}, target : Branch, pull : Nat, theirs : Commit]
      BY <1>3 DEF MergeTarget, At, PInv, HandlerFacts, CreateFacts, MergeFacts, PushFacts,
         RefreshFacts
    <2>2. refs[req[h].target] \in Commit
      BY <1>1, <1>3, <2>1 DEF MergeTarget, Commit
    <2>3. MergeFacts(req[h])'
      BY <1>1, <1>3, <2>1, <2>2 DEF MergeTarget, Become, MergeFacts, Commit
    <2> QED  BY <1>1, <1>3, <2>3, ReadingStep DEF MergeTarget, Become, HandlerFacts
  <1> QED  BY <1>2, <1>3

LEMMA PushReads ==
    ASSUME PInv, NEW h \in Handler, NEW b \in Branch, NEW c \in Commit, Push(h, b, c)
    PROVE  PInv'
  <1>1. /\ DOMAIN req = Handler /\ refs \in [Branch -> 0..Len(hist)]
        /\ Len(hist) \in Nat
    BY Lengths DEF PInv, PrTypeOK
  <1>2. refs[b] \in Commit  BY <1>1 DEF Push, Commit
  <1>3. req'[h] = [at |-> "push_swap", branch |-> b, old |-> refs[b], new |-> c]
    BY <1>1 DEF Push, Become
  <1>4. /\ PushAllowed(b, refs[b], c)
        /\ UNCHANGED <<hist, refs, pulls, reviews>>
    BY DEF Push
  <1>5. PushAllowed(req[h].branch, req[h].old, req[h].new)'
    BY <1>3, <1>4 DEF PushAllowed, MergeBases
  <1>6. PushFacts(req[h])'
    BY <1>2, <1>3, <1>4, <1>5 DEF PushFacts, Commit
  <1> QED  BY <1>1, <1>6, ReadingStep DEF Push, Become, HandlerFacts

LEMMA RefreshReads ==
    ASSUME PInv, NEW h \in Handler, RefreshSelect(h)
    PROVE  PInv'
  <1> DEFINE todo == {n \in DOMAIN pulls : pulls[n].status = "open" /\
                         req[h].branch \in {pulls[n].source, pulls[n].target}}
  <1>1. DOMAIN req = Handler /\ \A n \in DOMAIN pulls : pulls[n] \in PullRow
    BY Lengths DEF PInv, PrTypeOK
  <1>2. CASE todo = {}  BY <1>2, Ending, ReadingStep DEF RefreshSelect
  <1>3. CASE todo # {}
    <2>1. req'[h] = [at |-> "refresh_source", todo |-> todo, held |-> req[h].held,
                     loaded |-> [n \in todo |-> pulls[n]],
                     fresh |-> [n \in todo |-> pulls[n]]]
      BY <1>1, <1>3 DEF RefreshSelect, Become
    <2>2. UNCHANGED <<hist, refs, pulls, reviews>>  BY DEF RefreshSelect
    <2>3. ASSUME NEW row \in PullRow  PROVE Freshened(row, row)
      <3>1. row = [row EXCEPT !.src = row.src, !.tgt = row.tgt]  BY DEF PullRow
      <3>2. row.src \in Commit /\ row.tgt \in Commit  BY DEF PullRow
      <3> QED  BY <3>1, <3>2 DEF Freshened
    <2>4. \A n \in todo : Freshened(pulls[n], pulls[n])  BY <1>1, <2>3
    <2>5. ASSUME NEW n \in todo
          PROVE  Freshened(req[h].loaded[n], req[h].fresh[n])'
      <3>1. req'[h].loaded[n] = pulls[n] /\ req'[h].fresh[n] = pulls[n]  BY <2>1
      <3>2. Commit \subseteq Commit'  BY <2>2 DEF Commit
      <3> HIDE DEF todo
      <3> QED  BY <3>1, <3>2, <2>4, FreshenedStays
    <2> HIDE DEF todo
    <2>6. RefreshFacts(req[h])'
      <3>1. todo \subseteq DOMAIN pulls  BY DEF todo
      <3> QED  BY <2>1, <2>2, <2>5, <3>1 DEF RefreshFacts
    <2> QED  BY <1>1, <1>3, <2>1, <2>6, ReadingStep
             DEF RefreshSelect, Become, HandlerFacts, todo
  <1> QED  BY <1>2, <1>3

LEMMA RefreshSourceReads ==
    ASSUME PInv, NEW h \in Handler, NEW n \in DOMAIN pulls, RefreshSource(h, n)
    PROVE  PInv'
  <1>1. /\ DOMAIN req = Handler /\ refs \in [Branch -> 0..Len(hist)]
        /\ Len(hist) \in Nat /\ pulls[n] \in PullRow
    BY Lengths DEF PInv, PrTypeOK
  <1>2. RefreshFacts(req[h]) /\ req[h].todo \subseteq DOMAIN req[h].loaded
    BY DEF RefreshSource, At, PInv, HandlerFacts, CreateFacts, MergeFacts, PushFacts,
       RefreshFacts
  <1>3. PICK src \in Reads(req[h].held, pulls[n].source) :
          /\ req'[h].at = "refresh_target" /\ req'[h].pull = n /\ req'[h].src = src
          /\ req'[h].todo = req[h].todo /\ req'[h].loaded = req[h].loaded
          /\ req'[h].fresh = req[h].fresh
    BY <1>1 DEF RefreshSource, Become
  <1>4. UNCHANGED <<hist, refs, pulls, reviews>> /\ n \in req[h].todo
    BY DEF RefreshSource
  <1>5. Commit' = Commit /\ PullRow' = PullRow  BY <1>4 DEF Commit, PullRow
  <1>6. src \in {0} \cup Commit  BY <1>1, <1>3 DEF PullRow, Commit, Reads
  <1>7. ASSUME NEW k \in DOMAIN req[h].loaded
        PROVE  Freshened(req[h].loaded[k], req[h].fresh[k])'
    <2>1. Freshened(req[h].loaded[k], req[h].fresh[k])  BY <1>2 DEF RefreshFacts
    <2>2. req'[h].loaded[k] = req[h].loaded[k] /\ req'[h].fresh[k] = req[h].fresh[k]
      BY <1>3
    <2> QED  BY <2>1, <2>2, <1>5, FreshenedStays
  <1>8. /\ DOMAIN req[h].loaded \subseteq DOMAIN pulls
        /\ DOMAIN req[h].fresh = DOMAIN req[h].loaded
    BY <1>2 DEF RefreshFacts
  <1>9. RefreshFacts(req[h])'
    BY <1>2, <1>3, <1>4, <1>5, <1>6, <1>7, <1>8 DEF RefreshFacts
  <1> QED  BY <1>1, <1>9, ReadingStep DEF RefreshSource, Become, HandlerFacts

LEMMA RefreshTargetReads ==
    ASSUME PInv, NEW h \in Handler, RefreshTarget(h)
    PROVE  PInv'
  <1>0. PICK tgt \in Reads(req[h].held, pulls[req[h].pull].target) :
          LET r == req[h]
              left == r.todo \ {r.pull}
          IN Become(h,
               [at |-> IF left = {} THEN "refresh_commit" ELSE "refresh_source",
                todo |-> left,
                held |-> IF left = {} THEN {} ELSE Holding(r.held, pulls[r.pull].target, tgt),
                loaded |-> r.loaded,
                fresh |-> [r.fresh EXCEPT ![r.pull] = Refreshed(@, r.src, tgt)]])
    BY DEF RefreshTarget
  <1> DEFINE r == req[h]
             row == r.fresh[r.pull]
             left == r.todo \ {r.pull}
             fresh == [r.fresh EXCEPT ![r.pull] = Refreshed(row, r.src, tgt)]
  <1>1. /\ DOMAIN req = Handler /\ refs \in [Branch -> 0..Len(hist)]
        /\ Len(hist) \in Nat /\ \A n \in DOMAIN pulls : pulls[n] \in PullRow
    BY Lengths DEF PInv, PrTypeOK
  <1>2. /\ RefreshFacts(r) /\ r.todo \subseteq DOMAIN r.loaded
        /\ r.pull \in r.todo /\ r.src \in {0} \cup Commit
    BY DEF RefreshTarget, At, PInv, HandlerFacts, CreateFacts, MergeFacts, PushFacts,
       RefreshFacts
  <1>3. /\ req'[h].at = IF left = {} THEN "refresh_commit" ELSE "refresh_source"
        /\ req'[h].todo = left /\ req'[h].loaded = r.loaded /\ req'[h].fresh = fresh
    BY <1>0, <1>1 DEF Become
  <1>4. UNCHANGED <<hist, refs, pulls, reviews>>  BY DEF RefreshTarget
  <1>5. Commit' = Commit /\ PullRow' = PullRow  BY <1>4 DEF Commit, PullRow
  <1>8. /\ DOMAIN r.loaded \subseteq DOMAIN pulls /\ DOMAIN r.fresh = DOMAIN r.loaded
    BY <1>2 DEF RefreshFacts
  <1>6. tgt \in {0} \cup Commit  BY <1>0, <1>1, <1>2, <1>8 DEF PullRow, Commit, Reads
  <1>7. ASSUME NEW k \in DOMAIN r.loaded
        PROVE  Freshened(r.loaded[k], fresh[k])
    <2>1. Freshened(r.loaded[k], r.fresh[k])  BY <1>2 DEF RefreshFacts
    <2>2. CASE k # r.pull  BY <2>1, <2>2, <1>8
    <2>3. CASE k = r.pull
      <3>1. fresh[k] = Refreshed(row, r.src, tgt)  BY <2>3, <1>8
      <3>2. CASE 0 \in {r.src, tgt}  BY <2>1, <2>3, <3>1, <3>2 DEF Refreshed
      <3>3. CASE 0 \notin {r.src, tgt}
        <4>1. r.loaded[k] \in PullRow  BY <2>1 DEF Freshened
        <4>2. PICK s \in Commit, t \in Commit :
                row = [r.loaded[k] EXCEPT !.src = s, !.tgt = t]
          BY <2>1, <2>3 DEF Freshened
        <4>3. fresh[k] = [row EXCEPT !.src = r.src, !.tgt = tgt]
          BY <3>1, <3>3 DEF Refreshed
        <4>4. r.src \in Commit /\ tgt \in Commit  BY <3>3, <1>2, <1>6
        <4> HIDE DEF r, row, fresh
        <4>5. fresh[k] = [r.loaded[k] EXCEPT !.src = r.src, !.tgt = tgt]
          BY <4>1, <4>2, <4>3 DEF PullRow
        <4> QED  BY <4>1, <4>4, <4>5 DEF Freshened
      <3> QED  BY <3>2, <3>3
    <2> QED  BY <2>2, <2>3
  <1>9. DOMAIN fresh = DOMAIN r.fresh  OBVIOUS
  <1> HIDE DEF r, row, left, fresh
  <1>10. ASSUME NEW k \in DOMAIN r.loaded
         PROVE  Freshened(req[h].loaded[k], req[h].fresh[k])'
    <2>1. req'[h].loaded[k] = r.loaded[k] /\ req'[h].fresh[k] = fresh[k]  BY <1>3
    <2> QED  BY <2>1, <1>5, <1>7, FreshenedStays
  <1>11. left \subseteq DOMAIN r.loaded  BY <1>2 DEF left
  <1>12. RefreshFacts(req[h])'
    BY <1>3, <1>4, <1>8, <1>9, <1>10, <1>11 DEF RefreshFacts
  <1> QED  BY <1>0, <1>1, <1>4, <1>12, ReadingStep DEF Become, HandlerFacts

LEMMA RefuseReads ==
    ASSUME PInv, NEW h \in Handler, Refuse(h)
    PROVE  PInv'
  BY Ending, ReadingStep DEF Refuse

----------------------------------------------------------------------------
(* Writing steps.  The store of commits keeps what it has.                  *)
HistoryKept ==
    /\ hist' \in Seq(SUBSET Nat) /\ Len(hist') <= MaxCommits
    /\ \A c \in Commit' : c \in hist'[c] /\ hist'[c] \subseteq 1..c
    /\ HistoriesNested'
    /\ Len(hist) <= Len(hist') /\ \A c \in Commit : hist'[c] = hist[c]

LEMMA SameHistory ==
    ASSUME PInv, hist' = hist
    PROVE  HistoryKept
  BY Lengths DEF PInv, PrTypeOK, HistoriesNested, HistoryKept, Commit

(* A commit that is added descends from its parents and all they descend    *)
(* from.                                                                    *)
LEMMA NewHistory ==
    ASSUME PInv, NEW P \in SUBSET Commit, Len(hist) < MaxCommits, hist' = NewCommit(P)
    PROVE  /\ HistoryKept /\ Len(hist') = Len(hist) + 1
           /\ \A p \in P : p \in hist'[Len(hist) + 1]
  <1> DEFINE new == {Len(hist) + 1} \cup UNION {hist[p] : p \in P}
  <1>1. /\ hist \in Seq(SUBSET Nat) /\ Len(hist) \in Nat /\ MaxCommits \in Nat
        /\ \A c \in Commit : c \in hist[c] /\ hist[c] \subseteq 1..c
        /\ \A c \in Commit : \A a \in hist[c] : hist[a] \subseteq hist[c]
    BY Lengths, PullAssumption DEF PInv, PrTypeOK, HistoriesNested
  <1>2. new \subseteq 1..(Len(hist) + 1)
    <2>1. ASSUME NEW p \in P  PROVE hist[p] \subseteq 1..(Len(hist) + 1)
      BY <1>1 DEF Commit
    <2> QED  BY <2>1, <1>1
  <1>3. new \in SUBSET Nat  BY <1>1, <1>2
  <1>4. hist' = Append(hist, new)  BY DEF NewCommit
  <1> HIDE DEF new
  <1>5. /\ hist' \in Seq(SUBSET Nat) /\ Len(hist') = Len(hist) + 1
        /\ \A c \in 1..Len(hist) : hist'[c] = hist[c]
        /\ hist'[Len(hist) + 1] = new
    BY <1>1, <1>3, <1>4, AppendProperties
  <1>6. \A p \in P : p \in new  BY <1>1 DEF new
  <1>7. \A c \in Commit' : c \in hist'[c] /\ hist'[c] \subseteq 1..c
    BY <1>1, <1>2, <1>5 DEF Commit, new
  <1>8. HistoriesNested'
    <2>1. ASSUME NEW c \in Commit', NEW a \in hist'[c]
          PROVE  hist'[a] \subseteq hist'[c]
      <3>1. CASE c \in Commit
        <4>1. a \in hist[c] /\ a \in Commit  BY <1>1, <1>5, <2>1, <3>1 DEF Commit
        <4> QED  BY <1>1, <1>5, <3>1, <4>1 DEF Commit
      <3>2. CASE c = Len(hist) + 1
        <4>1. CASE a = Len(hist) + 1  BY <3>2, <4>1
        <4>2. CASE a # Len(hist) + 1
          <5>1. PICK p \in P : a \in hist[p]  BY <1>5, <2>1, <3>2, <4>2 DEF new
          <5>2. a \in Commit /\ hist[a] \subseteq hist[p]  BY <1>1, <5>1 DEF Commit
          <5>3. hist'[a] \subseteq new  BY <1>5, <5>1, <5>2 DEF new, Commit
          <5> QED  BY <1>5, <3>2, <5>3
        <4> QED  BY <4>1, <4>2
      <3> QED  BY <1>1, <1>5, <3>1, <3>2 DEF Commit
    <2> QED  BY <2>1 DEF HistoriesNested
  <1> QED  BY <1>1, <1>5, <1>6, <1>7, <1>8 DEF HistoryKept, Commit

(* A guarded branch keeps its head in its history, and what is recorded as  *)
(* merged was so before or is now the head of the target.                   *)
HeadsKept ==
    \A b \in Branch : (Guarded(b) /\ refs[b] # 0) =>
        refs'[b] # 0 /\ refs[b] \in hist'[refs'[b]]

RecordsKept ==
    \A n \in DOMAIN pulls' : pulls'[n].merge # 0 =>
        \/ n \in DOMAIN pulls /\ pulls'[n].merge = pulls[n].merge
        \/ pulls'[n].merge = refs'[pulls'[n].target]

LEMMA MergedStays ==
    ASSUME PInv, Grown, HistoryKept, HeadsKept, RecordsKept,
           refs' \in [Branch -> 0..Len(hist')], \A n \in DOMAIN pulls' : pulls'[n] \in PullRow'
    PROVE  MergedStaysInTarget'
  <1> SUFFICES ASSUME NEW n \in DOMAIN pulls',
                      pulls'[n].merge # 0, Guarded(pulls'[n].target)
               PROVE  /\ refs'[pulls'[n].target] # 0
                      /\ pulls'[n].merge \in hist'[refs'[pulls'[n].target]]
    BY DEF MergedStaysInTarget, Guarded, Matching
  <1> DEFINE b == pulls'[n].target
  <1>1. b \in Branch /\ pulls'[n].merge \in Commit'  BY DEF PullRow
  <1>2. \A c \in Commit' : c \in hist'[c]  BY DEF HistoryKept
  <1>3. CASE pulls'[n].merge = refs'[b]  BY <1>1, <1>2, <1>3
  <1>4. CASE n \in DOMAIN pulls /\ pulls'[n].merge = pulls[n].merge
    <2>1. b = pulls[n].target  BY <1>4 DEF Grown
    <2>2. refs[b] # 0 /\ pulls[n].merge \in hist[refs[b]]
      BY <1>4, <2>1 DEF PInv, MergedStaysInTarget
    <2>3. refs[b] \in Commit  BY <1>1, <2>2, Lengths DEF PInv, PrTypeOK, Commit
    <2>4. refs'[b] # 0 /\ refs[b] \in hist'[refs'[b]]  BY <1>1, <2>2 DEF HeadsKept
    <2>5. refs'[b] \in Commit'  BY <1>1, <2>4, LenProperties DEF HistoryKept, Commit
    <2>6. hist'[refs[b]] \subseteq hist'[refs'[b]]
      BY <2>4, <2>5 DEF HistoryKept, HistoriesNested
    <2>7. pulls[n].merge \in hist'[refs[b]]  BY <2>2, <2>3 DEF HistoryKept
    <2> QED  BY <1>4, <2>4, <2>6, <2>7
  <1> QED  BY <1>3, <1>4 DEF RecordsKept

LEMMA WritingStep ==
    ASSUME PInv, Grown, HistoryKept, HeadsKept, RecordsKept,
           refs' \in [Branch -> 0..Len(hist')], pulls' \in Seq(PullRow'),
           DOMAIN reviews' \subseteq (DOMAIN pulls') \X Token,
           \A x \in DOMAIN reviews' : reviews'[x] \in {"approved", "changes_requested"},
           DOMAIN req' = Handler, \A g \in Handler : HandlerFacts(g)'
    PROVE  PInv'
  <1>1. \A n \in DOMAIN pulls' : pulls'[n] \in PullRow'  BY LenProperties
  <1>2. MergedStaysInTarget'  BY <1>1, MergedStays
  <1>3. PrTypeOK'  BY DEF HistoryKept, PrTypeOK
  <1> QED  BY <1>2, <1>3 DEF PInv, HistoryKept

LEMMA RowsStay ==
    ASSUME PInv, HistoryKept
    PROVE  /\ Commit \subseteq Commit' /\ pulls \in Seq(PullRow')
           /\ PullRow = RowOver(Commit) /\ PullRow' = RowOver(Commit')
           /\ \A n \in DOMAIN pulls : pulls[n] \in PullRow /\ pulls[n] \in PullRow'
  <1>1. Commit \subseteq Commit'  BY Lengths, LenProperties DEF PInv, HistoryKept, Commit
  <1>2. PullRow = RowOver(Commit) /\ PullRow' = RowOver(Commit')
    BY DEF PullRow, RowOver
  <1>3. RowOver(Commit) \subseteq RowOver(Commit')  BY <1>1 DEF RowOver
  <1>4. pulls \in Seq(PullRow')  BY <1>2, <1>3, SeqMonotonic DEF PInv, PrTypeOK
  <1> QED  BY <1>1, <1>2, <1>3, <1>4, Lengths DEF PInv

(* A handler writes one row over what it has loaded.                        *)
RowWritten(n, loaded, new) ==
    /\ Grown /\ pulls' \in Seq(PullRow') /\ DOMAIN pulls' = DOMAIN pulls
    /\ \A k \in DOMAIN pulls : k # n => pulls'[k] = pulls[k]
    /\ pulls'[n].status =
         IF new.status # loaded.status THEN new.status ELSE pulls[n].status
    /\ pulls'[n].merge =
         IF new.merge # loaded.merge THEN new.merge ELSE pulls[n].merge

LEMMA FlushOne ==
    ASSUME PInv, HistoryKept, UNCHANGED reviews,
           NEW n \in DOMAIN pulls, NEW loaded \in PullRow, NEW new \in PullRow',
           new.target = loaded.target,
           pulls' = [pulls EXCEPT ![n] = Flush(@, loaded, new)]
    PROVE  RowWritten(n, loaded, new)
  <1>1. /\ pulls \in Seq(PullRow') /\ pulls[n] \in PullRow' /\ loaded \in PullRow'
        /\ PullRow' = RowOver(Commit')
    BY RowsStay DEF PullRow
  <1> DEFINE f == Flush(pulls[n], loaded, new)
  <1>2. /\ f \in PullRow' /\ f.target = pulls[n].target
        /\ f.status = IF new.status # loaded.status THEN new.status ELSE pulls[n].status
        /\ f.merge = IF new.merge # loaded.merge THEN new.merge ELSE pulls[n].merge
    BY <1>1, FlushedRow
  <1>3. pulls' = [pulls EXCEPT ![n] = f]  OBVIOUS
  <1> HIDE DEF f
  <1>4. DOMAIN pulls = 1..Len(pulls) /\ Len(pulls) \in Nat  BY Lengths DEF PInv
  <1>5. pulls' \in Seq(PullRow') /\ Len(pulls') = Len(pulls)
    BY <1>1, <1>2, <1>3, <1>4, ExceptSeq
  <1>6. pulls'[n] = f /\ DOMAIN pulls' = DOMAIN pulls  BY <1>3
  <1>7. \A k \in DOMAIN pulls : k # n => pulls'[k] = pulls[k]  BY <1>3
  <1>8. Grown  BY <1>2, <1>4, <1>5, <1>6, <1>7 DEF Grown, HistoryKept
  <1> QED  BY <1>2, <1>5, <1>6, <1>7, <1>8 DEF RowWritten

LEMMA MergeRecorded ==
    ASSUME PInv, HistoryKept, UNCHANGED reviews,
           NEW n \in DOMAIN pulls, NEW loaded \in PullRow, NEW m \in Commit',
           loaded.status # "merged", loaded.target = pulls[n].target,
           refs'[loaded.target] = m, RecordMerged(n, loaded, m)
    PROVE  /\ Grown /\ RecordsKept /\ pulls' \in Seq(PullRow')
           /\ DOMAIN pulls' = DOMAIN pulls
           /\ \A k \in DOMAIN pulls : k # n => pulls'[k] = pulls[k]
           /\ pulls'[n].status = "merged" /\ pulls'[n].merge \in {m, pulls[n].merge}
  <1> DEFINE new == [loaded EXCEPT !.status = "merged", !.merge = m, !.tgt = m]
  <1>1. loaded \in PullRow'  BY RowsStay DEF RowOver
  <1>2. new \in PullRow' /\ new.target = loaded.target /\ new.status = "merged" /\ new.merge = m
    BY <1>1 DEF PullRow, Status
  <1>3. pulls' = [pulls EXCEPT ![n] = Flush(@, loaded, new)]  BY DEF RecordMerged
  <1> HIDE DEF new
  <1>4. /\ Grown /\ pulls' \in Seq(PullRow') /\ DOMAIN pulls' = DOMAIN pulls
        /\ \A k \in DOMAIN pulls : k # n => pulls'[k] = pulls[k]
        /\ pulls'[n].status = "merged"
        /\ pulls'[n].merge = IF m # loaded.merge THEN m ELSE pulls[n].merge
    <2>1. RowWritten(n, loaded, new)  BY <1>2, <1>3, FlushOne
    <2> QED  BY <1>2, <2>1 DEF RowWritten
  <1>5. pulls'[n].target = loaded.target  BY <1>4 DEF Grown
  <1>6. RecordsKept  BY <1>4, <1>5 DEF RecordsKept
  <1> QED  BY <1>4, <1>6

LEMMA StatusRecorded ==
    ASSUME PInv, HistoryKept, UNCHANGED reviews,
           NEW n \in DOMAIN pulls, NEW loaded \in PullRow, NEW status \in PatchStatus,
           pulls' = [pulls EXCEPT ![n] =
                        Flush(@, loaded, [loaded EXCEPT !.status = status])]
    PROVE  /\ Grown /\ RecordsKept /\ pulls' \in Seq(PullRow')
           /\ DOMAIN pulls' = DOMAIN pulls
           /\ \A k \in DOMAIN pulls : pulls'[k].merge = pulls[k].merge
  <1> DEFINE new == [loaded EXCEPT !.status = status]
  <1>1. loaded \in PullRow'  BY RowsStay DEF RowOver
  <1>2. new \in PullRow' /\ new.target = loaded.target /\ new.merge = loaded.merge
    BY <1>1 DEF PullRow, Status
  <1>3. pulls' = [pulls EXCEPT ![n] = Flush(@, loaded, new)]  OBVIOUS
  <1> HIDE DEF new
  <1>4. RowWritten(n, loaded, new)  BY <1>2, <1>3, FlushOne
  <1>5. /\ Grown /\ pulls' \in Seq(PullRow') /\ DOMAIN pulls' = DOMAIN pulls
        /\ \A k \in DOMAIN pulls : k # n => pulls'[k] = pulls[k]
        /\ pulls'[n].merge = pulls[n].merge
    BY <1>2, <1>4 DEF RowWritten
  <1>6. \A k \in DOMAIN pulls : pulls'[k].merge = pulls[k].merge  BY <1>5
  <1> QED  BY <1>5, <1>6 DEF RecordsKept

(* A new commit or a fast-forward of the branch it was computed for.        *)
Landed(b, ours, theirs) ==
    \/ ours \in MergeBases(ours, theirs) /\ MoveRef(b, ours, theirs) /\ UNCHANGED hist
    \/ /\ Len(hist) < MaxCommits /\ hist' = NewCommit({ours, theirs})
       /\ MoveRef(b, ours, Len(hist) + 1)

LandedWell(b, ours, theirs) ==
    /\ HistoryKept /\ HeadsKept /\ KeepsHeads
    /\ refs' \in [Branch -> 0..Len(hist')] /\ refs'[b] \in Commit'
    /\ refs[b] = ours /\ {ours, theirs} \subseteq hist'[refs'[b]]

LEMMA LandsWell ==
    ASSUME PInv, NEW b \in Branch, NEW ours \in Commit, NEW theirs \in Commit,
           Landed(b, ours, theirs)
    PROVE  LandedWell(b, ours, theirs)
  <1>1. /\ refs \in [Branch -> 0..Len(hist)] /\ Len(hist) \in Nat
        /\ \A c \in Commit : c \in hist[c]
    BY Lengths DEF PInv, PrTypeOK
  <1>2. /\ HistoryKept /\ refs[b] = ours /\ refs'[b] \in Commit'
        /\ {ours, theirs} \subseteq hist'[refs'[b]]
        /\ refs' = [refs EXCEPT ![b] = refs'[b]]
    <2>1. CASE ours \in MergeBases(ours, theirs) /\ MoveRef(b, ours, theirs) /\ UNCHANGED hist
      <3>1. refs[b] = ours /\ refs'[b] = theirs /\ refs' = [refs EXCEPT ![b] = theirs]
        BY <1>1, <2>1 DEF MoveRef
      <3>2. ours \in hist[theirs]  BY <1>1, <2>1 DEF MergeBases, Commit
      <3> QED  BY <1>1, <2>1, <3>1, <3>2, SameHistory DEF Commit
    <2>2. CASE /\ Len(hist) < MaxCommits /\ hist' = NewCommit({ours, theirs})
               /\ MoveRef(b, ours, Len(hist) + 1)
      <3>1. /\ HistoryKept /\ Len(hist') = Len(hist) + 1
            /\ \A p \in {ours, theirs} : p \in hist'[Len(hist) + 1]
        BY <2>2, NewHistory
      <3>2. /\ refs[b] = ours /\ refs'[b] = Len(hist) + 1
            /\ refs' = [refs EXCEPT ![b] = Len(hist) + 1]
        BY <1>1, <2>2 DEF MoveRef
      <3> QED  BY <1>1, <3>1, <3>2 DEF Commit
    <2> QED  BY <2>1, <2>2 DEF Landed
  <1>3. Commit \subseteq Commit'  BY <1>2, RowsStay
  <1>4. refs' \in [Branch -> 0..Len(hist')]
    BY <1>1, <1>2, LenProperties DEF Commit, HistoryKept
  <1>5. ASSUME NEW a \in Branch, refs[a] # 0
        PROVE  refs'[a] # 0 /\ refs[a] \in hist'[refs'[a]]
    <2>1. refs[a] \in Commit'  BY <1>1, <1>3, <1>5 DEF Commit
    <2>2. CASE a = b
      <3>1. refs'[b] # 0  BY <1>2 DEF Commit
      <3> QED  BY <1>2, <2>2, <3>1
    <2>3. CASE a # b
      <3>1. refs'[a] = refs[a]  BY <1>1, <1>2, <2>3
      <3> QED  BY <1>2, <1>5, <2>1, <3>1 DEF HistoryKept
    <2> QED  BY <2>2, <2>3
  <1>6. HeadsKept /\ KeepsHeads  BY <1>5 DEF HeadsKept, KeepsHeads
  <1> QED  BY <1>2, <1>4, <1>6 DEF LandedWell

(* One step of the system, and what the action properties say of it.        *)
StepWell == PInv' /\ KeepsHeads /\ RecordsMerges

LEMMA NoRecord ==
    ASSUME PInv, HistoryKept, UNCHANGED <<pulls, reviews>>
    PROVE  Grown /\ RecordsKept /\ RecordsMerges /\ pulls' \in Seq(PullRow')
  <1>1. Len(pulls) \in Nat  BY Lengths DEF PInv
  <1> QED  BY <1>1, RowsStay DEF Grown, RecordsKept, RecordsMerges, HistoryKept

LEMMA MergeLands ==
    ASSUME PInv, NEW h \in Handler, MergeLand(h)
    PROVE  StepWell
  <1>1. PICK b \in Branch, ours \in Commit, theirs \in Commit :
          b = req[h].target /\ ours = req[h].ours /\ theirs = req[h].theirs
    BY DEF MergeLand, At, PInv, HandlerFacts, CreateFacts, MergeFacts, PushFacts, RefreshFacts
  <1>2. Landed(b, ours, theirs) /\ UNCHANGED <<pulls, reviews>> /\ End(h)
    BY <1>1 DEF MergeLand, MergeInto, Landed
  <1>3. LandedWell(b, ours, theirs)  BY <1>2, LandsWell
  <1>4. HistoryKept /\ HeadsKept /\ KeepsHeads /\ refs' \in [Branch -> 0..Len(hist')]
    BY <1>3 DEF LandedWell
  <1>5. Grown /\ RecordsKept /\ RecordsMerges /\ pulls' \in Seq(PullRow')
    BY <1>2, <1>4, NoRecord
  <1>6. DOMAIN req' = Handler /\ \A g \in Handler : HandlerFacts(g)'
    BY <1>2, <1>5, Ending, OthersKeepFacts
  <1> QED  BY <1>2, <1>4, <1>5, <1>6, WritingStep DEF PInv, PrTypeOK, StepWell

LEMMA PullLands ==
    ASSUME PInv, NEW h \in Handler, PullLand(h) \/ ResolveLand(h)
    PROVE  StepWell
  <1>1. /\ req[h] \in [at : {"pull_land", "resolve_land"}, pull : DOMAIN pulls,
                       loaded : PullRow, ours : Commit, theirs : Commit]
        /\ req[h].loaded.status # "merged"
        /\ req[h].loaded.target = pulls[req[h].pull].target
    BY DEF PullLand, ResolveLand, At, PInv, HandlerFacts, CreateFacts, MergeFacts, PushFacts,
       RefreshFacts
  <1>2. PICK n \in DOMAIN pulls, loaded \in PullRow, ours \in Commit, theirs \in Commit :
          /\ n = req[h].pull /\ loaded = req[h].loaded
          /\ ours = req[h].ours /\ theirs = req[h].theirs
    BY <1>1
  <1>3. PICK b \in Branch : b = loaded.target  BY DEF PullRow
  <1>4. refs \in [Branch -> 0..Len(hist)]  BY DEF PInv, PrTypeOK
  <1>5. Landed(b, ours, theirs) /\ RecordMerged(n, loaded, refs'[b])
    <2>1. CASE PullLand(h)
      <3>1. MergeInto(b, ours, theirs) /\ RecordMerged(n, loaded, refs'[b])
        BY <1>2, <1>3, <2>1 DEF PullLand
      <3> QED  BY <3>1 DEF MergeInto, Landed
    <2>2. CASE ResolveLand(h)
      <3>1. /\ Len(hist) < MaxCommits /\ hist' = NewCommit({ours, theirs})
            /\ MoveRef(b, ours, Len(hist) + 1)
            /\ RecordMerged(n, loaded, Len(hist) + 1)
        BY <1>2, <1>3, <2>2 DEF ResolveLand
      <3> QED  BY <1>4, <3>1 DEF Landed, MoveRef
    <2> QED  BY <2>1, <2>2
  <1>6. End(h) /\ UNCHANGED reviews  BY DEF PullLand, ResolveLand
  <1>7. LandedWell(b, ours, theirs)  BY <1>5, LandsWell
  <1>8. /\ HistoryKept /\ HeadsKept /\ KeepsHeads
        /\ refs' \in [Branch -> 0..Len(hist')] /\ refs'[b] \in Commit'
        /\ refs[b] = ours /\ {ours, theirs} \subseteq hist'[refs'[b]]
    BY <1>7 DEF LandedWell
  <1>9. PICK m \in Commit' : m = refs'[b]  BY <1>8
  <1>10. loaded.status # "merged" /\ loaded.target = pulls[n].target  BY <1>1, <1>2
  <1>11. /\ Grown /\ RecordsKept /\ pulls' \in Seq(PullRow')
         /\ DOMAIN pulls' = DOMAIN pulls
         /\ \A k \in DOMAIN pulls : k # n => pulls'[k] = pulls[k]
         /\ pulls'[n].status = "merged" /\ pulls'[n].merge \in {m, pulls[n].merge}
    BY <1>3, <1>5, <1>6, <1>8, <1>9, <1>10, MergeRecorded
  <1>12. RecordsMerges
    <2>1. req[h].at \in {"pull_land", "resolve_land"}  BY <1>1
    <2> QED  BY <2>1, <1>2, <1>3, <1>8, <1>9, <1>10, <1>11 DEF RecordsMerges
  <1>13. DOMAIN req' = Handler /\ \A g \in Handler : HandlerFacts(g)'
    BY <1>6, <1>11, Ending, OthersKeepFacts
  <1> QED  BY <1>6, <1>8, <1>11, <1>12, <1>13, WritingStep DEF PInv, PrTypeOK, StepWell

(* A push moves a guarded branch only forward.                              *)
LEMMA PushMoves ==
    ASSUME PInv, NEW h \in Handler, NEW b \in Branch, NEW c \in Commit,
           PushSwap(h) \/ PushNew(h, b, c)
    PROVE  StepWell
  <1>1. /\ refs \in [Branch -> 0..Len(hist)] /\ Len(hist) \in Nat
        /\ DOMAIN req = Handler /\ \A d \in Commit : d \in hist[d]
    BY Lengths DEF PInv, PrTypeOK
  <1>2. HistoryKept /\ UNCHANGED <<hist, pulls, reviews>>
    BY SameHistory DEF PushSwap, PushNew
  <1>3. Grown /\ RecordsKept /\ RecordsMerges /\ pulls' \in Seq(PullRow')
    BY <1>2, NoRecord
  <1>4. PICK a \in Branch, new \in Commit, held \in SUBSET (Branch \X Commit) :
          /\ refs' = [refs EXCEPT ![a] = new]
          /\ req' = [req EXCEPT ![h] = [at |-> "refresh_select", branch |-> a, held |-> held]]
          /\ \/ refs[a] = 0
             \/ /\ refs[a] \in Commit /\ PushAllowed(a, refs[a], new)
                /\ At(h, "push_swap") /\ req[h] # req'[h]
    <2>1. CASE PushSwap(h)
      <3>1. /\ req[h] \in [at : {"push_swap"}, branch : Branch, old : Commit, new : Commit]
            /\ PushAllowed(req[h].branch, req[h].old, req[h].new)
        BY <2>1 DEF PushSwap, At, PInv, HandlerFacts, CreateFacts, MergeFacts, PushFacts,
           RefreshFacts
      <3>2. /\ refs[req[h].branch] = req[h].old
            /\ refs' = [refs EXCEPT ![req[h].branch] = req[h].new]
            /\ req' = [req EXCEPT ![h] = [at |-> "refresh_select", branch |-> req[h].branch,
                                           held |-> {}]]
            /\ At(h, "push_swap")
        BY <2>1 DEF PushSwap, MoveRef, Become
      <3>3. req[h] # req'[h]  BY <1>1, <3>1, <3>2
      <3>4. {} \in SUBSET (Branch \X Commit)  OBVIOUS
      <3>5. /\ req[h].branch \in Branch /\ req[h].new \in Commit
            /\ refs[req[h].branch] \in Commit
            /\ PushAllowed(req[h].branch, refs[req[h].branch], req[h].new)
        BY <3>1, <3>2
      <3> QED  BY <3>2, <3>3, <3>4, <3>5
    <2>2. CASE PushNew(h, b, c)
      <3>1. {<<b, c>>} \in SUBSET (Branch \X Commit)  OBVIOUS
      <3> QED  BY <2>2, <3>1 DEF PushNew, MoveRef, Become
    <2> QED  BY <2>1, <2>2
  <1>5. ASSUME NEW d \in Branch, refs[d] # 0
        PROVE  /\ refs'[d] # 0
               /\ refs[d] \in hist'[refs'[d]] \/ (~Guarded(d) /\ d = a)
    <2>1. CASE d # a
      <3>1. refs'[d] = refs[d] /\ refs[d] \in Commit  BY <1>1, <1>4, <1>5, <2>1 DEF Commit
      <3> QED  BY <1>1, <1>2, <1>5, <3>1
    <2>2. CASE d = a
      <3>1. refs'[a] = new /\ new # 0 /\ refs[a] \in Commit /\ PushAllowed(a, refs[a], new)
        BY <1>1, <1>4, <1>5, <2>2 DEF Commit
      <3>2. CASE Guarded(a)
        <4>1. refs[a] \in MergeBases(refs[a], new)
          BY <3>1, <3>2 DEF Guarded, PushAllowed
        <4>2. refs[a] \in hist[new]  BY <1>1, <3>1, <4>1 DEF MergeBases, Commit
        <4> QED  BY <1>2, <2>2, <3>1, <4>2
      <3> QED  BY <2>2, <3>1, <3>2
    <2> QED  BY <2>1, <2>2
  <1>6. HeadsKept  BY <1>5 DEF HeadsKept
  <1>7. KeepsHeads  BY <1>4, <1>5 DEF KeepsHeads
  <1>8. refs' \in [Branch -> 0..Len(hist')]  BY <1>1, <1>2, <1>4 DEF Commit
  <1>9. req'[h].at = "refresh_select" /\ req'[h].branch = a  BY <1>1, <1>4
  <1>10. HandlerFacts(h)'  BY <1>9 DEF HandlerFacts, PushFacts
  <1>11. DOMAIN req' = Handler /\ \A g \in Handler : HandlerFacts(g)'
    BY <1>3, <1>4, <1>9, <1>10, OthersKeepFacts
  <1> QED  BY <1>2, <1>3, <1>6, <1>7, <1>8, <1>11, WritingStep DEF PInv, PrTypeOK, StepWell

LEMMA SameHeads ==
    ASSUME PInv, HistoryKept, UNCHANGED refs
    PROVE  HeadsKept /\ KeepsHeads /\ refs' \in [Branch -> 0..Len(hist')]
  <1>1. /\ refs \in [Branch -> 0..Len(hist)] /\ Len(hist) \in Nat
        /\ Len(hist') \in Nat /\ Len(hist) <= Len(hist')
    BY Lengths, LenProperties DEF PInv, PrTypeOK, HistoryKept
  <1>2. \A b \in Branch : refs[b] # 0 => refs[b] \in hist'[refs[b]]
    BY <1>1, RowsStay DEF HistoryKept, Commit
  <1> QED  BY <1>1, <1>2 DEF HeadsKept, KeepsHeads

LEMMA PatchWrites ==
    ASSUME PInv, NEW h \in Handler, PatchWrite(h)
    PROVE  StepWell
  <1>1. req[h] \in [at : {"patch_write"}, pull : DOMAIN pulls, loaded : PullRow,
                    status : PatchStatus]
    BY DEF PatchWrite, At, PInv, HandlerFacts, CreateFacts, MergeFacts, PushFacts, RefreshFacts
  <1>2. HistoryKept /\ UNCHANGED <<hist, refs, reviews>>  BY SameHistory DEF PatchWrite
  <1>3. PICK n \in DOMAIN pulls, loaded \in PullRow, status \in PatchStatus :
          n = req[h].pull /\ loaded = req[h].loaded /\ status = req[h].status
    BY <1>1
  <1>4. pulls' = [pulls EXCEPT ![n] = Flush(@, loaded, [loaded EXCEPT !.status = status])]
    BY <1>3 DEF PatchWrite
  <1>5. /\ Grown /\ RecordsKept /\ pulls' \in Seq(PullRow') /\ DOMAIN pulls' = DOMAIN pulls
        /\ \A k \in DOMAIN pulls : pulls'[k].merge = pulls[k].merge
    BY <1>2, <1>4, StatusRecorded
  <1>6. RecordsMerges  BY <1>5 DEF RecordsMerges
  <1>7. HeadsKept /\ KeepsHeads /\ refs' \in [Branch -> 0..Len(hist')]
    BY <1>2, SameHeads
  <1>8. DOMAIN req' = Handler /\ \A g \in Handler : HandlerFacts(g)'
    BY <1>5, Ending, OthersKeepFacts DEF PatchWrite
  <1> QED  BY <1>2, <1>5, <1>6, <1>7, <1>8, WritingStep DEF PInv, PrTypeOK, StepWell

LEMMA Inserts ==
    ASSUME PInv, NEW h \in Handler, CreateInsert(h)
    PROVE  StepWell
  <1>1. HistoryKept /\ UNCHANGED <<hist, refs, reviews>>  BY SameHistory DEF CreateInsert
  <1>2. HeadsKept /\ KeepsHeads /\ refs' \in [Branch -> 0..Len(hist')]
    BY <1>1, SameHeads
  <1>3. /\ Grown /\ RecordsKept /\ RecordsMerges /\ pulls' \in Seq(PullRow')
    <2>1. CASE req[h].number \in DOMAIN pulls
      BY <1>1, <2>1, NoRecord DEF CreateInsert
    <2>2. CASE req[h].number \notin DOMAIN pulls
      <3>1. PICK row \in PullRow : row = req[h].row /\ row.merge = 0
        BY DEF CreateInsert, At, PInv, HandlerFacts, CreateFacts, MergeFacts, PushFacts,
           RefreshFacts
      <3>2. pulls' = Append(pulls, row)  BY <2>2, <3>1 DEF CreateInsert
      <3>3. pulls \in Seq(PullRow') /\ row \in PullRow'
        <4>1. pulls \in Seq(PullRow')  BY <1>1, RowsStay
        <4>2. PullRow' = PullRow  BY <1>1 DEF PullRow, Commit
        <4> QED  BY <3>1, <4>1, <4>2
      <3>4. /\ pulls' \in Seq(PullRow') /\ Len(pulls') = Len(pulls) + 1
            /\ \A k \in 1..Len(pulls) : pulls'[k] = pulls[k]
            /\ pulls'[Len(pulls) + 1] = row
        BY <3>2, <3>3, AppendProperties
      <3>5. /\ Len(pulls) \in Nat /\ DOMAIN pulls = 1..Len(pulls)
            /\ DOMAIN pulls' = 1..(Len(pulls) + 1)
        BY <3>4, Lengths, LenProperties DEF PInv
      <3>6. Grown  BY <1>1, <3>4, <3>5 DEF Grown, HistoryKept
      <3>7. RecordsKept  BY <3>1, <3>4, <3>5 DEF RecordsKept
      <3>8. RecordsMerges  BY <3>4, <3>5 DEF RecordsMerges
      <3> QED  BY <3>4, <3>6, <3>7, <3>8
    <2> QED  BY <2>1, <2>2
  <1>4. DOMAIN req' = Handler /\ \A g \in Handler : HandlerFacts(g)'
    BY <1>3, Ending, OthersKeepFacts DEF CreateInsert
  <1>5. DOMAIN reviews' \subseteq (DOMAIN pulls') \X Token
    BY <1>1, <1>3 DEF PInv, PrTypeOK, Grown
  <1> QED  BY <1>1, <1>2, <1>3, <1>4, <1>5, WritingStep DEF PInv, PrTypeOK, StepWell

(* Nobody's facts change when no handler moves.                             *)
LEMMA AllKeepFacts ==
    ASSUME PInv, Grown, UNCHANGED req
    PROVE  DOMAIN req' = Handler /\ \A g \in Handler : HandlerFacts(g)'
  <1>1. DOMAIN req = Handler /\ PrTypeOK  BY DEF PInv, PrTypeOK
  <1>2. ASSUME NEW g \in Handler  PROVE HandlerFacts(g)'
    <2>1. req'[g] = req[g] /\ HandlerFacts(g)  BY DEF PInv
    <2> QED
      BY <1>1, <2>1, CreateFactsStay, MergeFactsStay, PushFactsStay, RefreshFactsStay
         DEF HandlerFacts
  <1> QED  BY <1>1, <1>2

LEMMA Reviews ==
    ASSUME PInv, NEW n \in DOMAIN pulls, NEW t \in Token,
           NEW status \in {"approved", "changes_requested"}, SubmitReview(n, t, status)
    PROVE  StepWell
  <1>1. HistoryKept /\ UNCHANGED <<hist, refs, pulls, req>>  BY SameHistory DEF SubmitReview
  <1>2. HeadsKept /\ KeepsHeads /\ refs' \in [Branch -> 0..Len(hist')]
    BY <1>1, SameHeads
  <1>3. /\ DOMAIN reviews \subseteq (DOMAIN pulls) \X Token
        /\ \A x \in DOMAIN reviews : reviews[x] \in {"approved", "changes_requested"}
        /\ Len(pulls) \in Nat
    BY Lengths DEF PInv, PrTypeOK
  <1>4. DOMAIN reviews' = DOMAIN reviews \cup {<<n, t>>}  BY DEF SubmitReview
  <1>5. /\ DOMAIN reviews' \subseteq (DOMAIN pulls') \X Token
        /\ \A x \in DOMAIN reviews' : reviews'[x] \in {"approved", "changes_requested"}
    BY <1>1, <1>3, <1>4 DEF SubmitReview
  <1>6. Grown  BY <1>1, <1>3, <1>4 DEF Grown, HistoryKept
  <1>7. RecordsKept /\ RecordsMerges  BY <1>1 DEF RecordsKept, RecordsMerges
  <1>8. pulls' \in Seq(PullRow')  BY <1>1, RowsStay
  <1> QED
    BY <1>1, <1>2, <1>5, <1>6, <1>7, <1>8, AllKeepFacts, WritingStep DEF StepWell

LEMMA UploadsKeep ==
    ASSUME PInv, NEW parents \in Uploads, Upload(parents)
    PROVE  StepWell
  <1>1. HistoryKept /\ UNCHANGED <<refs, pulls, reviews, req>>
    BY NewHistory DEF Upload
  <1>2. HeadsKept /\ KeepsHeads /\ refs' \in [Branch -> 0..Len(hist')]
    BY <1>1, SameHeads
  <1>3. Grown /\ RecordsKept /\ RecordsMerges /\ pulls' \in Seq(PullRow')
    BY <1>1, NoRecord
  <1> QED  BY <1>1, <1>2, <1>3, AllKeepFacts, WritingStep DEF PInv, PrTypeOK, StepWell

LEMMA Deletes ==
    ASSUME PInv, NEW h \in Handler, NEW b \in Branch, DeleteRef(h, b)
    PROVE  StepWell
  <1>1. /\ refs \in [Branch -> 0..Len(hist)] /\ Len(hist) \in Nat
        /\ \A c \in Commit : c \in hist[c]
    BY Lengths DEF PInv, PrTypeOK
  <1>2. /\ HistoryKept /\ UNCHANGED <<hist, pulls, reviews>>
        /\ refs' = [refs EXCEPT ![b] = 0] /\ ~Guarded(b)
    BY SameHistory DEF DeleteRef, Guarded
  <1>3. HeadsKept /\ KeepsHeads /\ refs' \in [Branch -> 0..Len(hist')]
    BY <1>1, <1>2 DEF HeadsKept, KeepsHeads, Commit
  <1>4. Grown /\ RecordsKept /\ RecordsMerges /\ pulls' \in Seq(PullRow')
    BY <1>2, NoRecord
  <1>5. DOMAIN req' = Handler /\ \A g \in Handler : HandlerFacts(g)'
    BY <1>4, Ending, OthersKeepFacts DEF DeleteRef
  <1> QED  BY <1>2, <1>3, <1>4, <1>5, WritingStep DEF PInv, PrTypeOK, StepWell

(* A refresh changes only the two commits of a pull request.                *)
LEMMA Refreshes ==
    ASSUME PInv, NEW h \in Handler, RefreshCommit(h)
    PROVE  StepWell
  <1>1. HistoryKept /\ UNCHANGED <<hist, refs, reviews>>  BY SameHistory DEF RefreshCommit
  <1>2. HeadsKept /\ KeepsHeads /\ refs' \in [Branch -> 0..Len(hist')]
    BY <1>1, SameHeads
  <1>3. /\ DOMAIN req[h].loaded \subseteq DOMAIN pulls
        /\ \A n \in DOMAIN req[h].loaded : Freshened(req[h].loaded[n], req[h].fresh[n])
    BY DEF RefreshCommit, At, PInv, HandlerFacts, CreateFacts, MergeFacts, PushFacts,
       RefreshFacts
  <1>4. /\ DOMAIN pulls = 1..Len(pulls) /\ Len(pulls) \in Nat
        /\ \A n \in DOMAIN pulls : pulls[n] \in PullRow
    BY Lengths DEF PInv
  <1>5. ASSUME NEW row \in PullRow, NEW loaded, NEW fresh, Freshened(loaded, fresh)
        PROVE  LET f == Flush(row, loaded, fresh)
               IN  f \in PullRow /\ f.target = row.target /\ f.merge = row.merge
    <2>1. loaded \in PullRow /\ fresh \in PullRow /\ fresh.target = loaded.target
          /\ fresh.merge = loaded.merge
      BY <1>5 DEF Freshened, PullRow
    <2>2. PullRow = RowOver(Commit)  BY <1>1, RowsStay
    <2> QED  BY <2>1, <2>2, FlushedRow
  <1>6. /\ pulls' = [n \in 1..Len(pulls) |-> pulls'[n]]
        /\ \A n \in DOMAIN pulls :
              /\ pulls'[n] \in PullRow /\ pulls'[n].target = pulls[n].target
              /\ pulls'[n].merge = pulls[n].merge
    <2>1. pulls' = [n \in DOMAIN pulls |->
             IF n \in DOMAIN req[h].loaded
             THEN Flush(pulls[n], req[h].loaded[n], req[h].fresh[n]) ELSE pulls[n]]
      BY DEF RefreshCommit
    <2>2. pulls' = [n \in 1..Len(pulls) |-> pulls'[n]]  BY <1>4, <2>1
    <2>3. ASSUME NEW n \in DOMAIN pulls
          PROVE  /\ pulls'[n] \in PullRow /\ pulls'[n].target = pulls[n].target
                 /\ pulls'[n].merge = pulls[n].merge
      <3>1. pulls[n] \in PullRow  BY <1>4
      <3>2. CASE n \notin DOMAIN req[h].loaded  BY <2>1, <3>1, <3>2
      <3>3. CASE n \in DOMAIN req[h].loaded
        <4>1. pulls'[n] = Flush(pulls[n], req[h].loaded[n], req[h].fresh[n])  BY <2>1, <3>3
        <4>2. Freshened(req[h].loaded[n], req[h].fresh[n])  BY <1>3, <3>3
        <4> QED  BY <1>5, <3>1, <4>1, <4>2
      <3> QED  BY <3>2, <3>3
    <2> QED  BY <2>2, <2>3
  <1>7. PullRow' = PullRow  BY <1>1 DEF PullRow, Commit
  <1>8. pulls' \in [1..Len(pulls) -> PullRow']  BY <1>4, <1>6, <1>7
  <1>9. pulls' \in Seq(PullRow')  BY <1>4, <1>8, SeqDef
  <1>10. DOMAIN pulls' = DOMAIN pulls /\ Len(pulls') = Len(pulls)
    BY <1>4, <1>8, <1>9, LenProperties
  <1>11. Grown /\ RecordsKept /\ RecordsMerges
    BY <1>1, <1>4, <1>6, <1>10 DEF Grown, RecordsKept, RecordsMerges, HistoryKept
  <1>12. DOMAIN req' = Handler /\ \A g \in Handler : HandlerFacts(g)'
    BY <1>11, Ending, OthersKeepFacts DEF RefreshCommit
  <1> QED  BY <1>1, <1>2, <1>9, <1>10, <1>11, <1>12, WritingStep DEF PInv, PrTypeOK, StepWell

LEMMA OnlyReads ==
    ASSUME PInv, PInv', UNCHANGED <<hist, refs, pulls, reviews>>
    PROVE  StepWell
  BY DEF StepWell, KeepsHeads, RecordsMerges

LEMMA EachStepWell ==
    ASSUME PInv, Next
    PROVE  StepWell
  <1>1. ASSUME NEW h \in Handler, Creating(h)  PROVE StepWell
    <2>1. ASSUME NEW s \in Branch, NEW t \in Branch, Create(h, s, t)  PROVE StepWell
      BY <2>1, CreateReads, OnlyReads DEF Create
    <2>2. ASSUME NEW s \in Branch, CreateTarget(h) \/ CreateNumber(h)  PROVE StepWell
      BY <2>2, CreateReads, OnlyReads DEF CreateTarget, CreateNumber
    <2>3. CASE CreateTarget(h) \/ CreateNumber(h)
      <3>1. Branch # {}
        BY <2>3 DEF CreateTarget, CreateNumber, At, PInv, HandlerFacts, CreateFacts, MergeFacts,
           PushFacts, RefreshFacts
      <3> QED  BY <2>2, <2>3, <3>1
    <2>4. CASE CreateInsert(h)  BY <2>4, Inserts
    <2> QED  BY <1>1, <2>1, <2>3, <2>4 DEF Creating
  <1>2. ASSUME NEW h \in Handler, Merging(h)  PROVE StepWell
    <2>1. ASSUME NEW n \in DOMAIN pulls, PullMerge(h, n) \/ Resolve(h, n)  PROVE StepWell
      BY <2>1, PullReads, OnlyReads DEF PullMerge, Resolve
    <2>2. CASE PullGate(h) \/ MergeGate(h)
      BY <2>2, GatesRead, OnlyReads DEF PullGate, MergeGate
    <2>3. CASE PullLand(h) \/ ResolveLand(h)  BY <2>3, PullLands
    <2>4. CASE ResolveOurs(h) \/ ResolveTheirs(h)
      BY <2>4, ResolveReads, OnlyReads DEF ResolveOurs, ResolveTheirs
    <2>5. ASSUME NEW s \in Branch, NEW t \in Branch, NEW n \in 0..MaxPulls,
                 DirectMerge(h, s, t, n) \/ MergeTarget(h)
          PROVE  StepWell
      BY <2>5, DirectMergeReads, OnlyReads DEF DirectMerge, MergeTarget
    <2>6. CASE MergeTarget(h)
      <3>1. Branch # {}
        BY <2>6 DEF MergeTarget, At, PInv, HandlerFacts, CreateFacts, MergeFacts, PushFacts,
           RefreshFacts
      <3>2. 0 \in 0..MaxPulls  BY PullAssumption
      <3> QED  BY <2>5, <2>6, <3>1, <3>2
    <2>7. CASE MergeLand(h)  BY <2>7, MergeLands
    <2> QED  BY <1>2, <2>1, <2>2, <2>3, <2>4, <2>5, <2>6, <2>7 DEF Merging
  <1>3. ASSUME NEW h \in Handler, Pushing(h)  PROVE StepWell
    <2>1. ASSUME NEW b \in Branch, NEW c \in Commit, Push(h, b, c)  PROVE StepWell
      BY <2>1, PushReads, OnlyReads DEF Push
    <2>2. ASSUME NEW b \in Branch, NEW c \in Commit, PushSwap(h) \/ PushNew(h, b, c)
          PROVE  StepWell
      BY <2>2, PushMoves
    <2>3. CASE PushSwap(h)
      <3>1. Branch # {} /\ Commit # {}
        BY <2>3 DEF PushSwap, At, PInv, HandlerFacts, CreateFacts, MergeFacts, PushFacts,
           RefreshFacts
      <3> QED  BY <2>2, <2>3, <3>1
    <2>4. CASE RefreshSelect(h)  BY <2>4, RefreshReads, OnlyReads DEF RefreshSelect
    <2>5. CASE RefreshTarget(h)  BY <2>5, RefreshTargetReads, OnlyReads DEF RefreshTarget
    <2>6. CASE RefreshCommit(h)  BY <2>6, Refreshes
    <2>7. ASSUME NEW n \in DOMAIN pulls, RefreshSource(h, n)  PROVE StepWell
      BY <2>7, RefreshSourceReads, OnlyReads DEF RefreshSource
    <2> QED  BY <1>3, <2>1, <2>2, <2>3, <2>4, <2>5, <2>6, <2>7 DEF Pushing
  <1>4. ASSUME NEW h \in Handler, PatchWrite(h)  PROVE StepWell  BY <1>4, PatchWrites
  <1>5. ASSUME NEW h \in Handler, Refuse(h)  PROVE StepWell
    BY <1>5, RefuseReads, OnlyReads DEF Refuse
  <1>6. ASSUME NEW h \in Handler, NEW n \in DOMAIN pulls, NEW status \in PatchStatus,
               Patch(h, n, status)
        PROVE  StepWell
    BY <1>6, PatchReads, OnlyReads DEF Patch
  <1>7. ASSUME NEW h \in Handler, NEW b \in Branch, DeleteRef(h, b)  PROVE StepWell
    BY <1>7, Deletes
  <1>8. ASSUME NEW n \in DOMAIN pulls, NEW t \in Token,
               NEW status \in {"approved", "changes_requested"}, SubmitReview(n, t, status)
        PROVE  StepWell
    BY <1>8, Reviews
  <1>9. ASSUME NEW parents \in Uploads, Upload(parents)  PROVE StepWell
    BY <1>9, UploadsKeep
  <1> QED  BY <1>1, <1>2, <1>3, <1>4, <1>5, <1>6, <1>7, <1>8, <1>9 DEF Next

LEMMA StartsWell ==
    ASSUME Init
    PROVE  PInv
  <1>1. /\ hist \in Seq(SUBSET Nat) /\ Len(hist) <= MaxCommits
        /\ \A c \in DOMAIN hist : /\ c \in hist[c] /\ hist[c] \subseteq 1..c
                                  /\ \A a \in hist[c] : hist[a] \subseteq hist[c]
        /\ refs \in [Branch -> 0..Len(hist)]
    BY PullAssumption DEF Init
  <1>2. Len(hist) \in Nat /\ DOMAIN hist = Commit  BY <1>1, LenProperties DEF Commit
  <1>3. /\ Len(FirstPulls) \in Nat /\ DOMAIN FirstPulls = 1..Len(FirstPulls)
        /\ \A n \in DOMAIN FirstPulls :
              /\ FirstPulls[n][1] \in Branch /\ FirstPulls[n][2] \in Branch
              /\ refs[FirstPulls[n][1]] \in Commit /\ refs[FirstPulls[n][2]] \in Commit
    <2>1. FirstPulls \in Seq(Branch \X Branch)  BY PullAssumption
    <2>2. /\ Len(FirstPulls) \in Nat /\ DOMAIN FirstPulls = 1..Len(FirstPulls)
          /\ \A n \in DOMAIN FirstPulls : FirstPulls[n] \in Branch \X Branch
      BY <2>1, LenProperties, ElementOfSeq
    <2>3. ASSUME NEW n \in DOMAIN FirstPulls
          PROVE  0 \notin {refs[FirstPulls[n][1]], refs[FirstPulls[n][2]]}
      BY PullAssumption DEF Init
    <2> QED  BY <1>1, <1>2, <2>2, <2>3 DEF Commit
  <1>4. pulls = [n \in 1..Len(FirstPulls) |->
                   NewPull(FirstPulls[n][1], FirstPulls[n][2],
                           refs[FirstPulls[n][1]], refs[FirstPulls[n][2]])]
    BY <1>3 DEF Init
  <1>5. \A n \in 1..Len(FirstPulls) : pulls[n] \in PullRow /\ pulls[n].merge = 0
    BY <1>3, <1>4 DEF NewPull, PullRow, Status
  <1>6. pulls \in [1..Len(FirstPulls) -> PullRow]  BY <1>4, <1>5
  <1>7. pulls \in Seq(PullRow)  BY <1>3, <1>6, SeqDef
  <1>8. DOMAIN reviews = {} /\ req = [h \in Handler |-> Idle]  BY DEF Init
  <1>9. PrTypeOK  BY <1>1, <1>2, <1>7, <1>8 DEF PrTypeOK
  <1>10. HistoriesNested  BY <1>1, <1>2 DEF HistoriesNested
  <1>11. MergedStaysInTarget  BY <1>4, <1>5 DEF MergedStaysInTarget
  <1>12. \A h \in Handler : HandlerFacts(h)  BY <1>8 DEF HandlerFacts, Idle
  <1> QED  BY <1>9, <1>10, <1>11, <1>12 DEF PInv

LEMMA Stutters ==
    ASSUME PInv, UNCHANGED vars
    PROVE  PInv'
  <1>1. UNCHANGED <<hist, refs, pulls, reviews, req>>  BY DEF vars
  <1>2. Grown  BY <1>1, Lengths DEF Grown, PInv
  <1>3. HistoryKept  BY <1>1, SameHistory
  <1>4. HeadsKept /\ refs' \in [Branch -> 0..Len(hist')]  BY <1>1, <1>3, SameHeads
  <1>5. RecordsKept /\ pulls' \in Seq(PullRow')  BY <1>1, <1>3, NoRecord
  <1> QED  BY <1>1, <1>2, <1>3, <1>4, <1>5, AllKeepFacts, WritingStep DEF PInv, PrTypeOK

----------------------------------------------------------------------------
(* What the handlers have read stays good for as long as they hold it, in   *)
(* every interleaving of any number of requests (pulls.py, merge.py,        *)
(* refs.py).                                                                *)
THEOREM ReadsStayGood == Spec => []PInv
  <1>1. Init => PInv  BY StartsWell
  <1>2. PInv /\ [Next]_vars => PInv'  BY EachStepWell, Stutters DEF StepWell
  <1> QED  BY <1>1, <1>2, PTL DEF Spec

(* Rows of pull requests, reviews and branches stay well-formed: no row     *)
(* holds a commit that is not stored (pulls.py:236, refs.py:29).            *)
THEOREM PullRequestsTyped == Spec => []PrTypeOK
  <1>1. PInv => PrTypeOK  BY DEF PInv
  <1> QED  BY <1>1, ReadsStayGood, PTL

(* What a pull request says was merged stays in its target branch, if the   *)
(* branch is guarded (pulls.py:490, refs.py:190).                           *)
THEOREM MergedIsKept == Spec => []MergedStaysInTarget
  <1>1. PInv => MergedStaysInTarget  BY DEF PInv
  <1> QED  BY <1>1, ReadsStayGood, PTL

(* No merge takes a commit off a branch, no push takes one off a guarded    *)
(* branch (pulls.py:414, 492, 663, merge.py:181, 254, refs.py:190).         *)
THEOREM NoHeadIsLost == Spec => HeadsKeepHistory
  <1>1. PInv /\ [Next]_vars => [KeepsHeads]_vars  BY EachStepWell DEF StepWell
  <1> QED  BY <1>1, ReadsStayGood, PTL DEF Spec, HeadsKeepHistory

(* A merge is recorded in the step that moves the branch, with the commit   *)
(* it moves it to (pulls.py:490-513, 663-682).                              *)
THEOREM RecordsFollowMoves == Spec => MergeIsRecordedWithTheMove
  <1>1. PInv /\ [Next]_vars => [RecordsMerges]_vars  BY EachStepWell DEF StepWell
  <1> QED  BY <1>1, ReadsStayGood, PTL DEF Spec, MergeIsRecordedWithTheMove

(* A merge that lands was looked at by as many reviewers as a rule of the   *)
(* branch asks for (pulls.py:197, merge.py:57).                             *)
THEOREM MergesNeedReviews == Spec => MergesWereReviewed
  <1>1. PInv => LandsReviewed
    <2> SUFFICES ASSUME PInv, NEW h \in Handler, req[h].at \in {"pull_land", "merge_land"}
                 PROVE  Reviewed(IF At(h, "pull_land") THEN req[h].loaded.target
                                 ELSE req[h].target, req[h].pull)
      BY DEF LandsReviewed
    <2>1. MergeFacts(req[h])
      BY DEF PInv, HandlerFacts, CreateFacts, PushFacts, RefreshFacts
    <2> QED  BY <2>1 DEF MergeFacts, At
  <1> QED  BY <1>1, ReadsStayGood, PTL DEF Spec, MergesWereReviewed
=============================================================================
