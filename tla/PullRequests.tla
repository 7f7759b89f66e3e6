---------------------------- MODULE PullRequests ----------------------------
(* Pull requests on the server: routes/pulls.py, reviews.py, merge.py and   *)
(* the part of refs.py that moves a branch and refreshes the pull requests  *)
(* on it.  A handler runs between two of its awaits as one step; meanwhile  *)
(* other requests run.  The database commits each handler's statements at   *)
(* once (read committed): the compare-and-swap of a branch and the new      *)
(* status of the pull request land together.                                *)
EXTENDS Integers, Sequences, FiniteSets

CONSTANTS
    Branch,       \* heads of one repository
    Handler,      \* requests; each is one call of one route
    Serves,       \* bound: the routes a request may be for
    Token,        \* tokens with the reviewer permission
    Rules,        \* the rows of branch_protection
    PatchStatus,  \* what clients write into a status
    Deletable,    \* branches an admin may delete
    FirstHist,    \* commits stored before, each with all it descends from
    FirstHeads,   \* heads the branches may have; 0: no such branch
    FirstPulls,   \* source and target of pull requests opened before
    Uploads,      \* bound: the parents a commit stored by a client may have
    MaxCommits, MaxPulls   \* bounds

ASSUME PullAssumption ==
    /\ Rules \subseteq [branches : SUBSET Branch, requirePR : BOOLEAN,
                        approvals : Nat, blockForce : BOOLEAN]
    /\ Serves \in [Handler -> SUBSET {"create", "patch", "pull", "resolve", "merge", "push",
                                    "delete"}]
    /\ FirstHist \in Seq(SUBSET Nat) /\ Len(FirstHist) <= MaxCommits
    /\ \A c \in DOMAIN FirstHist :
          /\ c \in FirstHist[c] /\ FirstHist[c] \subseteq 1..c
          /\ \A a \in FirstHist[c] : FirstHist[a] \subseteq FirstHist[c]
    /\ FirstHeads \subseteq [Branch -> 0..Len(FirstHist)]
    /\ FirstPulls \in Seq(Branch \X Branch)
    /\ \A n \in DOMAIN FirstPulls, f \in FirstHeads :
          0 \notin {f[FirstPulls[n][1]], f[FirstPulls[n][2]]}
    /\ Uploads \subseteq SUBSET Nat
    /\ Deletable \subseteq Branch /\ IsFiniteSet(Token)
    /\ MaxCommits \in Nat /\ MaxPulls \in Nat

VARIABLES
    hist,      \* per commit in the store, the commits it descends from and itself
    refs,      \* the head of each branch, 0 if it does not exist
    pulls,     \* rows of data_pull_request_meta, by pull_request_id
    reviews,   \* rows of pr_approval: [pull, token] to a status
    req        \* what each handler has read and where it stands

vars == <<hist, refs, pulls, reviews, req>>

Commit == 1..Len(hist)
Status == {"open", "closed", "merged"} \cup PatchStatus

PullRow == [source : Branch, target : Branch, status : Status,
            src : Commit, tgt : Commit, merge : {0} \cup Commit]

NewPull(s, t, src, tgt) ==
    [source |-> s, target |-> t, status |-> "open", src |-> src, tgt |-> tgt, merge |-> 0]

PrTypeOK ==
    /\ hist \in Seq(SUBSET Nat) /\ Len(hist) <= MaxCommits
    /\ \A c \in Commit : c \in hist[c] /\ hist[c] \subseteq 1..c
    /\ refs \in [Branch -> 0..Len(hist)]
    /\ pulls \in Seq(PullRow)
    /\ DOMAIN reviews \subseteq (DOMAIN pulls) \X Token
    /\ \A x \in DOMAIN reviews : reviews[x] \in {"approved", "changes_requested"}
    /\ DOMAIN req = Handler

Idle == [at |-> "idle"]
At(h, step) == req[h].at = step
Begins(h, route) == At(h, "idle") /\ route \in Serves[h]
Become(h, r) == req' = [req EXCEPT ![h] = r]
End(h) == Become(h, [at |-> "done"])
Goto(h, step) == Become(h, [req[h] EXCEPT !.at = step])

Init ==
    /\ hist = FirstHist
    /\ refs \in FirstHeads
    /\ pulls = [n \in DOMAIN FirstPulls |->
                  NewPull(FirstPulls[n][1], FirstPulls[n][2],
                          refs[FirstPulls[n][1]], refs[FirstPulls[n][2]])]
    /\ reviews = <<>>
    /\ req = [h \in Handler |-> Idle]

----------------------------------------------------------------------------
(* What find_merge_base may return (MergeBaseSearch): a common ancestor, any *)
(* of them, and None if there is none.                                      *)
MergeBases(a, b) ==
    IF a = b THEN {a}
    ELSE IF hist[a] \cap hist[b] = {} THEN {0} ELSE hist[a] \cap hist[b]

(* three_way_merge may find conflicts only where both sides changed.        *)
MayConflict(base, ours, theirs) == base \notin {ours, theirs}

NewCommit(parents) ==
    Append(hist, {Len(hist) + 1} \cup UNION {hist[p] : p \in parents})

(* SQLAlchemy writes the attributes a handler changed from what it loaded;  *)
(* the others keep what other handlers have written in the meantime.        *)
Flush(row, loaded, new) ==
    [a \in DOMAIN row |-> IF new[a] # loaded[a] THEN new[a] ELSE row[a]]

(* The rule the code finds first; the query does not order them.            *)
Matching(b) == {r \in Rules : b \in r.branches}

Approvals(n) == Cardinality({t \in Token : <<n, t>> \in DOMAIN reviews /\
                                           reviews[<<n, t>>] = "approved"})

ApprovedUnlessNamed(b, n) ==   \* faulty variant: any pull request will do
    n # 0 \/ \A r \in Matching(b) : r.approvals = 0

(* _check_pr_merge_approvals and _check_merge_approvals; n is 0 where no    *)
(* pull request is named.                                                   *)
ApprovedFor(b, n) ==
    \/ Matching(b) = {}
    \/ \E r \in Matching(b) :
          r.approvals = 0 \/ (n \in DOMAIN pulls /\ Approvals(n) >= r.approvals)

MoveRefBlindly(b, old, new) == refs' = [refs EXCEPT ![b] = new]   \* faulty variant

(* UPDATE ... WHERE target_hash = old                                       *)
MoveRef(b, old, new) ==
    /\ refs[b] = old
    /\ refs' = [refs EXCEPT ![b] = new]

----------------------------------------------------------------------------
(* create_pull_request: the two heads, then the number, then the row; the   *)
(* unique key refuses a number that was taken in between.                   *)
Create(h, s, t) ==
    /\ Begins(h, "create") /\ s # t /\ refs[s] # 0 /\ Len(pulls) < MaxPulls
    /\ Become(h, [at |-> "create_target", source |-> s, target |-> t, src |-> refs[s]])
    /\ UNCHANGED <<hist, refs, pulls, reviews>>

CreateTarget(h) ==
    /\ At(h, "create_target")
    /\ LET t == req[h].target
       IN IF refs[t] = 0 THEN End(h)
          ELSE Become(h, [at |-> "create_number", source |-> req[h].source,
                          target |-> t, src |-> req[h].src, tgt |-> refs[t]])
    /\ UNCHANGED <<hist, refs, pulls, reviews>>

CreateNumber(h) ==
    /\ At(h, "create_number")
    /\ Become(h, [at |-> "create_insert", number |-> Len(pulls) + 1,
           row |-> NewPull(req[h].source, req[h].target, req[h].src, req[h].tgt)])
    /\ UNCHANGED <<hist, refs, pulls, reviews>>

CreateInsert(h) ==
    /\ At(h, "create_insert")
    /\ pulls' = IF req[h].number \in DOMAIN pulls THEN pulls ELSE Append(pulls, req[h].row)
    /\ End(h)
    /\ UNCHANGED <<hist, refs, reviews>>

(* update_pull_request                                                      *)
Patch(h, n, status) ==
    /\ Begins(h, "patch") /\ pulls[n].status # "merged"
    /\ Become(h, [at |-> "patch_write", pull |-> n, loaded |-> pulls[n], status |-> status])
    /\ UNCHANGED <<hist, refs, pulls, reviews>>

PatchWrite(h) ==
    /\ At(h, "patch_write")
    /\ LET r == req[h]
       IN pulls' = [pulls EXCEPT ![r.pull] =
                       Flush(@, r.loaded, [r.loaded EXCEPT !.status = r.status])]
    /\ End(h)
    /\ UNCHANGED <<hist, refs, reviews>>

(* submit_review: one row per token and pull request, its status replaced.  *)
SubmitReview(n, t, status) ==
    /\ ~(<<n, t>> \in DOMAIN reviews /\ reviews[<<n, t>>] = status)
    /\ reviews' = [x \in DOMAIN reviews \cup {<<n, t>>} |->
                      IF x = <<n, t>> THEN status ELSE reviews[x]]
    /\ UNCHANGED <<hist, refs, pulls, req>>

----------------------------------------------------------------------------
(* The end of the three merging handlers: fast-forward if the base is ours, *)
(* else a merge commit; in both cases the branch must still be at ours.     *)
MergeInto(b, ours, theirs) ==
    \E base \in MergeBases(ours, theirs) :
        \/ /\ base = ours
           /\ MoveRef(b, ours, theirs)
           /\ UNCHANGED hist
        \/ /\ base # ours
           /\ Len(hist) < MaxCommits
           /\ hist' = NewCommit({ours, theirs})
           /\ MoveRef(b, ours, Len(hist) + 1)

RecordMergedSource(n, loaded, m) ==   \* faulty variant
    pulls' = [pulls EXCEPT ![n] = Flush(@, loaded,
        [loaded EXCEPT !.status = "merged", !.merge = loaded.src, !.tgt = m])]

(* The pull request is merged as the handler loaded it.                     *)
RecordMerged(n, loaded, m) ==
    pulls' = [pulls EXCEPT ![n] =
        Flush(@, loaded, [loaded EXCEPT !.status = "merged", !.merge = m, !.tgt = m])]

(* merge_pull_request takes both commits from the row, not from the         *)
(* branches.                                                                *)
PullMerge(h, n) ==
    /\ Begins(h, "pull") /\ pulls[n].status \notin {"merged", "closed"}
    /\ Become(h, [at |-> "pull_gate", pull |-> n, loaded |-> pulls[n],
                  ours |-> pulls[n].tgt, theirs |-> pulls[n].src])
    /\ UNCHANGED <<hist, refs, pulls, reviews>>

PullGate(h) ==
    /\ At(h, "pull_gate") /\ ApprovedFor(req[h].loaded.target, req[h].pull)
    /\ Goto(h, "pull_land")
    /\ UNCHANGED <<hist, refs, pulls, reviews>>

PullLand(h) ==
    /\ At(h, "pull_land")
    /\ LET r == req[h]
       IN /\ MergeInto(r.loaded.target, r.ours, r.theirs)
          /\ RecordMerged(r.pull, r.loaded, refs'[r.loaded.target])
    /\ End(h)
    /\ UNCHANGED reviews

(* resolve_conflicts reads both branches again and commits the resolutions  *)
(* it was given; there must be conflicts.                                   *)
Resolve(h, n) ==
    /\ Begins(h, "resolve") /\ pulls[n].status = "open"
    /\ Become(h, [at |-> "resolve_ours", pull |-> n, loaded |-> pulls[n]])
    /\ UNCHANGED <<hist, refs, pulls, reviews>>

ResolveOurs(h) ==
    /\ At(h, "resolve_ours") /\ refs[req[h].loaded.target] # 0
    /\ Become(h, [at |-> "resolve_theirs", pull |-> req[h].pull, loaded |-> req[h].loaded,
                  ours |-> refs[req[h].loaded.target]])
    /\ UNCHANGED <<hist, refs, pulls, reviews>>

ResolveTheirs(h) ==
    /\ At(h, "resolve_theirs") /\ refs[req[h].loaded.source] # 0
    /\ Become(h, [at |-> "resolve_land", pull |-> req[h].pull, loaded |-> req[h].loaded,
                  ours |-> req[h].ours, theirs |-> refs[req[h].loaded.source]])
    /\ UNCHANGED <<hist, refs, pulls, reviews>>

ResolveLand(h) ==
    /\ At(h, "resolve_land") /\ Len(hist) < MaxCommits
    /\ LET r == req[h]
       IN /\ \E base \in MergeBases(r.ours, r.theirs) : MayConflict(base, r.ours, r.theirs)
          /\ hist' = NewCommit({r.ours, r.theirs})
          /\ MoveRef(r.loaded.target, r.ours, Len(hist) + 1)
          /\ RecordMerged(r.pull, r.loaded, Len(hist) + 1)
    /\ End(h)
    /\ UNCHANGED reviews

(* merge of routes/merge.py: two branches, and perhaps a number that stands *)
(* for the approvals of a pull request only; without approvals to check     *)
(* nobody asks whether there is such a pull request.                        *)
DirectMerge(h, s, t, n) ==
    /\ Begins(h, "merge") /\ refs[s] # 0
    /\ Become(h, [at |-> "merge_target", target |-> t, pull |-> n, theirs |-> refs[s]])
    /\ UNCHANGED <<hist, refs, pulls, reviews>>

MergeTarget(h) ==
    /\ At(h, "merge_target") /\ refs[req[h].target] # 0
    /\ Become(h, [at |-> "merge_gate", target |-> req[h].target, pull |-> req[h].pull,
                  theirs |-> req[h].theirs, ours |-> refs[req[h].target]])
    /\ UNCHANGED <<hist, refs, pulls, reviews>>

MergeGate(h) ==
    /\ At(h, "merge_gate")
    /\ \/ Matching(req[h].target) = {}
       \/ \E r \in Matching(req[h].target) : ~r.requirePR \/ req[h].pull # 0
    /\ ApprovedFor(req[h].target, req[h].pull)
    /\ Goto(h, "merge_land")
    /\ UNCHANGED <<hist, refs, pulls, reviews>>

MergeLand(h) ==
    /\ At(h, "merge_land")
    /\ MergeInto(req[h].target, req[h].ours, req[h].theirs)
    /\ End(h)
    /\ UNCHANGED <<pulls, reviews>>

----------------------------------------------------------------------------
(* A client stores a commit on top of others, or one of a history apart.    *)
Upload(parents) ==
    /\ Len(hist) < MaxCommits /\ parents \subseteq Commit
    /\ hist' = NewCommit(parents)
    /\ UNCHANGED <<refs, pulls, reviews, req>>

PushAllowedSwapped(b, old, new) ==   \* faulty variant
    \/ Matching(b) = {}
    \/ \E r \in Matching(b) : ~r.requirePR /\ (~r.blockForce \/ new \in MergeBases(new, old))

PushAllowed(b, old, new) ==
    \/ Matching(b) = {}
    \/ \E r \in Matching(b) : ~r.requirePR /\ (~r.blockForce \/ old \in MergeBases(old, new))

(* cas_update_ref: a client asks to move a branch from its head, perhaps to *)
(* where it is, which refreshes the pull requests all the same; the rules   *)
(* are asked first.  (With another commit as the old head the answer is the *)
(* same, and the swap fails until the branch is there.)                     *)
Push(h, b, new) ==
    /\ Begins(h, "push") /\ refs[b] # 0
    /\ PushAllowed(b, refs[b], new)
    /\ Become(h, [at |-> "push_swap", branch |-> b, old |-> refs[b], new |-> new])
    /\ UNCHANGED <<hist, refs, pulls, reviews>>

PushSwap(h) ==
    /\ At(h, "push_swap")
    /\ MoveRef(req[h].branch, req[h].old, req[h].new)
    /\ Become(h, [at |-> "refresh_select", branch |-> req[h].branch, held |-> {}])
    /\ UNCHANGED <<hist, pulls, reviews>>

(* The same request for a branch that does not exist asks no rule.          *)
PushNew(h, b, c) ==
    /\ Begins(h, "push")
    /\ MoveRef(b, 0, c)
    /\ Become(h, [at |-> "refresh_select", branch |-> b, held |-> {<<b, c>>}])
    /\ UNCHANGED <<hist, pulls, reviews>>

(* _update_prs_for_ref_change: the open pull requests on the branch, then   *)
(* for each the two heads, then one commit.                                 *)
RefreshSelect(h) ==
    /\ At(h, "refresh_select")
    /\ LET b == req[h].branch
           todo == {n \in DOMAIN pulls : pulls[n].status = "open" /\
                                         b \in {pulls[n].source, pulls[n].target}}
       IN IF todo = {} THEN End(h)
          ELSE Become(h, [at |-> "refresh_source", todo |-> todo, held |-> req[h].held,
                          loaded |-> [n \in todo |-> pulls[n]],
                          fresh |-> [n \in todo |-> pulls[n]]])
    /\ UNCHANGED <<hist, refs, pulls, reviews>>

(* A session that has read a ref gives it back as it was, while Python has  *)
(* not let go of it and its row is there.                                   *)
Reads(held, b) ==
    IF refs[b] = 0 THEN {0}
    ELSE {refs[b]} \cup {c \in Commit : <<b, c>> \in held}

Holding(held, b, c) == held \cup ({b} \X ({c} \ {0}))

RefreshSource(h, n) ==
    /\ At(h, "refresh_source") /\ n \in req[h].todo
    /\ \E src \in Reads(req[h].held, pulls[n].source) :
          Become(h, [at |-> "refresh_target", todo |-> req[h].todo,
                     held |-> Holding(req[h].held, pulls[n].source, src),
                     loaded |-> req[h].loaded, fresh |-> req[h].fresh,
                     pull |-> n, src |-> src])
    /\ UNCHANGED <<hist, refs, pulls, reviews>>

RefreshedAnyway(row, src, tgt) ==   \* faulty variant
    [row EXCEPT !.src = src, !.tgt = tgt]

(* A pull request whose source or target is gone stays as it is.            *)
Refreshed(row, src, tgt) ==
    IF 0 \in {src, tgt} THEN row ELSE [row EXCEPT !.src = src, !.tgt = tgt]

RefreshTarget(h) ==
    /\ At(h, "refresh_target")
    /\ LET r == req[h]
           left == r.todo \ {r.pull}
       IN \E tgt \in Reads(r.held, pulls[r.pull].target) :
            Become(h,
              [at |-> IF left = {} THEN "refresh_commit" ELSE "refresh_source",
               todo |-> left,
               held |-> IF left = {} THEN {} ELSE Holding(r.held, pulls[r.pull].target, tgt),
               loaded |-> r.loaded,
               fresh |-> [r.fresh EXCEPT ![r.pull] = Refreshed(@, r.src, tgt)]])
    /\ UNCHANGED <<hist, refs, pulls, reviews>>

RefreshCommit(h) ==
    /\ At(h, "refresh_commit")
    /\ pulls' = [n \in DOMAIN pulls |->
           IF n \in DOMAIN req[h].loaded
           THEN Flush(pulls[n], req[h].loaded[n], req[h].fresh[n]) ELSE pulls[n]]
    /\ End(h)
    /\ UNCHANGED <<hist, refs, reviews>>

DeleteRef(h, b) ==
    /\ Begins(h, "delete") /\ b \in Deletable /\ refs[b] # 0
    /\ refs' = [refs EXCEPT ![b] = 0]
    /\ End(h)
    /\ UNCHANGED <<hist, pulls, reviews>>

(* A request is refused (a moved branch, a conflict, a missing resolution   *)
(* or approval), or the server dies under it: what it had not committed is  *)
(* lost, a branch that a push has moved stays moved.                        *)
Refuse(h) ==
    /\ req[h].at \notin {"idle", "done"}
    /\ End(h)
    /\ UNCHANGED <<hist, refs, pulls, reviews>>

Creating(h) ==
    \/ \E s, t \in Branch : Create(h, s, t)
    \/ CreateTarget(h) \/ CreateNumber(h) \/ CreateInsert(h)

Merging(h) ==
    \/ \E n \in DOMAIN pulls : PullMerge(h, n) \/ Resolve(h, n)
    \/ PullGate(h) \/ PullLand(h)
    \/ ResolveOurs(h) \/ ResolveTheirs(h) \/ ResolveLand(h)
    \/ \E s, t \in Branch, n \in 0..MaxPulls : DirectMerge(h, s, t, n)
    \/ MergeTarget(h) \/ MergeGate(h) \/ MergeLand(h)

Pushing(h) ==
    \/ \E b \in Branch, c \in Commit : Push(h, b, c) \/ PushNew(h, b, c)
    \/ PushSwap(h)
    \/ RefreshSelect(h) \/ RefreshTarget(h) \/ RefreshCommit(h)
    \/ \E n \in DOMAIN pulls : RefreshSource(h, n)

Next ==
    \/ \E h \in Handler :
          \/ Creating(h) \/ Merging(h) \/ Pushing(h) \/ PatchWrite(h) \/ Refuse(h)
          \/ \E n \in DOMAIN pulls, status \in PatchStatus : Patch(h, n, status)
          \/ \E b \in Branch : DeleteRef(h, b)
    \/ \E n \in DOMAIN pulls, t \in Token, status \in {"approved", "changes_requested"} :
          SubmitReview(n, t, status)
    \/ \E parents \in Uploads : Upload(parents)

Spec == Init /\ [][Next]_vars

----------------------------------------------------------------------------
(* A branch that every matching rule guards against a rewind.               *)
Guarded(b) ==
    /\ Matching(b) # {} /\ b \notin Deletable
    /\ \A r \in Matching(b) : r.blockForce \/ r.requirePR

(* Merges and pushes race for the head of a branch (pulls.py:414, 492, 663, *)
(* merge.py:181, 254, refs.py:190): none of them takes a commit off a       *)
(* guarded branch that another has put there, and a merge takes none off    *)
(* any branch.                                                              *)
KeepsHeads ==
    \A b \in Branch :
        (refs'[b] # refs[b] /\ 0 \notin {refs[b], refs'[b]}) =>
            \/ refs[b] \in hist'[refs'[b]]
            \/ ~Guarded(b) /\ \E h \in Handler : At(h, "push_swap") /\ req[h] # req'[h]

HeadsKeepHistory == [][KeepsHeads]_vars

(* What a pull request says was merged is in its target branch for good.    *)
MergedStaysInTarget ==
    \A n \in DOMAIN pulls :
        (pulls[n].merge # 0 /\ Guarded(pulls[n].target)) =>
            /\ refs[pulls[n].target] # 0
            /\ pulls[n].merge \in hist[refs[pulls[n].target]]

(* A pull request is recorded as merged in the step that moves its target,  *)
(* never before or without it, and the new head holds the head it replaces  *)
(* and the commit of the source the handler was merging.                    *)
RecordsMerges ==
    \A n \in DOMAIN pulls : pulls'[n].merge # pulls[n].merge =>
        LET b == pulls[n].target
        IN /\ pulls'[n].status = "merged"
           /\ refs'[b] = pulls'[n].merge
           /\ \E h \in Handler :
                 /\ req[h].at \in {"pull_land", "resolve_land"} /\ req[h].pull = n
                 /\ {refs[b], req[h].theirs} \subseteq hist'[refs'[b]]

MergeIsRecordedWithTheMove == [][RecordsMerges]_vars

(* A merge into a branch whose rules all ask for approvals ends only for a  *)
(* pull request that enough reviewers had looked at (merge.py:57, pulls.py: *)
(* 197); resolve_conflicts asks for none.                                   *)
Reviewers(n) == {t \in Token : <<n, t>> \in DOMAIN reviews}

Reviewed(b, n) ==
    \/ Matching(b) = {}
    \/ \E r \in Matching(b) : Cardinality(Reviewers(n)) >= r.approvals

LandsReviewed ==
    \A h \in Handler :
        (req[h].at \in {"pull_land", "merge_land"} /\ req'[h] # req[h] /\ refs' # refs) =>
            Reviewed(IF At(h, "pull_land") THEN req[h].loaded.target ELSE req[h].target,
                     req[h].pull)

MergesWereReviewed == [][LandsReviewed]_vars

----------------------------------------------------------------------------
(* Why these hold: what a handler has read stays good while others run.     *)
(* Commits stay with their history, pull requests keep their branches, and  *)
(* what push and merge were allowed to do they still are.                   *)
CreateFacts(r) ==
    \/ r \in [at : {"create_target"}, source : Branch, target : Branch, src : Commit]
    \/ r \in [at : {"create_number"}, source : Branch, target : Branch, src : Commit,
              tgt : Commit]
    \/ /\ r \in [at : {"create_insert"}, number : 1..(Len(pulls) + 1), row : PullRow]
       /\ r.row.merge = 0

MergeFacts(r) ==
    \/ /\ \/ r \in [at : {"patch_write"}, pull : DOMAIN pulls, loaded : PullRow,
                     status : PatchStatus]
          \/ r \in [at : {"resolve_ours"}, pull : DOMAIN pulls, loaded : PullRow]
          \/ r \in [at : {"resolve_theirs"}, pull : DOMAIN pulls, loaded : PullRow,
                    ours : Commit]
          \/ r \in [at : {"pull_gate", "pull_land", "resolve_land"}, pull : DOMAIN pulls,
                    loaded : PullRow, ours : Commit, theirs : Commit]
       /\ r.loaded.status # "merged"
       /\ r.loaded.target = pulls[r.pull].target
       /\ r.at = "pull_land" => Reviewed(r.loaded.target, r.pull)
    \/ r \in [at : {"merge_target"}, target : Branch, pull : Nat, theirs : Commit]
    \/ /\ r \in [at : {"merge_gate", "merge_land"}, target : Branch, pull : Nat,
                 theirs : Commit, ours : Commit]
       /\ r.at = "merge_land" => Reviewed(r.target, r.pull)

PushFacts(r) ==
    \/ /\ r \in [at : {"push_swap"}, branch : Branch, old : Commit, new : Commit]
       /\ PushAllowed(r.branch, r.old, r.new)
    \/ r.at = "refresh_select" /\ r.branch \in Branch

Freshened(loaded, fresh) ==
    /\ loaded \in PullRow
    /\ \E src, tgt \in Commit : fresh = [loaded EXCEPT !.src = src, !.tgt = tgt]

RefreshFacts(r) ==
    /\ \/ r.at = "refresh_source" /\ r.todo \subseteq DOMAIN r.loaded
       \/ /\ r.at = "refresh_target" /\ r.todo \subseteq DOMAIN r.loaded
          /\ r.pull \in r.todo /\ r.src \in {0} \cup Commit
       \/ r.at = "refresh_commit"
    /\ DOMAIN r.loaded \subseteq DOMAIN pulls /\ DOMAIN r.fresh = DOMAIN r.loaded
    /\ \A n \in DOMAIN r.loaded : Freshened(r.loaded[n], r.fresh[n])

HandlerFacts(h) ==
    \/ req[h].at \in {"idle", "done"}
    \/ CreateFacts(req[h]) \/ MergeFacts(req[h]) \/ PushFacts(req[h]) \/ RefreshFacts(req[h])

HistoriesNested == \A c \in Commit : \A a \in hist[c] : hist[a] \subseteq hist[c]

PInv ==
    /\ PrTypeOK /\ HistoriesNested /\ MergedStaysInTarget
    /\ \A h \in Handler : HandlerFacts(h)
=============================================================================
