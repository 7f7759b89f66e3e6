-------------------------- MODULE DatasetHistory --------------------------
(* The history of a dataset: commits that edit its files and commits that   *)
(* merge two others, as made by `dit commit` and by the merge routes.  In   *)
(* every such history the operations that read one are compared with what   *)
(* they should return: three_way_merge, diff_manifests, blame_file,         *)
(* row_history and detect_duplicates.                                       *)
EXTENDS RowMerge

CONSTANTS
    Path,        \* the files of a tree, flattened
    Content,     \* what a file may be set to by an edit
    MaxEdits,    \* bound: commits made by an edit
    MaxCommits   \* bound: all commits

ASSUME HistoryAssumption ==
    /\ Content \subseteq Seq(Row) \cup Blob \cup {NoFile}
    /\ MaxEdits \in Nat /\ MaxCommits \in Nat

VARIABLE commits   \* in the order they were made, each under its place

ParentsOf(c) == commits[c].parents

(* With its parents and files a commit has its ancestors and, among them,   *)
(* its line: itself and what first parents alone lead to.                   *)
Line(c) == commits[c].line

HistoryTypeOK ==
    /\ commits \in Seq([parents : Seq(Nat), anc : SUBSET Nat, line : SUBSET Nat,
                       files : [Path -> Seq(Row) \cup Blob \cup {NoFile}]])
    /\ \A c \in DOMAIN commits :
          /\ RowsOf(commits[c].parents) \subseteq 1..(c - 1)
          /\ Line(c) \subseteq commits[c].anc /\ commits[c].anc \subseteq 1..c
          /\ commits[c].anc = {c} \cup UNION {commits[q].anc : q \in RowsOf(ParentsOf(c))}
          /\ Line(c) = {c} \cup (IF ParentsOf(c) = <<>> THEN {} ELSE Line(ParentsOf(c)[1]))

(* Zero stands for None.                                                    *)
FileAt(c, p) == IF c = 0 THEN NoFile ELSE commits[c].files[p]

----------------------------------------------------------------------------
(* What find_merge_base may return (MergeBaseSearch): an ancestor of both   *)
(* commits, any of them, and None if there is none.                         *)
MergeBases(a, b) ==
    LET common == commits[a].anc \cap commits[b].anc
    IN IF common = {} THEN {0} ELSE common

(* three_way_merge of two commits, path by path.                            *)
ThreeWayMerge(base, ours, theirs) ==
    [p \in Path |-> MergeFile(FileAt(base, p), FileAt(ours, p), FileAt(theirs, p))]

----------------------------------------------------------------------------
(* blame_file walks the first parents and gives a row to the first commit   *)
(* whose diff brings it in; at a root, or where the parent has no such      *)
(* manifest, all rows left are that commit's.                               *)
WalkEnds(c, p) ==
    \/ ParentsOf(c) = <<>>
    \/ ~IsManifest(FileAt(ParentsOf(c)[1], p))

Step(c, p) == Diff(FileAt(ParentsOf(c)[1], p), FileAt(c, p))

BroughtInAddedOnly(c, p, r) ==   \* faulty variant: a new answer is no change
    IsManifest(FileAt(c, p)) /\ (WalkEnds(c, p) \/ r \in Step(c, p).added)

BroughtIn(c, p, r) ==
    /\ IsManifest(FileAt(c, p))
    /\ \/ WalkEnds(c, p)
       \/ LET step == Step(c, p) IN r \in step.added \cup DOMAIN step.refreshed

Blame(c, p, r) ==
    LET bringing == {k \in Line(c) : BroughtIn(k, p, r)}
    IN CHOOSE k \in bringing : \A l \in bringing : l <= k

Event(k, r, what) == <<[commit |-> k, row |-> r, event |-> what]>>

EventsFromSameRow(k, p, r, walk) ==   \* faulty variant: forgets the older answer
    IF WalkEnds(k, p)
    THEN IF r \in RowsIn(FileAt(k, p)) THEN Event(k, r, "added") ELSE <<>>
    ELSE IF r \in Step(k, p).added THEN Event(k, r, "added")
    ELSE IF r \in DOMAIN Step(k, p).refreshed THEN Event(k, r, "refresh")
    ELSE walk[<<ParentsOf(k)[1], r>>]

(* What row_history reports of a row from commit k on, when walk is what it *)
(* reports of every row from an earlier commit on.                          *)
EventsFrom(k, p, r, walk) ==
    LET step == Step(k, p)
    IN IF WalkEnds(k, p)
       THEN IF r \in RowsIn(FileAt(k, p)) THEN Event(k, r, "added") ELSE <<>>
       ELSE IF r \in step.added THEN Event(k, r, "added")
       ELSE IF r \in DOMAIN step.refreshed
            THEN Event(k, r, "refresh") \o walk[<<ParentsOf(k)[1], step.refreshed[r]>>]
       ELSE walk[<<ParentsOf(k)[1], r>>]

(* row_history follows one row, through the answers it replaced, down to    *)
(* the commit that added the first of them.                                 *)
RowHistory(c, p, row) ==
    LET held == {k \in DOMAIN commits : IsManifest(FileAt(k, p))}
        walk[x \in held \X Row] == EventsFrom(x[1], p, x[2], walk)
    IN walk[<<c, row>>]

----------------------------------------------------------------------------
Init == commits = <<>>

Edits == Cardinality({c \in DOMAIN commits : Len(ParentsOf(c)) <= 1})

NewCommitOnItself(parents, files) ==   \* faulty variant: HEAD moved before it is read
    LET new == Len(commits) + 1
    IN /\ Len(commits) < MaxCommits
       /\ commits' = Append(commits,
             [parents |-> IF parents = <<>> THEN <<>> ELSE <<new>> \o Tail(parents),
              files |-> files,
              anc |-> {new} \cup UNION {commits[q].anc : q \in RowsOf(parents)},
              line |-> {new} \cup (IF parents = <<>> THEN {} ELSE Line(parents[1]))])

NewCommit(parents, files) ==
    LET new == Len(commits) + 1
    IN /\ Len(commits) < MaxCommits
       /\ commits' = Append(commits,
             [parents |-> parents, files |-> files,
              anc |-> {new} \cup UNION {commits[q].anc : q \in RowsOf(parents)},
              line |-> {new} \cup (IF parents = <<>> THEN {} ELSE Line(parents[1]))])

(* A commit on top of any commit (a branch may point to each), or a first   *)
(* commit; two working copies may each make one.                            *)
CommitFiles(parent, files) ==
    /\ Edits < MaxEdits
    /\ NewCommit(IF parent = 0 THEN <<>> ELSE <<parent>>, files)

(* A merge of theirs into ours: nothing to commit when ours only has to     *)
(* move forward, and none is made when a file conflicts.                    *)
MergeCommits(ours, theirs) ==
    \E base \in MergeBases(ours, theirs) :
        LET result == ThreeWayMerge(base, ours, theirs)
        IN /\ base # ours
           /\ \A p \in Path : result[p].clash = "none"
           /\ NewCommit(<<ours, theirs>>, [p \in Path |-> result[p].file])

Next ==
    \/ \E parent \in 0..Len(commits), files \in [Path -> Content] :
          CommitFiles(parent, files)
    \/ \E ours, theirs \in DOMAIN commits : MergeCommits(ours, theirs)

Spec == Init /\ [][Next]_commits

----------------------------------------------------------------------------
(* What a merge of one file would leave, if it found no conflict in it.     *)
EachMerge(Holds(_, _, _, _)) ==
    \A a, b \in DOMAIN commits : \A base \in MergeBases(a, b), p \in Path :
        LET found == Loaded(FileAt(base, p))
            merge == MergeFile(found, FileAt(a, p), FileAt(b, p))
        IN merge.clash = "none" => Holds(found, FileAt(a, p), FileAt(b, p), merge.file)

Untouched(base, ours, theirs) == RowsIn(base) \cap RowsIn(ours) \cap RowsIn(theirs)

AnswersIn(f, q) == {r \in RowsIn(f) : QueryOf[r] = q}
OnlyAnswer(f, r) == QueryOf[r] = NoQuery \/ AnswersIn(f, QueryOf[r]) = {r}

(* docs/cookbook/three-way-merge.md promises that branches which changed    *)
(* different rows of a file merge by themselves: a row that neither branch  *)
(* touched is still there after merge_manifests, whatever else the three    *)
(* files repeat, if it is the base's only answer to its query.  (Of two     *)
(* answers one may be lost: base [a1, a2], ours [a1, a3] and theirs         *)
(* [a2, a1] give [a3].)                                                     *)
UntouchedAnswersSurvive ==
    EachMerge(LAMBDA base, ours, theirs, merged :
        \A r \in Untouched(base, ours, theirs) :
            OnlyAnswer(base, r) => r \in RowsIn(merged))

(* The answer theirs gave again, in place of the base's, to a query that    *)
(* ours has deleted: the last one theirs has.                               *)
DroppedAnswers(base, ours, theirs) ==
    {r \in RowsIn(theirs) :
        LET q == QueryOf[r]
        IN /\ q # NoQuery /\ r = Latest(theirs, q)
           /\ AnswersIn(base, q) # {} /\ AnswersIn(base, q) \cap RowsIn(theirs) = {}
           /\ AnswersIn(ours, q) = {}}

(* Exactly what a merge without conflict leaves of three files, when the    *)
(* base and ours answer each query once: the rows neither branch touched,   *)
(* and those one of them brought in.  A row one branch deleted and the      *)
(* other answered again is no conflict in merge.py:160-177, though          *)
(* docs/cookbook/three-way-merge.md:169 says that a row deleted on one side *)
(* and replaced on the other is one: the new answer stays if it is ours,    *)
(* and is dropped without a word if it is theirs (merge.py:189-224).        *)
AnswersOnce(f) == \A r \in RowsIn(f) : OnlyAnswer(f, r)

ChangesOfBothApplied ==
    EachMerge(LAMBDA base, ours, theirs, merged :
        (/\ IsManifest(ours) /\ IsManifest(theirs)
         /\ AnswersOnce(base) /\ AnswersOnce(ours)) =>
            RowsIn(merged) =
                Untouched(base, ours, theirs)
                \cup (RowsIn(ours) \ RowsIn(base))
                \cup ((RowsIn(theirs) \ RowsIn(base)) \ DroppedAnswers(base, ours, theirs)))

(* A merge repeats no row in a file that neither branch repeats one in: what*)
(* detect_duplicates (dedup.py) calls clean stays free of exact duplicates. *)
MergeRepeatsNoRow ==
    EachMerge(LAMBDA base, ours, theirs, merged :
        LET one(f) == [x \in {"file"} |-> f]
        IN Severity(one(merged)) = "warning" =>
               ExactDuplicates(one(ours)) \cup ExactDuplicates(one(theirs)) # {})

(* blame.py:1, "trace each row in a file to the commit that introduced it": *)
(* the blamed commit holds the row, every commit from it to the one asked   *)
(* about held it, and the commit before did not hold it, or held the same   *)
(* rows in another order.                                                   *)
BlameIsTheIntroduction ==
    \A c \in DOMAIN commits, p \in Path : \A r \in RowsIn(FileAt(c, p)) :
        LET found == Blame(c, p, r)
            before == IF ParentsOf(found) = <<>> THEN NoFile
                      ELSE FileAt(ParentsOf(found)[1], p)
        IN /\ found \in Line(c)
           /\ \A k \in Line(c) : found <= k => r \in RowsIn(FileAt(k, p))
           /\ \/ r \notin RowsIn(before)
              \/ RowsIn(before) = RowsIn(FileAt(found, p)) /\ before # FileAt(found, p)

(* row_history begins where blame points, goes back through earlier commits *)
(* over answers to one query, and ends with the commit that added the row.  *)
HistoryAgreesWithBlame ==
    \A c \in DOMAIN commits, p \in Path : \A r \in RowsIn(FileAt(c, p)) :
        LET events == RowHistory(c, p, r)
        IN /\ events # <<>>
           /\ events[1].commit = Blame(c, p, r)
           /\ \A i \in DOMAIN events :
                 /\ (events[i].event = "added") <=> (i = Len(events))
                 /\ QueryOf[events[i].row] = QueryOf[r]
                 /\ i > 1 => events[i].commit < events[i - 1].commit
=============================================================================
