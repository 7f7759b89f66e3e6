---------------------------- MODULE WorkingCopy ----------------------------
(* A local working copy under the commands of cli/main.py.  A command reads *)
(* what it needs, and from it follow its effects, one after the other; the  *)
(* process may die before or in the middle of each.  Between commands the   *)
(* user edits files.                                                        *)
EXTENDS Integers, Sequences

CONSTANTS
    Path, Jsonl,     \* files, and those with a manifest; the others are blobs
    Content,         \* what a file may hold
    Cut,             \* a content: what is left of a file cut short
    Gone,            \* no file
    Broken,          \* a tree entry whose manifest does not exist
    Clash,           \* no entry: a merge found a conflict in the file
    Unstaged, Deletion, Torn,   \* index: no entry, a removal; an unreadable index
    Branch,
    FirstCommits, FirstRefs, FirstHead,   \* history to begin with
    FirstSparse,     \* what sparse-checkout lists; Path: not sparse
    Edits,           \* bound: [path, content] a user may edit to
    MaxCommits, MaxCommands               \* bounds

VARIABLES
    commits,    \* the commits of the store: first parent, ancestry, flat tree
    refs, head, \* heads of the branches (0: none), the branch HEAD names
    index,      \* staged entry of each path, or Torn
    work,       \* content of each file
    pending,    \* MERGE_HEAD, CHERRY_PICK_HEAD, and conflicts.json
    sparse,     \* the sparse set; Path if the working copy is not sparse
    cmd,        \* the command that runs and the effects it has to come
    used        \* commands and edits so far

vars == <<commits, refs, head, index, work, pending, sparse, cmd, used>>

Commit == 1..Len(commits)
Entry == Content \cup {Gone, Broken}
Empty == [p \in Path |-> Unstaged]
Tree(c) == IF c = 0 THEN [p \in Path |-> Gone] ELSE commits[c].tree
Tip == refs[head]
NoConflict == [base |-> 0, ours |-> 0]

ASSUME WorkAssumption ==
    /\ Jsonl \subseteq Path /\ Cut \in Content
    /\ Gone # Broken /\ Unstaged # Deletion
    /\ Content \cap {Gone, Broken, Unstaged, Deletion} = {}
    /\ Clash \notin Content \cup {Gone, Broken}
    /\ Torn \notin [Path -> Content \cup {Unstaged, Deletion}]
    /\ Broken \notin {FirstCommits[FirstRefs[FirstHead]].tree[p] : p \in Path}
    /\ FirstCommits \in Seq([first : Nat, anc : SUBSET Nat, tree : [Path -> Entry]])
    /\ \A c \in DOMAIN FirstCommits :
          /\ FirstCommits[c].first < c
          /\ c \in FirstCommits[c].anc /\ FirstCommits[c].anc \subseteq 1..c
    /\ FirstHead \in Branch
    /\ FirstRefs \in [Branch -> 0..Len(FirstCommits)] /\ FirstRefs[FirstHead] # 0
    /\ FirstSparse \subseteq SUBSET Path
    /\ Edits \subseteq Path \X (Content \cup {Gone})
    /\ MaxCommits \in Nat /\ MaxCommands \in Nat

(* Commands and their effects.                                              *)
Names == {"none", "done", "add", "commit", "reset", "branch", "switch", "force", "pull",
          "pull other", "stop", "merge", "pick", "continue", "abort", "sparse"}
Known == 0..Len(commits)
FileSet == UNION {[S -> Entry] : S \in SUBSET Path}
Index == [Path -> Content \cup {Unstaged, Deletion}]
EffectType ==
    [do : {"write"}, files : FileSet] \cup [do : {"branch"}, branch : Branch, commit : Known]
    \cup [do : {"head"}, branch : Branch] \cup [do : {"stage"}, index : Index]
    \cup [do : {"pend"}, kind : {"merge", "pick"}, commit : Known]
    \cup [do : {"note"}, conflicts : [base : Known, ours : Known]]
    \cup [do : {"sparse"}, paths : SUBSET Path]

WorkTypeOK ==
    /\ commits \in Seq([first : Nat, anc : SUBSET Nat, tree : [Path -> Entry]])
    /\ \A c \in Commit :
          /\ commits[c].first < c
          /\ c \in commits[c].anc /\ commits[c].anc \subseteq 1..c
    /\ refs \in [Branch -> Known] /\ head \in Branch /\ Tip # 0
    /\ index = Torn \/ index \in Index
    /\ work \in [Path -> Content \cup {Gone}]
    /\ pending \in [merge : Known, pick : Known, conflicts : [base : Known, ours : Known]]
    /\ sparse \subseteq Path
    /\ cmd \in [name : Names, clean : BOOLEAN, todo : Seq(EffectType)]

Idle == [name |-> "none", clean |-> FALSE, todo |-> <<>>]
Done == [name |-> "done", clean |-> FALSE, todo |-> <<>>]

Init ==
    /\ commits = FirstCommits
    /\ refs = FirstRefs /\ head = FirstHead
    /\ index = Empty
    /\ sparse \in FirstSparse
    /\ work = [p \in Path |-> IF p \in sparse THEN FirstCommits[FirstRefs[FirstHead]].tree[p]
                                               ELSE Gone]
    /\ pending = [merge |-> 0, pick |-> 0, conflicts |-> NoConflict]
    /\ cmd = Idle /\ used = 0

----------------------------------------------------------------------------
UncommittedAbsence ==   \* faulty variant: forgets to compare contents
    {p \in sparse \cap Jsonl : Tree(Tip)[p] # Gone} # {p \in Jsonl : work[p] # Gone}

(* _has_uncommitted_changes: only *.jsonl files and manifests count.        *)
Uncommitted ==
    LET tracked == {p \in sparse : \/ p \in Jsonl /\ Tree(Tip)[p] # Gone
                                   \/ Tree(Tip)[p] = Broken}
        present == {p \in Jsonl : work[p] # Gone}
    IN tracked # present \/ \E p \in present : work[p] # Tree(Tip)[p]

(* _materialize_tree: the files to write and (Gone) to remove when the tree *)
(* was `old` and becomes `new`; of `new` only the sparse set counts.        *)
ChangesKeeping(new, old, within) ==   \* faulty variant: removes no file
    [p \in {q \in within : new[q] # Gone /\ new[q] # old[q]} |-> new[p]]

Changes(new, old, within) ==
    LET wanted == [p \in Path |-> IF p \in within THEN new[p] ELSE Gone]
    IN [p \in {q \in Path : wanted[q] # old[q]} |-> wanted[p]]

AllFiles(tree) == Changes(tree, Tree(0), Path)

(* Effects.                                                                 *)
Write(files) == [do |-> "write", files |-> files]
MoveBranch(b, c) == [do |-> "branch", branch |-> b, commit |-> c]
MoveHead(b) == [do |-> "head", branch |-> b]
Stage(p, entry) == [do |-> "stage", index |-> [index EXCEPT ![p] = entry]]
Clear == [do |-> "stage", index |-> Empty]
Pend(kind, c) == [do |-> "pend", kind |-> kind, commit |-> c]
Note(base, ours) == [do |-> "note", conflicts |-> [base |-> base, ours |-> ours]]
Save(paths) == [do |-> "sparse", paths |-> paths]

Ready == cmd.todo = <<>> /\ used < MaxCommands

Run(name, effects) ==
    /\ Ready
    /\ cmd' = [name |-> name, clean |-> ~Uncommitted /\ sparse = Path, todo |-> effects]
    /\ used' = used + 1
    /\ UNCHANGED <<refs, head, index, work, pending, sparse>>

Readable == index # Torn
Staged == {p \in Path : index[p] # Unstaged}

NewCommit(first, parents, tree) ==
    /\ Len(commits) < MaxCommits
    /\ commits' = Append(commits,
          [first |-> first, tree |-> tree,
           anc |-> {Len(commits) + 1} \cup UNION {commits[c].anc : c \in parents}])

New == Len(commits) + 1

----------------------------------------------------------------------------
Edit(p, c) ==
    /\ Ready /\ work[p] # c
    /\ work' = [work EXCEPT ![p] = c]
    /\ used' = used + 1
    /\ UNCHANGED <<commits, refs, head, index, pending, sparse, cmd>>

(* add: a file, or a tracked file that is gone.                             *)
Add(p) ==
    /\ Readable
    /\ \/ work[p] # Gone /\ Run("add", <<Stage(p, work[p])>>)
       \/ /\ work[p] = Gone /\ Tree(Tip)[p] # Gone /\ p \in sparse
          /\ Run("add", <<Stage(p, Deletion)>>)
    /\ UNCHANGED commits

OverlayMissing(tree) ==   \* faulty variant: the old tree wins
    [p \in Path |-> IF tree[p] = Gone /\ index[p] \notin {Unstaged, Deletion}
                    THEN index[p] ELSE tree[p]]

Overlay(tree) ==
    [p \in Path |-> CASE index[p] = Unstaged -> tree[p]
                      [] index[p] = Deletion -> Gone
                      [] OTHER -> index[p]]

CommitStaged ==
    /\ Readable /\ Staged # {}
    /\ NewCommit(Tip, {Tip}, Overlay(Tree(Tip)))
    /\ Run("commit", <<MoveBranch(head, New), Clear>>)

(* reset [paths] and reset --hard, which also removes untracked *.jsonl.    *)
Reset(p) ==
    /\ Readable /\ p \in Staged /\ Run("reset", <<Stage(p, Unstaged)>>)
    /\ UNCHANGED commits

ResetAll ==
    /\ Run("reset", <<Clear>>)
    /\ UNCHANGED commits

ResetHard ==
    /\ LET untracked == {p \in Jsonl : work[p] # Gone /\ Tree(Tip)[p] = Gone}
       IN Run("reset", <<Clear, Write(AllFiles(Tree(Tip))),
                         Write([p \in untracked |-> Gone])>>)
    /\ UNCHANGED commits

CreateBranch(b) ==
    /\ refs[b] = 0
    /\ \/ Run("branch", <<MoveBranch(b, Tip)>>)
       \/ Run("branch", <<MoveBranch(b, Tip), MoveHead(b)>>)   \* checkout -b
    /\ UNCHANGED commits

DeleteAnyBranch(b) ==   \* faulty variant
    /\ refs[b] # 0
    /\ Run("branch", <<MoveBranch(b, 0)>>)
    /\ UNCHANGED commits

DeleteBranch(b) ==
    /\ b # head /\ refs[b] # 0
    /\ Run("branch", <<MoveBranch(b, 0)>>)
    /\ UNCHANGED commits

(* checkout and switch                                                      *)
Switch(b) ==
    /\ refs[b] # 0 /\ Readable /\ Staged = {} /\ ~Uncommitted
    /\ Run("switch", <<Write(Changes(Tree(refs[b]), Tree(Tip), sparse)), MoveHead(b)>>)
    /\ UNCHANGED commits

SwitchForce(b) ==
    /\ refs[b] # 0 /\ Readable
    /\ LET files == Write(Changes(Tree(refs[b]), Tree(Tip), sparse))
       IN \/ Staged = {} /\ Run("force", <<files, MoveHead(b)>>)
          \/ Staged # {} /\ Run("force", <<Clear, files, MoveHead(b)>>)
    /\ UNCHANGED commits

(* pull: the fetched commit c of any branch; the branch moves first.        *)
Pull(b, c) ==
    /\ ~Uncommitted /\ refs[b] # c
    /\ refs[b] = 0 \/ refs[b] \in commits[c].anc
    /\ Run(IF b = head THEN "pull" ELSE "pull other",
           <<MoveBranch(b, c), Write(Changes(Tree(c), Tree(refs[b]), sparse))>>)
    /\ UNCHANGED commits

----------------------------------------------------------------------------
(* three_way_merge per path: what may come out.  Where both sides changed   *)
(* the file it reads the manifests, and the command ends at a broken one;   *)
(* else an entry is carried through unread.  Blobs are not loaded; whether  *)
(* rows of both sides clash, and what their merge is, is left open here     *)
(* (module RowMerge).                                                       *)
Manifest(p, entry) == IF p \in Jsonl \/ entry = Broken THEN entry ELSE Gone

Outcomes(base, ours, theirs) ==
    CASE ours = base -> {theirs}
      [] theirs = base \/ theirs = ours -> {ours}
      [] Broken \in {base, ours, theirs} -> {}
      [] Gone \in {base, ours, theirs} -> {Clash}
      [] OTHER -> Content \cup {Clash}

MergedTrees(base, ours, theirs) ==
    LET Out(p) == Outcomes(Manifest(p, Tree(base)[p]), Manifest(p, Tree(ours)[p]),
                           Manifest(p, Tree(theirs)[p]))
        mixed == {p \in Path : Out(p) = Content \cup {Clash}}
    IN IF \E p \in Path : Out(p) = {} THEN {}
       ELSE {[p \in Path |-> IF p \in mixed THEN rows[p] ELSE CHOOSE e \in Out(p) : TRUE] :
                rows \in [mixed -> Content \cup {Clash}]}

Conflicts(tree) == {p \in Path : tree[p] = Clash}
Merged(tree) == {p \in Path : tree[p] \notin {Gone, Clash}}

Bases(a, b) ==
    LET common == commits[a].anc \cap commits[b].anc
    IN IF a = b THEN {a} ELSE IF common = {} THEN {0} ELSE common

(* What merge and cherry-pick do with a result: stop at conflicts with the  *)
(* other files in place, or commit.                                         *)
Land(kind, base, theirs, parents) ==
    \E tree \in MergedTrees(base, Tip, theirs) :
        \/ /\ Conflicts(tree) # {}
           /\ Run("stop", <<Write([p \in Merged(tree) |-> tree[p]]),
                            Pend(kind, theirs), Note(base, Tip)>>)
           /\ UNCHANGED commits
        \/ /\ Conflicts(tree) = {}
           /\ NewCommit(Tip, parents, tree)
           /\ Run(kind, <<Write(Changes(tree, Tree(Tip), Path)), MoveBranch(head, New)>>)

Merge(b) ==
    /\ b # head /\ refs[b] \notin {0, Tip} /\ pending.merge = 0
    /\ Readable /\ Staged = {}
    /\ \E base \in Bases(Tip, refs[b]) :
          \/ /\ base = Tip
             /\ Run("merge", <<Write(Changes(Tree(refs[b]), Tree(Tip), Path)),
                               MoveBranch(head, refs[b])>>)
             /\ UNCHANGED commits
          \/ base \notin {Tip, refs[b]} /\ Land("merge", base, refs[b], {Tip, refs[b]})

CherryPick(c) ==
    /\ pending.merge = 0 /\ pending.pick = 0 /\ commits[c].first # 0
    /\ Land("pick", commits[c].first, c, {Tip})

(* --continue: the entries of the head's tree and on top of them what is    *)
(* staged, every entry as a manifest.                                       *)
AsManifests(tree) ==
    [p \in Path |-> IF index[p] = Unstaged THEN tree[p]
                    ELSE IF p \in Jsonl /\ index[p] # Deletion THEN index[p] ELSE Broken]

ParentsTheirs(kind) == {pending[kind]}   \* faulty variant

Parents(kind) == IF kind = "merge" THEN {Tip, pending[kind]} ELSE {Tip}

Continue(kind) ==
    /\ pending[kind] # 0 /\ Readable /\ Staged # {}
    /\ NewCommit(Tip, Parents(kind), AsManifests(Tree(Tip)))
    /\ Run("continue", <<MoveBranch(head, New), Clear, Pend(kind, 0), Note(0, 0)>>)

(* --abort: back to the commit conflicts.json names, or the head.           *)
Abort(kind) ==
    /\ pending[kind] # 0
    /\ LET ours == IF pending.conflicts.ours # 0 THEN pending.conflicts.ours ELSE Tip
       IN Run("abort", <<Write(AllFiles(Tree(ours))), Pend(kind, 0), Note(0, 0), Clear>>)
    /\ UNCHANGED commits

----------------------------------------------------------------------------
(* sparse-checkout add, remove, disable; only manifests are brought.        *)
SparseAdd(p) ==
    /\ sparse # Path /\ p \in Jsonl /\ Tree(Tip)[p] # Gone
    /\ Run("sparse", <<Write([q \in {p} |-> Tree(Tip)[p]]), Save(sparse \cup {p})>>)
    /\ UNCHANGED commits

SparseRemove(p) ==
    /\ sparse # Path
    /\ Run("sparse", <<Write([q \in {q \in {p} : Tree(Tip)[q] # Gone} |-> Gone]),
                       Save(sparse \ {p})>>)
    /\ UNCHANGED commits

(* A manifest nobody has is skipped, if the entry has a hash to ask for it  *)
(* (that of a blob); a removed file left none, and the command ends there.  *)
SparseDisable ==
    /\ sparse # Path
    /\ LET here == {p \in Jsonl : Tree(Tip)[p] # Gone}
           broken == {p \in Path \ Jsonl : Tree(Tip)[p] = Broken}
       IN \E nameless \in SUBSET broken :
             Run("sparse", <<Write([p \in here \cup nameless |-> Tree(Tip)[p]]), Save(Path)>>)
    /\ UNCHANGED commits

----------------------------------------------------------------------------
(* The next effect of the command.                                          *)
Step == cmd.todo[1]
Is(do) == cmd.todo # <<>> /\ Step.do = do
Proceed ==
    /\ cmd' = IF Len(cmd.todo) = 1 THEN Done ELSE [cmd EXCEPT !.todo = Tail(@)]
    /\ UNCHANGED <<commits, used>>

Over(files) == [p \in Path |-> IF p \in DOMAIN files THEN files[p] ELSE work[p]]

(* A file of a broken entry cannot be written: the command ends there.      *)
DoWrite ==
    /\ Is("write") /\ \A p \in DOMAIN Step.files : Step.files[p] # Broken
    /\ work' = Over(Step.files)
    /\ Proceed /\ UNCHANGED <<refs, head, index, pending, sparse>>

DoBranch ==
    /\ Is("branch")
    /\ refs' = [refs EXCEPT ![Step.branch] = Step.commit]
    /\ Proceed /\ UNCHANGED <<head, index, work, pending, sparse>>

DoHead ==
    /\ Is("head") /\ head' = Step.branch
    /\ Proceed /\ UNCHANGED <<refs, index, work, pending, sparse>>

DoStage ==
    /\ Is("stage") /\ index' = Step.index
    /\ Proceed /\ UNCHANGED <<refs, head, work, pending, sparse>>

DoPend ==
    /\ Is("pend") /\ pending' = [pending EXCEPT ![Step.kind] = Step.commit]
    /\ Proceed /\ UNCHANGED <<refs, head, index, work, sparse>>

DoNote ==
    /\ Is("note") /\ pending' = [pending EXCEPT !.conflicts = Step.conflicts]
    /\ Proceed /\ UNCHANGED <<refs, head, index, work, sparse>>

DoSparse ==
    /\ Is("sparse") /\ sparse' = Step.paths
    /\ Proceed /\ UNCHANGED <<refs, head, index, work, pending>>

(* The process dies.  Some of the files it was writing are written, and one *)
(* may be cut short; the index may be.  Branches are replaced at once.      *)
Die ==
    /\ cmd.todo # <<>> /\ cmd' = Idle
    /\ UNCHANGED <<commits, refs, head, pending, sparse, used>>

DieWriting ==
    /\ Is("write") /\ Die
    /\ LET files == Step.files
           sound == {p \in DOMAIN files : files[p] # Broken}
       IN \E done \in SUBSET sound :
             \/ work' = Over([p \in done |-> files[p]])
             \/ \E q \in {p \in sound \ done : files[p] # Gone} :
                   work' = Over([p \in done \cup {q} |-> IF p = q THEN Cut ELSE files[p]])
    /\ UNCHANGED index

DieStaging == Is("stage") /\ Die /\ index' = Torn /\ UNCHANGED work

DieBetween == Die /\ UNCHANGED <<index, work>>

Effect ==
    DoWrite \/ DoBranch \/ DoHead \/ DoStage \/ DoPend \/ DoNote \/ DoSparse

Command ==
    \/ \E p \in Path : Add(p) \/ Reset(p) \/ SparseAdd(p) \/ SparseRemove(p)
    \/ CommitStaged \/ ResetAll \/ ResetHard \/ SparseDisable
    \/ \E b \in Branch :
          CreateBranch(b) \/ DeleteBranch(b) \/ Switch(b) \/ SwitchForce(b) \/ Merge(b)
    \/ \E b \in Branch, c \in Commit : Pull(b, c)
    \/ \E c \in Commit : CherryPick(c)
    \/ \E kind \in {"merge", "pick"} : Continue(kind) \/ Abort(kind)

Next ==
    \/ \E e \in Edits : Edit(e[1], e[2])
    \/ Command \/ Effect
    \/ DieWriting \/ DieStaging \/ DieBetween

Spec == Init /\ [][Next]_vars

----------------------------------------------------------------------------
(* No command takes commits off a branch, whatever merge or cherry-pick is  *)
(* half done, on whichever branch it was begun, and wherever it died.       *)
HeadsOnlyGrow ==
    [][\A b \in Branch :
        0 \notin {refs[b], refs'[b]} => refs[b] \in commits'[refs'[b]].anc]_vars

(* checkout, switch and pull, which refuse to run over uncommitted changes, *)
(* overwrite and remove nothing but rows some commit has, even when they    *)
(* die half way and are run again.                                          *)
OnlyCommittedIsReplaced ==
    [][\A p \in Jsonl :
        (cmd.name \in {"switch", "pull"} /\ cmd.todo # <<>> /\ work'[p] # work[p]) =>
            work[p] = Gone \/ \E c \in Commit : Tree(c)[p] = work[p]]_vars

(* A clean working copy is clean after a checkout, a pull, a merge or a     *)
(* cherry-pick that ends: the files and the branch go the same way.         *)
CleanStaysClean ==
    [][(cmd.name \in {"switch", "force", "pull", "merge", "pick"} /\ cmd.clean
        /\ Len(cmd.todo) = 1 /\ cmd' = Done) => ~Uncommitted']_vars

(* Rows that are staged stay staged until they are in the head's tree, are  *)
(* staged over or are given up by name; only a torn index loses them.       *)
StagedIsCommitted ==
    [][\A p \in Jsonl :
        (index # Torn /\ index' \notin {index, Torn}) =>
            \/ index[p] \in {Unstaged, Deletion, index'[p]}
            \/ cmd.name \in {"add", "reset", "force", "abort"}
            \/ Tree(Tip)[p] = index[p]]_vars

(* Why the properties hold: what a running command has still to do fits     *)
(* what it read when it started, however far it has come.                   *)
Rest(do) == {i \in DOMAIN cmd.todo : cmd.todo[i].do = do}

(* At most one branch moves, the one checked out is not deleted, and HEAD   *)
(* comes to name a branch that exists.                                      *)
BranchFacts ==
    /\ \A i \in Rest("branch") :
          LET e == cmd.todo[i]
          IN /\ Rest("branch") = {i}
             /\ IF e.commit = 0 THEN e.branch # head /\ Len(cmd.todo) = 1
                ELSE refs[e.branch] # 0 => refs[e.branch] \in commits[e.commit].anc
    /\ \A i \in Rest("head") :
          LET name == cmd.todo[i].branch
          IN \/ refs[name] # 0
             \/ i = 2 /\ cmd.todo[1].do = "branch" /\ cmd.todo[1].branch = name

(* What the commands that look before they write find and write.            *)
Committed(p, entry) == entry = Gone \/ \E c \in Commit : Tree(c)[p] = entry

WriteFacts ==
    cmd.name \in {"switch", "pull"} /\ cmd.todo # <<>> =>
        \A p \in Jsonl :
            /\ Committed(p, work[p])
            /\ \A i \in Rest("write") : p \in DOMAIN cmd.todo[i].files =>
                                            Committed(p, cmd.todo[i].files[p])

(* commit and --continue clear the index once the head has what it held.    *)
InTree(c) == \A p \in Jsonl : index[p] \in {Unstaged, Deletion, Tree(c)[p]}

StageFacts ==
    \A i \in Rest("stage") :
        \/ cmd.name \in {"add", "reset", "force", "abort"}
        \/ /\ cmd.name \in {"commit", "continue"} /\ index # Torn
           /\ \/ i = 1 /\ InTree(Tip)
              \/ /\ i = 2 /\ cmd.todo[1].do = "branch" /\ cmd.todo[1].branch = head
                 /\ InTree(cmd.todo[1].commit)

(* Commit c will be checked out when the command has ended, and in the      *)
(* files then.  An entry that is broken stops the command.                  *)
EndsAt(c) ==
    /\ \A i \in Rest("head") : refs[cmd.todo[i].branch] = c
    /\ \A i \in Rest("branch") :
          cmd.todo[i].branch = head /\ cmd.todo[i].commit = c /\ Rest("head") = {}
    /\ Rest("head") \cup Rest("branch") = {} => Tip = c

BringsFile(p, c) ==
    \/ \E i \in Rest("write") :
          p \in DOMAIN cmd.todo[i].files /\ cmd.todo[i].files[p] = Tree(c)[p]
    \/ /\ \A i \in Rest("write") : p \notin DOMAIN cmd.todo[i].files
       /\ Tree(c)[p] # Broken /\ (p \in Jsonl => work[p] = Tree(c)[p])

CleanFacts ==
    cmd.name \in {"switch", "force", "pull", "merge", "pick"} /\ cmd.clean /\ cmd.todo # <<>> =>
        /\ sparse = Path /\ Rest("sparse") = {}
        /\ \A i, j \in Rest("write") : i = j
        /\ \E c \in Commit : EndsAt(c) /\ \A p \in Path : BringsFile(p, c)

WInv == BranchFacts /\ WriteFacts /\ StageFacts /\ CleanFacts

----------------------------------------------------------------------------
(* The merge commit of --continue has what only the other side changed.     *)
ContinueMergesBoth ==
    [][(cmd'.name = "continue" /\ cmd.todo = <<>> /\ pending.merge # 0 /\
        pending.conflicts.ours = Tip) =>
        \A p \in Jsonl :
            (index[p] = Unstaged /\ Tree(Tip)[p] = Tree(pending.conflicts.base)[p]
                /\ Tree(pending.merge)[p] # Gone) =>
            commits'[Len(commits')].tree[p] = Tree(pending.merge)[p]]_vars
=============================================================================
