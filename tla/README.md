# dit in TLA+

dit is a version control system for JSONL data sets: a command-line client with
a local, content-addressed object store, and an HTTP server that shares
repositories, branches and pull requests. This directory holds TLA+ models of
its core, the TLC runs that check them and TLAPS proofs about them. Paths below
are relative to the repository.

    tlc -workers 2 -config MCRemoteSync.cfg MCRemoteSync.tla     # a run
    tlapm RemoteSyncProofs.tla                                   # the proofs

`PROJECT.json` lists runs, mutants, findings, hazards and theorems, and the
source lines behind every definition.

## 1. The system

| component (source) | state | operations | properties that make it right |
|---|---|---|---|
| object graph and walkers (`core/objects.py`, `core/walker.py`) | none; objects are immutable and named by their hash | `walk_commit_objects`, `walk_commit_objects_since`, `is_ancestor` | a walk over a store with holes misses nothing it can read; a "yes" of `is_ancestor` is right |
| object store (`core/store.py`) | files `objects/<type>/<aa>/<bb>/<hash>` with a modification time | `write` (temporary file, then rename; returns early if the file exists), `read`, `exists` | what is there is whole and never changes |
| remote synchronisation (`cli/main.py` push, fetch, pull, clone; `core/remote.py`) | locals of a running command; the working copy's store and branch files | read ref, `batch_exists`, uploads, `cas_ref`; downloads | a branch is always readable; it only moves forward; nobody loses local work; commands end |
| ref routes (`server/routes/refs.py`) | table of refs, one row a branch | `get_ref`, `cas_update_ref` with branch protection, `delete_ref`; refresh of pull requests | one winner of two concurrent updates |
| object routes (`server/routes/objects.py`) | the server's store | `batch_exists`, `batch_upload`, `upload_object`, downloads | uploads are idempotent |
| garbage collection (`core/gc.py`, `server/routes/gc_api.py`) | the store, modification times | mark from the refs, then unlink old unmarked files one by one | nothing a branch needs is unlinked |
| runtime metadata cache (`core/runtime_metadata.py`) | bounded LRU cache, Events of computations under way, one lock | `get_runtime_metadata_summary` | nobody waits for ever; the cache stays bounded |
| local repository (`core/refs.py`, `core/index.py`, `core/workspace.py`, `core/stat_cache.py`, `core/sparse.py`, `cli/main.py`) | HEAD, branch and tag files, staging index, MERGE_HEAD, working tree | add, commit, branch, switch, checkout, reset, merge, cherry-pick | staged changes are not lost; a crash leaves a loadable state |
| merge base, three-way merge (`core/merge_base.py`, `core/merge.py`) | none | `find_merge_base`, row-level merge | the base is a common ancestor; a merge without conflicts applies what both sides did and nothing else |
| diff, blame, duplicates (`core/diff.py`, `core/blame.py`, `core/dedup.py`, `core/tree_walker.py`) | none | reports over one snapshot | blame finds the commit that brought a row in; the history of a row starts there |
| integrity check (`core/fsck.py`) | none | walk from every ref | what cannot be read is reported |
| pull requests (`server/routes/pulls.py`, `reviews.py`, `merge.py`, `branch_protection.py`, `reviewer_rules.py`) | tables of pull requests, approvals, protections | open, update, close, review, merge | a merged pull request stays merged; approvals hold for what is merged |
| backup (`scripts/backup.sh`, `restore.sh`) | dump of the database, archive of the objects | back up, restore | restored branches are readable |
| server shell (`server/app.py`, `auth.py`, `webhooks.py`, `database.py`, tokens, repos) | sessions, tokens | framework glue | - |
| read-only commands and routes (export, search, stats, validate, log, tree) | none | reports | - |

**How they interact.** A client command is a sequential program that sends one
request after the other. Requests of different clients interleave freely on the
server, whose only atomic steps are one file rename in the object store and one
SQL statement on a ref. The server checks hashes of uploads but never whether an
object's references are there, and `cas_update_ref` never looks into the object
store: that a branch is readable, and that it moves forward, rests on what the
*client* did many requests earlier. The collector works on the same store file
by file without any lock. Inside the server, threads of `asyncio.to_thread`
share the metadata cache under a lock.

**What is hard.** Interleaved pushes that skip each other's objects; pushes and
fetches that die half way; a compare-and-swap request the client has given up on
and the server serves later; a sparse clone that pushes objects it does not
hold; branches deleted and recreated under a push; a collection between two
requests of a push; Events dropped by another thread than their owner. Handlers
of the server that read a branch, a pull request or an approval, wait, and then
write what follows from it, while other requests move the same branch. Local
commands that die between two files, or between the files and the branch, and
are run again; `--continue` and `--abort` of a merge on a branch other than the
one it stopped on. Row merges where both sides answered a query again, deleted
a row or moved it. `PROJECT.json` ("hazards") has each at its line, with the
property that covers it or the reason why none does.

## 2. The modules

| module | what it is |
|---|---|
| `ObjectGraph` | the graph of objects as a constant, and the walkers |
| `RemoteSync` | push, fetch, pull, clone against the object and ref routes |
| `PublishedBranches` | abstract: what the server promises of its branches |
| `ServerGC` | `RemoteSync` plus the server's collector |
| `RuntimeMetadata` | the metadata cache |
| `RowMerge` | what diff, merge and dedup compute from the rows of a file |
| `MergeBaseSearch` | `find_merge_base`, step by step, over a store with holes |
| `DatasetHistory` | every history of commits and merges; merge, blame, row history |
| `PullRequests` | the handlers for pull requests, reviews, merges and pushes, cut at their awaits |
| `WorkingCopy` | the local commands as lists of effects, with crashes between and inside them |
| `ObjectGraphProofs`, `RemoteSyncProofs`, `ServerGCProofs`, `RuntimeMetadataProofs`, `MergeBaseProofs`, `DatasetHistoryProofs`, `PullRequestsProofs`, `WorkingCopyProofs` | theorems, one module a component |
| `MCRemoteSync`, `MCRemoteMerge`, `MCServerGC`, `MCMergeBaseSearch`, `MCDatasetHistory`, `MCPullRequests`, `MCWorkingCopy` | the small instances TLC uses (`RuntimeMetadata` needs only its `.cfg`) |

**ObjectGraph.** An object's hash is the SHA-256 of its bytes, so what it names
can never change: `Kind` and `Deps` are constants, as `GraphAssumption` types
them (a commit names trees and commits, a tree trees, manifests, sidecars and
blobs, a manifest rows). `Reach[o]` is an object with all it names, directly or
not, defined as the least closed set; nothing assumes that the graph is acyclic
or finite. `NewCommits`, `TreesOf`, `EntriesOf`, `RowsOf` are the phases of the
walkers: a hash is collected when it is met and followed only if the store holds
it. `Missing` is what the graph check of fsck reports from a set of roots.

**RemoteSync.** `server` and `refs` are the server's store and refs; `local` and
`heads` each working copy's store and branch files; `cmd` the locals of its
running command that outlive a request (`remote` is `remote_hash`, `unchecked`
the hashes `batch_exists` has not been asked about, `missing` is `to_upload`,
`queue` and `parts` what a download has still to visit); `late` the ref updates
whose sender has stopped waiting. One action is one request, with the client
code up to the next one:

- `StartPush` reads the ref, checks ancestry and walks (`push`, first half);
  `CheckExists` / `CheckRefused` are one `batch_exists` request per kind (the
  server refuses a list over its limit); `Upload` one item of a batch, in
  `upload_order`; `FinishPush` is `cas_update_ref` with the protection checks;
  `GiveUpOnCas` and `ServeLate` are that request after a client timeout.
- `StartFetch`, `FetchCommit`, `FetchPart`, `FinishFetch` are the download loops
  of fetch, pull, clone and sparse clone, with their different stop conditions.
- `CommitLocally` (add and commit, or the merge of a local branch) and
  `CreateBranch` supply work; `Abort` is Ctrl-C, a crash or a network error
  between two requests; `DeleteRef` is an admin's request.

What a local write stores is `Written`: a commit's own part of the graph.

**ServerGC** adds `aged` (files older than the grace period), `own` (what the
running push of a client has itself stored: `ObjectStore.write` leaves an
existing file and its time alone) and `condemned` (what the collection under way
has still to unlink). `GcStart` reads the refs, marks and lists; `Unlink`
removes one file, in the order of `OBJ_TYPES`.

**RuntimeMetadata.** One action per hold of `_SUMMARY_CACHE_LOCK`. `waiters[k]`
are the threads on the Event filed under `k`. `Settle` is the end of a
computation: it drops and sets whatever Event stands under the key. An entry of
the cache is its key, in order of the `OrderedDict` (a hit moves it to the end,
a second assignment does not).

**RowMerge.** Operators only. A manifest is a sequence of rows and `QueryOf` the
fingerprint of a row's user messages, by which dit tells a new answer from a new
row. `Diff` is `diff_manifests` (the k-th added row of a query answers the k-th
removed one again; a change of order alone is a replacement of all rows).
`MergeManifests` is `merge_manifests` in its order: rows of ours, with the
answers that won in the place of the old ones, then the rows only theirs has,
then repetitions dropped. `MergeFile` is `three_way_merge` for one path, with its
conflicts. `ExactDuplicates`, `QueryDuplicates` and `Severity` are
`detect_duplicates`.

`Among(m, S)` takes the entries of `m` at the places in `S`, in their order; every
selection of rows is written with it, so that one lemma tells which rows it leaves.

**MergeBaseSearch.** The function as a state machine: `queue`, `met` and `turn` are
the two searches, `rest` the parents the loop at hand has still to see. `Pop` takes
the next commit and reads it, if the store has it; `See` is the body of the loop
over its parents, with its early return; `Skip` is a side whose queue is empty;
`GiveUp` the end of the loop. History, store and the two commits are chosen in
`Init`. The function itself is deterministic; nothing runs beside it.

**DatasetHistory.** The only variable is the list of commits. `CommitFiles` makes
one with any content on top of any commit, `MergeCommits` merges any two the way
the merge routes do, so that TLC visits every history up to the bounds. The merge
starts from any common ancestor (`MergeBases`); `FindsAMergeBase` proves that
`find_merge_base` returns one of them. A commit carries its ancestors and its `line`, itself
and what first parents alone lead to: the walk of `blame_file` and `row_history`.
`Blame` is the first commit of that walk whose diff brings the row in
(`BroughtIn`), `RowHistory` follows the row through the answers it replaced. The
properties compare them, for every pair of commits and every row, with definitions
over the whole history.

**PullRequests.** `hist` is the commits of the store, each with all it descends
from; `refs`, `pulls` and `reviews` are tables; `req[h]` is what handler `h` has
read and where it stands. A handler is one call of one route. It is cut at every
await after which something it has read may be out of date, so `merge_pull_request`
is `PullMerge` (row), `PullGate` (approvals), `PullLand` (compare-and-swap, status,
commit). The statements of one database commit are one step. What the object
mapper does is part of the steps: `Flush` writes only the attributes a handler
changed against what it had loaded, so two handlers may each overwrite a part of
a row; `Reads` may give back the earlier value of a ref that the session already
holds, which is how the refresh after a push may store an older head. The
approval and protection checks pick any matching rule, as the query has no order.
`Upload` is a client's upload of a commit, which a push may then move a branch to.
`Refuse` is an error answer or a server crash at any await.

**WorkingCopy.** A command reads the repository in one step, and what it does
from there is a list of effects in the order of the code: write or remove files,
replace a branch file, HEAD, the index, `MERGE_HEAD` or `CHERRY_PICK_HEAD`,
`conflicts.json`, the sparse set. One action performs one effect. `DieBetween`,
`DieWriting` and `DieStaging` are a crash before or in the middle of it: some of
the files are written and one may be cut short (`Cut`), the index rewritten in
place may be unreadable (`Torn`). The user edits files between commands. `Uncommitted`
is `_has_uncommitted_changes` (JSONL files and manifests only), `Changes` is
`_materialize_tree`, and `MergedTrees` leaves open what the rows of two changed
files merge to, which is `RowMerge`'s matter; `Clash` marks the files in conflict.
`Broken` is the entry that `--continue` writes for a file that was not staged as
JSONL: its hash is that of a blob, or empty for a removed file. No command can write
such a file, and a merge that has to read it ends there (`Outcomes`); a merge in which
only one side has it carries it through. `sparse-checkout disable` skips an entry with
a hash, which the remote does not have either, and fails on an empty one (the store
refuses to look it up), so `SparseDisable` leaves open which of the two an entry is.

Definitions marked "faulty variant" are wrong on purpose: each replaces the
definition after it in one run, which must then fail. They show that the
properties can be broken by a plausible bug.

## 3. The runs

| run | checks | distinct states |
|---|---|---|
| `push_pull` (`MCRemoteSync.cfg`) | `TypeOK`, `RefClosed`, `StoreLayered`, `HolesServed`, `FsckFindsEveryHole`, `IInv`, `FastForwardOnly`, `LocalWorkKept`, `CommandsEnd` | 61,048 |
| `merge_push` (`MCRemoteMerge.cfg`) | `RefClosed`, `KeepsContract`, `FastForwardOnly` | 82,096 |
| `pull_hole` (`MCPullHole.cfg`) | `PulledWhole`, violated | - |
| `server_gc` (`MCServerGC.cfg`) | `GcTypeOK`, `OwnUploadsSurvive`, `WholeBranchStays` | 660,438 |
| `gc_reuse` (`MCGcReuse.cfg`) | `InFlightPushesCovered`, violated | - |
| `metadata_cache` (`MCRuntimeMetadata.cfg`) | `TypeOK`, `NoWaiterForgotten`, `CallsReturn` | 9,561 |
| `merge_base` (`MCMergeBaseSearch.cfg`) | `BaseIsCommon`, `NoneMeansUnrelated`, `SearchInv`, `SearchEnds` | 96,352 |
| `ancestor_base` (`MCAncestorBase.cfg`) | `AncestorIsTheBase`, violated | - |
| `histories` (`MCDatasetHistory.cfg`) | `HistoryTypeOK`, `UntouchedAnswersSurvive`, `ChangesOfBothApplied`, `MergeRepeatsNoRow`, `BlameIsTheIntroduction`, `HistoryAgreesWithBlame` | 95,831 |
| `pull_requests` (`MCPullRequests.cfg`) | `PrTypeOK`, `PInv`, `MergedStaysInTarget`, `HeadsKeepHistory`, `MergeIsRecordedWithTheMove`, `MergesWereReviewed` | 646,311 |
| `working_copy` (`MCWorkingCopy.cfg`) | `WorkTypeOK`, `WInv`, `HeadsOnlyGrow`, `OnlyCommittedIsReplaced`, `CleanStaysClean`, `StagedIsCommitted` | 659,809 |
| `merge_continue` (`MCMergeContinue.cfg`) | `ContinueMergesBoth`, violated | - |

- `RefClosed`: a branch of the server can always be read in full.
- `StoreLayered`: also between two uploads no stored object lacks an object of
  another kind that it names. (Trees among trees, commits among commits come in
  no fixed order.)
- `HolesServed`: what a working copy lacks of its objects, the server has with
  all its history. This is what makes the "missing in store" warning of push
  harmless, after an interrupted fetch and in a sparse clone.
- `FsckFindsEveryHole`: fsck in a working copy reports a missing object exactly
  when one of its branches cannot be read in full.
- `FastForwardOnly`: between its creation and its deletion a server branch moves
  only to descendants, although ancestry is checked in the client.
- `LocalWorkKept`: a local branch moves only to descendants.
- `KeepsContract`: `RemoteSync` implements `PublishedBranches`, where a branch is
  created, moved forward to a published commit and deleted in one step each.
- `CommandsEnd`: every command ends, if the client goes on.
- `WholeBranchStays`: once a branch names a commit whose objects are all stored
  and not condemned, no collection, ageing or request harms it. So only a
  collection that was already running when the branch was set can.
- `OwnUploadsSurvive`: what a running push has itself stored is not unlinked.
- `NoWaiterForgotten`, `CallsReturn`: no thread waits for an Event nobody will
  set; every call returns.
- `BaseIsCommon`, `NoneMeansUnrelated`, `SearchEnds`: `find_merge_base` returns a
  commit both sides descend from, and None only if the store shows none; it always
  returns. (Not a nearest one: see `ancestor_base` in section 4.) `SearchInv` says
  why, and is what the proofs use.
- `UntouchedAnswersSurvive`, `ChangesOfBothApplied`: over any common ancestor, a
  merge without conflicts keeps what neither side touched, removes what one removed
  and has what one brought in. The first holds of a row that is the base's only
  answer to its query: `merge_manifests` keeps one row per query fingerprint and may
  lose the second answer without a conflict (base `[a1, a2]`, ours `[a1, a3]` and
  theirs `[a2, a1]` give `[a3]`). The second says exactly which rows the merge
  leaves, if base and ours answer each query once: the untouched ones and those either
  side brought in, but for `DroppedAnswers`, theirs' new answer to a query whose row
  ours deleted (see the end of section 4).
- `MergeRepeatsNoRow`: a merge repeats no row if neither side does.
- `BlameIsTheIntroduction`, `HistoryAgreesWithBlame`: the blamed commit has the
  row, every commit since has it, the one before has not (or has the same rows in
  another order); the history of a row begins there and ends where the first
  answer was added.
- `HeadsKeepHistory`: merges and pushes race for the head of a branch, and none
  takes a commit off a guarded branch; merges take none off any branch.
- `MergedStaysInTarget`, `MergeIsRecordedWithTheMove`: what a pull request says
  was merged is in its target for good; it says so in the step that moves the
  target, and the new head has the old head and the source.
- `MergesWereReviewed`: a merge that ends names a pull request that as many
  reviewers as the rule asks for have looked at. More is not true: a reviewer who
  takes an approval back between check and merge is too late (see the end of
  section 4), and approvals stay when the source is pushed to.
- `HeadsOnlyGrow`: no local command takes commits off a branch, also when a merge
  begun on one branch is continued on another or the command dies.
- `OnlyCommittedIsReplaced`: checkout, switch and pull overwrite only rows that
  some commit has, even when they die half way and are run again.
- `CleanStaysClean`: after a command that ends, a working copy that was clean is
  clean: files and branch went the same way.
- `StagedIsCommitted`: staged rows stay staged until the head has them, they are
  staged over or given up by name; only a torn index loses them. `WInv` is what
  the proofs of these four rest on: what a command has still to do fits what it
  read when it started.

**Bounds.** Two working copies and one branch are enough for two pushes that
race, overtake and skip each other's objects, for a push after an interrupted
pull, and for delete and recreate. The graph of `MCRemoteSync` has a common
first commit and a child of it in each working copy, a manifest shared by two
trees, a tree that is a subdirectory of another, and (`Extras`) a sidecar.
`MCRemoteMerge` has one working copy with two branches and a merge
commit, so that a push has to send what came through the second parent, a blob and
a row shared by two manifests; `main` blocks forced pushes and `dev` requires pull
requests. `MaxLate` is the number of abandoned ref updates on their way at one time:
1 in `merge_push`, as no property relates two, and 0 in `push_pull`, whose liveness
check has no room for them; a late update therefore races with the pushes and
deletions of one working copy in TLC, and with those of any number of them in the
theorems `BranchesMoveForward` and `BranchesReadable`. `UsedOps` are the download
commands users run: pull and clone in `push_pull`, fetch (pull without its move of the
branch) in `merge_push`. `ExistsLimit` stands for 10,000; at 2 some lists of `merge_push` are over it, at 10 none is.
`MCServerGC` has one tree for the first commits of two clients (`Later` adds a second
commit of one of them, back at that tree): enough for a push to reuse what another
one, or an earlier one of its own, left. At most
one collection runs at a time there, and no late ref update is served
(`MaxLate = 0`). `MCRuntimeMetadata` has three threads, three keys and room for
two: an owner, a waiter and a thread whose insertion evicts.

`MCMergeBaseSearch` has every history of four commits (a commit has no parent, one,
or two), every two of them to start from and every subset of them in the store: the
two searches can overtake each other and a queue run empty early. The ancestor that
is missed in `ancestor_base` needs a fifth commit, a whole store, and only merges
that a fast-forward would not have replaced (`MCGrown`).

`MCDatasetHistory` has one file with up to two rows out of three answers to one
query and a row without a query (or a blob, or no file), at most three edits, the
other commits merges, in at most four commits: enough for both sides to refresh, delete,
reorder or add the same row, for files that repeat a row or answer a query
twice, for merges of roots without a common ancestor, and for a merge of merges. The
three answers are interchangeable (`MCSymmetry`): nothing depends on their order.
In `MCPullRequests`,
`main` asks for one approval and blocks forced pushes, `feat` has no rule and may
be deleted; `Serves` gives each of the three handlers one call out of its routes
(patch, merge or delete; create, merge, resolve or direct merge; push or create), so
each race is between three writers of a ref or a row, and two handlers may create a
pull request at once. `Uploads` lets clients store a commit without parents and the
merge of 2 and 3. Four commits leave
room for one that moves a branch under the others, two pull requests for one
that a refresh meets by surprise. `MCWorkingCopy` begins with two branches that
changed different files, one more commit to pull, two JSONL files and a blob,
full or sparse; four commands or edits are enough for a command that dies, an
edit, the command again and one that builds on it, and for stop, add, switch and
continue of a merge.

**Fairness.** `FairSpec` asks weak fairness of each client's own next step, and
of nothing else: a client is a sequential loop, every request is answered or
times out, and no client waits for another. Aborts, late updates, deletions and
new commands are never obliged to happen. In `RuntimeMetadata` a woken thread
runs on and a computation, which only reads a finite manifest, ends.
`find_merge_base` runs in one thread until it returns, so `MergeBaseSearch` asks
weak fairness of its only process. Histories, pull requests and the working copy are
checked for safety only: nothing in them waits for anybody.

Deadlock is checked in the runs of `RemoteSync`, `ServerGC` and
`RuntimeMetadata`, where users can always start a command or commands go on. The
others stop when their bounds are used up (commits, the one call of each handler,
the commands of a user) or, in `MergeBaseSearch`, when the function has returned,
which is no deadlock of the program.

## 4. Findings

- **`pull_hole`.** `_fetch_objects_since` stores a commit before its tree and
  parents, and stops at any commit already stored (`cli/main.py:2282-2287`).
  After an interrupted pull the next one downloads nothing below that commit,
  moves the branch to it and succeeds. The specification
  (`docs/superpowers/specs/2026-04-23-phase1-remote-collaboration.md:216-218`)
  has fetch download the missing commits, trees and manifests and pull the new
  rows. `HolesServed` shows that nothing is lost: the server has the objects.
- **`gc_reuse`.** `docs/superpowers/specs/2026-04-25-phase5b-gc.md:295` says the
  grace period "covers all in-flight operations". A push that finds objects
  already on the server (left by an earlier attempt, or by a deleted branch)
  does not touch their times; a collection that read the refs before the push's
  compare-and-swap unlinks them, and the new branch is not readable.
- **`ancestor_base`.** `find_merge_base` returns the first commit that both searches
  have met. Let 2 and 3 be commits on 1, 4 on 2, and 5 the merge of 3 and 4. From 5
  and 2 the searches meet 1 (through 3) before 2, and 1 is returned, although 2 is an
  ancestor of 5. `docs/superpowers/specs/2026-04-23-phase2-merge-and-branches.md:205`
  says that then 2 is the merge base, and a fast-forward is told by that:
  `routes/refs.py:162-163` refuses to move a protected branch from 2 to 5 as a forced
  push, and `cli/main.py:1011`, `routes/merge.py:175` and `routes/pulls.py:411` make a
  merge commit where the branch could have moved forward. No commit is lost by it:
  the result is always a common ancestor (`BaseSound`).
- **`merge_continue`.** A merge that stops at conflicts writes the files it could
  merge (`cli/main.py:1031-1037`) but stages none, and `--continue` builds the
  commit from the head and the staged files alone (`main.py:946-951`). A file that
  only the other branch changed has its old contents in the merge commit, unless
  the user adds it too; `docs/cookbook/three-way-merge.md:137-138` and the message
  at `main.py:1054` ask the user to add the files with conflicts.

Two more disagreements with the documentation have no run of their own; the models
behave like the code, and the properties nearby say what the code does instead.

- `docs/cookbook/three-way-merge.md:169` calls it a conflict when one row is changed
  differently on the two branches, "deleted, replaced by different content"
  ("删除、替换为不同内容"). `merge_manifests` has a conflict only where both sides
  replaced the row (`core/merge.py:160-177`). Where one side deleted it and the other
  has a new answer, the answer is kept if it is ours (base `[a1]`, ours `[a2]`, theirs
  `[]` give `[a2]`) and dropped without a word if it is theirs (base `[a1]`, ours `[]`,
  theirs `[a2]` give `[]`; `core/merge.py:189-224`). `ChangesOfBothApplied` says this
  for every merge of two histories.
- `docs/cookbook/pull-requests.md:213` says that a merge without the approvals asked
  for is refused. Approvals are counted once, before the merge is computed
  (`routes/pulls.py:401`, `routes/merge.py:103-110`); a review that replaces an
  approval between that and the move of the branch does not stop it.
  `MergesWereReviewed` says what is left: enough reviewers had looked.

## 5. The proofs

Proved for all values of the constants, from the named assumptions
`GraphAssumption`, `SyncAssumption`, `CacheAssumption`, `MergeBaseAssumption`,
`FileAssumption`, `HistoryAssumption`, `PullAssumption` and `WorkAssumption`. They
type the constants and tell the values apart that stand for None, a missing file or
an index entry of another kind; the last two also say that the repository a model
starts from is one (commits come after their parents, open pull requests have their
branches, HEAD names a branch whose files can be checked out). TLC evaluates each of
them in the runs of its module.

- `WalkIsComplete`, `AncestorIsSound` (`ObjectGraphProofs`): what the walkers
  collect over a store with holes, and what a "yes" of `is_ancestor` means.
  Closed sets do the work of induction: to show that a walk covers a history,
  show that a suitable set is closed and contains the head.
- `FsckIsExact` (`ObjectGraphProofs`): fsck reports nothing exactly when all that
  its roots name can be read; `HolesAreReported` (`RemoteSyncProofs`) is
  `Spec => []FsckFindsEveryHole`.
- `InvariantAlways`: `Spec => []IInv`; from it `TypeCorrect`, `BranchesReadable`
  (`RefClosed`), `UploadsLayered`, `HolesAlwaysServed`, `BranchesMoveForward`,
  `LocalBranchesKept`, and the refinement `PushKeepsContract`.
- `GcTyped`, `UploadsSurvive` and `WholeBranchesStay` (`ServerGCProofs`):
  `GcSpec => []GcTypeOK`, `[]OwnUploadsSurvive` and the step property
  `WholeBranchStays`.
- `WaitersRemembered` and `CacheBounded` (`RuntimeMetadataProofs`):
  `Spec => []NoWaiterForgotten`, `Spec => []TypeOK`.
- `SearchKeeps`, `BaseSound` and `BaseComplete` (`MergeBaseProofs`): `SearchInv`,
  `BaseIsCommon` and `NoneMeansUnrelated`, for any history, also an infinite one, and
  any store.
- `FindsAMergeBase` (`MergeBaseProofs`) composes the search with `DatasetHistory`: run
  over any of its histories, all of it in the store, `find_merge_base` returns one of
  the `MergeBases` that a merge there starts from, and the commit itself for one commit
  against itself (which is how `PullRequests` has it). So the theorems about merges,
  which hold over any of those bases, hold of the merges dit makes.
- `HistoryTyped`, `UntouchedRowsStay`, `ChangesAreApplied`, `MergesRepeatNoRow`,
  `BlameIsRight` and `HistoriesAgree` (`DatasetHistoryProofs`): every property of the
  run `histories`, for manifests of any length, any fingerprints, and histories of any
  size. `LatestAnswers`, `FirstsAreTheRows`, `RowsFromOurs`, `RowsFromTheirs`,
  `RowsOfAMerge`, `DiffTells` and `OlderAnswer` tell what the operators of `RowMerge`
  compute.
- `WorkTyped`, `WorkInvariant`, `HeadsGrowAlways`, `OnlyCommittedGoes`,
  `CleanEndsClean` and `StagedIsNotLost` (`WorkingCopyProofs`): every property of the
  run `working_copy`, for any number of commands, wherever they die.
- `ReadsStayGood` (`PullRequestsProofs`): `Spec => []PInv`; from it
  `PullRequestsTyped`, `MergedIsKept` (`MergedStaysInTarget`), `NoHeadIsLost`
  (`HeadsKeepHistory`), `RecordsFollowMoves` (`MergeIsRecordedWithTheMove`) and
  `MergesNeedReviews` (`MergesWereReviewed`), for any number of handlers, branches,
  rules and reviewers.

**The argument of `IInv`.** `RefClosed` alone is not inductive: `FinishPush` sets
a ref to a commit without looking at the store. `PushFacts` says what a running
push knows: the history of the ref it read is on the server and stays there (the
server's store only grows), the ref is an ancestor of the local head, and every
object it wants and can read is on one of its lists or on the server. When both
lists are empty, everything it wanted and could read is there. What it could not
read is covered by `HolesServed`, and what lies behind the stop commit by the
ref it read: these three together are a closed set that contains the head, so
the head's history is on the server (`PushedWhole`). `HolesServed` in turn needs
`FetchFacts` (a download looks only at objects whose history the server has) and
`HeadsStored`; `LateFacts` keeps the promises of a push that is gone. `MergeBase`
is an arbitrary function in all of this: no safety property depends on
`find_merge_base`.

**The argument for collections.** `IInv` is of no use here, as it rests on a store
that only grows. `GcInv` has `RemoteSync`'s types and `PushTips` (a running push has
a branch and a head), and says that the collector's list holds only old files and
that no file a running push has stored is old. A collection starts with the
unmarked of the old files, ageing spares the files of running pushes, and an
`Unlink` only shortens the list: so `OwnUploadsSurvive`. `WholeBranchStays` looks at
one step: what `Unlink` removes was condemned, so it is nothing the branch needs; a
collection that starts marks all that the refs reach (`WalkIsComplete`).

**The argument for the cache.** `NoWaiterForgotten` is inductive with the types of
four variables: the waiters of a key are exactly those on the Event filed under
it, and a filed Event has a computation of its key. It is kept when a thread
drops another's Event, because dropping always wakes. The cache itself plays no
part. That it holds no key twice and stays in its bound (`CacheInv`) needs the two
together: storing a key again does not lengthen the list only if the key was in it
once, and evicting the oldest makes room for one only if the list was not over its
bound.

**The argument for the merge base.** `SearchInv`: each search has met only ancestors
of its commit, so whatever both have met is common. As long as nothing is returned
they have met nothing in common, and what a search has met and taken off its queue it
has looked through, but for the parents in `rest`. When both queues are empty, what a
search has met is closed under the parents the store shows and contains its commit:
it is all of its ancestors, by the definition of `Ancestors` as the least such set,
and the two are disjoint. In a history of `DatasetHistory`, `Ancestors` is the set `anc`
that each commit was made with (`AncestorsOfTheHistory`): `HistoryTypeOK` has that a
commit's ancestors are itself and those of its parents, which come before it, and a
least counterexample shows both that `anc` is closed under parents and that every
closed set contains it. The parameters of the search are fixed by `SearchedWhole`: the
commits, their parents and the store are those of the history when the search starts.
A commit made later is in no history of the two.

**The argument for merges.** `HistoryTypeOK` gives every file its type (a merge makes
a manifest or no file: `MergedIsAFile`); the rest is about one merge, of any three
files. When there is no clash, `FromOurs` consists of the rows of ours that are not
deleted, with the winner in the place of each whose query was settled
(`RowsFromOurs`); `FromTheirs` of the rows of theirs that are in neither other file,
nor the latest answer to a query theirs refreshed. An untouched row can only be
displaced if its query was refreshed, that is if the base's latest answer to it is
missing on a side; if the row is that answer, it is not missing. In the same way a
winner is never in the base, and a row brought in by ours is either the winner or
was never in question.

**The argument for blame.** The prover has no induction scheme that takes a
predicate, so induction is over the least counterexample: a set of numbers that is not
empty has a least element (`Least`, from the library's theorem on well-founded sets).
If commit `c` brought the row in, it is the greatest such commit of its line, since
the line is in `1..c`. If not, its first parent has the row (`DiffTells`) and is an
earlier commit, for which the claim holds; the line of `c` is that of its parent and
`c`, so the same commit is found (`LastInBelow`). The same induction shows first that
the recursion of `row_history` defines a function at all (`WalkExists`: it goes only
to an earlier commit that has the file, and to a row), and then that what it reports
from `c` on extends what it reports from the parent on (`ReportsBegin`).

**The argument of `PInv`.** `MergedStaysInTarget` is not inductive: a step that
lands a merge or a push uses what a handler read some awaits ago. `HandlerFacts`
says why that is still good. Commits keep their history, so what was an ancestor
is one; a pull request keeps its branches, so the branch that is moved is the one
whose rules were asked; rules do not change, so a push that was allowed from `old`
to `new` still is (`PushAllowed`), and the compare-and-swap makes `old` the head it
replaces; a review is never withdrawn as a row, so the reviewers counted once are
still there (`Reviewed`). A handler never holds a merged pull request as loaded, so
the merge it records is a change and is written. `HistoriesNested` (what a commit
descends from brings its own ancestors along) carries a merged commit from one head
to the next. `MergeBases` is any common ancestor here, so nothing depends on which
one the search finds. The proof has three parts: a step of one handler keeps the
facts of the others (`OthersKeepFacts`), a read establishes the reader's own, and
the few steps that write keep `MergedStaysInTarget` and satisfy the action
properties (`WritingStep`).

**The argument for the working copy.** The invariant is `WorkTypeOK /\ WInv`. A
command reads once and then performs effects, so a property of one effect is one of
what the command read, and `WInv` says that it still fits: at most one branch moves,
to a descendant of where it stands, and HEAD comes to name a branch that exists
(`BranchFacts`); the commands that look first find and write only rows some commit
has (`WriteFacts`); the index is cleared only when the head has what it held, or will
have in the effect before (`StageFacts`); a clean command ends at one commit and
brings every file to it (`CleanFacts`). Each command establishes these four when it
starts, each effect keeps them for the rest, and a crash leaves nothing to do.

**Model-checked only.** Liveness (`CommandsEnd`, `CallsReturn`, `SearchEnds`) is out
of the prover's reach. Every safety invariant and action property of the passing runs
is a theorem.

## 6. What is left out

- In `RemoteSync`: the working tree, tags, several remotes, authentication, and
  merges on the server (they add objects and move a ref to a descendant; see
  `PullRequests`). An
  upload served after its client gave up only adds an object the server was
  about to get. Protection rules do not change while the system runs.
- In `ServerGC`: no object ages while the push that stored it is running, which
  is what `phase5b-gc.md:130` asks of the grace period. Refs are read and
  objects marked in one step; a walk that takes longer could only mark more,
  since objects are only added while it runs.
- In `RuntimeMetadata`: `clear_runtime_metadata_cache`, which no code calls. It
  forgets Events without setting them, so it would break `NoWaiterForgotten`.
  A summary's contents: they are a function of the manifest's hash.
- In `RowMerge` and `DatasetHistory`: a tree is its flattened files, so nested trees
  and `resolve_path` are left out, and so are sidecars and the contents of rows.
  Files that are not JSONL are not merged: `three_way_merge` does not load them, so
  a merge commit has none (modelled so; listed as a hazard).
- In `PullRequests`: titles, comments, diff statistics, suggested reviewers and the
  stored mergeability, which decide nothing; rules are constant. Which common
  ancestor is the base is left open. Objects of a merge are written before the
  commit is known; only the commit that is used counts. Databases that serialize
  whole transactions allow fewer interleavings than the read committed modelled.
- In `WorkingCopy`: one command runs at a time; two commands in one working copy
  could lose a commit or staged files (hazards at `cli/main.py:430` and 431). Tags,
  `.ditignore`, sidecars and nested trees are left out. HEAD, which checkout
  writes in place (`cli/main.py:805`) in one short write, is taken to be written
  at once. The stat cache is taken to be
  right: its answer would be wrong for an edit of the same size within the
  resolution of the clock.
- fsck's check of hashes (no object is corrupt in the models) and `dit gc` in a
  working copy, whose roots are also tags and the index.
- Not modelled at all: search, export, statistics and validation (reports about
  the contents of rows, over one snapshot); the metadata route (its threads are the
  callers of `RuntimeMetadata`); rows of comments, rules and reviewer suggestions
  that are only inserted, updated and deleted; authentication, tokens, webhooks and
  the rest of the server shell; the backup scripts. "components" in `PROJECT.json`
  has each with its reason.

## 7. What could come next

1. Two commands at once in `WorkingCopy`: the index has a lock, branches have none,
   and `commit` reads both before it writes either.
2. `dit gc` against add and commit: a manifest is on its way from the index to a
   branch while roots are read.
3. An online backup: dump, then archive, while pushes and a collection run.
4. That the ancestors in `PullRequests` (`hist`, which has no parents) are those of a
   history in `DatasetHistory`, so that its merges are composed with the search as
   those of `DatasetHistory` are (`FindsAMergeBase`).
