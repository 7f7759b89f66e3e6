----------------------------- MODULE RemoteSync -----------------------------
(* Working copies that share one server repository: `dit push`, `dit fetch` *)
(* and `dit pull` in cli/main.py against the object and ref routes of       *)
(* server/routes.  A push is a conversation of many requests (read the ref, *)
(* ask what exists, upload what is missing, compare-and-swap the ref), and  *)
(* each request here is one step, so that the conversations of several      *)
(* clients interleave, stop half way, or leave their last request behind.   *)
EXTENDS ObjectGraph, Naturals, FiniteSets

CONSTANTS
    Client,     \* working copies (a `.dit` directory each)
    Branch,     \* branch names
    Author,     \* the working copy that creates a commit
    RequirePR,  \* branches whose protection has require_pr
    BlockForce, \* branches whose protection has block_force_push
    MergeBase,  \* find_merge_base(old, new) on the server
    ExistsLimit,  \* hashes the server takes in one batch_exists request
    UsedOps,    \* bound: the download commands that users run
    MaxLate     \* bound: abandoned ref updates on their way at one time

ASSUME SyncAssumption ==
    /\ Author \in [Commit -> Client]
    /\ RequirePR \subseteq Branch
    /\ BlockForce \subseteq Branch
    /\ MergeBase \in [Commit \X Commit -> Commit \cup {NoCommit}]
    /\ NoCommit \notin Branch
    /\ UsedOps \subseteq {"fetch", "pull", "clone", "sparse clone"}
    /\ ExistsLimit \in Nat
    /\ MaxLate \in Nat

VARIABLES
    server,  \* objects in the server's store
    refs,    \* the server's branch heads
    local,   \* objects in each working copy's store
    heads,   \* each working copy's own branch heads
    cmd,     \* the remote command each working copy is running
    late     \* ref updates whose sender has given up waiting

vars == <<server, refs, local, heads, cmd, late>>

----------------------------------------------------------------------------
MaybeCommit == Commit \cup {NoCommit}

Clones    == {"clone", "sparse clone"}
Downloads == {"fetch", "pull"} \cup Clones

(* The variables of a remote command that survive from one request to the   *)
(* next.  "remote" is remote_hash, "unchecked" what batch_exists has not    *)
(* been asked about, "missing" is to_upload, "queue" the commits yet to pop *)
(* and "parts" the objects under popped commits yet to visit.               *)
Command ==
    [op : {"idle", "push"} \cup Downloads, branch : Branch \cup {NoCommit},
     remote : MaybeCommit, unchecked : SUBSET Object, missing : SUBSET Object,
     queue : SUBSET Commit, parts : SUBSET Object]

Idle == [op |-> "idle", branch |-> NoCommit, remote |-> NoCommit,
         unchecked |-> {}, missing |-> {}, queue |-> {}, parts |-> {}]

RefUpdate == [branch : Branch, old : MaybeCommit, new : Commit]

(* Faulty variants, wrong on purpose: trees before what they list, and a    *)
(* turn that never comes.  Others stand before the actions they vary; each  *)
(* must break one of the properties below.                                  *)
UploadTreesFirst == [k \in Kinds |-> IF k = "trees" THEN 0 ELSE 1]
FirstOfStrict(S, rank) ==
    {o \in S : \A p \in S : rank[Kind[o]] < rank[Kind[p]]}

(* upload_order of push, and the phases of _fetch_tree_objects.             *)
UploadRank == [k \in Kinds |->
    CASE k = "rows" -> 1 [] k = "manifests" -> 2 [] k = "sidecars" -> 3
      [] k = "blobs" -> 4 [] k = "trees" -> 5 [] k = "commits" -> 6]
FetchRank == [k \in Kinds |->
    CASE k = "trees" -> 1 [] k = "manifests" -> 2 [] k = "rows" -> 3
      [] k = "sidecars" -> 4 [] k = "blobs" -> 5 [] k = "commits" -> 6]

(* The members of S whose turn it is.                                       *)
FirstOf(S, rank) ==
    {o \in S : \A p \in S : rank[Kind[o]] <= rank[Kind[p]]}

Init ==
    /\ server = {}
    /\ refs = [b \in Branch |-> NoCommit]
    /\ local = [c \in Client |-> {}]
    /\ heads = [c \in Client |-> [b \in Branch |-> NoCommit]]
    /\ cmd = [c \in Client |-> Idle]
    /\ late = {}

----------------------------------------------------------------------------
(* Local work between remote commands.                                      *)

WrittenNoRows(x) ==   \* faulty variant: `add` stores manifests alone
    {o \in Reach[x] : Kind[o] # "rows"}

(* The objects `add` and `commit` write for commit x: itself and all of its *)
(* history that its parents do not already account for.                     *)
Written(x) == {x} \cup (Reach[x] \ UNION {Reach[p] : p \in Parents(x)})

(* `dit add` and `dit commit`, or `dit merge` of another local branch: the  *)
(* first commit of a branch has no parent, every later one has the head     *)
(* among its parents.                                                       *)
CommitLocally(c, b, x) ==
    /\ cmd[c].op = "idle"
    /\ Author[x] = c
    /\ x \notin local[c]
    /\ IF heads[c][b] = NoCommit
       THEN Parents(x) = {}
       ELSE /\ heads[c][b] \in Parents(x)
            /\ Parents(x) \subseteq {heads[c][d] : d \in Branch} \cap local[c]
    /\ local' = [local EXCEPT ![c] = @ \cup Written(x)]
    /\ heads' = [heads EXCEPT ![c][b] = x]
    /\ UNCHANGED <<server, refs, cmd, late>>

(* `dit branch b` while branch d is checked out.                            *)
CreateBranch(c, b, d) ==
    /\ cmd[c].op = "idle"
    /\ heads[c][b] = NoCommit
    /\ heads[c][d] # NoCommit
    /\ heads' = [heads EXCEPT ![c][b] = heads[c][d]]
    /\ UNCHANGED <<server, refs, local, cmd, late>>

----------------------------------------------------------------------------
(* push: what is sent is fixed by the ref read at the start and by the      *)
(* local store; both stay what they are until the command ends.             *)
Tip(c) == heads[c][cmd[c].branch]

StartPushUnchecked(c, b) ==   \* faulty variant: no ancestor check
    /\ cmd[c].op = "idle"
    /\ heads[c][b] # NoCommit
    /\ cmd' = [cmd EXCEPT ![c] =
           [Idle EXCEPT !.op = "push", !.branch = b, !.remote = refs[b],
               !.unchecked = WalkSince(local[c], heads[c][b], refs[b])]]
    /\ UNCHANGED <<server, refs, local, heads, late>>

StartPush(c, b) ==
    /\ cmd[c].op = "idle"
    /\ heads[c][b] # NoCommit
    /\ refs[b] # NoCommit => IsAncestor(local[c], refs[b], heads[c][b])
    /\ cmd' = [cmd EXCEPT ![c] =
           [Idle EXCEPT !.op = "push", !.branch = b, !.remote = refs[b],
               !.unchecked = WalkSince(local[c], heads[c][b], refs[b])]]
    /\ UNCHANGED <<server, refs, local, heads, late>>

(* One batch_exists request: every hash of the next kind, however many.     *)
Asked(c) == FirstOf(cmd[c].unchecked, UploadRank)

CheckExists(c) ==
    /\ cmd[c].op = "push"
    /\ Asked(c) # {} /\ Cardinality(Asked(c)) <= ExistsLimit
    /\ cmd' = [cmd EXCEPT ![c].unchecked = @ \ Asked(c),
                          ![c].missing = @ \cup (Asked(c) \ server)]
    /\ UNCHANGED <<server, refs, local, heads, late>>

(* The server answers 400 to a longer list, and the push exits.             *)
CheckRefused(c) ==
    /\ cmd[c].op = "push"
    /\ Cardinality(Asked(c)) > ExistsLimit
    /\ cmd' = [cmd EXCEPT ![c] = Idle]
    /\ UNCHANGED <<server, refs, local, heads, late>>

(* One item of upload_batch reaches ObjectStore.write.  A hash the local    *)
(* store does not hold is skipped with a warning.                           *)
Upload(c, o) ==
    /\ cmd[c].op = "push"
    /\ cmd[c].unchecked = {}
    /\ o \in FirstOf(cmd[c].missing, UploadRank)
    /\ server' = server \cup ({o} \cap local[c])
    /\ cmd' = [cmd EXCEPT ![c].missing = @ \ {o}]
    /\ UNCHANGED <<refs, local, heads, late>>

CasOverwrites(b, old, new) ==   \* faulty variant: set, not compare-and-set
    old # NoCommit => b \notin RequirePR

(* cas_update_ref: protection is looked at only for a ref that should       *)
(* exist; the UPDATE ... WHERE target_hash = old, or the INSERT under the   *)
(* primary key, is atomic in the database.                                  *)
CasAccepts(b, old, new) ==
    /\ old # NoCommit => /\ b \notin RequirePR
                         /\ b \in BlockForce => MergeBase[<<old, new>>] = old
    /\ refs[b] = old

CasUpdateRef(b, old, new) ==
    refs' = IF CasAccepts(b, old, new) THEN [refs EXCEPT ![b] = new] ELSE refs

Uploaded(c) ==
    cmd[c].op = "push" /\ cmd[c].unchecked = {} /\ cmd[c].missing = {}

(* The last request of a push is served; the client reports success or      *)
(* "remote ref was updated by another push" and exits either way.           *)
FinishPush(c) ==
    /\ Uploaded(c)
    /\ CasUpdateRef(cmd[c].branch, cmd[c].remote, Tip(c))
    /\ cmd' = [cmd EXCEPT ![c] = Idle]
    /\ UNCHANGED <<server, local, heads, late>>

(* The client times out on that request while it is still on its way, and   *)
(* the server serves it later, whatever the client has done since.          *)
GiveUpOnCas(c) ==
    /\ Uploaded(c)
    /\ Cardinality(late) < MaxLate
    /\ late' = late \cup
           {[branch |-> cmd[c].branch, old |-> cmd[c].remote, new |-> Tip(c)]}
    /\ cmd' = [cmd EXCEPT ![c] = Idle]
    /\ UNCHANGED <<server, refs, local, heads>>

ServeLate(m) ==
    /\ CasUpdateRef(m.branch, m.old, m.new)
    /\ late' = late \ {m}
    /\ UNCHANGED <<server, local, heads, cmd>>

(* A network error, Ctrl-C or a crash ends a command between two requests.  *)
Abort(c) ==
    /\ cmd[c].op # "idle"
    /\ cmd' = [cmd EXCEPT ![c] = Idle]
    /\ UNCHANGED <<server, refs, local, heads, late>>

(* delete_ref, an admin's request: no protection, no compare.               *)
DeleteRef(b) ==
    /\ refs[b] # NoCommit
    /\ refs' = [refs EXCEPT ![b] = NoCommit]
    /\ UNCHANGED <<server, local, heads, cmd, late>>

----------------------------------------------------------------------------
(* fetch, pull and clone.                                                   *)
StartFetchUnasked(c, b, op) ==   \* faulty variant: the ref may not exist
    /\ cmd[c].op = "idle"
    /\ IF op \in Clones THEN local[c] = {} ELSE refs[b] # heads[c][b]
    /\ cmd' = [cmd EXCEPT ![c] = [Idle EXCEPT !.op = op, !.branch = b,
                                    !.remote = refs[b], !.queue = {refs[b]}]]
    /\ UNCHANGED <<server, refs, local, heads, late>>

StartFetch(c, b, op) ==
    /\ cmd[c].op = "idle"
    /\ refs[b] # NoCommit
    /\ IF op \in Clones THEN local[c] = {} ELSE refs[b] # heads[c][b]
    /\ cmd' = [cmd EXCEPT ![c] = [Idle EXCEPT !.op = op, !.branch = b,
                                    !.remote = refs[b], !.queue = {refs[b]}]]
    /\ UNCHANGED <<server, refs, local, heads, late>>

Fetching(c) == cmd[c].op \in Downloads
Cloning(c)  == cmd[c].op \in Clones

(* A commit is popped.  The walk goes no further at the local head, at a    *)
(* commit already stored, or at one the server does not have; otherwise the *)
(* commit is stored at once, before its tree and its parents.  fetch and    *)
(* pull finish the tree before the next commit, clone pops every commit     *)
(* first.                                                                   *)
FetchCommit(c, x) ==
    /\ Fetching(c)
    /\ Cloning(c) \/ cmd[c].parts = {}
    /\ x \in cmd[c].queue
    /\ IF x = Tip(c) \/ x \in local[c] \/ x \notin server
       THEN /\ cmd' = [cmd EXCEPT ![c].queue = @ \ {x}]
            /\ UNCHANGED local
       ELSE /\ cmd' = [cmd EXCEPT ![c].queue = (@ \ {x}) \cup Parents(x),
                                  ![c].parts = @ \cup (Deps[x] \cap Tree)]
            /\ local' = [local EXCEPT ![c] = @ \cup {x}]
    /\ UNCHANGED <<server, refs, heads, late>>

(* What the walk goes on to from o: every subtree, but only those other     *)
(* objects the store does not hold; a sparse clone wants sidecars alone.    *)
Follow(c, o) ==
    {d \in Deps[o] : \/ d \in Tree
                     \/ /\ d \notin local[c]
                        /\ cmd[c].op = "sparse clone" => Kind[d] = "sidecars"}

(* One object under the commits in hand is read locally or downloaded; one  *)
(* the server does not have is passed over.  A clone works commit by commit *)
(* except for the rows, which come last; the order among the rest is left   *)
(* open.                                                                    *)
FetchPart(c, o) ==
    /\ Fetching(c)
    /\ o \in cmd[c].parts
    /\ IF Cloning(c)
       THEN /\ cmd[c].queue = {}
            /\ Kind[o] = "rows" =>
                   \A p \in cmd[c].parts : Kind[p] = "rows"
       ELSE o \in FirstOf(cmd[c].parts, FetchRank)
    /\ IF o \in local[c] \cup server
       THEN /\ cmd' = [cmd EXCEPT ![c].parts = (@ \ {o}) \cup Follow(c, o)]
            /\ local' = [local EXCEPT ![c] = @ \cup {o}]
       ELSE /\ cmd' = [cmd EXCEPT ![c].parts = @ \ {o}]
            /\ UNCHANGED local
    /\ UNCHANGED <<server, refs, heads, late>>

MovesAnyHead(c) == Cloning(c) \/ cmd[c].op = "pull"   \* faulty variant

(* The download is over: clone sets the branch, pull moves it if that is a  *)
(* fast-forward, fetch leaves it alone.                                     *)
MovesHead(c) ==
    \/ Cloning(c)
    \/ /\ cmd[c].op = "pull"
       /\ \/ Tip(c) = NoCommit
          \/ IsAncestor(local[c], Tip(c), cmd[c].remote)

FinishFetch(c) ==
    /\ Fetching(c)
    /\ cmd[c].queue = {} /\ cmd[c].parts = {}
    /\ heads' = IF MovesHead(c)
                THEN [heads EXCEPT ![c][cmd[c].branch] = cmd[c].remote]
                ELSE heads
    /\ cmd' = [cmd EXCEPT ![c] = Idle]
    /\ UNCHANGED <<server, refs, local, late>>

----------------------------------------------------------------------------
ClientStep(c) ==
    \/ CheckExists(c)
    \/ CheckRefused(c)
    \/ \E o \in Object : Upload(c, o)
    \/ FinishPush(c)
    \/ \E x \in Commit : FetchCommit(c, x)
    \/ \E o \in Object : FetchPart(c, o)
    \/ FinishFetch(c)

UserStep(c) ==
    \/ \E b \in Branch, x \in Commit : CommitLocally(c, b, x)
    \/ \E b, d \in Branch : CreateBranch(c, b, d)
    \/ \E b \in Branch : StartPush(c, b)
    \/ \E b \in Branch, op \in UsedOps : StartFetch(c, b, op)

Next ==
    \/ \E c \in Client : ClientStep(c) \/ UserStep(c)
    \/ \E c \in Client : GiveUpOnCas(c) \/ Abort(c)
    \/ \E m \in late : ServeLate(m)
    \/ \E b \in Branch : DeleteRef(b)

Spec == Init /\ [][Next]_vars

(* A command that runs takes its next step: every request is answered or    *)
(* times out, and nothing in a client waits for another client.             *)
FairSpec == Spec /\ \A c \in Client : WF_vars(ClientStep(c))

----------------------------------------------------------------------------
TypeOK ==
    /\ server \in SUBSET Object
    /\ refs \in [Branch -> MaybeCommit]
    /\ local \in [Client -> SUBSET Object]
    /\ heads \in [Client -> [Branch -> MaybeCommit]]
    /\ cmd \in [Client -> Command]
    /\ late \in SUBSET RefUpdate

(* Every branch of the server can be read in full, whatever pushes were     *)
(* interleaved, aborted, retried or answered late (push and cas_update_ref).*)
RefClosed ==
    \A b \in Branch : refs[b] # NoCommit => Reach[refs[b]] \subseteq server

(* The point of upload_order: at every moment, also after a push died half  *)
(* way, no manifest on the server lacks a row, no tree an entry or sidecar, *)
(* no commit its tree.  (Subtrees and parents come in no fixed order.)      *)
StoreLayered ==
    \A o \in server : \A d \in Deps[o] : Kind[d] # Kind[o] => d \in server

(* An object a working copy lacks, because a fetch was interrupted or the   *)
(* clone was sparse, is on the server with all its history: this is what    *)
(* lets push go on when the walk meets a hash the local store cannot read.  *)
HolesServed ==
    \A c \in Client : \A o \in local[c] : \A d \in Deps[o] :
        d \in local[c] \/ Reach[d] \subseteq server

(* `dit fsck` tells a working copy with a hole, as interrupted pulls and    *)
(* sparse clones leave it, from a whole one: it reports a missing object    *)
(* exactly when some branch cannot be read in full (core/fsck.py).          *)
Roots(c) == {heads[c][b] : b \in Branch} \ {NoCommit}

FsckFindsEveryHole ==
    \A c \in Client :
        Missing(local[c], Roots(c)) = {}
            <=> \A r \in Roots(c) : Reach[r] \subseteq local[c]

(* Between creation and deletion a branch of the server only moves forward, *)
(* although the ancestor check runs in the client, against a value read     *)
(* many requests before the update.                                         *)
FastForwardOnly ==
    [][\A b \in Branch : refs[b] # NoCommit /\ refs'[b] # NoCommit
                          => refs[b] \in Reach[refs'[b]]]_refs

(* No remote command loses local work: a local branch, once set, moves only *)
(* to a commit that has the old head in its history.                        *)
LocalWorkKept ==
    [][\A c \in Client, b \in Branch : heads[c][b] # NoCommit =>
          /\ heads'[c][b] # NoCommit
          /\ heads[c][b] \in Reach[heads'[c][b]]]_heads

(* Every command ends: the walks of push, fetch and clone terminate even if *)
(* objects are missing, and no client waits for another one.                *)
CommandsEnd ==
    \A c \in Client : cmd[c].op # "idle" ~> cmd[c].op = "idle"

(* What the server promises of its branches (PublishedBranches): a commit   *)
(* is published once all of its history is in the store.                    *)
Whole == {x \in Commit : Reach[x] \subseteq server}

CommitHistory == [x \in Commit |-> Reach[x] \cap Commit]

Contract == INSTANCE PublishedBranches
                WITH published <- Whole, History <- CommitHistory

(* The requests of push, with their interleavings and failures, implement   *)
(* that promise.                                                            *)
KeepsContract == Contract!Spec

----------------------------------------------------------------------------
(* Why the safety properties hold: what a command that is running knows     *)
(* stays true however long it takes.                                        *)
HeadsStored ==
    \A c \in Client, b \in Branch :
        heads[c][b] # NoCommit => heads[c][b] \in local[c]

(* What a push set out to send: fixed by the ref it read and the local      *)
(* store.                                                                   *)
Want(c) == WalkSince(local[c], Tip(c), cmd[c].remote)

(* All that the push wants and can read is on the server or on its lists;   *)
(* the ref it read was an ancestor, and its history stays on the server     *)
(* even if the ref is moved or deleted.                                     *)
PushFacts(c) ==
    cmd[c].op = "push" =>
        /\ cmd[c].branch \in Branch
        /\ Tip(c) # NoCommit
        /\ cmd[c].unchecked \cup cmd[c].missing \subseteq Want(c)
        /\ Want(c) \cap local[c]
               \subseteq cmd[c].unchecked \cup cmd[c].missing \cup server
        /\ cmd[c].remote # NoCommit =>
               /\ Reach[cmd[c].remote] \subseteq server
               /\ cmd[c].remote \in Reach[Tip(c)]

(* A download looks only at objects the server has and keeps, and its goal  *)
(* is stored or still queued.                                               *)
FetchFacts(c) ==
    Fetching(c) =>
        /\ cmd[c].branch \in Branch
        /\ cmd[c].remote \in Commit
        /\ Reach[cmd[c].remote] \subseteq server
        /\ cmd[c].queue \cup cmd[c].parts \subseteq Reach[cmd[c].remote]
        /\ cmd[c].remote \in local[c] \cup cmd[c].queue
        /\ Cloning(c) => \A b \in Branch : heads[c][b] = NoCommit

(* A ref update on its way keeps the promises of the push that sent it.     *)
LateFacts ==
    \A m \in late :
        /\ Reach[m.new] \subseteq server
        /\ m.old # NoCommit => m.old \in Reach[m.new]

(* The inductive invariant behind RefClosed, StoreLayered, HolesServed and  *)
(* the action properties: the facts a push, a fetch and a late update rely  *)
(* on.                                                                      *)
IInv ==
    /\ TypeOK
    /\ RefClosed /\ StoreLayered /\ HolesServed
    /\ HeadsStored /\ LateFacts
    /\ \A c \in Client : PushFacts(c) /\ FetchFacts(c)

----------------------------------------------------------------------------
(* phase1-remote-collaboration.md:216 says fetch downloads the missing      *)
(* commits, trees and manifests, and line 218 that pull then downloads the  *)
(* new rows: a branch of a full working copy can be read without the server.*)
PulledWhole ==
    \A c \in Client, b \in Branch :
        heads[c][b] # NoCommit /\ cmd[c].op = "idle"
            => Reach[heads[c][b]] \subseteq local[c]
=============================================================================
