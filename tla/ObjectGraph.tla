---------------------------- MODULE ObjectGraph ----------------------------
(* The content-addressed object graph of dit: what refers to what, and what *)
(* the walkers of core/walker.py collect from a store that may be missing   *)
(* objects.  The graph is a constant: an object's name is the SHA-256 of    *)
(* its bytes, so the references inside it never change.                     *)
CONSTANTS
    Object,    \* every object any store may hold
    Kind,      \* the directory of objects/ an object is filed in
    Deps,      \* the hashes written inside an object
    NoCommit   \* Python's None where a commit hash may stand

Kinds == {"commits", "trees", "manifests", "rows", "sidecars", "blobs"}

(* Which kinds an object of a kind may name: a commit its tree and its      *)
(* parents, a tree its entries and their sidecars, a manifest its rows.     *)
MayName == [k \in Kinds |->
    CASE k = "commits"   -> {"commits", "trees"}
      [] k = "trees"     -> {"trees", "manifests", "sidecars", "blobs"}
      [] k = "manifests" -> {"rows"}
      [] OTHER           -> {}]

ASSUME GraphAssumption ==
    /\ Kind \in [Object -> Kinds]
    /\ Deps \in [Object -> SUBSET Object]
    /\ \A o \in Object : \A d \in Deps[o] : Kind[d] \in MayName[Kind[o]]
    /\ NoCommit \notin Object

Commit == {o \in Object : Kind[o] = "commits"}
Tree   == {o \in Object : Kind[o] = "trees"}

Parents(c) == Deps[c] \cap Commit

----------------------------------------------------------------------------
(* The history of an object: the least set that contains it and everything  *)
(* its members name.                                                        *)
Closed(S) == \A o \in S : Deps[o] \subseteq S

ClosedSets == {S \in SUBSET Object : Closed(S)}

Reach == [o \in Object |->
    {x \in Object : \A S \in ClosedSets : o \in S => x \in S}]

----------------------------------------------------------------------------
(* walk_commit_objects and walk_commit_objects_since over the store L.  A   *)
(* hash is collected when it is met; it is followed only if L holds it; the *)
(* stop commit is neither collected nor followed.  (The faulty variants are *)
(* wrong on purpose: each must break a property that rests on the walk.)    *)
NewCommitsHeadOnly(L, head, stop) == {head} \ {stop}   \* faulty variant

NewCommits(L, head, stop) ==
    {c \in Commit : \A S \in SUBSET Commit :
        (/\ {head} \ {stop} \subseteq S
         /\ \A x \in S \cap L : Parents(x) \ {stop} \subseteq S) => c \in S}

TreesOf(L, C) ==
    {t \in Tree : \A S \in SUBSET Tree :
        (\A x \in (C \cup S) \cap L : Deps[x] \cap Tree \subseteq S) => t \in S}

EntriesNoSidecars(L, T) ==   \* faulty variant
    {o \in UNION {Deps[t] \ Tree : t \in T \cap L} : Kind[o] # "sidecars"}

EntriesOf(L, T) == UNION {Deps[t] \ Tree : t \in T \cap L}

RowsForgotten(L, E) == {}   \* faulty variant

RowsOf(L, E) == UNION {Deps[m] : m \in E \cap L}

WalkSince(L, head, stop) ==
    LET commits == NewCommits(L, head, stop)
        trees   == TreesOf(L, commits)
        entries == EntriesOf(L, trees)
    IN  commits \cup trees \cup entries \cup RowsOf(L, entries)

MissingNoRows(L, roots) ==   \* faulty variant: manifests are not opened
    {o \in (UNION {WalkSince(L, r, NoCommit) : r \in roots}) \ L : Kind[o] # "rows"}

(* _verify_graph of fsck: its own walk from every ref, through the same     *)
(* references as the walkers; it reports what it meets and cannot read.     *)
Missing(L, roots) == (UNION {WalkSince(L, r, NoCommit) : r \in roots}) \ L

(* is_ancestor over the store L.                                            *)
IsAncestor(L, ancestor, descendant) ==
    \/ ancestor = descendant
    \/ \E c \in NewCommits(L, descendant, NoCommit) \cap L :
           ancestor \in Parents(c)
=============================================================================
