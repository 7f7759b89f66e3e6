------------------------- MODULE PublishedBranches -------------------------
(* What a dit server promises to the people who share its branches.  A      *)
(* commit is published when anyone can read it with all of its history; a   *)
(* branch names a published commit, is created, moves forward and is        *)
(* deleted, each in one step.  RemoteSync shows that the many requests of   *)
(* `dit push` amount to no more than this.                                  *)
CONSTANTS
    Branch,    \* branch names
    Commit,    \* commits
    History,   \* for each commit, itself and its ancestors
    NoCommit   \* what an absent branch names

VARIABLES
    refs,       \* the branch heads
    published   \* the commits that can be read in full

Init ==
    /\ refs = [b \in Branch |-> NoCommit]
    /\ published = {}

(* Commits become readable, never without their ancestors, and stay so.     *)
Publish ==
    /\ published' \in SUBSET Commit
    /\ published \subseteq published'
    /\ \A x \in published' : History[x] \subseteq published'
    /\ UNCHANGED refs

SetBranch(b, x) ==
    /\ x \in published
    /\ refs[b] # NoCommit => refs[b] \in History[x]
    /\ refs' = [refs EXCEPT ![b] = x]
    /\ UNCHANGED published

DeleteBranch(b) ==
    /\ refs' = [refs EXCEPT ![b] = NoCommit]
    /\ UNCHANGED published

Next ==
    \/ Publish
    \/ \E b \in Branch, x \in Commit : SetBranch(b, x)
    \/ \E b \in Branch : DeleteBranch(b)

Spec == Init /\ [][Next]_<<refs, published>>
=============================================================================
