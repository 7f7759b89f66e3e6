------------------------- MODULE MCMergeBaseSearch -------------------------
(* Every history of a few commits, in the order they were made: roots,      *)
(* commits on one parent, merges of two.                                    *)
EXTENDS MergeBaseSearch

CONSTANT Commits   \* bound: how many

MCCommit == 1..Commits

ParentLists(c) ==
    {<<>>} \cup {<<p>> : p \in 1..(c - 1)}
           \cup {q \in (1..(c - 1)) \X (1..(c - 1)) : q[1] # q[2]}

MCHistories ==
    {h \in [MCCommit -> UNION {ParentLists(c) : c \in MCCommit}] :
        \A c \in MCCommit : h[c] \in ParentLists(c)}

(* Histories as merges make them: of two commits neither of which has the   *)
(* other, where a branch would only have moved forward.                     *)
Grown(h) ==
    LET up[c \in MCCommit] == {c} \cup UNION {up[q] : q \in Range(h[c])}
    IN \A c \in MCCommit : \A p, q \in Range(h[c]) : p # q => p \notin up[q]

MCGrown == {h \in MCHistories : Grown(h)}

MCStores == SUBSET MCCommit
MCWhole == {MCCommit}
=============================================================================
