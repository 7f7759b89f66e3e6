----------------------------- MODULE MCServerGC -----------------------------
(* Two working copies whose first commits have one tree: what one push      *)
(* stored another finds there.  a2 follows a1 and is back at that tree, so  *)
(* its push finds everything but the commit.  Pushes die, fail or are       *)
(* undone by an admin and are tried again, with collections in between.     *)
EXTENDS ServerGC

CONSTANTS alice, bob, main, a1, t1, m1, a2, b1,
          Later   \* whether a2 takes part

MCCommit == {a1, b1} \cup Later
MCObject == MCCommit \cup {t1, m1}

MCKind == [o \in MCObject |->
    CASE o \in MCCommit -> "commits"
      [] o = t1 -> "trees"
      [] o = m1 -> "manifests"]

MCDeps == [o \in MCObject |->
    CASE o = a1 -> {t1}
      [] o = a2 -> {a1, t1}
      [] o = b1 -> {t1}
      [] o = t1 -> {m1}
      [] OTHER -> {}]

MCAuthor == [c \in MCCommit |-> IF c = b1 THEN bob ELSE alice]

MCMergeBase == [p \in MCCommit \X MCCommit |->
    IF p[1] \in Reach[p[2]] THEN p[1]
    ELSE IF p[2] \in Reach[p[1]] THEN p[2] ELSE NoCommit]
=============================================================================
