--------------------------- MODULE MCRemoteMerge ---------------------------
(* A history with a merge for RemoteSync: a1, then a2 on main and d2 on     *)
(* dev, then am on main with parents a2 and d2.  A push of am over a2 has   *)
(* to send what came through the second parent, unless dev brought it.      *)
EXTENDS RemoteSync

CONSTANTS alice, main, dev,
          a1, t1, m1, r1, a2, t2, m2, d2, td, b2, am, tm

MCCommit == {a1, a2, d2, am}
MCObject == MCCommit \cup {t1, m1, r1, t2, m2, td, b2, tm}

MCKind == [o \in MCObject |->
    CASE o \in MCCommit -> "commits"
      [] o \in {t1, t2, td, tm} -> "trees"
      [] o \in {m1, m2} -> "manifests"
      [] o = r1 -> "rows"
      [] o = b2 -> "blobs"]

MCDeps == [o \in MCObject |->
    CASE o = a1 -> {t1}
      [] o = a2 -> {t2, a1}
      [] o = d2 -> {td, a1}
      [] o = am -> {tm, a2, d2}
      [] o = t1 -> {m1}
      [] o = t2 -> {m2}
      [] o = td -> {m1, b2}
      [] o = tm -> {m2, b2}
      [] o \in {m1, m2} -> {r1}
      [] OTHER -> {}]

MCAuthor == [c \in MCCommit |-> alice]

(* The nearest common ancestor in a history this small.                     *)
MCMergeBase == [p \in MCCommit \X MCCommit |->
    IF p[1] \in Reach[p[2]] THEN p[1]
    ELSE IF p[2] \in Reach[p[1]] THEN p[2] ELSE a1]
=============================================================================
