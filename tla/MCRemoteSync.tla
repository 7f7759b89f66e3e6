---------------------------- MODULE MCRemoteSync ----------------------------
(* A small history for RemoteSync.  a1 is the first commit; a2 and b2 both  *)
(* follow it, one in each working copy, so that one of two pushes must be   *)
(* turned away.                                                             *)
EXTENDS RemoteSync

CONSTANTS alice, bob, main, dev,
          a1, t1, m1, r1, a2, t2, s2, b2, t3,
          Extras     \* the sidecar s2, or nothing

MCObject == {a1, t1, m1, r1, a2, t2, b2, t3} \cup Extras

MCKind == [o \in MCObject |->
    CASE o \in {a1, a2, b2} -> "commits"
      [] o \in {t1, t2, t3} -> "trees"
      [] o = m1 -> "manifests"
      [] o = r1 -> "rows"
      [] o = s2 -> "sidecars"]

(* a2 gives a1's manifest a sidecar; b2 moves a1's tree into a subdirectory. *)
(* (A blob, and two manifests over one row, are in MCRemoteMerge.)          *)
MCDeps == [o \in MCObject |->
    CASE o = a1 -> {t1}
      [] o = a2 -> {t2, a1}
      [] o = b2 -> {t3, a1}
      [] o = t1 -> {m1}
      [] o = t2 -> {m1} \cup Extras
      [] o = t3 -> {t1}
      [] o = m1 -> {r1}
      [] OTHER -> {}]

MCAuthor == [c \in {a1, a2, b2} |-> IF c = b2 THEN bob ELSE alice]

(* The nearest common ancestor in a history this small.                     *)
MCMergeBase == [p \in {a1, a2, b2} \X {a1, a2, b2} |->
    IF p[1] \in Reach[p[2]] THEN p[1]
    ELSE IF p[2] \in Reach[p[1]] THEN p[2] ELSE a1]
=============================================================================
