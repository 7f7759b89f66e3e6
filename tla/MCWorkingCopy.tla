--------------------------- MODULE MCWorkingCopy ---------------------------
(* Two branches that changed different files, one more commit on a remote.  *)
EXTENDS WorkingCopy, TLC

CONSTANTS a, b, pic, x, y, cut, main, feat

Files(ca, cb, cpic) == a :> ca @@ b :> cb @@ pic :> cpic

MCFirstCommits == <<
    [first |-> 0, anc |-> {1}, tree |-> Files(x, x, Gone)],
    [first |-> 1, anc |-> {1, 2}, tree |-> Files(y, x, x)],
    [first |-> 1, anc |-> {1, 3}, tree |-> Files(cut, y, Gone)],
    [first |-> 2, anc |-> {1, 2, 4}, tree |-> Files(y, Gone, y)]>>
MCFirstRefs == main :> 2 @@ feat :> 3
MCEdits == {<<a, x>>, <<b, Gone>>}
MCFirstSparse == {{a, b, pic}, {a}}
=============================================================================
