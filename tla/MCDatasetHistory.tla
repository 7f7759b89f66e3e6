------------------------- MODULE MCDatasetHistory -------------------------
(* One file, rows with and without a query.  Three answers to one query let *)
(* both branches refresh it, or one file hold two of them; a row without a  *)
(* query can only come and go.                                              *)
EXTENDS DatasetHistory, TLC

CONSTANTS a1, a2, a3, b1, n1,   \* rows: three answers to qa, one to qb, none
          qa, qb, picture, file,
          MaxRows               \* bound: rows of an edited file

MCQueryOf == [r \in Row |->
    CASE r \in {a1, a2, a3} -> qa [] r = b1 -> qb [] OTHER -> NoQuery]

MCManifests == UNION {[1..n -> Row] : n \in 0..MaxRows}

MCContent == MCManifests \cup Blob \cup {NoFile}

(* The answers to one query are alike.                                      *)
MCSymmetry == Permutations({a1, a2, a3})
=============================================================================
