------------------------------ MODULE RowMerge ------------------------------
(* What dit computes from the rows of a file: core/diff.py compares two     *)
(* manifests, core/merge.py merges two against a third, core/dedup.py looks *)
(* for repetitions.  A manifest is the sequence of the hashes of the rows;  *)
(* QueryOf is the query fingerprint stored with a hash, a function of the   *)
(* row's user messages, by which a changed answer is told from a new row.   *)
EXTENDS Integers, Sequences, FiniteSets

CONSTANTS
    Row,       \* row hashes
    QueryOf,   \* the fingerprint of each row
    NoQuery,   \* the fingerprint of a row without user messages
    Blob,      \* hashes of files that are not JSONL
    NoFile     \* the file is not in the tree

ASSUME FileAssumption ==
    NoFile \notin Blob /\ \A f \in Blob \cup {NoFile} : f \notin Seq(Row)

RowsOf(m) == {m[i] : i \in DOMAIN m}

(* The entries of m at the places in S, in their order.                     *)
Place(S, i) == Cardinality({j \in S : j <= i})
Among(m, S) == [k \in 1..Cardinality(S) |-> m[CHOOSE i \in S : Place(S, i) = k]]

IsManifest(f) == f \notin Blob \cup {NoFile}

(* The rows of a file, none when it is absent.                              *)
RowsIn(f) == IF IsManifest(f) THEN RowsOf(f) ELSE {}

----------------------------------------------------------------------------
(* diff_manifests.  Of the entries only one side has, the k-th added row of *)
(* a query is taken for a new answer to the k-th removed one.               *)
Only(m, n) == Among(m, {i \in DOMAIN m : m[i] \notin RowsOf(n)})

Rank(m, i) == Cardinality({k \in 1..i : QueryOf[m[k]] = QueryOf[m[i]]})

Answered(removed, added) ==   \* pairs of places: an old row, its new answer
    {p \in (DOMAIN removed) \X (DOMAIN added) :
        /\ QueryOf[removed[p[1]]] = QueryOf[added[p[2]]]
        /\ QueryOf[added[p[2]]] # NoQuery
        /\ Rank(removed, p[1]) = Rank(added, p[2])}

(* A change of the order alone is reported as a replacement of every row.   *)
Diff(old, new) ==
    LET removed == Only(old, new)
        added == Only(new, old)
        pairs == Answered(removed, added)
    IN IF RowsOf(old) = RowsOf(new) /\ old # new
       THEN [added |-> RowsOf(new), removed |-> RowsOf(old), refreshed |-> <<>>]
       ELSE [added |-> RowsOf(added) \ {added[p[2]] : p \in pairs},
             removed |-> RowsOf(removed) \ {removed[p[1]] : p \in pairs},
             refreshed |-> [r \in {added[p[2]] : p \in pairs} |->
                 LET first == CHOOSE p \in pairs : added[p[2]] = r /\
                         \A o \in pairs : added[o[2]] = r => p[2] <= o[2]
                 IN removed[first[1]]]]

----------------------------------------------------------------------------
(* merge_manifests.  Each side is indexed by fingerprint; of several rows   *)
(* with one fingerprint the index holds the last.                           *)
Queries(m) == {QueryOf[r] : r \in RowsOf(m)} \ {NoQuery}

Latest(m, q) ==
    LET i == CHOOSE k \in DOMAIN m : QueryOf[m[k]] = q /\
                 \A l \in DOMAIN m : QueryOf[m[l]] = q => l <= k
    IN m[i]

Refreshed(base, side) ==
    {q \in Queries(base) \cap Queries(side) : Latest(base, q) \notin RowsOf(side)}

(* Both sides answered the query again, and differently.                    *)
Clashes(base, ours, theirs) ==
    {q \in Refreshed(base, ours) \cap Refreshed(base, theirs) :
        Latest(ours, q) # Latest(theirs, q)}

(* Which side's answer wins a query that one of them refreshed.             *)
Winner(base, ours, theirs) ==
    [q \in (Refreshed(base, ours) \cup Refreshed(base, theirs))
              \ Clashes(base, ours, theirs) |->
        IF q \in Refreshed(base, ours) THEN Latest(ours, q) ELSE Latest(theirs, q)]

DeletedUnlessRefreshed(base, ours, theirs) ==   \* faulty variant
    {r \in RowsOf(base) : r \notin RowsOf(ours) \/ QueryOf[r] \notin Refreshed(base, theirs)}

(* The rows of the base that a side has neither kept nor refreshed.         *)
Deleted(base, ours, theirs) ==
    {r \in RowsOf(base) :
        \/ r \notin RowsOf(ours) /\ QueryOf[r] \notin Refreshed(base, ours)
        \/ r \notin RowsOf(theirs) /\ QueryOf[r] \notin Refreshed(base, theirs)}

FromOursUndeleted(base, ours, theirs) ==   \* faulty variant
    LET won == Winner(base, ours, theirs)
        clashing == {Latest(ours, q) : q \in Clashes(base, ours, theirs)}
        kept == Among(ours, {i \in DOMAIN ours : ours[i] \notin clashing})
    IN [i \in DOMAIN kept |->
            IF QueryOf[kept[i]] \in DOMAIN won THEN won[QueryOf[kept[i]]] ELSE kept[i]]

(* The rows of ours, in their order, with the refreshed ones replaced.      *)
FromOurs(base, ours, theirs) ==
    LET won == Winner(base, ours, theirs)
        clashing == {Latest(ours, q) : q \in Clashes(base, ours, theirs)}
        kept == Among(ours, {i \in DOMAIN ours :
            /\ ours[i] \notin clashing
            /\ \/ QueryOf[ours[i]] \in DOMAIN won
               \/ ours[i] \notin Deleted(base, ours, theirs)})
    IN [i \in DOMAIN kept |->
            IF QueryOf[kept[i]] \in DOMAIN won THEN won[QueryOf[kept[i]]] ELSE kept[i]]

(* The rows only theirs has, but for the answers that are settled above.    *)
FromTheirs(base, ours, theirs) ==
    LET settled == {Latest(theirs, q) : q \in Refreshed(base, theirs)}
    IN Among(theirs, {i \in DOMAIN theirs :
           theirs[i] \notin RowsOf(base) \cup RowsOf(ours) \cup settled})

FirstOccurrences(m) == Among(m, {i \in DOMAIN m : \A j \in 1..(i - 1) : m[j] # m[i]})

MergeManifestsRepeating(base, ours, theirs) ==   \* faulty variant
    FromOurs(base, ours, theirs) \o Only(theirs, base)

MergeManifests(base, ours, theirs) ==
    FirstOccurrences(FromOurs(base, ours, theirs) \o FromTheirs(base, ours, theirs))

----------------------------------------------------------------------------
(* three_way_merge for one path.  Only manifests are loaded: a blob is as   *)
(* good as absent.  The result holds a file, or NoFile, or the conflict.    *)
Loaded(f) == IF IsManifest(f) THEN f ELSE NoFile

Merged(f) == [clash |-> "none", file |-> f]
Conflict(kind) == [clash |-> kind, file |-> NoFile]

ChangedBoth(base, ours, theirs) ==
    CASE ours = theirs -> Merged(ours)
      [] ours # theirs /\ base = NoFile -> Conflict("both_added")
      [] OTHER ->
           IF NoFile \in {ours, theirs} THEN Conflict("modify_delete")
           ELSE IF Clashes(base, ours, theirs) # {} THEN Conflict("both_modified")
           ELSE Merged(MergeManifests(base, ours, theirs))

MergeFile(base, ours, theirs) ==
    LET b == Loaded(base)  o == Loaded(ours)  t == Loaded(theirs)
    IN IF o = b THEN Merged(t)
       ELSE IF t = b THEN Merged(o)
       ELSE ChangedBoth(b, o, t)

----------------------------------------------------------------------------
(* detect_duplicates over the files of one commit: the rows found at two    *)
(* places and the queries with two different answers.                       *)
Places(files) ==
    UNION {{p} \X (DOMAIN files[p]) : p \in {x \in DOMAIN files : IsManifest(files[x])}}

ExactDuplicates(files) ==
    {files[p[1]][p[2]] : p \in {x \in Places(files) :
        \E y \in Places(files) \ {x} : files[x[1]][x[2]] = files[y[1]][y[2]]}}

QueryDuplicates(files) ==
    LET rows == {files[p[1]][p[2]] : p \in Places(files)}
    IN {q \in {QueryOf[r] : r \in rows} \ {NoQuery} :
           Cardinality({r \in rows : QueryOf[r] = q}) > 1}

Severity(files) ==
    IF ExactDuplicates(files) # {} THEN "warning"
    ELSE IF QueryDuplicates(files) # {} THEN "info" ELSE "clean"
=============================================================================
