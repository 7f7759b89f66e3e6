------------------------ MODULE DatasetHistoryProofs ------------------------
(* What a merge does to the rows of a file, and whom blame finds, in every  *)
(* history of any length over any files.  Induction over the numbers comes  *)
(* in as the least and the greatest element of a set of them.               *)
EXTENDS DatasetHistory, FiniteSetTheorems, WellFoundedInduction, TLAPS

CleanlyMerged(b, ours, theirs) == MergeFile(b, ours, theirs).clash = "none"
MergedRows(b, ours, theirs) == RowsIn(MergeFile(b, ours, theirs).file)

----------------------------------------------------------------------------
(* Sets of places in a sequence.                                            *)
LEMMA Least ==
  ASSUME NEW S \in SUBSET Nat, S # {}
  PROVE \E x \in S : \A y \in S : x <= y
  <1>1. PICK x \in S : \A y \in S : ~(<<y, x>> \in OpToRel(<, Nat))
    BY NatLessThanWellFounded, WFMin
  <1>2. \A y \in S : ~ (y < x)
    BY <1>1 DEF OpToRel
  <1> QED BY <1>2

LEMMA Greatest ==
  ASSUME NEW S \in SUBSET Nat, S # {}, NEW n \in Nat, \A y \in S : y <= n
  PROVE \E x \in S : \A y \in S : y <= x
  <1> DEFINE T == {n - y : y \in S}
  <1>1. T \in SUBSET Nat /\ T # {}
    <2>1. \A y \in S : n - y \in Nat  OBVIOUS
    <2> QED  BY <2>1
  <1> HIDE DEF T
  <1>2. PICK z \in T : \A y \in T : z <= y BY <1>1, Least
  <1> USE DEF T
  <1>3. PICK x \in S : z = n - x  BY <1>2
  <1>4. \A y \in S : n - x <= n - y BY <1>2, <1>3
  <1> QED BY <1>4

LEMMA PlacesInOrder ==
  ASSUME NEW n \in Nat, NEW S \in SUBSET (1..n)
  PROVE  /\ IsFiniteSet(S) /\ Cardinality(S) \in Nat
         /\ \A i \in S : Place(S, i) \in 1..Cardinality(S)
         /\ \A i, j \in S : i < j => Place(S, i) < Place(S, j)
         /\ \A k \in 1..Cardinality(S) : \E i \in S : Place(S, i) = k
  <1>1. IsFiniteSet(S) /\ Cardinality(S) \in Nat
    <2>1. IsFiniteSet(1..n) BY FS_Interval
    <2> QED BY <2>1, FS_Subset, FS_CardinalityType
  <1>2. ASSUME NEW i \in S PROVE Place(S, i) \in 1..Cardinality(S)
    <2> DEFINE U == {j \in S : j <= i}
    <2>1. U \in SUBSET S /\ U # {}  OBVIOUS
    <2>2. IsFiniteSet(U) /\ Cardinality(U) <= Cardinality(S)  BY <1>1, <2>1, FS_Subset
    <2>3. Cardinality(U) \in Nat BY <2>2, FS_CardinalityType
    <2>4. Cardinality(U) # 0 BY <2>1, <2>2, FS_EmptySet
    <2>5. Place(S, i) = Cardinality(U) BY DEF Place
    <2> HIDE DEF U
    <2> QED BY <1>1, <2>2, <2>3, <2>4, <2>5
  <1>3. ASSUME NEW i \in S, NEW j \in S, i < j PROVE Place(S, i) < Place(S, j)
    <2> DEFINE U == {k \in S : k <= i}
    <2> DEFINE V == {k \in S : k <= j}
    <2>1. U \in SUBSET V /\ V \in SUBSET S /\ j \in V /\ j \notin U
      <3>1. S \subseteq Nat  OBVIOUS
      <3>2. \A k \in S : k <= i => k <= j  BY <1>3, <3>1
      <3>3. ~(j <= i) /\ j <= j  BY <1>3, <3>1
      <3> QED  BY <3>2, <3>3
    <2>2. IsFiniteSet(V) BY <1>1, <2>1, FS_Subset
    <2>3. Cardinality(U) <= Cardinality(V) /\ Cardinality(U) # Cardinality(V) /\ IsFiniteSet(U)
      BY <2>1, <2>2, FS_Subset
    <2>4. Cardinality(U) \in Nat /\ Cardinality(V) \in Nat BY <2>2, <2>3, FS_CardinalityType
    <2>5. Place(S, i) = Cardinality(U) /\ Place(S, j) = Cardinality(V) BY DEF Place
    <2> HIDE DEF U, V
    <2> QED BY <2>3, <2>4, <2>5
  <1>4. \A k \in 1..Cardinality(S) : \E i \in S : Place(S, i) = k
    <2> DEFINE c == Cardinality(S)
    <2> DEFINE f == [i \in S |-> Place(S, i)]
    <2>1. f \in Injection(S, 1..c)
      <3>1. f \in [S -> 1..c] BY <1>2
      <3>2. \A i, j \in S : f[i] = f[j] => i = j BY <1>3, <1>2
      <3> QED BY <3>1, <3>2 DEF Injection, IsInjective
    <2>2. IsFiniteSet(1..c) /\ Cardinality(1..c) = c
      <3> HIDE DEF c
      <3>1. c \in Nat BY <1>1 DEF c
      <3> QED BY <3>1, FS_Interval
    <2>3. f \in Surjection(S, 1..c)
       <3> HIDE DEF f
       <3> QED BY <2>1, <2>2, FS_Injection
    <2> QED BY <2>3 DEF Surjection
  <1> QED BY <1>1, <1>2, <1>3, <1>4

LEMMA AmongKeeps ==
  ASSUME NEW T, NEW m \in Seq(T), NEW S \in SUBSET DOMAIN m
  PROVE  /\ Among(m, S) \in Seq(T)
         /\ RowsOf(Among(m, S)) = {m[i] : i \in S}
         /\ (\A i, j \in S : i # j => m[i] # m[j])
               => \A k, l \in DOMAIN Among(m, S) : k # l => Among(m, S)[k] # Among(m, S)[l]
  <1> DEFINE n == Cardinality(S)
  <1> DEFINE at == [k \in 1..n |-> CHOOSE i \in S : Place(S, i) = k]
  <1>1. DOMAIN m = 1..Len(m) /\ Len(m) \in Nat  OBVIOUS
  <1>2. n \in Nat BY <1>1, PlacesInOrder
  <1>3. \A k \in 1..n : at[k] \in S /\ Place(S, at[k]) = k  BY <1>1, PlacesInOrder
  <1>4. \A i \in S : Place(S, i) \in 1..n /\ at[Place(S, i)] = i
    <2> TAKE i \in S
    <2>1. Place(S, i) \in 1..n BY <1>1, PlacesInOrder
    <2>2. at[Place(S, i)] \in S /\ Place(S, at[Place(S, i)]) = Place(S, i) BY <1>3, <2>1
    <2>3. S \in SUBSET (1..Len(m)) /\ S \subseteq Nat  BY <1>1
    <2>5. \A x, y \in S : x < y => Place(S, x) < Place(S, y)  BY <1>1, <2>3, PlacesInOrder
    <2>4. \A x \in S : Place(S, x) \in Nat
      <3>1. \A x \in S : Place(S, x) \in 1..Cardinality(S)  BY <1>1, <2>3, PlacesInOrder
      <3> QED  BY <3>1
    <2> HIDE DEF at, n
    <2> QED BY <2>1, <2>2, <2>3, <2>4, <2>5
  <1>5. Among(m, S) = [k \in 1..n |-> m[at[k]]]  BY DEF Among
  <1> HIDE DEF at, n
  <1>6. Among(m, S) \in Seq(T) BY <1>1, <1>2, <1>3, <1>5
  <1>7. DOMAIN Among(m, S) = 1..n BY <1>5
  <1>8. RowsOf(Among(m, S)) = {m[i] : i \in S}
    <2>1. ASSUME NEW i \in S  PROVE m[i] \in RowsOf(Among(m, S))
      BY <1>4, <1>5, <1>7 DEF RowsOf
    <2> QED BY <2>1, <1>3, <1>5, <1>7 DEF RowsOf
  <1>9. ASSUME \A i, j \in S : i # j => m[i] # m[j], NEW k \in 1..n, NEW l \in 1..n, k # l
        PROVE Among(m, S)[k] # Among(m, S)[l]
    BY <1>3, <1>5, <1>9
  <1> QED BY <1>6, <1>7, <1>8, <1>9

----------------------------------------------------------------------------
(* What the operators of the merge are made of.                             *)
LEMMA LatestAnswers ==
  ASSUME NEW m \in Seq(Row), NEW q \in Queries(m)
  PROVE  Latest(m, q) \in RowsOf(m) /\ QueryOf[Latest(m, q)] = q /\ q # NoQuery
  <1> DEFINE S == {k \in DOMAIN m : QueryOf[m[k]] = q}
  <1>1. DOMAIN m = 1..Len(m) /\ Len(m) \in Nat  OBVIOUS
  <1>2. S \in SUBSET Nat /\ S # {} /\ q # NoQuery
    BY <1>1 DEF Queries, RowsOf
  <1>3. \A k \in S : k <= Len(m)  BY <1>1
  <1> HIDE DEF S
  <1>4. PICK k \in S : \A l \in S : l <= k  BY <1>1, <1>2, <1>3, Greatest
  <1> USE DEF S
  <1>5. \E k_1 \in DOMAIN m : QueryOf[m[k_1]] = q /\
           \A l \in DOMAIN m : QueryOf[m[l]] = q => l <= k_1
    BY <1>4
  <1> QED BY <1>2, <1>5 DEF Latest, RowsOf

LEMMA FirstsAreTheRows ==
  ASSUME NEW m \in Seq(Row)
  PROVE  /\ FirstOccurrences(m) \in Seq(Row)
         /\ RowsOf(FirstOccurrences(m)) = RowsOf(m)
         /\ \A k, l \in DOMAIN FirstOccurrences(m) :
               k # l => FirstOccurrences(m)[k] # FirstOccurrences(m)[l]
  <1> DEFINE S == {i \in DOMAIN m : \A j \in 1..(i - 1) : m[j] # m[i]}
  <1>1. DOMAIN m = 1..Len(m) /\ Len(m) \in Nat  OBVIOUS
  <1>2. S \in SUBSET DOMAIN m  OBVIOUS
  <1>3. FirstOccurrences(m) = Among(m, S)  BY DEF FirstOccurrences
  <1>4. \A i, j \in S : i # j => m[i] # m[j]
    <2>1. \A i, j \in S : i < j => m[i] # m[j]  BY <1>1
    <2>2. \A i, j \in S : i # j => i < j \/ j < i  BY <1>1
    <2> QED BY <2>1, <2>2
  <1>5. ASSUME NEW r \in RowsOf(m)  PROVE \E i \in S : m[i] = r
    <2> DEFINE U == {i \in DOMAIN m : m[i] = r}
    <2>1. U \in SUBSET Nat /\ U # {}  BY <1>1 DEF RowsOf
    <2> HIDE DEF U
    <2>2. PICK i \in U : \A j \in U : i <= j  BY <2>1, Least
    <2> USE DEF U
    <2>3. i \in S  BY <1>1, <2>2
    <2> QED BY <2>2, <2>3
  <1>6. {m[i] : i \in S} = RowsOf(m)  BY <1>2, <1>5 DEF RowsOf
  <1> HIDE DEF S
  <1>7. /\ Among(m, S) \in Seq(Row) /\ RowsOf(Among(m, S)) = {m[i] : i \in S}
        /\ \A k, l \in DOMAIN Among(m, S) : k # l => Among(m, S)[k] # Among(m, S)[l]
    BY <1>2, <1>4, AmongKeeps
  <1> QED BY <1>3, <1>6, <1>7

(* Without a conflict, the queries that one side or both refreshed.         *)
Settled(base, ours, theirs) == Refreshed(base, ours) \cup Refreshed(base, theirs)

LEMMA WinnersAnswer ==
  ASSUME NEW base \in Seq(Row), NEW ours \in Seq(Row), NEW theirs \in Seq(Row),
         Clashes(base, ours, theirs) = {},
         NEW q \in Settled(base, ours, theirs)
  PROVE  LET w == Winner(base, ours, theirs)[q]
         IN /\ q \in Refreshed(base, ours) =>
                 w = Latest(ours, q) /\ w \in RowsOf(ours) /\ QueryOf[w] = q
            /\ q \notin Refreshed(base, ours) =>
                 w = Latest(theirs, q) /\ w \in RowsOf(theirs) /\ QueryOf[w] = q
            /\ q \in Queries(base) /\ q # NoQuery
  <1>1. q \in Refreshed(base, ours) => q \in Queries(ours) /\ q \in Queries(base)
    BY DEF Refreshed
  <1>2. q \in Refreshed(base, theirs) => q \in Queries(theirs) /\ q \in Queries(base)
    BY DEF Refreshed
  <1>3. Winner(base, ours, theirs)[q] =
          IF q \in Refreshed(base, ours) THEN Latest(ours, q) ELSE Latest(theirs, q)
    BY DEF Winner, Settled
  <1>4. q \in Queries(ours) =>
           Latest(ours, q) \in RowsOf(ours) /\ QueryOf[Latest(ours, q)] = q
    BY LatestAnswers
  <1>5. q \in Queries(theirs) =>
           Latest(theirs, q) \in RowsOf(theirs) /\ QueryOf[Latest(theirs, q)] = q
    BY LatestAnswers
  <1>6. q \in Queries(base) => q # NoQuery  BY DEF Queries
  <1> QED BY <1>1, <1>2, <1>3, <1>4, <1>5, <1>6 DEF Settled

LEMMA RowsFromOurs ==
  ASSUME NEW base \in Seq(Row), NEW ours \in Seq(Row), NEW theirs \in Seq(Row),
         Clashes(base, ours, theirs) = {}
  PROVE  LET won == Winner(base, ours, theirs)
             settled == Settled(base, ours, theirs)
         IN /\ FromOurs(base, ours, theirs) \in Seq(Row)
            /\ \A x : x \in RowsOf(FromOurs(base, ours, theirs)) <=>
                 \E r \in RowsOf(ours) :
                    \/ QueryOf[r] \in settled /\ x = won[QueryOf[r]]
                    \/ QueryOf[r] \notin settled /\ x = r
                       /\ r \notin Deleted(base, ours, theirs)
  <1> DEFINE won == Winner(base, ours, theirs)
  <1> DEFINE S == {i \in DOMAIN ours :
                     \/ QueryOf[ours[i]] \in DOMAIN won
                     \/ ours[i] \notin Deleted(base, ours, theirs)}
  <1> DEFINE kept == Among(ours, S)
  <1> DEFINE From == [i \in DOMAIN kept |->
                        IF QueryOf[kept[i]] \in DOMAIN won THEN won[QueryOf[kept[i]]] ELSE kept[i]]
  <1>1. DOMAIN won = Settled(base, ours, theirs)  BY DEF Winner, Settled
  <1>2. FromOurs(base, ours, theirs) = From
    <2>1. S = {i \in DOMAIN ours :
            /\ ours[i] \notin {Latest(ours, q) : q \in Clashes(base, ours, theirs)}
            /\ \/ QueryOf[ours[i]] \in DOMAIN won
               \/ ours[i] \notin Deleted(base, ours, theirs)}
      OBVIOUS
    <2> QED BY <2>1 DEF FromOurs
  <1>3. S \in SUBSET DOMAIN ours  OBVIOUS
  <1>4. kept \in Seq(Row) /\ RowsOf(kept) = {ours[i] : i \in S}
    <2> HIDE DEF S
    <2> QED BY <1>3, AmongKeeps
  <1>5. \A q \in DOMAIN won : won[q] \in Row
    <2>1. RowsOf(ours) \subseteq Row /\ RowsOf(theirs) \subseteq Row  BY DEF RowsOf
    <2> HIDE DEF won
    <2> QED BY <1>1, <2>1, WinnersAnswer DEF won
  <1>6. From \in Seq(Row)
    <2> HIDE DEF won, kept
    <2>1. DOMAIN kept = 1..Len(kept) /\ Len(kept) \in Nat  BY <1>4
    <2>2. \A i \in DOMAIN kept : kept[i] \in Row  BY <1>4
    <2> QED BY <2>1, <2>2, <1>5
  <1>7. \A x : x \in RowsOf(From) <=>
           \E r \in RowsOf(kept) :
              \/ QueryOf[r] \in DOMAIN won /\ x = won[QueryOf[r]]
              \/ QueryOf[r] \notin DOMAIN won /\ x = r
    <2> HIDE DEF won, kept
    <2> QED BY DEF RowsOf
  <1>8. \A r : r \in RowsOf(kept) <=>
           r \in RowsOf(ours) /\ (QueryOf[r] \in DOMAIN won \/ r \notin Deleted(base, ours, theirs))
    <2> HIDE DEF won, kept
    <2> QED BY <1>4 DEF RowsOf
  <1> HIDE DEF won, kept, From
  <1>9. \A x : x \in RowsOf(From) <=>
           \E r \in RowsOf(ours) :
              \/ QueryOf[r] \in DOMAIN won /\ x = won[QueryOf[r]]
              \/ QueryOf[r] \notin DOMAIN won /\ x = r /\ r \notin Deleted(base, ours, theirs)
    BY <1>7, <1>8
  <1> QED BY <1>1, <1>2, <1>6, <1>9 DEF won

LEMMA RowsFromTheirs ==
  ASSUME NEW base \in Seq(Row), NEW ours \in Seq(Row), NEW theirs \in Seq(Row)
  PROVE  /\ FromTheirs(base, ours, theirs) \in Seq(Row)
         /\ \A x : x \in RowsOf(FromTheirs(base, ours, theirs)) <=>
              /\ x \in RowsOf(theirs) /\ x \notin RowsOf(base) /\ x \notin RowsOf(ours)
              /\ \A q \in Refreshed(base, theirs) : x # Latest(theirs, q)
  <1> DEFINE settled == {Latest(theirs, q) : q \in Refreshed(base, theirs)}
  <1> DEFINE S == {i \in DOMAIN theirs :
                     theirs[i] \notin RowsOf(base) \cup RowsOf(ours) \cup settled}
  <1>1. FromTheirs(base, ours, theirs) = Among(theirs, S)  BY DEF FromTheirs
  <1>2. S \in SUBSET DOMAIN theirs  OBVIOUS
  <1>3. Among(theirs, S) \in Seq(Row) /\ RowsOf(Among(theirs, S)) = {theirs[i] : i \in S}
    <2> HIDE DEF S
    <2> QED BY <1>2, AmongKeeps
  <1>4. \A x : x \in {theirs[i] : i \in S} <=>
           x \in RowsOf(theirs) /\ x \notin RowsOf(base) \cup RowsOf(ours) \cup settled
    BY DEF RowsOf
  <1> QED BY <1>1, <1>3, <1>4

(* A merge leaves the rows that come from ours and from theirs, each once.  *)
LEMMA RowsOfAMerge ==
  ASSUME NEW base \in Seq(Row), NEW ours \in Seq(Row), NEW theirs \in Seq(Row),
         Clashes(base, ours, theirs) = {}
  PROVE  LET merged == MergeManifests(base, ours, theirs)
         IN /\ merged \in Seq(Row)
            /\ RowsOf(merged) = RowsOf(FromOurs(base, ours, theirs))
                                  \cup RowsOf(FromTheirs(base, ours, theirs))
            /\ \A k, l \in DOMAIN merged : k # l => merged[k] # merged[l]
  <1> DEFINE a == FromOurs(base, ours, theirs)
  <1> DEFINE z == FromTheirs(base, ours, theirs)
  <1>1. a \in Seq(Row) /\ z \in Seq(Row)  BY RowsFromOurs, RowsFromTheirs
  <1>2. MergeManifests(base, ours, theirs) = FirstOccurrences(a \o z)  BY DEF MergeManifests
  <1> HIDE DEF a, z
  <1>3. a \o z \in Seq(Row)  BY <1>1
  <1>4. RowsOf(a \o z) = RowsOf(a) \cup RowsOf(z)
    <2>1. \A i \in DOMAIN a : i \in DOMAIN (a \o z) /\ (a \o z)[i] = a[i]  BY <1>1
    <2>2. \A i \in DOMAIN z : Len(a) + i \in DOMAIN (a \o z) /\ (a \o z)[Len(a) + i] = z[i]
      BY <1>1
    <2>3. \A i \in DOMAIN (a \o z) :
             \/ i \in DOMAIN a /\ (a \o z)[i] = a[i]
             \/ i - Len(a) \in DOMAIN z /\ (a \o z)[i] = z[i - Len(a)]
      BY <1>1
    <2>4. \A i \in DOMAIN a : a[i] \in RowsOf(a \o z)  BY <2>1 DEF RowsOf
    <2>5. \A i \in DOMAIN z : z[i] \in RowsOf(a \o z)  BY <2>2 DEF RowsOf
    <2>6. \A i \in DOMAIN (a \o z) : (a \o z)[i] \in RowsOf(a) \cup RowsOf(z)
      BY <2>3 DEF RowsOf
    <2> QED BY <2>4, <2>5, <2>6 DEF RowsOf
  <1>5. /\ FirstOccurrences(a \o z) \in Seq(Row)
        /\ RowsOf(FirstOccurrences(a \o z)) = RowsOf(a \o z)
        /\ \A k, l \in DOMAIN FirstOccurrences(a \o z) :
              k # l => FirstOccurrences(a \o z)[k] # FirstOccurrences(a \o z)[l]
    BY <1>3, FirstsAreTheRows
  <1> QED BY <1>2, <1>4, <1>5 DEF a, z

----------------------------------------------------------------------------
(* A merge of one file, over manifests.                                     *)
Kept(base, ours, theirs) == RowsOf(MergeManifests(base, ours, theirs))

LEMMA UntouchedIsKept ==
  ASSUME NEW base \in Seq(Row), NEW ours \in Seq(Row), NEW theirs \in Seq(Row),
         Clashes(base, ours, theirs) = {},
         NEW r \in RowsOf(base) \cap RowsOf(ours) \cap RowsOf(theirs),
         \/ QueryOf[r] = NoQuery
         \/ {x \in RowsOf(base) : QueryOf[x] = QueryOf[r]} = {r}
  PROVE  r \in Kept(base, ours, theirs)
  <1> DEFINE settled == Settled(base, ours, theirs)
  <1>1. QueryOf[r] \notin settled
    <2> SUFFICES ASSUME QueryOf[r] \in settled  PROVE FALSE  OBVIOUS
    <2>1. QueryOf[r] \in Queries(base) /\ QueryOf[r] # NoQuery
      BY DEF Settled, Refreshed, Queries
    <2>2. Latest(base, QueryOf[r]) = r
      <3>1. Latest(base, QueryOf[r]) \in {x \in RowsOf(base) : QueryOf[x] = QueryOf[r]}
        BY <2>1, LatestAnswers
      <3> QED BY <2>1, <3>1
    <2> QED BY <2>2 DEF Settled, Refreshed
  <1>2. r \notin Deleted(base, ours, theirs)  BY DEF Deleted
  <1>3. r \in RowsOf(FromOurs(base, ours, theirs))  BY <1>1, <1>2, RowsFromOurs
  <1> QED BY <1>3, RowsOfAMerge DEF Kept

LEMMA KeptComesFromASide ==
  ASSUME NEW base \in Seq(Row), NEW ours \in Seq(Row), NEW theirs \in Seq(Row),
         Clashes(base, ours, theirs) = {},
         NEW x \in Kept(base, ours, theirs)
  PROVE  x \in RowsOf(ours) \cup RowsOf(theirs)
  <1>1. CASE x \in RowsOf(FromTheirs(base, ours, theirs))  BY <1>1, RowsFromTheirs
  <1>2. CASE x \in RowsOf(FromOurs(base, ours, theirs))
    <2>1. PICK r \in RowsOf(ours) :
            \/ QueryOf[r] \in Settled(base, ours, theirs)
               /\ x = Winner(base, ours, theirs)[QueryOf[r]]
            \/ x = r
      BY <1>2, RowsFromOurs
    <2> QED BY <2>1, WinnersAnswer
  <1> QED BY <1>1, <1>2, RowsOfAMerge DEF Kept

LEMMA TakenAwayIsGone ==
  ASSUME NEW base \in Seq(Row), NEW ours \in Seq(Row), NEW theirs \in Seq(Row),
         Clashes(base, ours, theirs) = {},
         \A r \in RowsOf(base) :
            QueryOf[r] = NoQuery \/ {x \in RowsOf(base) : QueryOf[x] = QueryOf[r]} = {r},
         NEW x \in Kept(base, ours, theirs) \cap RowsOf(base)
  PROVE  x \in RowsOf(ours) \cap RowsOf(theirs)
  <1> DEFINE won == Winner(base, ours, theirs)
  <1>1. x \in RowsOf(FromOurs(base, ours, theirs))
    BY RowsOfAMerge, RowsFromTheirs DEF Kept
  <1>2. PICK r \in RowsOf(ours) :
          \/ QueryOf[r] \in Settled(base, ours, theirs) /\ x = won[QueryOf[r]]
          \/ QueryOf[r] \notin Settled(base, ours, theirs) /\ x = r
             /\ r \notin Deleted(base, ours, theirs)
    BY <1>1, RowsFromOurs
  <1>3. CASE QueryOf[r] \notin Settled(base, ours, theirs)
    BY <1>2, <1>3 DEF Settled, Deleted
  <1>4. CASE QueryOf[r] \in Settled(base, ours, theirs)
    <2> DEFINE q == QueryOf[r]
    <2>1. x = won[q] /\ q \in Queries(base) /\ q # NoQuery  BY <1>2, <1>4, WinnersAnswer
    <2>2. QueryOf[x] = q  BY <1>4, <2>1, WinnersAnswer
    <2>3. Latest(base, q) = x
      <3>1. Latest(base, q) \in {y \in RowsOf(base) : QueryOf[y] = QueryOf[x]}
        BY <2>1, <2>2, LatestAnswers
      <3> QED BY <2>1, <2>2, <3>1
    <2>4. CASE q \in Refreshed(base, ours)
      BY <1>4, <2>1, <2>3, <2>4, WinnersAnswer DEF Refreshed
    <2>5. CASE q \notin Refreshed(base, ours)
      <3>1. q \in Refreshed(base, theirs)  BY <1>4, <2>5 DEF Settled
      <3> QED BY <1>4, <2>1, <2>3, <2>5, <3>1, WinnersAnswer DEF Refreshed
    <2> QED BY <2>4, <2>5
  <1> QED BY <1>3, <1>4

LEMMA BroughtInByOursIsKept ==
  ASSUME NEW base \in Seq(Row), NEW ours \in Seq(Row), NEW theirs \in Seq(Row),
         Clashes(base, ours, theirs) = {},
         \A r \in RowsOf(ours) :
            QueryOf[r] = NoQuery \/ {x \in RowsOf(ours) : QueryOf[x] = QueryOf[r]} = {r},
         NEW x \in RowsOf(ours) \ RowsOf(base)
  PROVE  x \in Kept(base, ours, theirs)
  <1> DEFINE q == QueryOf[x]
  <1> DEFINE won == Winner(base, ours, theirs)
  <1>1. CASE q \notin Settled(base, ours, theirs)
    <2>1. x \notin Deleted(base, ours, theirs)  BY DEF Deleted
    <2>2. x \in RowsOf(FromOurs(base, ours, theirs))  BY <1>1, <2>1, RowsFromOurs
    <2> QED BY <2>2, RowsOfAMerge DEF Kept
  <1>2. CASE q \in Settled(base, ours, theirs)
    <2>1. q \in Queries(base) /\ q # NoQuery  BY <1>2, WinnersAnswer
    <2>2. q \in Queries(ours)  BY <2>1 DEF Queries
    <2>3. Latest(ours, q) = x
      <3>1. Latest(ours, q) \in {y \in RowsOf(ours) : QueryOf[y] = q}  BY <2>2, LatestAnswers
      <3> QED BY <2>1, <3>1
    <2>4. q \in Refreshed(base, ours)
      <3> SUFFICES ASSUME q \notin Refreshed(base, ours)  PROVE FALSE  OBVIOUS
      <3>1. Latest(base, q) \in RowsOf(ours)  BY <2>1, <2>2 DEF Refreshed
      <3>2. Latest(base, q) \in RowsOf(base) /\ QueryOf[Latest(base, q)] = q
        BY <2>1, LatestAnswers
      <3>3. Latest(base, q) \in {y \in RowsOf(ours) : QueryOf[y] = q}  BY <3>1, <3>2
      <3> QED BY <2>1, <3>2, <3>3
    <2>5. won[q] = x  BY <1>2, <2>3, <2>4, WinnersAnswer
    <2>6. x \in RowsOf(FromOurs(base, ours, theirs))  BY <1>2, <2>5, RowsFromOurs
    <2> QED BY <2>6, RowsOfAMerge DEF Kept
  <1> QED BY <1>1, <1>2

LEMMA BroughtInByTheirsIsKept ==
  ASSUME NEW base \in Seq(Row), NEW ours \in Seq(Row), NEW theirs \in Seq(Row),
         Clashes(base, ours, theirs) = {},
         NEW x \in RowsOf(theirs), x \notin RowsOf(base), x \notin RowsOf(ours)
  PROVE  \/ x \in Kept(base, ours, theirs)
         \/ /\ QueryOf[x] \in Refreshed(base, theirs) /\ x = Latest(theirs, QueryOf[x])
            /\ \A r \in RowsOf(ours) : QueryOf[r] # QueryOf[x]
  <1> DEFINE won == Winner(base, ours, theirs)
  <1>1. CASE \A q \in Refreshed(base, theirs) : x # Latest(theirs, q)
    <2>1. x \in RowsOf(FromTheirs(base, ours, theirs))  BY <1>1, RowsFromTheirs
    <2> QED BY <2>1, RowsOfAMerge DEF Kept
  <1>2. ASSUME NEW q \in Refreshed(base, theirs), x = Latest(theirs, q)
        PROVE  \/ x \in Kept(base, ours, theirs)
               \/ QueryOf[x] = q /\ \A r \in RowsOf(ours) : QueryOf[r] # QueryOf[x]
    <2>1. q \in Queries(theirs)  BY DEF Refreshed
    <2>2. QueryOf[x] = q  BY <1>2, <2>1, LatestAnswers
    <2>3. ASSUME NEW r \in RowsOf(ours), QueryOf[r] = q
          PROVE  x \in Kept(base, ours, theirs)
      <3>1. q \in Settled(base, ours, theirs)  BY DEF Settled
      <3>2. won[q] = x
        <4>1. CASE q \in Refreshed(base, ours)
          <5>1. Latest(ours, q) = Latest(theirs, q)  BY <4>1 DEF Clashes
          <5>2. x \in RowsOf(ours)  BY <1>2, <3>1, <4>1, <5>1, WinnersAnswer
          <5> QED BY <5>2
        <4>2. CASE q \notin Refreshed(base, ours)
          BY <1>2, <3>1, <4>2, WinnersAnswer
        <4> QED BY <4>1, <4>2
      <3>3. x \in RowsOf(FromOurs(base, ours, theirs))  BY <2>3, <3>1, <3>2, RowsFromOurs
      <3> QED BY <3>3, RowsOfAMerge DEF Kept
    <2> QED BY <2>2, <2>3
  <1> QED BY <1>1, <1>2

(* A row of ours is replaced by answers to its own query only, so that the  *)
(* new answer of theirs to a query ours has deleted finds no place.         *)
LEMMA DroppedIsGone ==
  ASSUME NEW base \in Seq(Row), NEW ours \in Seq(Row), NEW theirs \in Seq(Row),
         Clashes(base, ours, theirs) = {},
         NEW q \in Refreshed(base, theirs),
         \A r \in RowsOf(ours) : QueryOf[r] # q
  PROVE  Latest(theirs, q) \notin Kept(base, ours, theirs)
  <1> DEFINE x == Latest(theirs, q)
  <1>1. QueryOf[x] = q  BY LatestAnswers DEF Refreshed
  <1> HIDE DEF x
  <1>2. x \notin RowsOf(FromTheirs(base, ours, theirs))  BY RowsFromTheirs DEF x
  <1>3. ASSUME NEW r \in RowsOf(ours), QueryOf[r] \in Settled(base, ours, theirs)
        PROVE  QueryOf[Winner(base, ours, theirs)[QueryOf[r]]] = QueryOf[r]
    BY <1>3, WinnersAnswer
  <1>4. x \notin RowsOf(FromOurs(base, ours, theirs))
    <2> SUFFICES ASSUME x \in RowsOf(FromOurs(base, ours, theirs))  PROVE FALSE  OBVIOUS
    <2>1. PICK r \in RowsOf(ours) :
            \/ /\ QueryOf[r] \in Settled(base, ours, theirs)
               /\ x = Winner(base, ours, theirs)[QueryOf[r]]
            \/ x = r
      BY RowsFromOurs
    <2>2. QueryOf[x] = QueryOf[r]  BY <1>3, <2>1
    <2> QED BY <1>1, <2>2
  <1> QED BY <1>2, <1>4, RowsOfAMerge DEF Kept, x

----------------------------------------------------------------------------
(* A merge of one file, whatever the three sides hold.                      *)
File == Seq(Row) \cup Blob \cup {NoFile}

LEMMA LoadedFile ==
  ASSUME NEW f \in File
  PROVE  /\ Loaded(f) \in Seq(Row) \cup {NoFile} /\ Loaded(Loaded(f)) = Loaded(f)
         /\ RowsIn(Loaded(f)) = RowsIn(f)
         /\ Loaded(f) # NoFile => Loaded(f) = f /\ RowsIn(f) = RowsOf(f) /\ f \in Seq(Row)
         /\ Loaded(f) = NoFile => RowsIn(f) = {} /\ ~IsManifest(f)
         /\ IsManifest(f) <=> f \in Seq(Row)
         /\ NoFile \notin Seq(Row)
  BY FileAssumption DEF File, Loaded, IsManifest, RowsIn

LEMMA CleanMerges ==
  ASSUME NEW base \in File, NEW ours \in File, NEW theirs \in File,
         CleanlyMerged(Loaded(base), ours, theirs)
  PROVE  LET b == Loaded(base)
             o == Loaded(ours)
             t == Loaded(theirs)
             merged == MergeFile(b, ours, theirs).file
         IN \/ o = b /\ merged = t
            \/ t = b /\ merged = o
            \/ o = t /\ merged = o
            \/ /\ b \in Seq(Row) /\ o \in Seq(Row) /\ t \in Seq(Row) /\ o # b
               /\ Clashes(b, o, t) = {} /\ merged = MergeManifests(b, o, t)
  <1> DEFINE b == Loaded(base)
  <1> DEFINE o == Loaded(ours)
  <1> DEFINE t == Loaded(theirs)
  <1> DEFINE merged == MergeFile(b, ours, theirs).file
  <1> SUFFICES \/ o = b /\ merged = t
               \/ t = b /\ merged = o
               \/ o = t /\ merged = o
               \/ /\ b \in Seq(Row) /\ o \in Seq(Row) /\ t \in Seq(Row) /\ o # b
                  /\ Clashes(b, o, t) = {} /\ merged = MergeManifests(b, o, t)
    OBVIOUS
  <1>1. /\ b \in Seq(Row) \cup {NoFile} /\ o \in Seq(Row) \cup {NoFile}
        /\ t \in Seq(Row) \cup {NoFile} /\ Loaded(b) = b
    BY LoadedFile
  <1>2. MergeFile(b, ours, theirs) =
          IF o = b THEN Merged(t) ELSE IF t = b THEN Merged(o) ELSE ChangedBoth(b, o, t)
    BY <1>1 DEF MergeFile
  <1>3. MergeFile(b, ours, theirs).clash = "none"  BY DEF CleanlyMerged
  <1> HIDE DEF b, o, t
  <1>4. CASE o = b  BY <1>2, <1>4 DEF Merged
  <1>5. CASE o # b /\ t = b  BY <1>2, <1>5 DEF Merged
  <1>6. CASE o # b /\ t # b
    <2>1. MergeFile(b, ours, theirs) = ChangedBoth(b, o, t)  BY <1>2, <1>6
    <2>2. CASE o = t
      BY <2>1, <2>2 DEF ChangedBoth, Merged
    <2>3. CASE o # t
      <3>1. b # NoFile
        BY <1>3, <2>1, <2>3 DEF ChangedBoth, Conflict
      <3>2. ChangedBoth(b, o, t) =
              IF NoFile \in {o, t} THEN Conflict("modify_delete")
              ELSE IF Clashes(b, o, t) # {} THEN Conflict("both_modified")
              ELSE Merged(MergeManifests(b, o, t))
        BY <2>3, <3>1 DEF ChangedBoth
      <3>3. NoFile \notin {o, t} /\ Clashes(b, o, t) = {}
        BY <1>3, <2>1, <3>2 DEF Conflict
      <3>4. MergeFile(b, ours, theirs).file = MergeManifests(b, o, t)
        BY <2>1, <3>2, <3>3 DEF Merged
      <3> QED BY <1>1, <1>6, <3>1, <3>3, <3>4
    <2> QED BY <2>2, <2>3
  <1> QED BY <1>4, <1>5, <1>6 DEF b, o, t

(* What a merge without conflict makes is a file again.                     *)
LEMMA MergedIsAFile ==
  ASSUME NEW base \in File, NEW ours \in File, NEW theirs \in File,
         MergeFile(base, ours, theirs).clash = "none"
  PROVE  MergeFile(base, ours, theirs).file \in Seq(Row) \cup {NoFile}
  <1>1. MergeFile(base, ours, theirs) = MergeFile(Loaded(base), ours, theirs)
    BY LoadedFile DEF MergeFile
  <1>2. CleanlyMerged(Loaded(base), ours, theirs)  BY <1>1 DEF CleanlyMerged
  <1> DEFINE b == Loaded(base)
  <1> DEFINE o == Loaded(ours)
  <1> DEFINE t == Loaded(theirs)
  <1>3. o \in Seq(Row) \cup {NoFile} /\ t \in Seq(Row) \cup {NoFile}  BY LoadedFile
  <1>4. b \in Seq(Row) /\ o \in Seq(Row) /\ t \in Seq(Row) /\ Clashes(b, o, t) = {}
          => MergeManifests(b, o, t) \in Seq(Row)
    BY RowsOfAMerge
  <1>5. \/ MergeFile(b, ours, theirs).file \in {o, t}
        \/ /\ b \in Seq(Row) /\ o \in Seq(Row) /\ t \in Seq(Row) /\ Clashes(b, o, t) = {}
           /\ MergeFile(b, ours, theirs).file = MergeManifests(b, o, t)
    BY <1>2, CleanMerges
  <1> QED BY <1>1, <1>3, <1>4, <1>5

LEMMA UntouchedInAFile ==
  ASSUME NEW base \in File, NEW ours \in File, NEW theirs \in File,
         CleanlyMerged(Loaded(base), ours, theirs),
         NEW r \in Untouched(Loaded(base), ours, theirs), OnlyAnswer(Loaded(base), r)
  PROVE  r \in MergedRows(Loaded(base), ours, theirs)
  <1> DEFINE b == Loaded(base)
  <1> DEFINE o == Loaded(ours)
  <1> DEFINE t == Loaded(theirs)
  <1>1. /\ RowsIn(b) = RowsIn(base) /\ RowsIn(o) = RowsIn(ours) /\ RowsIn(t) = RowsIn(theirs)
    BY LoadedFile
  <1>2. r \in RowsIn(b) /\ r \in RowsIn(o) /\ r \in RowsIn(t)  BY <1>1 DEF Untouched
  <1>3. ASSUME b \in Seq(Row), o \in Seq(Row), t \in Seq(Row), Clashes(b, o, t) = {}
        PROVE  r \in RowsIn(MergeManifests(b, o, t))
    <2>1. \A f \in Seq(Row) : RowsIn(f) = RowsOf(f)
      BY FileAssumption DEF RowsIn, IsManifest
    <2>2. MergeManifests(b, o, t) \in Seq(Row)  BY <1>3, RowsOfAMerge
    <2>3. r \in RowsOf(b) /\ r \in RowsOf(o) /\ r \in RowsOf(t)  BY <1>2, <1>3, <2>1
    <2>4. QueryOf[r] = NoQuery \/ {x \in RowsOf(b) : QueryOf[x] = QueryOf[r]} = {r}
      BY <1>3, <2>1 DEF OnlyAnswer, AnswersIn
    <2> HIDE DEF b, o, t
    <2>5. r \in Kept(b, o, t)  BY <1>3, <2>3, <2>4, UntouchedIsKept
    <2> QED BY <2>1, <2>2, <2>5 DEF Kept
  <1>4. \/ MergeFile(b, ours, theirs).file \in {o, t}
        \/ /\ b \in Seq(Row) /\ o \in Seq(Row) /\ t \in Seq(Row) /\ Clashes(b, o, t) = {}
           /\ MergeFile(b, ours, theirs).file = MergeManifests(b, o, t)
    BY CleanMerges
  <1> QED BY <1>2, <1>3, <1>4 DEF MergedRows

----------------------------------------------------------------------------
LEMMA ChangesInAFile ==
  ASSUME NEW base \in File, NEW ours \in File, NEW theirs \in File,
         CleanlyMerged(Loaded(base), ours, theirs),
         IsManifest(ours), IsManifest(theirs),
         AnswersOnce(Loaded(base)), AnswersOnce(ours)
  PROVE  LET b == Loaded(base)
         IN MergedRows(b, ours, theirs) =
                Untouched(b, ours, theirs)
                \cup (RowsIn(ours) \ RowsIn(b))
                \cup ((RowsIn(theirs) \ RowsIn(b)) \ DroppedAnswers(b, ours, theirs))
  <1> DEFINE b == Loaded(base)
  <1> DEFINE merged == MergedRows(b, ours, theirs)
  <1> DEFINE dropped == DroppedAnswers(b, ours, theirs)
  <1> SUFFICES merged = (RowsIn(b) \cap RowsIn(ours) \cap RowsIn(theirs))
                        \cup (RowsIn(ours) \ RowsIn(b))
                        \cup ((RowsIn(theirs) \ RowsIn(b)) \ dropped)
    BY DEF Untouched
  <1>1. Loaded(ours) = ours /\ Loaded(theirs) = theirs  BY DEF Loaded
  <1>2. ours \in Seq(Row) /\ theirs \in Seq(Row)  BY LoadedFile
  <1>3. \A f \in Seq(Row) : RowsIn(f) = RowsOf(f)
    BY FileAssumption DEF RowsIn, IsManifest
  <1>4. \/ ours = b /\ merged = RowsIn(theirs)
        \/ theirs = b /\ merged = RowsIn(ours)
        \/ ours = theirs /\ merged = RowsIn(ours)
        \/ /\ b \in Seq(Row) /\ ours # b /\ Clashes(b, ours, theirs) = {}
           /\ merged = RowsIn(MergeManifests(b, ours, theirs))
    BY <1>1, CleanMerges DEF MergedRows
  <1>5. ASSUME b \in Seq(Row), ours # b, Clashes(b, ours, theirs) = {},
               merged = RowsIn(MergeManifests(b, ours, theirs))
        PROVE  merged = (RowsIn(b) \cap RowsIn(ours) \cap RowsIn(theirs))
                        \cup (RowsIn(ours) \ RowsIn(b))
                        \cup ((RowsIn(theirs) \ RowsIn(b)) \ dropped)
    <2>1. merged = Kept(b, ours, theirs)
      BY <1>2, <1>3, <1>5, RowsOfAMerge DEF Kept
    <2>2. \A r \in RowsOf(b) :
             QueryOf[r] = NoQuery \/ {x \in RowsOf(b) : QueryOf[x] = QueryOf[r]} = {r}
      BY <1>3, <1>5 DEF AnswersOnce, OnlyAnswer, AnswersIn
    <2>3. \A r \in RowsOf(ours) :
             QueryOf[r] = NoQuery \/ {x \in RowsOf(ours) : QueryOf[x] = QueryOf[r]} = {r}
      BY <1>2, <1>3 DEF AnswersOnce, OnlyAnswer, AnswersIn
    <2>4. RowsIn(b) = RowsOf(b) /\ RowsIn(ours) = RowsOf(ours) /\ RowsIn(theirs) = RowsOf(theirs)
      BY <1>2, <1>3, <1>5
    <2>5. \A x : x \in dropped <=>
             /\ x \in RowsOf(theirs) /\ QueryOf[x] # NoQuery /\ x = Latest(theirs, QueryOf[x])
             /\ \E r \in RowsOf(b) : QueryOf[r] = QueryOf[x]
             /\ \A r \in RowsOf(b) : QueryOf[r] = QueryOf[x] => r \notin RowsOf(theirs)
             /\ \A r \in RowsOf(ours) : QueryOf[r] # QueryOf[x]
      BY <2>4 DEF DroppedAnswers, AnswersIn
    <2> HIDE DEF b, merged, dropped
    <2>6. \A x : x \in dropped <=>
             /\ x \in RowsOf(theirs) /\ x = Latest(theirs, QueryOf[x])
             /\ QueryOf[x] \in Refreshed(b, theirs)
             /\ \A r \in RowsOf(ours) : QueryOf[r] # QueryOf[x]
      <3>1. \A q \in Queries(b) :
               Latest(b, q) \in RowsOf(b) /\ QueryOf[Latest(b, q)] = q /\ q # NoQuery
        BY <1>5, LatestAnswers
      <3>2. \A q \in Queries(b) : \A r \in RowsOf(b) : QueryOf[r] = q => r = Latest(b, q)
        BY <2>2, <3>1
      <3>3. \A x \in RowsOf(theirs) :
               QueryOf[x] \in Refreshed(b, theirs) <=>
                 /\ QueryOf[x] \in Queries(b)
                 /\ \A r \in RowsOf(b) : QueryOf[r] = QueryOf[x] => r \notin RowsOf(theirs)
        BY <3>1, <3>2 DEF Refreshed, Queries
      <3>4. \A x : QueryOf[x] \in Queries(b) <=>
               QueryOf[x] # NoQuery /\ \E r \in RowsOf(b) : QueryOf[r] = QueryOf[x]
        BY DEF Queries
      <3> QED BY <2>5, <3>3, <3>4
    <2>7. merged \subseteq RowsOf(ours) \cup RowsOf(theirs)
      BY <1>2, <1>5, <2>1, KeptComesFromASide
    <2>8. merged \cap RowsOf(b) \subseteq RowsOf(ours) \cap RowsOf(theirs)
      BY <1>2, <1>5, <2>1, <2>2, TakenAwayIsGone
    <2>9. RowsOf(ours) \ RowsOf(b) \subseteq merged
      BY <1>2, <1>5, <2>1, <2>3, BroughtInByOursIsKept
    <2>10. ASSUME NEW x \in RowsOf(theirs), x \notin RowsOf(b), x \notin RowsOf(ours)
           PROVE  x \in merged \cup dropped
      <3>1. \/ x \in merged
            \/ /\ QueryOf[x] \in Refreshed(b, theirs) /\ x = Latest(theirs, QueryOf[x])
               /\ \A r \in RowsOf(ours) : QueryOf[r] # QueryOf[x]
        BY <1>2, <1>5, <2>1, <2>10, BroughtInByTheirsIsKept
      <3> QED BY <2>6, <2>10, <3>1
    <2>11. ASSUME NEW x \in dropped  PROVE x \notin merged
      <3>1. /\ QueryOf[x] \in Refreshed(b, theirs) /\ x = Latest(theirs, QueryOf[x])
            /\ \A r \in RowsOf(ours) : QueryOf[r] # QueryOf[x]
        BY <2>6
      <3>2. Latest(theirs, QueryOf[x]) \notin Kept(b, ours, theirs)
        BY <1>2, <1>5, <3>1, DroppedIsGone
      <3> QED BY <2>1, <3>1, <3>2
    <2>12. RowsOf(b) \cap RowsOf(ours) \cap RowsOf(theirs) \subseteq merged
      BY <1>2, <1>5, <2>1, <2>2, UntouchedIsKept
    <2>13. \A x \in RowsOf(ours) : x \notin dropped  BY <2>6
    <2> QED BY <2>4, <2>7, <2>8, <2>9, <2>10, <2>11, <2>12, <2>13
  <1>6. CASE ours = b /\ merged = RowsIn(theirs)
    <2>1. dropped = {}  BY <1>6 DEF DroppedAnswers
    <2> HIDE DEF b, merged, dropped
    <2> QED BY <1>6, <2>1
  <1> HIDE DEF b, merged, dropped
  <1>7. CASE theirs = b /\ merged = RowsIn(ours)  BY <1>7
  <1>8. CASE ours = theirs /\ merged = RowsIn(ours)  BY <1>8
  <1>9. CASE /\ b \in Seq(Row) /\ ours # b /\ Clashes(b, ours, theirs) = {}
             /\ merged = RowsIn(MergeManifests(b, ours, theirs))
    BY <1>5, <1>9
  <1> QED BY <1>4, <1>6, <1>7, <1>8, <1>9

(* detect_duplicates of a tree with one file looks at its places only.      *)
LEMMA OneFile ==
  ASSUME NEW f \in File
  PROVE  ExactDuplicates([x \in {"file"} |-> f]) = {}
           <=> (f \in Seq(Row) => \A i, j \in DOMAIN f : i # j => f[i] # f[j])
  <1> DEFINE one == [x \in {"file"} |-> f]
  <1>1. CASE f \notin Seq(Row)
    <2>1. Places(one) = {}  BY <1>1, LoadedFile DEF Places
    <2> QED BY <1>1, <2>1 DEF ExactDuplicates
  <1>2. CASE f \in Seq(Row)
    <2>1. Places(one) = {"file"} \X DOMAIN f
      <3>1. {x \in DOMAIN one : IsManifest(one[x])} = {"file"}  BY <1>2, LoadedFile
      <3>2. UNION {{p} \X (DOMAIN one[p]) : p \in {"file"}} = {"file"} \X DOMAIN f  OBVIOUS
      <3> QED BY <3>1, <3>2 DEF Places
    <2>2. \A i \in DOMAIN f : <<"file", i>> \in Places(one) /\ one["file"][i] = f[i]
      BY <2>1
    <2>3. \A x \in Places(one) :
             x[2] \in DOMAIN f /\ x = <<"file", x[2]>> /\ one[x[1]][x[2]] = f[x[2]]
      BY <2>1
    <2>4. ASSUME ExactDuplicates(one) = {}, NEW i \in DOMAIN f, NEW j \in DOMAIN f, i # j
          PROVE  f[i] # f[j]
      <3>1. <<"file", i>> \in Places(one) /\ <<"file", j>> \in Places(one) \ {<<"file", i>>}
        BY <2>2, <2>4
      <3> QED BY <2>4, <3>1 DEF ExactDuplicates
    <2>5. ASSUME \A i, j \in DOMAIN f : i # j => f[i] # f[j]
          PROVE  ExactDuplicates(one) = {}
      <3>1. ASSUME NEW x \in Places(one), NEW y \in Places(one) \ {x}
            PROVE  one[x[1]][x[2]] # one[y[1]][y[2]]
        BY <2>3, <2>5
      <3> QED BY <3>1 DEF ExactDuplicates
    <2> QED BY <1>2, <2>4, <2>5
  <1> QED BY <1>1, <1>2

LEMMA NoRepetitionInAFile ==
  ASSUME NEW base \in File, NEW ours \in File, NEW theirs \in File,
         CleanlyMerged(Loaded(base), ours, theirs),
         ExactDuplicates([x \in {"file"} |-> ours]) = {},
         ExactDuplicates([x \in {"file"} |-> theirs]) = {}
  PROVE  ExactDuplicates([x \in {"file"} |-> MergeFile(Loaded(base), ours, theirs).file]) = {}
  <1> DEFINE b == Loaded(base)
  <1> DEFINE o == Loaded(ours)
  <1> DEFINE t == Loaded(theirs)
  <1> DEFINE merged == MergeFile(b, ours, theirs).file
  <1>1. /\ o = NoFile \/ (o = ours /\ ours \in Seq(Row))
        /\ t = NoFile \/ (t = theirs /\ theirs \in Seq(Row))
    BY LoadedFile
  <1>2. ExactDuplicates([x \in {"file"} |-> NoFile]) = {}
    BY OneFile, LoadedFile DEF File
  <1>3. ASSUME b \in Seq(Row), o \in Seq(Row), t \in Seq(Row), Clashes(b, o, t) = {},
               merged = MergeManifests(b, o, t)
        PROVE  ExactDuplicates([x \in {"file"} |-> merged]) = {}
    <2>1. /\ merged \in Seq(Row)
          /\ \A k, l \in DOMAIN merged : k # l => merged[k] # merged[l]
      BY <1>3, RowsOfAMerge
    <2> HIDE DEF merged
    <2>2. merged \in File  BY <2>1 DEF File
    <2> QED BY <2>1, <2>2, OneFile
  <1>4. \/ merged \in {o, t}
        \/ /\ b \in Seq(Row) /\ o \in Seq(Row) /\ t \in Seq(Row) /\ Clashes(b, o, t) = {}
           /\ merged = MergeManifests(b, o, t)
    BY CleanMerges
  <1>5. CASE merged = o  BY <1>1, <1>2, <1>5
  <1>6. CASE merged = t  BY <1>1, <1>2, <1>6
  <1> QED BY <1>3, <1>4, <1>5, <1>6

----------------------------------------------------------------------------
(* The history itself.                                                      *)
LEMMA FilesOfCommits ==
  ASSUME HistoryTypeOK, NEW p \in Path
  PROVE  /\ DOMAIN commits = 1..Len(commits) /\ Len(commits) \in Nat
         /\ \A c \in DOMAIN commits : FileAt(c, p) \in File /\ commits[c].anc \subseteq 1..c
         /\ FileAt(0, p) \in File
         /\ \A a, z \in DOMAIN commits : \A base \in MergeBases(a, z) : FileAt(base, p) \in File
  <1>1. DOMAIN commits = 1..Len(commits) /\ Len(commits) \in Nat
    BY DEF HistoryTypeOK
  <1>2. ASSUME NEW c \in DOMAIN commits
        PROVE  FileAt(c, p) \in File /\ commits[c].anc \subseteq 1..c
    <2> DEFINE Record == [parents : Seq(Nat), anc : SUBSET Nat, line : SUBSET Nat,
                          files : [Path -> Seq(Row) \cup Blob \cup {NoFile}]]
    <2>1. commits \in Seq(Record)  BY DEF HistoryTypeOK
    <2>2. commits[c] \in Record
      <3> HIDE DEF Record
      <3> QED BY <2>1
    <2>3. commits[c].files \in [Path -> File]  BY <2>2 DEF File
    <2>4. c # 0  BY <1>1
    <2> QED BY <2>3, <2>4 DEF FileAt, HistoryTypeOK
  <1>3. FileAt(0, p) \in File  BY DEF FileAt, File
  <1>4. ASSUME NEW a \in DOMAIN commits, NEW z \in DOMAIN commits,
               NEW base \in MergeBases(a, z)
        PROVE  FileAt(base, p) \in File
    <2>1. base = 0 \/ base \in commits[a].anc  BY DEF MergeBases
    <2>2. base = 0 \/ base \in DOMAIN commits  BY <1>1, <1>2, <2>1
    <2> QED BY <1>2, <1>3, <2>2
  <1> QED BY <1>1, <1>2, <1>3, <1>4

LEMMA ParentsBefore ==
  ASSUME HistoryTypeOK, NEW c \in DOMAIN commits, ParentsOf(c) # <<>>
  PROVE  ParentsOf(c)[1] \in DOMAIN commits /\ ParentsOf(c)[1] < c
  <1> DEFINE Record == [parents : Seq(Nat), anc : SUBSET Nat, line : SUBSET Nat,
                        files : [Path -> Seq(Row) \cup Blob \cup {NoFile}]]
  <1>1. commits \in Seq(Record)  BY DEF HistoryTypeOK
  <1>2. DOMAIN commits = 1..Len(commits) /\ Len(commits) \in Nat  BY <1>1
  <1>3. commits[c] \in Record
    <2> HIDE DEF Record
    <2> QED BY <1>1
  <1>4. ParentsOf(c) \in Seq(Nat)  BY <1>3 DEF ParentsOf
  <1>5. ParentsOf(c)[1] \in RowsOf(ParentsOf(c))  BY <1>4 DEF RowsOf
  <1>6. ParentsOf(c)[1] \in 1..(c - 1)  BY <1>5 DEF HistoryTypeOK, ParentsOf
  <1> QED BY <1>2, <1>6

LEMMA NewCommitKeeps ==
  ASSUME HistoryTypeOK, NEW parents \in Seq(DOMAIN commits), NEW files \in [Path -> File],
         NewCommit(parents, files)
  PROVE  HistoryTypeOK'
  <1> DEFINE new == Len(commits) + 1
  <1> DEFINE from == IF parents = <<>> THEN {} ELSE Line(parents[1])
  <1> DEFINE Record == [parents : Seq(Nat), anc : SUBSET Nat, line : SUBSET Nat,
                        files : [Path -> Seq(Row) \cup Blob \cup {NoFile}]]
  <1>1. commits \in Seq(Record) /\ Len(commits) \in Nat /\ DOMAIN commits = 1..Len(commits)
    BY DEF HistoryTypeOK
  <1>2. PICK e : /\ commits' = Append(commits, e)
                 /\ e = [parents |-> parents, files |-> files,
                         anc |-> {new} \cup UNION {commits[q].anc : q \in RowsOf(parents)},
                         line |-> {new} \cup from]
    BY DEF NewCommit
  <1>3. RowsOf(parents) \subseteq 1..Len(commits) /\ parents \in Seq(Nat)
    <2>1. \A i \in DOMAIN parents : parents[i] \in 1..Len(commits)  BY <1>1
    <2>2. 1..Len(commits) \subseteq Nat  BY <1>1
    <2> QED BY <1>1, <2>1, <2>2 DEF RowsOf
  <1>4. parents # <<>> => parents[1] \in RowsOf(parents) /\ parents[1] \in DOMAIN commits
    <2> SUFFICES ASSUME parents # <<>>  PROVE 1 \in DOMAIN parents
      BY <1>1, <1>3 DEF RowsOf
    <2> QED OBVIOUS
  <1>5. \A q \in DOMAIN commits :
           Line(q) \subseteq commits[q].anc /\ commits[q].anc \subseteq 1..Len(commits)
    <2> TAKE q \in DOMAIN commits
    <2>1. Line(q) \subseteq commits[q].anc /\ commits[q].anc \subseteq 1..q
      BY DEF HistoryTypeOK
    <2> QED BY <1>1, <2>1
  <1>6. from \subseteq UNION {commits[q].anc : q \in RowsOf(parents)} /\ from \subseteq 1..Len(commits)
    <2>1. CASE parents = <<>>  BY <2>1
    <2>2. CASE parents # <<>>
      <3>1. from = Line(parents[1])  BY <2>2
      <3> QED BY <1>4, <1>5, <2>2, <3>1
    <2> QED BY <2>1, <2>2
  <1>7. UNION {commits[q].anc : q \in RowsOf(parents)} \subseteq 1..Len(commits)
    BY <1>1, <1>3, <1>5
  <1> HIDE DEF from
  <1>8. /\ e.parents = parents /\ e.files = files /\ e.line = {new} \cup from
        /\ e.anc = {new} \cup UNION {commits[q].anc : q \in RowsOf(parents)}
    BY <1>2
  <1>9. e \in Record
    <2>1. e.anc \in SUBSET Nat /\ e.line \in SUBSET Nat
      <3>1. new \in Nat /\ 1..Len(commits) \subseteq Nat  BY <1>1
      <3> HIDE DEF new
      <3> QED BY <1>6, <1>7, <1>8, <3>1
    <2>2. e.parents \in Seq(Nat)  BY <1>3, <1>8
    <2>3. e.files \in [Path -> Seq(Row) \cup Blob \cup {NoFile}]  BY <1>8 DEF File
    <2>4. e = [parents |-> e.parents, anc |-> e.anc, line |-> e.line, files |-> e.files]
      BY <1>2
    <2> HIDE DEF Record
    <2> QED BY <2>1, <2>2, <2>3, <2>4 DEF Record
  <1> HIDE DEF Record
  <1>10. /\ commits' \in Seq(Record) /\ DOMAIN commits' = 1..new /\ commits'[new] = e
         /\ \A c \in 1..Len(commits) : commits'[c] = commits[c]
    BY <1>1, <1>2, <1>9
  <1>11. ASSUME NEW c \in 1..new
         PROVE  /\ RowsOf(commits'[c].parents) \subseteq 1..(c - 1)
                /\ commits'[c].line \subseteq commits'[c].anc /\ commits'[c].anc \subseteq 1..c
                /\ commits'[c].anc =
                     {c} \cup UNION {commits'[q].anc : q \in RowsOf(commits'[c].parents)}
                /\ commits'[c].line = {c} \cup (IF commits'[c].parents = <<>> THEN {}
                                                ELSE commits'[commits'[c].parents[1]].line)
    <2>1. CASE c = new
      <3>1. new - 1 = Len(commits) /\ new \in 1..new /\ 1..Len(commits) \subseteq 1..new
        BY <1>1
      <3>2. parents # <<>> => Line(parents[1]) = commits'[parents[1]].line
        BY <1>1, <1>4, <1>10 DEF Line
      <3>3. from = IF parents = <<>> THEN {} ELSE commits'[parents[1]].line
        BY <3>2 DEF from
      <3>4. {commits'[q].anc : q \in RowsOf(parents)} = {commits[q].anc : q \in RowsOf(parents)}
        BY <1>3, <1>10
      <3> HIDE DEF new
      <3> QED BY <1>3, <1>6, <1>7, <1>8, <1>10, <2>1, <3>1, <3>3, <3>4
    <2>2. CASE c # new
      <3>1. c \in 1..Len(commits) /\ c \in DOMAIN commits /\ commits'[c] = commits[c]
        BY <1>1, <1>10, <2>2
      <3>2. /\ RowsOf(commits[c].parents) \subseteq 1..(c - 1)
            /\ commits[c].line \subseteq commits[c].anc /\ commits[c].anc \subseteq 1..c
            /\ commits[c].anc =
                 {c} \cup UNION {commits[q].anc : q \in RowsOf(commits[c].parents)}
            /\ commits[c].line = {c} \cup (IF commits[c].parents = <<>> THEN {}
                                           ELSE commits[commits[c].parents[1]].line)
        BY <3>1 DEF HistoryTypeOK, ParentsOf, Line
      <3>3. commits[c].parents # <<>> =>
              commits'[commits[c].parents[1]] = commits[commits[c].parents[1]]
        BY <1>1, <1>10, <3>1, ParentsBefore DEF ParentsOf
      <3>4. {commits'[q].anc : q \in RowsOf(commits[c].parents)} =
            {commits[q].anc : q \in RowsOf(commits[c].parents)}
        <4>1. 1..(c - 1) \subseteq 1..Len(commits)  BY <1>1, <3>1
        <4>2. RowsOf(commits[c].parents) \subseteq 1..Len(commits)  BY <3>2, <4>1
        <4> QED BY <1>10, <4>2
      <3> QED BY <3>1, <3>2, <3>3, <3>4
    <2> QED BY <2>1, <2>2
  <1> HIDE DEF new
  <1>12. DOMAIN commits' = 1..new /\ commits' \in Seq(Record)  BY <1>10
  <1> QED BY <1>11, <1>12 DEF HistoryTypeOK, ParentsOf, Line, Record

LEMMA HistoryStep == HistoryTypeOK /\ [Next]_commits => HistoryTypeOK'
  <1> SUFFICES ASSUME HistoryTypeOK, [Next]_commits  PROVE HistoryTypeOK'
    OBVIOUS
  <1>1. DOMAIN commits = 1..Len(commits) /\ Len(commits) \in Nat
    BY DEF HistoryTypeOK
  <1>2. ASSUME NEW parent \in 0..Len(commits), NEW files \in [Path -> Content],
               CommitFiles(parent, files)
        PROVE  HistoryTypeOK'
    <2> DEFINE parents == IF parent = 0 THEN <<>> ELSE <<parent>>
    <2>1. parents \in Seq(DOMAIN commits)
      <3>1. CASE parent = 0  BY <3>1
      <3>2. CASE parent # 0
        <4>1. parent \in DOMAIN commits  BY <1>1, <3>2
        <4> QED BY <3>2, <4>1
      <3> QED BY <3>1, <3>2
    <2>2. files \in [Path -> File]  BY HistoryAssumption DEF File
    <2>3. NewCommit(parents, files)  BY <1>2 DEF CommitFiles
    <2> QED BY <2>1, <2>2, <2>3, NewCommitKeeps
  <1>3. ASSUME NEW ours \in DOMAIN commits, NEW theirs \in DOMAIN commits,
               MergeCommits(ours, theirs)
        PROVE  HistoryTypeOK'
    <2>1. PICK base \in MergeBases(ours, theirs) :
            LET result == ThreeWayMerge(base, ours, theirs)
            IN /\ \A p \in Path : result[p].clash = "none"
               /\ NewCommit(<<ours, theirs>>, [p \in Path |-> result[p].file])
      BY <1>3 DEF MergeCommits
    <2> DEFINE result == ThreeWayMerge(base, ours, theirs)
    <2> DEFINE files == [p \in Path |-> result[p].file]
    <2>2. ASSUME NEW p \in Path  PROVE result[p].file \in File
      <3>1. /\ FileAt(base, p) \in File /\ FileAt(ours, p) \in File
            /\ FileAt(theirs, p) \in File
        BY FilesOfCommits
      <3>2. result[p] = MergeFile(FileAt(base, p), FileAt(ours, p), FileAt(theirs, p))
        BY DEF ThreeWayMerge
      <3>3. result[p].clash = "none"  BY <2>1
      <3>4. MergeFile(FileAt(base, p), FileAt(ours, p), FileAt(theirs, p)).file
              \in Seq(Row) \cup {NoFile}
        BY <3>1, <3>2, <3>3, MergedIsAFile
      <3> QED BY <3>2, <3>4 DEF File
    <2>3. files \in [Path -> File]  BY <2>2
    <2>4. <<ours, theirs>> \in Seq(DOMAIN commits)  OBVIOUS
    <2>5. NewCommit(<<ours, theirs>>, files)  BY <2>1
    <2> HIDE DEF files
    <2> QED BY <2>3, <2>4, <2>5, NewCommitKeeps
  <1>4. CASE UNCHANGED commits
    BY <1>4 DEF HistoryTypeOK, ParentsOf, Line
  <1> QED BY <1>2, <1>3, <1>4 DEF Next

----------------------------------------------------------------------------
(* The commits of every history are well formed: a commit is numbered after *)
(* its parents, its line is a chain of first parents among its ancestors,   *)
(* and every file a merge makes is a manifest, a blob or no file at all.    *)
THEOREM HistoryTyped == Spec => []HistoryTypeOK
  <1>1. Init => HistoryTypeOK  BY DEF Init, HistoryTypeOK
  <1> QED BY <1>1, HistoryStep, PTL DEF Spec

(* A clean merge keeps each row that neither branch touched and that is the *)
(* base's only answer to its query (merge_manifests).                       *)
THEOREM UntouchedRowsStay == Spec => []UntouchedAnswersSurvive
  <1>1. ASSUME HistoryTypeOK  PROVE UntouchedAnswersSurvive
    <2>1. ASSUME NEW a \in DOMAIN commits, NEW z \in DOMAIN commits,
                 NEW base \in MergeBases(a, z), NEW p \in Path,
                 CleanlyMerged(Loaded(FileAt(base, p)), FileAt(a, p), FileAt(z, p)),
                 NEW r \in Untouched(Loaded(FileAt(base, p)), FileAt(a, p), FileAt(z, p)),
                 OnlyAnswer(Loaded(FileAt(base, p)), r)
          PROVE  r \in MergedRows(Loaded(FileAt(base, p)), FileAt(a, p), FileAt(z, p))
      <3>1. /\ FileAt(base, p) \in File /\ FileAt(a, p) \in File /\ FileAt(z, p) \in File
        BY <1>1, FilesOfCommits
      <3> QED BY <2>1, <3>1, UntouchedInAFile
    <2> QED BY <2>1 DEF UntouchedAnswersSurvive, EachMerge, CleanlyMerged, MergedRows
  <1> QED BY <1>1, HistoryTyped, PTL

(* A clean merge applies what both branches did to a file whose queries the *)
(* base and ours answer once: a clean merge leaves exactly what neither     *)
(* branch touched and what one of them brought in, but for a new answer of  *)
(* theirs to a query that ours deleted.                                     *)
THEOREM ChangesAreApplied == Spec => []ChangesOfBothApplied
  <1>1. ASSUME HistoryTypeOK  PROVE ChangesOfBothApplied
    <2>1. ASSUME NEW a \in DOMAIN commits, NEW z \in DOMAIN commits,
                 NEW base \in MergeBases(a, z), NEW p \in Path,
                 CleanlyMerged(Loaded(FileAt(base, p)), FileAt(a, p), FileAt(z, p)),
                 IsManifest(FileAt(a, p)), IsManifest(FileAt(z, p)),
                 AnswersOnce(Loaded(FileAt(base, p))), AnswersOnce(FileAt(a, p))
          PROVE  LET b == Loaded(FileAt(base, p))
                     ours == FileAt(a, p)
                     theirs == FileAt(z, p)
                 IN MergedRows(b, ours, theirs) =
                        Untouched(b, ours, theirs)
                        \cup (RowsIn(ours) \ RowsIn(b))
                        \cup ((RowsIn(theirs) \ RowsIn(b)) \ DroppedAnswers(b, ours, theirs))
      <3>1. /\ FileAt(base, p) \in File /\ FileAt(a, p) \in File /\ FileAt(z, p) \in File
        BY <1>1, FilesOfCommits
      <3> QED BY <2>1, <3>1, ChangesInAFile
    <2> QED BY <2>1 DEF ChangesOfBothApplied, EachMerge, CleanlyMerged, MergedRows
  <1> QED BY <1>1, HistoryTyped, PTL

(* A clean merge of files without exact duplicates makes none: the file is  *)
(* not one detect_duplicates warns of.                                      *)
THEOREM MergesRepeatNoRow == Spec => []MergeRepeatsNoRow
  <1>1. ASSUME HistoryTypeOK  PROVE MergeRepeatsNoRow
    <2>1. ASSUME NEW a \in DOMAIN commits, NEW z \in DOMAIN commits,
                 NEW base \in MergeBases(a, z), NEW p \in Path,
                 CleanlyMerged(Loaded(FileAt(base, p)), FileAt(a, p), FileAt(z, p)),
                 ExactDuplicates([x \in {"file"} |-> FileAt(a, p)]) = {},
                 ExactDuplicates([x \in {"file"} |-> FileAt(z, p)]) = {}
          PROVE  Severity([x \in {"file"} |->
                    MergeFile(Loaded(FileAt(base, p)), FileAt(a, p), FileAt(z, p)).file])
                    # "warning"
      <3>1. /\ FileAt(base, p) \in File /\ FileAt(a, p) \in File /\ FileAt(z, p) \in File
        BY <1>1, FilesOfCommits
      <3>2. ExactDuplicates([x \in {"file"} |->
              MergeFile(Loaded(FileAt(base, p)), FileAt(a, p), FileAt(z, p)).file]) = {}
        BY <2>1, <3>1, NoRepetitionInAFile
      <3> QED BY <3>2 DEF Severity
    <2> QED BY <2>1 DEF MergeRepeatsNoRow, EachMerge, CleanlyMerged
  <1> QED BY <1>1, HistoryTyped, PTL

----------------------------------------------------------------------------
(* Whom blame finds.                                                        *)
LEMMA DiffTells ==
  ASSUME NEW old \in Seq(Row), NEW new \in Seq(Row), NEW r \in RowsOf(new)
  PROVE  LET d == Diff(old, new)
         IN /\ r \notin d.added \cup DOMAIN d.refreshed => r \in RowsOf(old)
            /\ r \in d.added \cup DOMAIN d.refreshed =>
                 r \notin RowsOf(old) \/ (RowsOf(old) = RowsOf(new) /\ old # new)
  <1> DEFINE removed == Only(old, new)
  <1> DEFINE added == Only(new, old)
  <1> DEFINE answers == {added[p[2]] : p \in Answered(removed, added)}
  <1> DEFINE Same == RowsOf(old) = RowsOf(new) /\ old # new
  <1>1. CASE Same
    <2>1. Diff(old, new).added = RowsOf(new)  BY <1>1 DEF Diff
    <2> QED BY <1>1, <2>1
  <1>2. CASE ~Same
    <2>1. /\ Diff(old, new).added = RowsOf(added) \ answers
          /\ DOMAIN Diff(old, new).refreshed = answers
      BY <1>2 DEF Diff
    <2>2. answers \subseteq RowsOf(added)
      BY DEF Answered, RowsOf
    <2>3. RowsOf(added) = {new[i] : i \in {j \in DOMAIN new : new[j] \notin RowsOf(old)}}
      <3> DEFINE S == {i \in DOMAIN new : new[i] \notin RowsOf(old)}
      <3>1. S \in SUBSET DOMAIN new /\ Only(new, old) = Among(new, S)  BY DEF Only
      <3> HIDE DEF S
      <3>2. RowsOf(Among(new, S)) = {new[i] : i \in S}  BY <3>1, AmongKeeps
      <3> QED BY <3>1, <3>2 DEF S
    <2>4. r \in RowsOf(added) <=> r \notin RowsOf(old)  BY <2>3 DEF RowsOf
    <2> HIDE DEF added, answers
    <2> QED BY <2>1, <2>2, <2>4
  <1> QED BY <1>1, <1>2

LEMMA NotBroughtIn ==
  ASSUME HistoryTypeOK, NEW c \in DOMAIN commits, NEW p \in Path,
         NEW r \in RowsIn(FileAt(c, p)), ~BroughtIn(c, p, r)
  PROVE  LET q == ParentsOf(c)[1]
         IN /\ ~WalkEnds(c, p) /\ q \in DOMAIN commits /\ q < c
            /\ r \in RowsIn(FileAt(q, p)) /\ Line(c) = {c} \cup Line(q)
  <1> DEFINE q == ParentsOf(c)[1]
  <1>1. IsManifest(FileAt(c, p)) /\ r \in RowsOf(FileAt(c, p))  BY DEF RowsIn
  <1>2. /\ ~WalkEnds(c, p) /\ ParentsOf(c) # <<>> /\ IsManifest(FileAt(q, p))
        /\ r \notin Diff(FileAt(q, p), FileAt(c, p)).added
                      \cup DOMAIN Diff(FileAt(q, p), FileAt(c, p)).refreshed
    BY <1>1 DEF BroughtIn, WalkEnds, Step
  <1>3. q \in DOMAIN commits /\ q < c  BY <1>2, ParentsBefore
  <1>4. Line(c) = {c} \cup Line(q)  BY <1>2 DEF HistoryTypeOK
  <1> HIDE DEF q
  <1>5. FileAt(q, p) \in Seq(Row) /\ FileAt(c, p) \in Seq(Row)
    BY <1>1, <1>2, <1>3, FilesOfCommits, LoadedFile
  <1>6. r \in RowsOf(FileAt(q, p))  BY <1>1, <1>2, <1>5, DiffTells
  <1> QED BY <1>2, <1>3, <1>4, <1>6 DEF RowsIn, q

(* The last commit of the line that brought the row in: every commit above  *)
(* it has the row.                                                          *)
LastIn(f, c, p, r) ==
    /\ f \in Line(c) /\ BroughtIn(f, p, r)
    /\ \A l \in Line(c) : BroughtIn(l, p, r) => l <= f
    /\ \A k \in Line(c) : f <= k => r \in RowsIn(FileAt(k, p))

LEMMA Lines ==
  ASSUME HistoryTypeOK, NEW c \in DOMAIN commits
  PROVE  Line(c) \subseteq 1..c /\ c \in Line(c) /\ Line(c) \subseteq DOMAIN commits /\ c \in Nat
  <1>1. DOMAIN commits = 1..Len(commits) /\ Len(commits) \in Nat  BY DEF HistoryTypeOK
  <1>2. Line(c) \subseteq 1..c /\ c \in Line(c)  BY DEF HistoryTypeOK
  <1> QED BY <1>1, <1>2

LEMMA LastInHere ==
  ASSUME HistoryTypeOK, NEW c \in DOMAIN commits, NEW p \in Path,
         NEW r \in RowsIn(FileAt(c, p)), BroughtIn(c, p, r)
  PROVE  LastIn(c, c, p, r)
  <1>1. \A k \in Line(c) : k <= c /\ (c <= k => k = c)  BY Lines
  <1> QED BY <1>1, Lines DEF LastIn

LEMMA LastInBelow ==
  ASSUME HistoryTypeOK, NEW c \in DOMAIN commits, NEW p \in Path,
         NEW r \in RowsIn(FileAt(c, p)), ~BroughtIn(c, p, r),
         NEW f, LastIn(f, ParentsOf(c)[1], p, r)
  PROVE  LastIn(f, c, p, r)
  BY NotBroughtIn DEF LastIn

LEMMA SomeoneBroughtItIn ==
  ASSUME HistoryTypeOK, NEW p \in Path
  PROVE  \A c \in DOMAIN commits : \A r \in RowsIn(FileAt(c, p)) : \E f : LastIn(f, c, p, r)
  <1> DEFINE Bad == {c \in DOMAIN commits :
                       ~ \A r \in RowsIn(FileAt(c, p)) : \E f : LastIn(f, c, p, r)}
  <1> SUFFICES ASSUME Bad # {}  PROVE FALSE  OBVIOUS
  <1>1. DOMAIN commits = 1..Len(commits) /\ Len(commits) \in Nat  BY DEF HistoryTypeOK
  <1>2. Bad \in SUBSET Nat  BY <1>1
  <1> HIDE DEF Bad
  <1>3. PICK c \in Bad : \A k \in Bad : c <= k  BY <1>2, Least
  <1> USE DEF Bad
  <1>4. PICK r \in RowsIn(FileAt(c, p)) : ~ \E f : LastIn(f, c, p, r)  OBVIOUS
  <1>5. CASE BroughtIn(c, p, r)  BY <1>4, <1>5, LastInHere
  <1>6. CASE ~BroughtIn(c, p, r)
    <2> DEFINE q == ParentsOf(c)[1]
    <2>1. q \in DOMAIN commits /\ q < c /\ r \in RowsIn(FileAt(q, p))
      BY <1>6, NotBroughtIn
    <2>2. q \notin Bad  BY <1>1, <1>3, <2>1
    <2>3. PICK f : LastIn(f, q, p, r)  BY <2>1, <2>2
    <2> QED BY <1>4, <1>6, <2>3, LastInBelow
  <1> QED BY <1>5, <1>6

LEMMA OneLastIn ==
  ASSUME HistoryTypeOK, NEW c \in DOMAIN commits, NEW p \in Path,
         NEW r \in RowsIn(FileAt(c, p)), NEW f, LastIn(f, c, p, r)
  PROVE  Blame(c, p, r) = f
  <1> DEFINE Found(k) ==
        k \in Line(c) /\ BroughtIn(k, p, r) /\ \A l \in Line(c) : BroughtIn(l, p, r) => l <= k
  <1>1. Found(f)  BY DEF LastIn
  <1>2. Found(Blame(c, p, r))
    <2> DEFINE bringing == {k \in Line(c) : BroughtIn(k, p, r)}
    <2>1. Blame(c, p, r) = CHOOSE k \in bringing : \A l \in bringing : l <= k  BY DEF Blame
    <2>2. \E k \in bringing : \A l \in bringing : l <= k  BY <1>1
    <2> HIDE DEF bringing
    <2>3. Blame(c, p, r) \in bringing /\ \A l \in bringing : l <= Blame(c, p, r)
      BY <2>1, <2>2
    <2> QED BY <2>3 DEF bringing
  <1>3. Blame(c, p, r) \in 1..c /\ f \in 1..c  BY <1>1, <1>2, Lines
  <1>4. Blame(c, p, r) <= f /\ f <= Blame(c, p, r)  BY <1>1, <1>2
  <1> QED BY <1>3, <1>4

LEMMA TheBlamed ==
  ASSUME HistoryTypeOK, NEW c \in DOMAIN commits, NEW p \in Path,
         NEW r \in RowsIn(FileAt(c, p))
  PROVE  LastIn(Blame(c, p, r), c, p, r)
  <1>1. PICK f : LastIn(f, c, p, r)  BY SomeoneBroughtItIn
  <1> QED BY <1>1, OneLastIn

(* blame_file names the commit that introduced the row: it holds the row,   *)
(* so does every commit of the line after it, and its first parent did not, *)
(* or had the same rows in another order.                                   *)
THEOREM BlameIsRight == Spec => []BlameIsTheIntroduction
  <1>1. ASSUME HistoryTypeOK  PROVE BlameIsTheIntroduction
    <2>1. ASSUME NEW c \in DOMAIN commits, NEW p \in Path, NEW r \in RowsIn(FileAt(c, p))
          PROVE  LET found == Blame(c, p, r)
                     before == IF ParentsOf(found) = <<>> THEN NoFile
                               ELSE FileAt(ParentsOf(found)[1], p)
                 IN /\ found \in Line(c)
                    /\ \A k \in Line(c) : found <= k => r \in RowsIn(FileAt(k, p))
                    /\ \/ r \notin RowsIn(before)
                       \/ RowsIn(before) = RowsIn(FileAt(found, p)) /\ before # FileAt(found, p)
      <3> DEFINE found == Blame(c, p, r)
      <3> DEFINE before == IF ParentsOf(found) = <<>> THEN NoFile
                           ELSE FileAt(ParentsOf(found)[1], p)
      <3>1. /\ found \in Line(c) /\ found \in DOMAIN commits /\ BroughtIn(found, p, r)
            /\ \A k \in Line(c) : found <= k => r \in RowsIn(FileAt(k, p))
        BY <1>1, <2>1, TheBlamed, Lines DEF LastIn
      <3> HIDE DEF found
      <3>2. \/ r \notin RowsIn(before)
            \/ RowsIn(before) = RowsIn(FileAt(found, p)) /\ before # FileAt(found, p)
        <4>1. CASE ~IsManifest(before)  BY <4>1 DEF RowsIn
        <4>2. CASE IsManifest(before)
          <5>1. before = FileAt(ParentsOf(found)[1], p) /\ ParentsOf(found) # <<>>
            BY <4>2 DEF IsManifest
          <5>2. /\ IsManifest(FileAt(found, p))
                /\ r \in Diff(before, FileAt(found, p)).added
                           \cup DOMAIN Diff(before, FileAt(found, p)).refreshed
            BY <3>1, <4>2, <5>1 DEF BroughtIn, WalkEnds, Step
          <5> HIDE DEF before
          <5>3. ParentsOf(found)[1] \in DOMAIN commits  BY <1>1, <3>1, <5>1, ParentsBefore
          <5>4. before \in Seq(Row) /\ FileAt(found, p) \in Seq(Row)
            BY <1>1, <3>1, <4>2, <5>1, <5>2, <5>3, FilesOfCommits, LoadedFile
          <5>5. r \in RowsOf(FileAt(found, p))
            <6>1. found <= found  BY <1>1, <3>1, Lines
            <6>2. r \in RowsIn(FileAt(found, p))  BY <3>1, <6>1
            <6> QED BY <5>2, <6>2 DEF RowsIn
          <5>6. \/ r \notin RowsOf(before)
                \/ RowsOf(before) = RowsOf(FileAt(found, p)) /\ before # FileAt(found, p)
            BY <5>2, <5>4, <5>5, DiffTells
          <5> QED BY <4>2, <5>2, <5>6 DEF RowsIn
        <4> QED BY <4>1, <4>2
      <3> QED BY <3>1, <3>2 DEF found
    <2> QED BY <2>1 DEF BlameIsTheIntroduction
  <1> QED BY <1>1, HistoryTyped, PTL

----------------------------------------------------------------------------
(* What row_history reports.  The recursion is well defined: it goes to an  *)
(* earlier commit that has the file, and to a row.                          *)
LEMMA OlderAnswer ==
  ASSUME NEW old \in Seq(Row), NEW new \in Seq(Row), NEW r \in DOMAIN Diff(old, new).refreshed
  PROVE  /\ Diff(old, new).refreshed[r] \in RowsOf(old) /\ Diff(old, new).refreshed[r] \in Row
         /\ QueryOf[Diff(old, new).refreshed[r]] = QueryOf[r]
  <1> DEFINE removed == Only(old, new)
  <1> DEFINE added == Only(new, old)
  <1> DEFINE pairs == Answered(removed, added)
  <1> DEFINE First(p) == added[p[2]] = r /\
                           \A o \in pairs : added[o[2]] = r => p[2] <= o[2]
  <1> DEFINE first == CHOOSE p \in pairs : First(p)
  <1>1. ~(RowsOf(old) = RowsOf(new) /\ old # new)  BY DEF Diff
  <1>2. /\ r \in {added[p[2]] : p \in pairs}
        /\ Diff(old, new).refreshed[r] = removed[first[1]]
    BY <1>1 DEF Diff
  <1>3. removed \in Seq(Row) /\ added \in Seq(Row) /\ RowsOf(removed) \subseteq RowsOf(old)
    <2>1. \A m, n \in Seq(Row) : Only(m, n) \in Seq(Row) /\ RowsOf(Only(m, n)) \subseteq RowsOf(m)
      <3> TAKE m, n \in Seq(Row)
      <3> DEFINE S == {i \in DOMAIN m : m[i] \notin RowsOf(n)}
      <3>1. S \in SUBSET DOMAIN m /\ Only(m, n) = Among(m, S)  BY DEF Only
      <3> HIDE DEF S
      <3>2. Among(m, S) \in Seq(Row) /\ RowsOf(Among(m, S)) = {m[i] : i \in S}
        BY <3>1, AmongKeeps
      <3> QED BY <3>1, <3>2 DEF RowsOf
    <2> QED BY <2>1
  <1>4. \A p \in pairs : /\ p[1] \in DOMAIN removed /\ p[2] \in DOMAIN added
                         /\ QueryOf[removed[p[1]]] = QueryOf[added[p[2]]]
    BY DEF Answered
  <1> HIDE DEF pairs, removed, added
  <1>5. \E p \in pairs : First(p)
    <2> DEFINE S == {p[2] : p \in {o \in pairs : added[o[2]] = r}}
    <2>1. S \in SUBSET Nat /\ S # {}
      <3>1. \A o \in pairs : o[2] \in Nat  BY <1>3, <1>4
      <3> QED BY <1>2, <3>1
    <2> HIDE DEF S
    <2>2. PICK n \in S : \A k \in S : n <= k  BY <2>1, Least
    <2> USE DEF S
    <2>3. PICK p \in pairs : added[p[2]] = r /\ n = p[2]  BY <2>2
    <2> QED BY <2>2, <2>3
  <1>6. first \in pairs /\ added[first[2]] = r  BY <1>5
  <1> HIDE DEF first
  <1>7. removed[first[1]] \in RowsOf(removed) /\ removed[first[1]] \in Row
        /\ QueryOf[removed[first[1]]] = QueryOf[r]
    BY <1>3, <1>4, <1>6 DEF RowsOf
  <1> QED BY <1>2, <1>3, <1>7

Held(p) == {k \in DOMAIN commits : IsManifest(FileAt(k, p))}

LEMMA EventsGoBack ==
  ASSUME HistoryTypeOK, NEW p \in Path, NEW k \in Held(p), NEW r \in Row, NEW g, NEW h,
         \A q \in Held(p), x \in Row : q < k => g[<<q, x>>] = h[<<q, x>>]
  PROVE  EventsFrom(k, p, r, g) = EventsFrom(k, p, r, h)
  <1> DEFINE q == ParentsOf(k)[1]
  <1> DEFINE older == Step(k, p).refreshed[r]
  <1>1. CASE WalkEnds(k, p)  BY <1>1 DEF EventsFrom
  <1>2. CASE ~WalkEnds(k, p)
    <2>1. k \in DOMAIN commits /\ IsManifest(FileAt(k, p))  BY DEF Held
    <2>2. q \in Held(p) /\ q < k
      <3>1. ParentsOf(k) # <<>> /\ IsManifest(FileAt(q, p))  BY <1>2 DEF WalkEnds
      <3>2. q \in DOMAIN commits /\ q < k  BY <2>1, <3>1, ParentsBefore
      <3> QED BY <3>1, <3>2 DEF Held
    <2>3. g[<<q, r>>] = h[<<q, r>>]  BY <2>2
    <2>4. r \in DOMAIN Step(k, p).refreshed => g[<<q, older>>] = h[<<q, older>>]
      <3> SUFFICES ASSUME r \in DOMAIN Step(k, p).refreshed  PROVE g[<<q, older>>] = h[<<q, older>>]
        OBVIOUS
      <3>1. FileAt(q, p) \in Seq(Row) /\ FileAt(k, p) \in Seq(Row)
        BY <2>1, <2>2, FilesOfCommits, LoadedFile DEF Held
      <3>2. older \in Row  BY <3>1, OlderAnswer DEF Step
      <3> QED BY <2>2, <3>2
    <2> HIDE DEF q, older
    <2> QED BY <1>2, <2>3, <2>4 DEF EventsFrom, q, older
  <1> QED BY <1>1, <1>2

IsWalk(p, w) == w = [x \in Held(p) \X Row |-> EventsFrom(x[1], p, x[2], w)]

LEMMA WalkExists ==
  ASSUME HistoryTypeOK, NEW p \in Path
  PROVE  \E w : IsWalk(p, w)
  <1> DEFINE Below(n) == {k \in Held(p) : k <= n} \X Row
  <1> DEFINE Walks(n, w) == w = [x \in Below(n) |-> EventsFrom(x[1], p, x[2], w)]
  <1> DEFINE Bad == {n \in 0..Len(commits) : ~ \E w : Walks(n, w)}
  <1>1. DOMAIN commits = 1..Len(commits) /\ Len(commits) \in Nat  BY DEF HistoryTypeOK
  <1>2. Held(p) \subseteq 1..Len(commits)  BY <1>1 DEF Held
  <1>3. Bad = {}
    <2> SUFFICES ASSUME Bad # {}  PROVE FALSE  OBVIOUS
    <2>1. Bad \in SUBSET Nat  BY <1>1
    <2> HIDE DEF Bad
    <2>2. PICK n \in Bad : \A m \in Bad : n <= m  BY <2>1, Least
    <2> USE DEF Bad
    <2>3. n \in 0..Len(commits) /\ ~ \E w : Walks(n, w)  OBVIOUS
    <2>4. n # 0
      <3> SUFFICES ASSUME n = 0  PROVE FALSE  OBVIOUS
      <3>1. Below(0) = {}  BY <1>2
      <3> DEFINE none == [x \in {} |-> x]
      <3>2. none = [x \in Below(0) |-> EventsFrom(x[1], p, x[2], none)]  BY <3>1
      <3>3. Walks(0, none)  BY <3>2
      <3> QED BY <2>3, <3>3
    <2>5. n - 1 \in 0..Len(commits) /\ ~(n <= n - 1)  BY <1>1, <2>3, <2>4
    <2>6. n - 1 \notin Bad  BY <2>2, <2>5
    <2>7. PICK g : Walks(n - 1, g)  BY <2>5, <2>6
    <2> DEFINE h == [x \in Below(n) |-> EventsFrom(x[1], p, x[2], g)]
    <2>8. ASSUME NEW k \in Held(p), k <= n, NEW r \in Row
          PROVE  EventsFrom(k, p, r, g) = EventsFrom(k, p, r, h)
      <3>1. ASSUME NEW q \in Held(p), NEW y \in Row, q < k
            PROVE  g[<<q, y>>] = h[<<q, y>>]
        <4>1. <<q, y>> \in Below(n - 1) /\ <<q, y>> \in Below(n)
          <5>1. q \in Nat /\ k \in Nat /\ n \in Nat  BY <1>1, <1>2, <2>3
          <5>2. q <= n - 1 /\ q <= n  BY <2>8, <3>1, <5>1
          <5> QED BY <3>1, <5>2
        <4> HIDE DEF Below
        <4>2. g[<<q, y>>] = EventsFrom(q, p, y, g)  BY <2>7, <4>1
        <4>3. h[<<q, y>>] = EventsFrom(q, p, y, g)  BY <4>1
        <4> QED BY <4>2, <4>3
      <3> HIDE DEF h
      <3> QED BY <3>1, EventsGoBack
    <2>9. h = [x \in Below(n) |-> EventsFrom(x[1], p, x[2], h)]
      <3>1. \A x \in Below(n) : EventsFrom(x[1], p, x[2], g) = EventsFrom(x[1], p, x[2], h)
        <4> TAKE x \in Below(n)
        <4>1. x[1] \in Held(p) /\ x[1] <= n /\ x[2] \in Row  OBVIOUS
        <4> HIDE DEF h, Below
        <4> QED BY <2>8, <4>1
      <3>2. h = [x \in Below(n) |-> EventsFrom(x[1], p, x[2], g)]  OBVIOUS
      <3> HIDE DEF h, Below
      <3> QED BY <3>1, <3>2
    <2>10. Walks(n, h)  BY <2>9
    <2> HIDE DEF h
    <2> QED BY <2>3, <2>10
  <1>4. PICK w : Walks(Len(commits), w)
    <2>1. Len(commits) \in 0..Len(commits)  BY <1>1
    <2> HIDE DEF Walks
    <2> QED BY <1>3, <2>1
  <1>5. Below(Len(commits)) = Held(p) \X Row
    <2>1. \A k \in Held(p) : k <= Len(commits)  BY <1>1, <1>2
    <2> QED BY <2>1
  <1> QED BY <1>4, <1>5 DEF IsWalk

LEMMA HistoryUnfolds ==
  ASSUME HistoryTypeOK, NEW p \in Path
  PROVE  \E w : /\ \A c, r : RowHistory(c, p, r) = w[<<c, r>>]
                /\ \A k \in Held(p), r \in Row : w[<<k, r>>] = EventsFrom(k, p, r, w)
  <1> DEFINE w == CHOOSE v : v = [x \in Held(p) \X Row |-> EventsFrom(x[1], p, x[2], v)]
  <1>1. \E v : v = [x \in Held(p) \X Row |-> EventsFrom(x[1], p, x[2], v)]
    BY WalkExists DEF IsWalk
  <1>2. w = [x \in Held(p) \X Row |-> EventsFrom(x[1], p, x[2], w)]
    BY <1>1
  <1>3. \A c, r : RowHistory(c, p, r) = w[<<c, r>>]
    BY DEF RowHistory, Held
  <1> HIDE DEF w
  <1>4. ASSUME NEW k \in Held(p), NEW r \in Row
        PROVE  w[<<k, r>>] = EventsFrom(k, p, r, w)
    BY <1>2
  <1> QED BY <1>3, <1>4

(* A report from commit c on that begins at commit f.                       *)
IsReport(e, c, f, r) ==
    /\ e \in Seq([commit : 1..c, row : Row, event : {"added", "refresh"}]) /\ e # <<>>
    /\ e[1].commit = f
    /\ \A i \in DOMAIN e :
          /\ (e[i].event = "added") <=> (i = Len(e))
          /\ QueryOf[e[i].row] = QueryOf[r]
          /\ i > 1 => e[i].commit < e[i - 1].commit

LEMMA AddedReport ==
  ASSUME NEW c \in Nat, c > 0, NEW r \in Row
  PROVE  IsReport(Event(c, r, "added"), c, c, r)
  <1> DEFINE one == [commit |-> c, row |-> r, event |-> "added"]
  <1>1. one \in [commit : 1..c, row : Row, event : {"added", "refresh"}]  OBVIOUS
  <1>2. one.commit = c /\ one.event = "added" /\ one.row = r  OBVIOUS
  <1>3. Event(c, r, "added") = <<one>>  BY DEF Event
  <1> HIDE DEF one
  <1> DEFINE e == <<one>>
  <1>4. Len(e) = 1 /\ e # <<>> /\ e[1] = one /\ DOMAIN e = {1}  OBVIOUS
  <1>5. e \in Seq([commit : 1..c, row : Row, event : {"added", "refresh"}])  BY <1>1
  <1> HIDE DEF e
  <1>6. IsReport(e, c, c, r)
    BY <1>2, <1>4, <1>5 DEF IsReport
  <1> QED BY <1>3, <1>6 DEF e

LEMMA RefreshReport ==
  ASSUME NEW c \in Nat, NEW q \in Nat, q < c, NEW r \in Row, NEW older \in Row,
         QueryOf[older] = QueryOf[r], NEW f, NEW e, IsReport(e, q, f, older)
  PROVE  IsReport(Event(c, r, "refresh") \o e, c, c, r)
  <1> DEFINE E == [commit : 1..c, row : Row, event : {"added", "refresh"}]
  <1> DEFINE one == [commit |-> c, row |-> r, event |-> "refresh"]
  <1> DEFINE all == <<one>> \o e
  <1>1. one \in E
    <2>1. c \in 1..c  OBVIOUS
    <2> QED BY <2>1
  <1>2. one.commit = c /\ one.event # "added" /\ one.row = r  OBVIOUS
  <1>3. Event(c, r, "refresh") \o e = all  BY DEF Event
  <1>4. e \in Seq(E) /\ Len(e) \in Nat /\ Len(e) >= 1 /\ DOMAIN e = 1..Len(e)
        /\ \A i \in DOMAIN e : e[i].commit <= q /\ e[i].commit \in Nat
    <2> DEFINE F == [commit : 1..q, row : Row, event : {"added", "refresh"}]
    <2>1. e \in Seq(F) /\ e # <<>>  BY DEF IsReport
    <2>2. \A x \in F : x \in E /\ x.commit <= q /\ x.commit \in Nat
      <3>1. 1..q \subseteq 1..c  OBVIOUS
      <3> QED BY <3>1
    <2> HIDE DEF E, F
    <2> QED BY <2>1, <2>2
  <1> HIDE DEF E, one
  <1>5. all \in Seq(E) /\ Len(all) = Len(e) + 1 /\ all[1] = one
        /\ \A i \in 2..Len(all) : all[i] = e[i - 1]
    BY <1>1, <1>4
  <1> HIDE DEF all
  <1>6. DOMAIN all = 1..Len(all)  BY <1>5
  <1>7. ASSUME NEW i \in DOMAIN all
        PROVE  /\ (all[i].event = "added") <=> (i = Len(all))
               /\ QueryOf[all[i].row] = QueryOf[r]
               /\ i > 1 => all[i].commit < all[i - 1].commit
    <2>1. CASE i = 1  BY <1>2, <1>4, <1>5, <2>1
    <2>2. CASE i # 1
      <3>1. i \in 2..Len(all) /\ i - 1 \in DOMAIN e /\ all[i] = e[i - 1]
        BY <1>4, <1>5, <1>6, <2>2
      <3>2. /\ (e[i - 1].event = "added") <=> (i - 1 = Len(e))
            /\ QueryOf[e[i - 1].row] = QueryOf[older]
            /\ i - 1 > 1 => e[i - 1].commit < e[i - 1 - 1].commit
        BY <3>1 DEF IsReport
      <3>3. (all[i].event = "added") <=> (i = Len(all))
        BY <1>4, <1>5, <3>1, <3>2
      <3>4. all[i].commit < all[i - 1].commit
        <4>1. CASE i = 2  BY <1>2, <1>4, <1>5, <3>1, <4>1
        <4>2. CASE i # 2
          <5>1. i - 1 > 1 /\ i - 1 \in 2..Len(all) /\ all[i - 1] = e[i - 1 - 1]
            BY <1>4, <1>5, <3>1, <4>2
          <5> QED BY <3>1, <3>2, <5>1
        <4> QED BY <4>1, <4>2
      <3> QED BY <3>1, <3>2, <3>3, <3>4
    <2> QED BY <2>1, <2>2
  <1>8. all # <<>>  BY <1>4, <1>5
  <1> QED BY <1>2, <1>3, <1>5, <1>7, <1>8 DEF IsReport, E

LEMMA LaterReport ==
  ASSUME NEW c \in Nat, NEW q \in Nat, q < c, NEW r, NEW f, NEW e, IsReport(e, q, f, r)
  PROVE  IsReport(e, c, f, r)
  <1> DEFINE E == [commit : 1..c, row : Row, event : {"added", "refresh"}]
  <1> DEFINE F == [commit : 1..q, row : Row, event : {"added", "refresh"}]
  <1>1. \A x \in F : x \in E
    <2>1. 1..q \subseteq 1..c  OBVIOUS
    <2> QED BY <2>1
  <1>2. e \in Seq(F)  BY DEF IsReport
  <1> HIDE DEF E, F
  <1>3. e \in Seq(E)  BY <1>1, <1>2
  <1> QED BY <1>3 DEF IsReport, E

LEMMA ReportsBegin ==
  ASSUME HistoryTypeOK, NEW p \in Path
  PROVE  \A c \in DOMAIN commits : \A r \in RowsIn(FileAt(c, p)) :
            IsReport(RowHistory(c, p, r), c, Blame(c, p, r), r)
  <1> DEFINE Good(c) == \A r \in RowsIn(FileAt(c, p)) :
                           IsReport(RowHistory(c, p, r), c, Blame(c, p, r), r)
  <1> DEFINE Bad == {c \in DOMAIN commits : ~Good(c)}
  <1> SUFFICES ASSUME Bad # {}  PROVE FALSE  OBVIOUS
  <1>1. DOMAIN commits = 1..Len(commits) /\ Len(commits) \in Nat  BY DEF HistoryTypeOK
  <1>2. Bad \in SUBSET Nat  BY <1>1
  <1> HIDE DEF Bad
  <1>3. PICK c \in Bad : \A k \in Bad : c <= k  BY <1>2, Least
  <1> USE DEF Bad
  <1>4. PICK r \in RowsIn(FileAt(c, p)) : ~IsReport(RowHistory(c, p, r), c, Blame(c, p, r), r)
    BY <1>3
  <1>5. c \in DOMAIN commits /\ c \in Nat /\ c > 0  BY <1>1, <1>3
  <1>6. c \in Held(p) /\ FileAt(c, p) \in Seq(Row) /\ r \in RowsOf(FileAt(c, p)) /\ r \in Row
    <2>1. IsManifest(FileAt(c, p)) /\ r \in RowsOf(FileAt(c, p))  BY <1>4 DEF RowsIn
    <2>2. FileAt(c, p) \in Seq(Row)  BY <1>5, <2>1, FilesOfCommits, LoadedFile
    <2> QED BY <1>5, <2>1, <2>2 DEF Held, RowsOf
  <1>7. PICK w : /\ \A k, x : RowHistory(k, p, x) = w[<<k, x>>]
                 /\ \A k \in Held(p), x \in Row : w[<<k, x>>] = EventsFrom(k, p, x, w)
    BY HistoryUnfolds
  <1> DEFINE q == ParentsOf(c)[1]
  <1>8. RowHistory(c, p, r) = EventsFrom(c, p, r, w)  BY <1>6, <1>7
  <1>9. \A k \in DOMAIN commits : k < c => Good(k)
    <2> TAKE k \in DOMAIN commits
    <2> SUFFICES ASSUME k < c, ~Good(k)  PROVE FALSE  OBVIOUS
    <2> HIDE DEF Good
    <2> QED BY <1>1, <1>3
  <1>10. CASE BroughtIn(c, p, r)
    <2>1. Blame(c, p, r) = c  BY <1>5, <1>10, LastInHere, OneLastIn
    <2>2. CASE RowHistory(c, p, r) = Event(c, r, "added")
      BY <1>4, <1>5, <1>6, <2>1, <2>2, AddedReport
    <2>3. CASE RowHistory(c, p, r) # Event(c, r, "added")
      <3> DEFINE older == Step(c, p).refreshed[r]
      <3>1. /\ ~WalkEnds(c, p) /\ r \in DOMAIN Step(c, p).refreshed
            /\ RowHistory(c, p, r) = Event(c, r, "refresh") \o w[<<q, older>>]
        BY <1>4, <1>8, <1>10, <2>3 DEF BroughtIn, EventsFrom
      <3>2. ParentsOf(c) # <<>> /\ IsManifest(FileAt(q, p))  BY <3>1 DEF WalkEnds
      <3>3. q \in DOMAIN commits /\ q < c /\ q \in Nat  BY <1>1, <1>5, <3>2, ParentsBefore
      <3> HIDE DEF q
      <3>4. FileAt(q, p) \in Seq(Row)  BY <3>2, <3>3, FilesOfCommits, LoadedFile
      <3>5. Step(c, p) = Diff(FileAt(q, p), FileAt(c, p))  BY DEF Step, q
      <3>6. /\ older \in RowsOf(FileAt(q, p)) /\ older \in Row /\ QueryOf[older] = QueryOf[r]
        BY <1>6, <3>1, <3>4, <3>5, OlderAnswer
      <3> HIDE DEF older
      <3>7. older \in RowsIn(FileAt(q, p))  BY <3>2, <3>6 DEF RowsIn
      <3>8. IsReport(w[<<q, older>>], q, Blame(q, p, older), older)
        BY <1>7, <1>9, <3>3, <3>7
      <3>9. IsReport(Event(c, r, "refresh") \o w[<<q, older>>], c, c, r)
        BY <1>5, <1>6, <3>3, <3>6, <3>8, RefreshReport
      <3> QED BY <1>4, <2>1, <3>1, <3>9
    <2> QED BY <2>2, <2>3
  <1>11. CASE ~BroughtIn(c, p, r)
    <2>1. /\ ~WalkEnds(c, p) /\ q \in DOMAIN commits /\ q < c /\ r \in RowsIn(FileAt(q, p))
      BY <1>5, <1>11, NotBroughtIn
    <2>2. RowHistory(c, p, r) = w[<<q, r>>]
      BY <1>6, <1>8, <1>11, <2>1 DEF BroughtIn, EventsFrom, Held
    <2> HIDE DEF q
    <2>3. IsReport(w[<<q, r>>], q, Blame(q, p, r), r)  BY <1>7, <1>9, <2>1
    <2>4. Blame(c, p, r) = Blame(q, p, r)
      <3>1. LastIn(Blame(q, p, r), q, p, r)  BY <2>1, TheBlamed
      <3>2. LastIn(Blame(q, p, r), c, p, r)  BY <1>5, <1>11, <3>1, LastInBelow DEF q
      <3> QED BY <1>5, <3>2, OneLastIn
    <2>5. q \in Nat  BY <1>1, <2>1
    <2>6. IsReport(w[<<q, r>>], c, Blame(q, p, r), r)  BY <1>5, <2>1, <2>3, <2>5, LaterReport
    <2> QED BY <1>4, <2>2, <2>4, <2>6
  <1> QED BY <1>10, <1>11

(* row_history begins at the commit blame_file names, goes back through     *)
(* older commits over answers to one query, and ends where the row's first  *)
(* answer was added.                                                        *)
THEOREM HistoriesAgree == Spec => []HistoryAgreesWithBlame
  <1>1. ASSUME HistoryTypeOK  PROVE HistoryAgreesWithBlame
    <2>1. ASSUME NEW c \in DOMAIN commits, NEW p \in Path, NEW r \in RowsIn(FileAt(c, p))
          PROVE  IsReport(RowHistory(c, p, r), c, Blame(c, p, r), r)
      BY <1>1, <2>1, ReportsBegin
    <2> QED BY <2>1 DEF HistoryAgreesWithBlame, IsReport
  <1> QED BY <1>1, HistoryTyped, PTL
=============================================================================
