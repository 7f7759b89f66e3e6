------------------------- MODULE ObjectGraphProofs -------------------------
(* What the walkers of core/walker.py collect, for every object graph and   *)
(* every store, complete or not.                                            *)
EXTENDS ObjectGraph, TLAPS

USE DEF Closed

(* What an object names is in the universe, and only commits name commits.  *)
LEMMA DepsTyping ==
    ASSUME NEW o \in Object, NEW d \in Deps[o]
    PROVE  /\ d \in Object
           /\ Kind[o] \in Kinds
           /\ Kind[d] \in MayName[Kind[o]]
           /\ d \in Commit => o \in Commit
  <1>1. d \in Object /\ Kind[o] \in Kinds /\ Kind[d] \in MayName[Kind[o]]
    BY GraphAssumption
  <1>2. Kind[d] = "commits" => Kind[o] = "commits"
    BY <1>1 DEF MayName, Kinds
  <1> QED  BY <1>1, <1>2 DEF Commit

(* The history of an object holds it and all that its members name; it is   *)
(* the least such set.                                                      *)
LEMMA ReachIsHistory ==
    ASSUME NEW o \in Object
    PROVE  /\ Reach[o] \subseteq Object
           /\ o \in Reach[o]
           /\ Closed(Reach[o])
  <1>1. Reach[o] = {x \in Object : \A S \in ClosedSets : o \in S => x \in S}
    BY DEF Reach
  <1>2. ASSUME NEW x \in Reach[o], NEW d \in Deps[x]
        PROVE  d \in Reach[o]
    <2>1. d \in Object  BY <1>1, DepsTyping
    <2>2. ASSUME NEW S \in ClosedSets, o \in S  PROVE d \in S
      BY <1>1, <1>2, <2>2 DEF ClosedSets
    <2> QED  BY <1>1, <2>1, <2>2
  <1> QED  BY <1>1, <1>2

LEMMA ReachIsLeast ==
    ASSUME NEW o \in Object, NEW S \in SUBSET Object, Closed(S), o \in S
    PROVE  Reach[o] \subseteq S
  BY DEF Reach, ClosedSets

LEMMA ReachMonotone ==
    ASSUME NEW o \in Object, NEW d \in Reach[o]
    PROVE  d \in Object /\ Reach[d] \subseteq Reach[o]
  BY ReachIsHistory, ReachIsLeast

LEMMA ReachOfDeps ==
    ASSUME NEW o \in Object, NEW d \in Deps[o]
    PROVE  d \in Object /\ d \in Reach[o] /\ Reach[d] \subseteq Reach[o]
  BY ReachIsHistory, ReachMonotone

(* Objects whose whole history is in a store form a closed set.             *)
LEMMA ServedClosed ==
    ASSUME NEW G
    PROVE  Closed({o \in Object : Reach[o] \subseteq G})
  BY ReachOfDeps

----------------------------------------------------------------------------
(* The commit walk: every commit it collects and can read brings in its     *)
(* parents, except the stop commit.                                         *)
LEMMA CommitsWalked ==
    ASSUME NEW L, NEW head, NEW stop
    PROVE  LET C == NewCommits(L, head, stop)
           IN  /\ C \subseteq Commit
               /\ head \in Commit /\ head # stop => head \in C
               /\ \A x \in C \cap L : Parents(x) \ {stop} \subseteq C
  <1> DEFINE C == NewCommits(L, head, stop)
  <1>1. C \subseteq Commit  BY DEF NewCommits
  <1>2. head \in Commit /\ head # stop => head \in C  BY DEF NewCommits
  <1>3. ASSUME NEW x \in C \cap L, NEW p \in Parents(x) \ {stop}
        PROVE  p \in C
    <2>1. p \in Commit  BY DEF Parents
    <2>2. ASSUME NEW S \in SUBSET Commit,
                 {head} \ {stop} \subseteq S,
                 \A y \in S \cap L : Parents(y) \ {stop} \subseteq S
          PROVE  p \in S
      <3>1. x \in S  BY <1>3, <2>2 DEF NewCommits
      <3> QED  BY <1>3, <2>2, <3>1
    <2> QED  BY <2>1, <2>2 DEF NewCommits
  <1> QED  BY <1>1, <1>2, <1>3

(* The tree walk: every commit and every tree it can read brings in its     *)
(* trees.                                                                   *)
LEMMA TreesWalked ==
    ASSUME NEW L, NEW C
    PROVE  LET T == TreesOf(L, C)
           IN  /\ T \subseteq Tree
               /\ \A x \in (C \cup T) \cap L : Deps[x] \cap Tree \subseteq T
  <1> DEFINE T == TreesOf(L, C)
  <1>1. T \subseteq Tree  BY DEF TreesOf
  <1>2. ASSUME NEW x \in (C \cup T) \cap L, NEW d \in Deps[x] \cap Tree
        PROVE  d \in T
    <2>1. ASSUME NEW S \in SUBSET Tree,
                 \A y \in (C \cup S) \cap L : Deps[y] \cap Tree \subseteq S
          PROVE  d \in S
      <3>1. x \in (C \cup S) \cap L  BY <1>2, <2>1 DEF TreesOf
      <3> QED  BY <1>2, <2>1, <3>1
    <2> QED  BY <1>2, <2>1 DEF TreesOf
  <1> QED  BY <1>1, <1>2

(* The whole walk leaves no gap: it collects its head, and all that an      *)
(* object it collected and could read names, except the stop commit.        *)
THEOREM WalkIsComplete ==
    ASSUME NEW L, NEW head \in Commit, NEW stop
    PROVE  LET W == WalkSince(L, head, stop)
           IN  /\ W \subseteq Object
               /\ head # stop => head \in W
               /\ \A o \in W \cap L : Deps[o] \ {stop} \subseteq W
  <1> DEFINE C == NewCommits(L, head, stop)
             T == TreesOf(L, C)
             E == EntriesOf(L, T)
             R == RowsOf(L, E)
             W == WalkSince(L, head, stop)
  <1>w. W = C \cup T \cup E \cup R  BY DEF WalkSince
  <1>c. /\ C \subseteq Commit
        /\ head # stop => head \in C
        /\ \A x \in C \cap L : Parents(x) \ {stop} \subseteq C
    BY CommitsWalked
  <1>t. /\ T \subseteq Tree
        /\ \A x \in (C \cup T) \cap L : Deps[x] \cap Tree \subseteq T
    BY TreesWalked
  <1>e. E = UNION {Deps[t] \ Tree : t \in T \cap L}  BY DEF EntriesOf
  <1>r. R = UNION {Deps[m] : m \in E \cap L}  BY DEF RowsOf
  <1> HIDE DEF C, T, E, R, W
  <1>ct. C \subseteq Object /\ T \subseteq Object
    BY <1>c, <1>t DEF Commit, Tree
  <1>eo. E \subseteq Object  BY <1>ct, <1>e, DepsTyping
  <1>ro. R \subseteq Object  BY <1>eo, <1>r, DepsTyping
  <1>ek. \A x \in E : Kind[x] \in {"manifests", "sidecars", "blobs"}
    <2> SUFFICES ASSUME NEW x \in E
                 PROVE  Kind[x] \in {"manifests", "sidecars", "blobs"}
      OBVIOUS
    <2>1. PICK t \in T \cap L : x \in Deps[t] \ Tree  BY <1>e
    <2>2. Kind[t] = "trees"  BY <1>t DEF Tree
    <2>3. x \in Object /\ Kind[x] \in MayName["trees"]
      BY <2>1, <2>2, <1>ct, DepsTyping
    <2>4. Kind[x] # "trees"  BY <2>1, <2>3 DEF Tree
    <2> QED  BY <2>3, <2>4 DEF MayName, Kinds
  <1>rk. \A x \in R : Kind[x] = "rows"
    <2> SUFFICES ASSUME NEW x \in R PROVE Kind[x] = "rows"
      OBVIOUS
    <2>1. PICK m \in E \cap L : x \in Deps[m]  BY <1>r
    <2>2. Kind[x] \in MayName[Kind[m]]  BY <2>1, <1>eo, DepsTyping
    <2> QED  BY <2>1, <2>2, <1>ek DEF MayName, Kinds
  <1>1. ASSUME NEW o \in W \cap L, NEW d \in Deps[o] \ {stop}
        PROVE  d \in W
    <2>0. o \in Object  BY <1>w, <1>ct, <1>eo, <1>ro
    <2>1. d \in Object /\ Kind[d] \in MayName[Kind[o]]  BY <2>0, DepsTyping
    <2>2. CASE o \in C
      <3>1. Kind[o] = "commits"  BY <2>2, <1>c DEF Commit
      <3>2. Kind[d] \in {"commits", "trees"}
        BY <2>1, <3>1 DEF MayName, Kinds
      <3>3. CASE Kind[d] = "commits"
        <4>1. d \in Parents(o)  BY <2>1, <3>3 DEF Parents, Commit
        <4> QED  BY <4>1, <2>2, <1>c, <1>w
      <3>4. CASE Kind[d] = "trees"
        <4>1. d \in Tree  BY <2>1, <3>4 DEF Tree
        <4> QED  BY <4>1, <2>2, <1>t, <1>w
      <3> QED  BY <3>2, <3>3, <3>4
    <2>3. CASE o \in T
      <3>1. CASE d \in Tree  BY <2>3, <3>1, <1>t, <1>w
      <3>2. CASE d \notin Tree  BY <2>3, <3>2, <1>e, <1>w
      <3> QED  BY <3>1, <3>2
    <2>4. CASE o \in E  BY <2>4, <1>r, <1>w
    <2>5. CASE o \in R
      <3>1. Kind[o] = "rows"  BY <2>5, <1>rk
      <3>2. MayName["rows"] = {}  BY DEF MayName, Kinds
      <3> QED  BY <2>1, <3>1, <3>2
    <2> QED  BY <1>w, <2>2, <2>3, <2>4, <2>5
  <1>2. /\ W \subseteq Object
        /\ head # stop => head \in W
        /\ \A o \in W \cap L : Deps[o] \ {stop} \subseteq W
    BY <1>1, <1>w, <1>ct, <1>eo, <1>ro, <1>c
  <1> QED  BY <1>2 DEF W

(* is_ancestor never says yes without reason: what it calls an ancestor is  *)
(* in the history, whichever part of it the store holds.                    *)
THEOREM AncestorIsSound ==
    ASSUME NEW L, NEW a \in Commit, NEW d \in Commit, IsAncestor(L, a, d)
    PROVE  a \in Reach[d]
  <1> DEFINE S == Reach[d] \cap Commit
  <1>0. d \in Object  BY DEF Commit
  <1>1. CASE a = d  BY <1>0, <1>1, ReachIsHistory
  <1>2. CASE \E c \in NewCommits(L, d, NoCommit) \cap L : a \in Parents(c)
    <2>1. PICK c \in NewCommits(L, d, NoCommit) \cap L : a \in Parents(c)
      BY <1>2
    <2>2. {d} \ {NoCommit} \subseteq S  BY <1>0, ReachIsHistory
    <2>3. \A x \in S \cap L : Parents(x) \ {NoCommit} \subseteq S
      BY <1>0, ReachIsHistory DEF Parents
    <2>4. S \in SUBSET Commit  OBVIOUS
    <2> HIDE DEF S
    <2>5. c \in S  BY <2>1, <2>2, <2>3, <2>4 DEF NewCommits
    <2>6. c \in Reach[d]  BY <2>5 DEF S
    <2> QED  BY <1>0, <2>1, <2>6, ReachIsHistory DEF Parents
  <1> QED  BY <1>1, <1>2 DEF IsAncestor

(* The walkers collect nothing outside the history of the commit they start *)
(* from.                                                                    *)
LEMMA WalkStaysInHistory ==
    ASSUME NEW L, NEW head \in Commit
    PROVE  WalkSince(L, head, NoCommit) \subseteq Reach[head]
  <1> DEFINE H == Reach[head]
             C == NewCommits(L, head, NoCommit)
             T == TreesOf(L, C)
             E == EntriesOf(L, T)
  <1>h. /\ H \subseteq Object /\ head \in H
        /\ \A x \in H : Deps[x] \subseteq H
    BY ReachIsHistory DEF Commit, Closed
  <1>1. C \subseteq H
    <2> DEFINE S == H \cap Commit
    <2>1. S \in SUBSET Commit  OBVIOUS
    <2>2. {head} \ {NoCommit} \subseteq S  BY <1>h
    <2>3. \A x \in S \cap L : Parents(x) \ {NoCommit} \subseteq S
      BY <1>h DEF Parents
    <2> HIDE DEF S, H
    <2>4. C \subseteq S  BY <2>1, <2>2, <2>3 DEF NewCommits
    <2> QED  BY <2>4 DEF S
  <1>2. T \subseteq H
    <2> DEFINE S == H \cap Tree
    <2>1. S \in SUBSET Tree  OBVIOUS
    <2>2. \A x \in (C \cup S) \cap L : Deps[x] \cap Tree \subseteq S
      BY <1>h, <1>1
    <2> HIDE DEF S, H, C
    <2>3. T \subseteq S  BY <2>1, <2>2 DEF TreesOf
    <2> QED  BY <2>3 DEF S
  <1> HIDE DEF H, C, T
  <1>3. E \subseteq H  BY <1>h, <1>2 DEF EntriesOf
  <1>4. RowsOf(L, E) \subseteq H  BY <1>h, <1>3 DEF RowsOf
  <1> QED  BY <1>1, <1>2, <1>3, <1>4 DEF WalkSince, H, C, T

(* `dit fsck` reports no missing object exactly when every ref can be read  *)
(* in full, whatever the store holds.                                       *)
THEOREM FsckIsExact ==
    ASSUME NEW L, NEW roots \in SUBSET Commit
    PROVE  Missing(L, roots) = {} <=> \A r \in roots : Reach[r] \subseteq L
  <1>1. ASSUME Missing(L, roots) = {}, NEW r \in roots
        PROVE  Reach[r] \subseteq L
    <2> DEFINE W == WalkSince(L, r, NoCommit)
    <2>1. W \subseteq L  BY <1>1 DEF Missing
    <2>2. r \in Object /\ NoCommit \notin Object  BY GraphAssumption DEF Commit
    <2>3. /\ W \subseteq Object
          /\ r \in W
          /\ \A o \in W \cap L : Deps[o] \ {NoCommit} \subseteq W
      BY <2>2, WalkIsComplete
    <2> HIDE DEF W
    <2>4. \A o \in W : Deps[o] \subseteq W
      BY <2>1, <2>2, <2>3, GraphAssumption
    <2>5. Reach[r] \subseteq W  BY <2>2, <2>3, <2>4, ReachIsLeast DEF Closed
    <2> QED  BY <2>1, <2>5
  <1>2. ASSUME \A r \in roots : Reach[r] \subseteq L
        PROVE  Missing(L, roots) = {}
    BY <1>2, WalkStaysInHistory DEF Missing
  <1> QED  BY <1>1, <1>2
=============================================================================
