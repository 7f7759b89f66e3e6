-------------------------- MODULE MergeBaseProofs --------------------------
(* What find_merge_base returns, in any history and over any store: the     *)
(* invariant SearchInv, and the two halves of its contract that follow.     *)
(* In the whole history of a dataset this is what DatasetHistory takes for  *)
(* a merge base.                                                            *)
EXTENDS MergeBaseSearch, Integers, WellFoundedInduction, TLAPS

----------------------------------------------------------------------------
(* Elements of the sequences the search works on.                           *)
LEMMA SplitSeq ==
    ASSUME NEW T, NEW s \in Seq(T), s # <<>>
    PROVE  /\ Head(s) \in Range(s) /\ Tail(s) \in Seq(T)
           /\ Range(s) = {Head(s)} \cup Range(Tail(s))
  <1>1. Len(s) \in Nat /\ Len(s) # 0 /\ DOMAIN s = 1..Len(s) /\ Head(s) = s[1]
    OBVIOUS
  <1>2. /\ Tail(s) \in Seq(T) /\ DOMAIN Tail(s) = 1..(Len(s) - 1)
        /\ \A i \in 1..(Len(s) - 1) : Tail(s)[i] = s[i + 1]
    BY <1>1
  <1>3. 1 \in DOMAIN s  BY <1>1
  <1>4. Range(Tail(s)) \subseteq Range(s)
    <2> SUFFICES ASSUME NEW i \in 1..(Len(s) - 1)  PROVE s[i + 1] \in Range(s)
      BY <1>2 DEF Range
    <2>1. i + 1 \in DOMAIN s  BY <1>1
    <2> QED  BY <2>1 DEF Range
  <1>5. Range(s) \subseteq {Head(s)} \cup Range(Tail(s))
    <2> SUFFICES ASSUME NEW i \in DOMAIN s, i # 1  PROVE s[i] \in Range(Tail(s))
      BY <1>1 DEF Range
    <2>1. i - 1 \in DOMAIN Tail(s) /\ Tail(s)[i - 1] = s[i]  BY <1>1, <1>2
    <2> QED  BY <2>1 DEF Range
  <1> QED  BY <1>1, <1>2, <1>3, <1>4, <1>5 DEF Range

LEMMA InAppend ==
    ASSUME NEW T, NEW s \in Seq(T), NEW x \in T
    PROVE  Append(s, x) \in Seq(T) /\ Range(Append(s, x)) = Range(s) \cup {x}
  <1>1. /\ Append(s, x) \in Seq(T) /\ DOMAIN Append(s, x) = 1..(Len(s) + 1)
        /\ \A i \in 1..Len(s) : Append(s, x)[i] = s[i]
        /\ Append(s, x)[Len(s) + 1] = x
        /\ DOMAIN s = 1..Len(s) /\ Len(s) \in Nat
    OBVIOUS
  <1>2. Range(Append(s, x)) \subseteq Range(s) \cup {x}
    <2> SUFFICES ASSUME NEW i \in 1..(Len(s) + 1)  PROVE Append(s, x)[i] \in Range(s) \cup {x}
      BY <1>1 DEF Range
    <2>1. CASE i = Len(s) + 1  BY <1>1, <2>1
    <2>2. CASE i \in 1..Len(s)  BY <1>1, <2>2 DEF Range
    <2> QED  BY <1>1, <2>1, <2>2
  <1>3. Range(s) \cup {x} \subseteq Range(Append(s, x))
    <2>1. Len(s) + 1 \in DOMAIN Append(s, x)  BY <1>1
    <2>2. \A i \in DOMAIN s : i \in DOMAIN Append(s, x)  BY <1>1
    <2> QED  BY <1>1, <2>1, <2>2 DEF Range
  <1> QED  BY <1>1, <1>2, <1>3

LEMMA EmptySeq ==
    ASSUME NEW T, NEW s \in Seq(T), s = <<>>
    PROVE  Range(s) = {}
  <1>1. Len(s) = 0 /\ DOMAIN s = 1..Len(s)  OBVIOUS
  <1> QED  BY <1>1 DEF Range

(* Ancestors(c) has c and, with each commit the store holds, its parents;   *)
(* and it is the least such set.                                            *)
LEMMA AncestorsGrow ==
    ASSUME NEW c \in Commit, NEW y \in Ancestors(c), y \in held,
           parents \in [Commit -> Seq(Commit)]
    PROVE  Range(parents[y]) \subseteq Ancestors(c)
  <1>1. y \in Commit  BY DEF Ancestors
  <1>2. Range(parents[y]) \subseteq Commit  BY <1>1 DEF Range
  <1> QED  BY <1>2 DEF Ancestors

LEMMA AncestorsLeast ==
    ASSUME NEW c \in Commit, NEW S \in SUBSET Commit, c \in S,
           \A y \in S \cap held : Range(parents[y]) \subseteq S
    PROVE  Ancestors(c) \subseteq S
  BY DEF Ancestors

LEMMA SelfAncestor == \A c \in Commit : c \in Ancestors(c)
  BY DEF Ancestors

----------------------------------------------------------------------------
LEMMA SearchStarts == Init => SearchInv
  <1> SUFFICES ASSUME Init  PROVE SearchInv
    OBVIOUS
  <1>1. TypeOK
    <2>1. parents \in [Commit -> Seq(Commit)] /\ held \subseteq Commit
      BY MergeBaseAssumption DEF Init
    <2>2. \A s \in Side : <<tip[s]>> \in Seq(Commit)  BY DEF Init
    <2> QED  BY <2>1, <2>2 DEF Init, TypeOK, Side
  <1>2. \A s \in Side :
            tip[s] \in met[s] /\ met[s] \subseteq Ancestors(tip[s]) /\ Range(queue[s]) = met[s]
    <2> SUFFICES ASSUME NEW s \in Side
                 PROVE  /\ tip[s] \in met[s] /\ met[s] \subseteq Ancestors(tip[s])
                        /\ Range(queue[s]) = met[s]
      OBVIOUS
    <2>1. tip[s] \in Commit /\ met[s] = {tip[s]} /\ queue[s] = <<tip[s]>>  BY DEF Init
    <2>2. Range(<<tip[s]>>) = {tip[s]}  BY DEF Range
    <2> QED  BY <2>1, <2>2, SelfAncestor
  <1>3. Range(rest) = {}
    <2>1. rest = <<>>  BY DEF Init
    <2>2. rest \in Seq(Commit)  BY <1>1 DEF TypeOK
    <2> QED  BY <2>1, <2>2, EmptySeq
  <1>4. \A s \in Side : LookedThrough(s)  BY <1>2 DEF LookedThrough
  <1>5. found # None => ended /\ found \in Common
    <2>1. tip["a"] \in Commit /\ tip["b"] \in Commit  BY DEF Init, Side
    <2> QED  BY <2>1, SelfAncestor DEF Init, Common
  <1>6. found = None => met["a"] \cap met["b"] = {} /\ ~ended
    <2>1. tip["a"] \in Commit /\ met["a"] = {tip["a"]} /\ met["b"] = {tip["b"]}
      BY DEF Init, Side
    <2> QED  BY <2>1, MergeBaseAssumption DEF Init
  <1> QED  BY <1>1, <1>2, <1>3, <1>4, <1>5, <1>6 DEF SearchInv

LEMMA OtherSide ==
    /\ \A s \in Side : Other[s] \in Side /\ Other[s] # s /\ Other[Other[s]] = s
    /\ \A s, t \in Side : t # s => t = Other[s]
    /\ "a" \in Side /\ "b" \in Side /\ Other["a"] = "b"
  BY DEF Side, Other

(* What both sides have met, said of the side whose turn it is.             *)
LEMMA Apart ==
    ASSUME TypeOK
    PROVE  /\ (met["a"] \cap met["b"] = {}) <=> (met[turn] \cap met[Other[turn]] = {})
           /\ Common = Ancestors(tip[turn]) \cap Ancestors(tip[Other[turn]])
  BY DEF TypeOK, Side, Other, Common

LEMMA SearchStep == SearchInv /\ [Next]_vars => SearchInv'
  <1> SUFFICES ASSUME SearchInv, [Next]_vars  PROVE SearchInv'
    OBVIOUS
  <1>0. TypeOK  BY DEF SearchInv
  <1>1. CASE Pop
    <2> DEFINE current == Head(queue[turn])
    <2>1. /\ ~ended /\ rest = <<>> /\ queue[turn] # <<>> /\ turn \in Side
          /\ queue' = [queue EXCEPT ![turn] = Tail(@)]
          /\ UNCHANGED <<parents, held, tip, met>>
      BY <1>0, <1>1 DEF Pop, TypeOK
    <2>2. /\ current \in Range(queue[turn]) /\ Tail(queue[turn]) \in Seq(Commit)
          /\ Range(queue[turn]) = {current} \cup Range(Tail(queue[turn]))
      BY <1>0, <2>1, SplitSeq DEF TypeOK
    <2>3. current \in met[turn] /\ current \in Commit /\ current \in Ancestors(tip[turn])
      BY <1>0, <2>1, <2>2 DEF SearchInv, TypeOK
    <2>4. found = None /\ ~MetByTheOther(current)
      BY <1>0, <2>1, <2>3, Apart DEF SearchInv, MetByTheOther
    <2>5. /\ rest' = IF current \in held THEN parents[current] ELSE <<>>
          /\ turn' = IF rest' = <<>> THEN Other[turn] ELSE turn
          /\ ended' = ended /\ found' = found
      BY <1>1, <2>4 DEF Pop, GoOn, Continue
    <2> HIDE DEF current
    <2>6. /\ rest' \in Seq(Commit) /\ turn' \in Side
          /\ Range(rest') \subseteq Ancestors(tip[turn])
      BY <1>0, <2>1, <2>3, <2>5, AncestorsGrow, EmptySeq, OtherSide DEF TypeOK
    <2>7. TypeOK'  BY <1>0, <2>1, <2>2, <2>5, <2>6 DEF TypeOK
    <2>8. \A s \in Side : Range(queue'[s]) \subseteq Range(queue[s])
      BY <1>0, <2>1, <2>2 DEF TypeOK
    <2>9. \A s \in Side : LookedThrough(s)'
      <3> SUFFICES ASSUME NEW s \in Side, NEW c \in (met[s] \cap held) \ Range(queue'[s])
                   PROVE  Range(parents[c]) \subseteq
                              met[s] \cup (IF s = turn' THEN Range(rest') ELSE {})
        BY <2>1 DEF LookedThrough
      <3>1. CASE s = turn /\ c = current
        <4>1. rest' = parents[c]  BY <2>5, <3>1
        <4>2. rest' = <<>> => Range(rest') = {}  BY <2>6, EmptySeq
        <4> QED  BY <2>5, <3>1, <4>1, <4>2
      <3>2. CASE ~(s = turn /\ c = current)
        <4>1. c \notin Range(queue[s])
          BY <1>0, <2>1, <2>2, <3>2 DEF TypeOK
        <4>2. Range(rest) = {}  BY <1>0, <2>1, EmptySeq DEF TypeOK
        <4>3. LookedThrough(s)  BY <2>4 DEF SearchInv
        <4> QED  BY <4>1, <4>2, <4>3 DEF LookedThrough
      <3> QED  BY <3>1, <3>2
    <2>10. Range(rest)' \subseteq Ancestors(tip[turn])'
      <3>1. rest' # <<>> => turn' = turn  BY <2>5
      <3>2. rest' = <<>> => Range(rest') = {}  BY <2>6, EmptySeq
      <3>3. \A s \in Side : Ancestors(tip[s])' = Ancestors(tip[s])  BY <2>1 DEF Ancestors
      <3> QED  BY <2>1, <2>6, <3>1, <3>2, <3>3
    <2>11. \A s \in Side : /\ tip'[s] \in met'[s] /\ met'[s] \subseteq Ancestors(tip[s])'
                            /\ Range(queue'[s]) \subseteq met'[s]
      <3>1. \A s \in Side : Ancestors(tip[s])' = Ancestors(tip[s])  BY <2>1 DEF Ancestors
      <3> QED  BY <2>1, <2>8, <3>1 DEF SearchInv
    <2> QED  BY <2>1, <2>4, <2>5, <2>7, <2>9, <2>10, <2>11 DEF SearchInv
  <1>2. ASSUME See, NEW parent \in {Head(rest)}, SeeNew(parent)  PROVE SearchInv'
    <2>1. /\ ~ended /\ rest # <<>> /\ turn \in Side /\ UNCHANGED <<parents, held, tip>>
          /\ met' = [met EXCEPT ![turn] = @ \cup {parent}]
          /\ queue' = [queue EXCEPT ![turn] = Append(@, parent)]
      BY <1>0, <1>2 DEF See, SeeNew, TypeOK
    <2>2. /\ parent \in Range(rest) /\ Tail(rest) \in Seq(Commit)
          /\ Range(rest) = {parent} \cup Range(Tail(rest))
      BY <1>0, <2>1, SplitSeq DEF TypeOK
    <2>3. parent \in Commit /\ parent \in Ancestors(tip[turn])
      BY <2>2 DEF SearchInv, Ancestors
    <2>4. found = None /\ met["a"] \cap met["b"] = {}
      BY <2>1 DEF SearchInv
    <2>5. \A s \in Side : Ancestors(tip[s])' = Ancestors(tip[s])  BY <2>1 DEF Ancestors
    <2>6. /\ queue'[turn] \in Seq(Commit) /\ Range(queue'[turn]) = Range(queue[turn]) \cup {parent}
          /\ \A s \in Side \ {turn} : queue'[s] = queue[s] /\ met'[s] = met[s]
          /\ met'[turn] = met[turn] \cup {parent}
      BY <1>0, <2>1, <2>3, InAppend DEF TypeOK
    <2>7. \A s \in Side : /\ tip'[s] \in met'[s] /\ met'[s] \subseteq Ancestors(tip[s])'
                           /\ Range(queue'[s]) \subseteq met'[s]
      BY <2>1, <2>3, <2>5, <2>6 DEF SearchInv
    <2>8. /\ queue' \in [Side -> Seq(Commit)] /\ met' \in [Side -> SUBSET Commit]
      BY <1>0, <2>1, <2>3, <2>6 DEF TypeOK
    <2>9. CASE MetByTheOther(parent)
      <3>1. ended' = TRUE /\ found' = parent /\ rest' = <<>> /\ turn' = turn
        BY <1>2, <2>9 DEF SeeNew, Return
      <3>2. <<>> \in Seq(Commit)  OBVIOUS
      <3>3. TypeOK'  BY <1>0, <2>1, <2>3, <2>8, <3>1, <3>2 DEF TypeOK
      <3>4. parent \in Ancestors(tip[Other[turn]])
        BY <2>1, <2>9, OtherSide DEF SearchInv, MetByTheOther
      <3>5. parent \in Common'
        BY <1>0, <2>3, <2>5, <3>4, Apart, OtherSide DEF Common
      <3>6. Range(rest)' = {}  BY <3>1, <3>2, EmptySeq
      <3>7. found' # None  BY <2>3, <3>1, MergeBaseAssumption
      <3> QED  BY <2>7, <3>1, <3>3, <3>5, <3>6, <3>7 DEF SearchInv
    <2>10. CASE ~MetByTheOther(parent)
      <3>1. /\ rest' = Tail(rest) /\ ended' = ended /\ found' = found
            /\ turn' = IF rest' = <<>> THEN Other[turn] ELSE turn
            /\ parent = Head(rest)
        BY <1>2, <2>10 DEF SeeNew, GoOn, Continue
      <3>2. TypeOK'
        BY <1>0, <2>1, <2>2, <2>8, <3>1, OtherSide DEF TypeOK
      <3>3. rest' = <<>> => Range(rest)' = {}
        <4> SUFFICES ASSUME rest' = <<>>  PROVE Range(rest)' = {}
          OBVIOUS
        <4>1. rest' \in Seq(Commit)  BY <2>2, <3>1
        <4> QED  BY <4>1, EmptySeq
      <3>4. Range(rest)' \subseteq Ancestors(tip[turn])'
        BY <2>1, <2>2, <2>5, <3>1, <3>3 DEF SearchInv
      <3>5. met["a"]' \cap met["b"]' = {}
        <4>1. met'[turn] \cap met'[Other[turn]] = {}
          BY <1>0, <2>1, <2>4, <2>6, <2>10, Apart, OtherSide DEF MetByTheOther
        <4> QED  BY <2>1, <2>6, <4>1, OtherSide DEF Side
      <3>6. \A s \in Side : LookedThrough(s)'
        <4> SUFFICES ASSUME NEW s \in Side,
                            NEW c \in (met'[s] \cap held) \ Range(queue'[s])
                     PROVE  Range(parents[c]) \subseteq
                                met'[s] \cup (IF s = turn' THEN Range(rest') ELSE {})
          BY <2>1 DEF LookedThrough
        <4>1. c \in (met[s] \cap held) \ Range(queue[s])  BY <2>6
        <4>2. LookedThrough(s)  BY <2>4 DEF SearchInv
        <4>3. Range(parents[c]) \subseteq met[s] \cup (IF s = turn THEN Range(rest) ELSE {})
          BY <4>1, <4>2 DEF LookedThrough
        <4>4. CASE s = turn  BY <2>2, <2>6, <3>1, <3>3, <4>3, <4>4
        <4>5. CASE s # turn  BY <2>6, <4>3, <4>5
        <4> QED  BY <4>4, <4>5
      <3> QED  BY <2>1, <2>4, <2>7, <3>1, <3>2, <3>4, <3>5, <3>6 DEF SearchInv
    <2> QED  BY <2>9, <2>10
  <1>3. ASSUME See, NEW parent \in {Head(rest)}, SeeKnown(parent)  PROVE SearchInv'
    <2>1. /\ ~ended /\ rest # <<>> /\ turn \in Side /\ parent \in met[turn]
          /\ UNCHANGED <<parents, held, tip, queue, met, ended, found>>
          /\ rest' = Tail(rest)
          /\ turn' = IF rest' = <<>> THEN Other[turn] ELSE turn
      BY <1>0, <1>3 DEF See, SeeKnown, GoOn, Continue, TypeOK
    <2>2. rest' \in Seq(Commit) /\ Range(rest) = {parent} \cup Range(rest')
      BY <1>0, <2>1, SplitSeq DEF TypeOK
    <2>3. TypeOK'  BY <1>0, <2>1, <2>2, OtherSide DEF TypeOK
    <2>4. rest' = <<>> => Range(rest') = {}
      <3> SUFFICES ASSUME rest' = <<>>  PROVE Range(rest') = {}
        OBVIOUS
      <3> QED  BY <2>2, EmptySeq
    <2>5. \A s \in Side : Ancestors(tip[s])' = Ancestors(tip[s])  BY <2>1 DEF Ancestors
    <2>6. Range(rest)' \subseteq Ancestors(tip[turn])'
      BY <2>1, <2>2, <2>4, <2>5 DEF SearchInv
    <2>7. \A s \in Side : LookedThrough(s)'
      <3> SUFFICES ASSUME NEW s \in Side, NEW c \in (met[s] \cap held) \ Range(queue[s])
                   PROVE  Range(parents[c]) \subseteq
                              met[s] \cup (IF s = turn' THEN Range(rest') ELSE {})
        BY <2>1 DEF LookedThrough
      <3>1. LookedThrough(s)  BY <2>1 DEF SearchInv
      <3>2. Range(parents[c]) \subseteq met[s] \cup (IF s = turn THEN Range(rest) ELSE {})
        BY <3>1 DEF LookedThrough
      <3>3. CASE s = turn  BY <2>1, <2>2, <2>4, <3>2, <3>3
      <3>4. CASE s # turn  BY <3>2, <3>4
      <3> QED  BY <3>3, <3>4
    <2> QED  BY <2>1, <2>3, <2>5, <2>6, <2>7 DEF SearchInv
  <1>4. CASE Skip
    <2>1. /\ ~ended /\ rest = <<>> /\ turn' = Other[turn]
          /\ UNCHANGED <<parents, held, tip, queue, met, rest, ended, found>>
      BY <1>4 DEF Skip
    <2>2. Range(rest) = {} /\ Range(rest)' = {}
      <3>1. rest \in Seq(Commit)  BY <1>0 DEF TypeOK
      <3> QED  BY <2>1, <3>1, EmptySeq
    <2>3. TypeOK'  BY <1>0, <2>1, OtherSide DEF TypeOK
    <2>4. \A s \in Side : Ancestors(tip[s])' = Ancestors(tip[s])  BY <2>1 DEF Ancestors
    <2>5. \A s \in Side : LookedThrough(s)'
      BY <2>1, <2>2 DEF SearchInv, LookedThrough
    <2> QED  BY <2>1, <2>2, <2>3, <2>4, <2>5 DEF SearchInv
  <1>5. CASE GiveUp \/ UNCHANGED vars
    <2>1. /\ UNCHANGED <<parents, held, tip, queue, met, turn, rest, found>>
          /\ \/ ended' = ended
             \/ ended' = TRUE /\ ~ended /\ rest = <<>> /\ \A s \in Side : queue[s] = <<>>
      BY <1>5 DEF GiveUp, vars
    <2>2. TypeOK'  BY <1>0, <2>1 DEF TypeOK
    <2>3. Common' = Common /\ \A s \in Side : Ancestors(tip[s])' = Ancestors(tip[s])
      BY <2>1 DEF Ancestors, Common
    <2>4. \A s \in Side : LookedThrough(s) => LookedThrough(s)'
      BY <2>1 DEF LookedThrough
    <2>5. Ancestors(tip[turn])' = Ancestors(tip[turn])  BY <2>1 DEF Ancestors
    <2> QED  BY <2>1, <2>2, <2>3, <2>4, <2>5 DEF SearchInv
  <1> QED  BY <1>1, <1>2, <1>3, <1>4, <1>5 DEF Next, See

----------------------------------------------------------------------------
(* The invariant of find_merge_base (merge_base.py): while it searches the  *)
(* two sets of ancestors are disjoint and hold all they should.             *)
THEOREM SearchKeeps == Spec => []SearchInv
  BY SearchStarts, SearchStep, PTL DEF Spec

(* What find_merge_base returns is an ancestor of both commits: no merge    *)
(* starts from a foreign base, no push that leaves the head is let through. *)
THEOREM BaseSound == Spec => []BaseIsCommon
  <1>1. SearchInv => BaseIsCommon  BY DEF SearchInv, BaseIsCommon
  <1> QED  BY SearchKeeps, <1>1, PTL

(* find_merge_base returns None only if the commits share no ancestor the   *)
(* store could show: each set, once its queue is empty, has them all.       *)
THEOREM BaseComplete == Spec => []NoneMeansUnrelated
  <1>1. SearchInv => NoneMeansUnrelated
    <2> SUFFICES ASSUME SearchInv, ended, found = None  PROVE Common = {}
      BY DEF NoneMeansUnrelated
    <2>1. TypeOK  BY DEF SearchInv
    <2>2. ASSUME NEW s \in Side  PROVE Ancestors(tip[s]) \subseteq met[s]
      <3>1. LookedThrough(s) /\ rest = <<>> /\ queue[s] = <<>> /\ tip[s] \in met[s]
        BY DEF SearchInv
      <3>2. rest \in Seq(Commit) /\ queue[s] \in Seq(Commit)  BY <2>1 DEF TypeOK
      <3>3. Range(rest) = {} /\ Range(queue[s]) = {}  BY <3>1, <3>2, EmptySeq
      <3>4. \A y \in met[s] \cap held : Range(parents[y]) \subseteq met[s]
        BY <3>1, <3>3 DEF LookedThrough
      <3>5. tip[s] \in Commit /\ met[s] \in SUBSET Commit  BY <2>1 DEF TypeOK
      <3> QED  BY <3>1, <3>4, <3>5, AncestorsLeast
    <2>3. met["a"] \cap met["b"] = {}  BY DEF SearchInv
    <2> QED  BY <2>2, <2>3, OtherSide DEF Common
  <1> QED  BY SearchKeeps, <1>1, PTL

----------------------------------------------------------------------------
(* The search in a history of DatasetHistory, as the merge routes run it:   *)
(* over the commits there are when it starts, all of them in the store.     *)
CONSTANTS Row, QueryOf, NoQuery, Blob, NoFile, Path, Content, MaxEdits, MaxCommits,
          commits   \* the history when the search starts

History == INSTANCE DatasetHistory

SearchedWhole ==
    /\ History!HistoryTypeOK
    /\ Commit = DOMAIN commits /\ None = 0
    /\ Histories = {[c \in Commit |-> commits[c].parents]} /\ Stores = {Commit}

LEMMA Least ==
    ASSUME NEW S \in SUBSET Nat, S # {}
    PROVE  \E x \in S : \A y \in S : x <= y
  <1>1. PICK x \in S : \A y \in S : ~(<<y, x>> \in OpToRel(<, Nat))
    BY NatLessThanWellFounded, WFMin
  <1>2. \A y \in S : ~ (y < x)
    BY <1>1 DEF OpToRel
  <1> QED  BY <1>2

(* The part of HistoryTypeOK about ancestors, in the words of the search.   *)
LEMMA WholeHistory ==
    ASSUME SearchedWhole, parents = [c \in Commit |-> commits[c].parents]
    PROVE  /\ Commit \subseteq Nat
           /\ \A c \in Commit :
                 /\ \A q \in Range(parents[c]) : q \in Commit /\ q < c
                 /\ commits[c].anc \subseteq Commit
                 /\ commits[c].anc = {c} \cup UNION {commits[q].anc : q \in Range(parents[c])}
  <1>1. Commit = 1..Len(commits) /\ Len(commits) \in Nat
    BY DEF SearchedWhole, History!HistoryTypeOK
  <1>2. ASSUME NEW c \in Commit
        PROVE  /\ Range(parents[c]) \subseteq 1..(c - 1)
               /\ commits[c].anc \subseteq 1..c
               /\ commits[c].anc = {c} \cup UNION {commits[q].anc : q \in Range(parents[c])}
    <2>1. Range(parents[c]) = History!RowsOf(History!ParentsOf(c))
      BY DEF Range, History!RowsOf, History!ParentsOf
    <2>2. c \in DOMAIN commits  BY DEF SearchedWhole
    <2> QED  BY <2>1, <2>2 DEF SearchedWhole, History!HistoryTypeOK, History!ParentsOf
  <1>3. \A c \in Commit : 1..c \subseteq Commit /\ \A q \in 1..(c - 1) : q \in Commit /\ q < c
    BY <1>1
  <1>4. Commit \subseteq Nat  BY <1>1
  <1>5. ASSUME NEW c \in Commit  PROVE \A q \in Range(parents[c]) : q \in Commit /\ q < c
    BY <1>2, <1>3
  <1>6. ASSUME NEW c \in Commit  PROVE commits[c].anc \subseteq Commit
    BY <1>2, <1>3
  <1> QED  BY <1>2, <1>4, <1>5, <1>6

(* Every commit has the ancestors of its ancestors.                         *)
LEMMA AncNested ==
    ASSUME SearchedWhole, parents = [c \in Commit |-> commits[c].parents]
    PROVE  \A c \in Commit : \A x \in commits[c].anc : commits[x].anc \subseteq commits[c].anc
  <1> DEFINE Bad == {c \in Commit : \E x \in commits[c].anc : ~(commits[x].anc \subseteq commits[c].anc)}
  <1> SUFFICES ASSUME Bad # {}  PROVE FALSE
    OBVIOUS
  <1>1. PICK c \in Bad : \A d \in Bad : c <= d
    <2>1. Bad \in SUBSET Nat  BY WholeHistory
    <2> HIDE DEF Bad
    <2> QED  BY <2>1, Least
  <1>2. PICK x \in commits[c].anc : ~(commits[x].anc \subseteq commits[c].anc)
    BY <1>1
  <1>3. PICK q \in Range(parents[c]) : x \in commits[q].anc
    BY <1>1, <1>2, WholeHistory
  <1>4. q \in Commit /\ q < c /\ commits[q].anc \subseteq commits[c].anc
    BY <1>1, WholeHistory
  <1>5. q \notin Bad
    <2>1. c \in Nat /\ q \in Nat  BY <1>1, <1>4, WholeHistory
    <2> QED  BY <1>1, <1>4, <2>1
  <1>6. commits[x].anc \subseteq commits[q].anc  BY <1>3, <1>4, <1>5
  <1> QED  BY <1>2, <1>4, <1>6

LEMMA AncestorsTransitive ==
    ASSUME NEW c \in Commit, NEW q \in Ancestors(c)
    PROVE  Ancestors(q) \subseteq Ancestors(c)
  <1> SUFFICES ASSUME NEW x \in Ancestors(q), NEW S \in SUBSET Commit, c \in S,
                      \A y \in S \cap held : Range(parents[y]) \subseteq S
               PROVE  x \in S
    BY DEF Ancestors
  <1>1. q \in S  BY DEF Ancestors
  <1> QED  BY <1>1 DEF Ancestors

(* In a whole store the search sees the ancestors each commit was made      *)
(* with: a closed set that the least one is compared with, and back.        *)
LEMMA AncestorsOfTheHistory ==
    ASSUME SearchedWhole, held = Commit, parents \in [Commit -> Seq(Commit)],
           parents = [c \in Commit |-> commits[c].parents]
    PROVE  \A c \in Commit : Ancestors(c) = commits[c].anc
  <1>1. ASSUME NEW c \in Commit  PROVE Ancestors(c) \subseteq commits[c].anc
    <2>1. c \in commits[c].anc /\ commits[c].anc \in SUBSET Commit  BY WholeHistory
    <2>2. ASSUME NEW y \in commits[c].anc  PROVE Range(parents[y]) \subseteq commits[c].anc
      <3>1. y \in Commit /\ commits[y].anc \subseteq commits[c].anc  BY <2>1, AncNested
      <3>2. \A q \in Range(parents[y]) : q \in commits[q].anc  BY <3>1, WholeHistory
      <3>3. Range(parents[y]) \subseteq commits[y].anc  BY <3>1, <3>2, WholeHistory
      <3> QED  BY <3>1, <3>3
    <2> QED  BY <2>1, <2>2, AncestorsLeast
  <1> DEFINE Bad == {c \in Commit : ~(commits[c].anc \subseteq Ancestors(c))}
  <1>2. Bad = {}
    <2> SUFFICES ASSUME Bad # {}  PROVE FALSE
      OBVIOUS
    <2>1. PICK c \in Bad : \A d \in Bad : c <= d
      <3>1. Bad \in SUBSET Nat  BY WholeHistory
      <3> HIDE DEF Bad
      <3> QED  BY <3>1, Least
    <2>2. c \in Commit /\ c \in Ancestors(c)  BY <2>1, SelfAncestor
    <2>3. PICK x \in commits[c].anc : x \notin Ancestors(c)  BY <2>1
    <2>4. PICK q \in Range(parents[c]) : x \in commits[q].anc
      BY <2>2, <2>3, WholeHistory
    <2>5. q \in Commit /\ q < c /\ q \in Nat /\ c \in Nat  BY <2>2, WholeHistory
    <2>6. commits[q].anc \subseteq Ancestors(q)  BY <2>1, <2>5
    <2>7. q \in Ancestors(c)  BY <2>2, <2>4, AncestorsGrow
    <2> QED  BY <2>2, <2>3, <2>4, <2>6, <2>7, AncestorsTransitive
  <1> QED  BY <1>1, <1>2

(* The history stays what it was; and for one commit against itself the     *)
(* answer is given before the search begins.                                *)
AsAsked ==
    /\ parents = [c \in Commit |-> commits[c].parents] /\ held = Commit
    /\ tip["a"] = tip["b"] => ended /\ found = tip["a"]

LEMMA StaysAsAsked ==
    ASSUME SearchedWhole
    PROVE  Spec => []AsAsked
  <1>1. Init => AsAsked  BY DEF Init, SearchedWhole, AsAsked
  <1>2. AsAsked /\ [Next]_vars => AsAsked'
    BY DEF AsAsked, Next, Pop, See, SeeNew, SeeKnown, Skip, GiveUp, GoOn, Continue, Return, vars
  <1> QED  BY <1>1, <1>2, PTL DEF Spec

(* What find_merge_base returns is one of the bases that DatasetHistory lets *)
(* a merge start from, and the commit itself when both sides are one: the    *)
(* theorems about merges hold of the merges dit makes.                       *)
THEOREM FindsAMergeBase ==
    ASSUME SearchedWhole
    PROVE  Spec => [](ended => /\ found \in History!MergeBases(tip["a"], tip["b"])
                               /\ tip["a"] = tip["b"] => found = tip["a"])
  <1>1. SearchInv /\ BaseIsCommon /\ NoneMeansUnrelated /\ AsAsked
          => (ended => /\ found \in History!MergeBases(tip["a"], tip["b"])
                       /\ tip["a"] = tip["b"] => found = tip["a"])
    <2> SUFFICES ASSUME SearchInv, BaseIsCommon, NoneMeansUnrelated, AsAsked, ended
                 PROVE  /\ found \in History!MergeBases(tip["a"], tip["b"])
                        /\ tip["a"] = tip["b"] => found = tip["a"]
      OBVIOUS
    <2>1. parents \in [Commit -> Seq(Commit)] /\ tip["a"] \in Commit /\ tip["b"] \in Commit
      BY DEF SearchInv, TypeOK, Side
    <2>2. Common = commits[tip["a"]].anc \cap commits[tip["b"]].anc
      BY <2>1, AncestorsOfTheHistory DEF Common, AsAsked
    <2>3. found \in History!MergeBases(tip["a"], tip["b"])
      <3>1. CASE found = None
        <4>1. Common = {} /\ None = 0  BY <3>1 DEF NoneMeansUnrelated, SearchedWhole
        <4> QED  BY <2>2, <3>1, <4>1 DEF History!MergeBases
      <3>2. CASE found # None
        <4>1. found \in Common  BY <3>2 DEF BaseIsCommon
        <4> QED  BY <2>2, <4>1 DEF History!MergeBases
      <3> QED  BY <3>1, <3>2
    <2> QED  BY <2>3 DEF AsAsked
  <1>2. Spec => []AsAsked  BY StaysAsAsked
  <1> QED  BY SearchKeeps, BaseSound, BaseComplete, <1>1, <1>2, PTL
=============================================================================
