------------------------- MODULE WorkingCopyProofs -------------------------
(* A working copy loses nothing it should keep, for any files, branches and *)
(* history, any number of commands, and wherever the process dies.  The     *)
(* invariant is WorkTypeOK /\ WInv: what a command has still to do fits     *)
(* what it read, so each effect can be judged when it happens.              *)
EXTENDS WorkingCopy, TLAPS

----------------------------------------------------------------------------
(* Effects, and how a command goes through them.                            *)
LEMMA TailOf ==
    ASSUME NEW S, NEW s \in Seq(S), s # <<>>
    PROVE  /\ Len(s) \in Nat \ {0} /\ Tail(s) \in Seq(S) /\ Len(Tail(s)) = Len(s) - 1
           /\ \A i \in 1..(Len(s) - 1) : Tail(s)[i] = s[i + 1]
           /\ s[1] \in S
  OBVIOUS

LEMMA Advance ==
    ASSUME WorkTypeOK, cmd.todo # <<>>, Proceed
    PROVE  /\ cmd' \in [name : Names, clean : BOOLEAN, todo : Seq(EffectType)]
           /\ \/ Len(cmd.todo) = 1 /\ cmd' = Done /\ cmd'.todo = <<>>
              \/ /\ cmd'.name = cmd.name /\ cmd'.clean = cmd.clean
                 /\ Len(cmd.todo) \in Nat /\ Len(cmd.todo) > 1 /\ cmd'.todo # <<>>
                 /\ Len(cmd'.todo) = Len(cmd.todo) - 1
                 /\ \A i \in 1..Len(cmd'.todo) : cmd'.todo[i] = cmd.todo[i + 1]
  <1> DEFINE s == cmd.todo
  <1>1. s \in Seq(EffectType) /\ cmd.name \in Names /\ cmd.clean \in BOOLEAN
    BY DEF WorkTypeOK
  <1> HIDE DEF s
  <1>2. /\ Len(s) \in Nat \ {0} /\ Tail(s) \in Seq(EffectType) /\ Len(Tail(s)) = Len(s) - 1
        /\ \A i \in 1..(Len(s) - 1) : Tail(s)[i] = s[i + 1]
    BY <1>1, TailOf DEF s
  <1>3. CASE Len(s) = 1
    <2>1. cmd' = Done  BY <1>3 DEF Proceed, s
    <2>2. cmd' \in [name : Names, clean : BOOLEAN, todo : Seq(EffectType)]
      BY <2>1 DEF Done, Names
    <2>3. cmd'.todo = <<>>  BY <2>1 DEF Done
    <2> QED  BY <1>3, <2>1, <2>2, <2>3 DEF s
  <1>4. CASE Len(s) # 1
    <2>1. cmd' = [cmd EXCEPT !.todo = Tail(s)]  BY <1>4 DEF Proceed, s
    <2>2. cmd'.todo = Tail(s) /\ cmd'.name = cmd.name /\ cmd'.clean = cmd.clean
      BY <2>1 DEF WorkTypeOK
    <2>3. cmd' \in [name : Names, clean : BOOLEAN, todo : Seq(EffectType)]
      BY <2>1, <1>2 DEF WorkTypeOK
    <2>4. Len(s) > 1 /\ Len(Tail(s)) # 0  BY <1>2, <1>4
    <2> DEFINE t == Tail(s)
    <2>6. Len(t) # 0  BY <2>4
    <2> HIDE DEF t
    <2>7. t # <<>>  BY <2>6
    <2>5. Tail(s) # <<>>  BY <2>7 DEF t
    <2> QED  BY <1>2, <2>2, <2>3, <2>4, <2>5 DEF s
  <1> QED  BY <1>3, <1>4

LEMMA StepTyped ==
    ASSUME WorkTypeOK, cmd.todo # <<>>
    PROVE  /\ Step.do = "write" => Step.files \in FileSet
           /\ Step.do = "branch" => Step.branch \in Branch /\ Step.commit \in Known
           /\ Step.do = "head" => Step.branch \in Branch
           /\ Step.do = "stage" => Step.index \in Index
           /\ Step.do = "pend" => Step.kind \in {"merge", "pick"} /\ Step.commit \in Known
           /\ Step.do = "note" => Step.conflicts \in [base : Known, ours : Known]
           /\ Step.do = "sparse" => Step.paths \in SUBSET Path
  <1>1. Step \in EffectType  BY TailOf DEF WorkTypeOK, Step
  <1> QED  BY <1>1 DEF EffectType

LEMMA NothingToDo ==
    ASSUME cmd.todo = <<>>
    PROVE  WInv
  <1>1. \A d : Rest(d) = {}  BY DEF Rest
  <1> QED  BY <1>1 DEF WInv, BranchFacts, WriteFacts, StageFacts, CleanFacts

LEMMA NothingLeftToDo ==
    ASSUME cmd'.todo = <<>>
    PROVE  WInv'
  <1>1. \A d : Rest(d)' = {}  BY DEF Rest
  <1> QED  BY <1>1 DEF WInv, BranchFacts, WriteFacts, StageFacts, CleanFacts

LEMMA Starts == Init => WorkTypeOK /\ WInv
  <1> SUFFICES ASSUME Init  PROVE WorkTypeOK /\ WInv
    OBVIOUS
  <1>1. cmd.todo = <<>>  BY DEF Init, Idle
  <1>2. cmd \in [name : Names, clean : BOOLEAN, todo : Seq(EffectType)]
    BY DEF Init, Idle, Names
  <1>3. /\ commits \in Seq([first : Nat, anc : SUBSET Nat, tree : [Path -> Entry]])
        /\ \A c \in Commit :
              /\ commits[c].first < c
              /\ c \in commits[c].anc /\ commits[c].anc \subseteq 1..c
    BY WorkAssumption DEF Init, Commit
  <1>4. refs \in [Branch -> Known] /\ head \in Branch /\ Tip # 0
    BY WorkAssumption DEF Init, Known, Tip
  <1>5. index \in Index  BY DEF Init, Empty, Index
  <1>6. work \in [Path -> Content \cup {Gone}]
    <2> DEFINE n == FirstRefs[FirstHead]
               tree == FirstCommits[n].tree
    <2>1. n \in 1..Len(FirstCommits)  BY WorkAssumption
    <2> HIDE DEF n
    <2>2. tree \in [Path -> Entry]
      <3> DEFINE R == [first : Nat, anc : SUBSET Nat, tree : [Path -> Entry]]
      <3>1. \A r \in R : r.tree \in [Path -> Entry]  OBVIOUS
      <3>2. FirstCommits \in Seq(R)  BY WorkAssumption
      <3> HIDE DEF R
      <3>3. FirstCommits[n] \in R  BY <2>1, <3>2
      <3> QED  BY <3>1, <3>3
    <2>3. \A p \in Path : tree[p] \in Content \cup {Gone}
      BY <2>2, WorkAssumption DEF Entry, n
    <2> QED  BY <2>3 DEF Init, n
  <1>7. pending \in [merge : Known, pick : Known, conflicts : [base : Known, ours : Known]]
    <2>1. 0 \in Known  BY <1>3 DEF Known
    <2> QED  BY <2>1 DEF Init, NoConflict
  <1>8. sparse \subseteq Path  BY WorkAssumption DEF Init
  <1> QED  BY <1>1, <1>2, <1>3, <1>4, <1>5, <1>6, <1>7, <1>8, NothingToDo DEF WorkTypeOK

----------------------------------------------------------------------------
(* One effect of a command happens.                                         *)
LEMMA EffectShape ==
    ASSUME Effect
    PROVE  /\ cmd.todo # <<>> /\ Proceed /\ commits' = commits
           /\ IF Step.do = "write"
              THEN /\ work' = Over(Step.files)
                   /\ \A p \in DOMAIN Step.files : Step.files[p] # Broken
              ELSE work' = work
           /\ refs' = IF Step.do = "branch" THEN [refs EXCEPT ![Step.branch] = Step.commit]
                      ELSE refs
           /\ head' = IF Step.do = "head" THEN Step.branch ELSE head
           /\ index' = IF Step.do = "stage" THEN Step.index ELSE index
           /\ pending' = IF Step.do = "pend" THEN [pending EXCEPT ![Step.kind] = Step.commit]
                         ELSE IF Step.do = "note"
                         THEN [pending EXCEPT !.conflicts = Step.conflicts] ELSE pending
           /\ sparse' = IF Step.do = "sparse" THEN Step.paths ELSE sparse
  <1> USE DEF Is, Proceed
  <1>1. CASE DoWrite  BY <1>1 DEF DoWrite
  <1>2. CASE DoBranch  BY <1>2 DEF DoBranch
  <1>3. CASE DoHead  BY <1>3 DEF DoHead
  <1>4. CASE DoStage  BY <1>4 DEF DoStage
  <1>5. CASE DoPend  BY <1>5 DEF DoPend
  <1>6. CASE DoNote  BY <1>6 DEF DoNote
  <1>7. CASE DoSparse  BY <1>7 DEF DoSparse
  <1> QED  BY <1>1, <1>2, <1>3, <1>4, <1>5, <1>6, <1>7 DEF Effect

LEMMA OverTyped ==
    ASSUME WorkTypeOK, NEW files, NEW S \in SUBSET Path,
           files \in [S -> Content \cup {Gone}]
    PROVE  Over(files) \in [Path -> Content \cup {Gone}]
  BY DEF Over, WorkTypeOK

LEMMA FilesTyped ==
    ASSUME NEW files \in FileSet, NEW S \in SUBSET DOMAIN files,
           \A p \in S : files[p] # Broken
    PROVE  S \in SUBSET Path /\ \A p \in S : files[p] \in Content \cup {Gone}
  <1>1. PICK D \in SUBSET Path : files \in [D -> Entry]  BY DEF FileSet
  <1> QED  BY <1>1 DEF Entry

(* The branch that is checked out exists after the effect.                  *)
LEMMA TipStays ==
    ASSUME WorkTypeOK, BranchFacts, Effect
    PROVE  Tip' # 0
  <1>1. cmd.todo # <<>> /\ 1 \in DOMAIN cmd.todo
    <2>1. cmd.todo # <<>>  BY EffectShape
    <2>2. cmd.todo \in Seq(EffectType)  BY DEF WorkTypeOK
    <2> HIDE DEF EffectType
    <2> QED  BY <2>1, <2>2
  <1>2. CASE Step.do = "branch"
    <2>1. refs' = [refs EXCEPT ![Step.branch] = Step.commit] /\ head' = head
      BY <1>2, EffectShape
    <2>2. 1 \in Rest("branch")  BY <1>1, <1>2 DEF Rest, Step
    <2>3. Step.commit # 0 \/ Step.branch # head  BY <2>2 DEF BranchFacts, Step
    <2> QED  BY <2>1, <2>3 DEF WorkTypeOK, Tip
  <1>3. CASE Step.do = "head"
    <2>1. refs' = refs /\ head' = Step.branch  BY <1>3, EffectShape
    <2>2. 1 \in Rest("head")  BY <1>1, <1>3 DEF Rest, Step
    <2>3. refs[Step.branch] # 0  BY <2>2 DEF BranchFacts, Step
    <2> QED  BY <2>1, <2>3 DEF Tip
  <1>4. CASE Step.do \notin {"branch", "head"}
    <2>1. refs' = refs /\ head' = head  BY <1>4, EffectShape
    <2> QED  BY <2>1 DEF WorkTypeOK, Tip
  <1> QED  BY <1>2, <1>3, <1>4

LEMMA EffectKeepsType ==
    ASSUME WorkTypeOK, BranchFacts, Effect
    PROVE  WorkTypeOK'
  <1>1. cmd.todo # <<>> /\ Proceed /\ commits' = commits  BY EffectShape
  <1>2. Known' = Known /\ Commit' = Commit /\ EffectType' = EffectType
    BY <1>1 DEF Known, Commit, EffectType
  <1>3. cmd' \in [name : Names, clean : BOOLEAN, todo : Seq(EffectType)']
    BY <1>1, <1>2, Advance
  <1>4. work' \in [Path -> Content \cup {Gone}]
    <2>1. CASE Step.do = "write"
      <3> DEFINE files == Step.files
      <3>1. /\ files \in FileSet /\ \A p \in DOMAIN files : files[p] # Broken
            /\ work' = Over(files)
        BY <2>1, <1>1, EffectShape, StepTyped
      <3> HIDE DEF files
      <3>2. /\ DOMAIN files \in SUBSET Path
            /\ \A p \in DOMAIN files : files[p] \in Content \cup {Gone}
        BY <3>1, FilesTyped
      <3>3. files \in [DOMAIN files -> Content \cup {Gone}]
        BY <3>1, <3>2 DEF FileSet
      <3> QED  BY <3>1, <3>2, <3>3, OverTyped
    <2>2. CASE Step.do # "write"  BY <2>2, EffectShape DEF WorkTypeOK
    <2> QED  BY <2>1, <2>2
  <1>5. refs' \in [Branch -> Known] /\ head' \in Branch
    BY <1>1, EffectShape, StepTyped DEF WorkTypeOK
  <1>6. index' = Torn \/ index' \in Index  BY <1>1, EffectShape, StepTyped DEF WorkTypeOK
  <1>7. pending' \in [merge : Known, pick : Known, conflicts : [base : Known, ours : Known]]
    <2>1. CASE Step.do = "pend"
      <3>1. /\ pending' = [pending EXCEPT ![Step.kind] = Step.commit]
            /\ Step.kind \in {"merge", "pick"} /\ Step.commit \in Known
        BY <2>1, <1>1, EffectShape, StepTyped
      <3> QED  BY <3>1 DEF WorkTypeOK
    <2>2. CASE Step.do = "note"
      <3>1. /\ pending' = [pending EXCEPT !.conflicts = Step.conflicts]
            /\ Step.conflicts \in [base : Known, ours : Known]
        BY <2>2, <1>1, EffectShape, StepTyped
      <3> QED  BY <3>1 DEF WorkTypeOK
    <2>3. CASE Step.do \notin {"pend", "note"}  BY <2>3, EffectShape DEF WorkTypeOK
    <2> QED  BY <2>1, <2>2, <2>3
  <1>8. sparse' \subseteq Path  BY <1>1, EffectShape, StepTyped DEF WorkTypeOK
  <1>9. Tip' # 0  BY TipStays
  <1>10. /\ commits' \in Seq([first : Nat, anc : SUBSET Nat, tree : [Path -> Entry]])
         /\ \A c \in Commit' :
               /\ commits'[c].first < c
               /\ c \in commits'[c].anc /\ commits'[c].anc \subseteq 1..c
    BY <1>1, <1>2 DEF WorkTypeOK
  <1> QED  BY <1>2, <1>3, <1>4, <1>5, <1>6, <1>7, <1>8, <1>9, <1>10 DEF WorkTypeOK

(* The effects that remain are those there were, one place further on.      *)
LEMMA RestShifts ==
    ASSUME WorkTypeOK, Effect, cmd'.todo # <<>>
    PROVE  /\ cmd'.name = cmd.name /\ cmd'.clean = cmd.clean
           /\ Len(cmd.todo) # 1 /\ 1 \in DOMAIN cmd.todo
           /\ \A d : \A i : i \in Rest(d)' =>
                  i \in Nat \ {0} /\ i + 1 \in Rest(d) /\ cmd'.todo[i] = cmd.todo[i + 1]
           /\ \A d : \A i \in Rest(d) :
                  i \in Nat \ {0} /\ (i # 1 => i - 1 \in Rest(d)' /\ cmd'.todo[i - 1] = cmd.todo[i])
  <1> DEFINE s == cmd.todo
             t == cmd'.todo
  <1>1. cmd.todo # <<>> /\ Proceed  BY EffectShape
  <1>2. /\ cmd'.name = cmd.name /\ cmd'.clean = cmd.clean
        /\ Len(s) \in Nat /\ Len(s) > 1 /\ Len(t) = Len(s) - 1
        /\ \A i \in 1..Len(t) : t[i] = s[i + 1]
    BY <1>1, Advance
  <1>3. s \in Seq(EffectType) /\ t \in Seq(EffectType)
    BY <1>1, Advance DEF WorkTypeOK
  <1>4. DOMAIN s = 1..Len(s) /\ DOMAIN t = 1..Len(t)
    <2> HIDE DEF s, t, EffectType
    <2> QED  BY <1>3
  <1>5. ASSUME NEW d
        PROVE  /\ Rest(d) = {i \in DOMAIN s : s[i].do = d}
               /\ Rest(d)' = {i \in DOMAIN t : t[i].do = d}
    BY DEF Rest
  <1> HIDE DEF s, t
  <1>6. \A d : \A i : i \in Rest(d)' =>
            i \in Nat \ {0} /\ i + 1 \in Rest(d) /\ t[i] = s[i + 1]
    BY <1>2, <1>4, <1>5
  <1>7. \A d : \A i \in Rest(d) :
            i \in Nat \ {0} /\ (i # 1 => i - 1 \in Rest(d)' /\ t[i - 1] = s[i])
    BY <1>2, <1>4, <1>5
  <1>8. 1 \in DOMAIN s /\ Len(s) # 1  BY <1>2, <1>4
  <1> QED  BY <1>2, <1>6, <1>7, <1>8 DEF s, t

LEMMA BranchFactsHold ==
    ASSUME WorkTypeOK, WInv, Effect, cmd'.todo # <<>>
    PROVE  BranchFacts'
  <1> USE DEF WInv
  <1>1. commits' = commits  BY EffectShape
  <1>2. ASSUME NEW i \in Rest("branch")'
        PROVE  LET e == cmd'.todo[i]
               IN /\ Rest("branch")' = {i}
                  /\ IF e.commit = 0 THEN e.branch # head' /\ Len(cmd'.todo) = 1
                     ELSE refs'[e.branch] # 0 => refs'[e.branch] \in commits'[e.commit].anc
    <2> DEFINE e == cmd'.todo[i]
    <2>1. /\ i \in Nat \ {0} /\ i + 1 \in Rest("branch") /\ e = cmd.todo[i + 1]
          /\ Len(cmd.todo) # 1
      BY RestShifts
    <2>2. /\ Rest("branch") = {i + 1} /\ e.commit # 0
          /\ refs[e.branch] # 0 => refs[e.branch] \in commits[e.commit].anc
      BY <2>1 DEF BranchFacts
    <2>3. ASSUME NEW j \in Rest("branch")'  PROVE j = i
      <3>1. j \in Nat /\ j + 1 \in Rest("branch")  BY RestShifts
      <3> QED  BY <3>1, <2>1, <2>2
    <2>4. Step.do # "branch"
      <3>1. 1 \notin Rest("branch")  BY <2>1, <2>2
      <3> QED  BY <3>1, RestShifts DEF Rest, Step
    <2>5. refs' = refs  BY <2>4, EffectShape
    <2> QED  BY <1>1, <2>2, <2>3, <2>5
  <1>3. ASSUME NEW i \in Rest("head")'
        PROVE  LET b == cmd'.todo[i].branch
               IN \/ refs'[b] # 0
                  \/ i = 2 /\ cmd'.todo[1].do = "branch" /\ cmd'.todo[1].branch = b
    <2> DEFINE b == cmd'.todo[i].branch
    <2>1. /\ i \in Nat \ {0} /\ i + 1 \in Rest("head") /\ cmd'.todo[i] = cmd.todo[i + 1]
          /\ Len(cmd.todo) # 1 /\ 1 \in DOMAIN cmd.todo
      BY RestShifts
    <2>2. \/ refs[b] # 0
          \/ i = 1 /\ Step.do = "branch" /\ Step.branch = b
      BY <2>1 DEF BranchFacts, Step
    <2>3. CASE Step.do = "branch"
      <3>1. 1 \in Rest("branch")  BY <2>1, <2>3 DEF Rest, Step
      <3>2. Step.commit # 0 /\ Step.branch \in Branch
        BY <3>1, <2>1, <2>3, StepTyped, EffectShape DEF BranchFacts, Step
      <3>3. refs' = [refs EXCEPT ![Step.branch] = Step.commit]  BY <2>3, EffectShape
      <3> HIDE DEF b
      <3>4. refs'[b] # 0  BY <3>2, <3>3, <2>2 DEF WorkTypeOK
      <3> QED  BY <3>4 DEF b
    <2>4. CASE Step.do # "branch"
      <3>1. refs' = refs  BY <2>4, EffectShape
      <3> QED  BY <3>1, <2>2, <2>4
    <2> QED  BY <2>3, <2>4
  <1> QED  BY <1>2, <1>3 DEF BranchFacts

LEMMA StageFactsHold ==
    ASSUME WorkTypeOK, WInv, Effect, cmd'.todo # <<>>
    PROVE  StageFacts'
  <1> SUFFICES ASSUME NEW i \in Rest("stage")',
                      cmd'.name \notin {"add", "reset", "force", "abort"}
               PROVE  /\ cmd'.name \in {"commit", "continue"} /\ index' # Torn
                      /\ \/ i = 1 /\ InTree(Tip)'
                         \/ /\ i = 2 /\ cmd'.todo[1].do = "branch"
                            /\ cmd'.todo[1].branch = head' /\ InTree(cmd.todo[1].commit)'
    BY DEF StageFacts
  <1>1. /\ i \in Nat \ {0} /\ i + 1 \in Rest("stage") /\ cmd'.name = cmd.name
        /\ 1 \in DOMAIN cmd.todo
    BY RestShifts
  <1>2. /\ cmd.name \in {"commit", "continue"} /\ index # Torn
        /\ i = 1 /\ Step.do = "branch" /\ Step.branch = head /\ InTree(Step.commit)
    BY <1>1 DEF WInv, StageFacts, Step
  <1>3. /\ index' = index /\ commits' = commits /\ head' = head
        /\ refs' = [refs EXCEPT ![head] = Step.commit]
    BY <1>2, EffectShape
  <1>4. Tip' = Step.commit  BY <1>3 DEF WorkTypeOK, Tip
  <1>5. InTree(Tip)'  BY <1>2, <1>3, <1>4 DEF InTree, Tree
  <1> QED  BY <1>1, <1>2, <1>3, <1>5

LEMMA WriteFactsHold ==
    ASSUME WorkTypeOK, WInv, Effect, cmd'.todo # <<>>
    PROVE  WriteFacts'
  <1> SUFFICES ASSUME cmd'.name \in {"switch", "pull"}, NEW p \in Jsonl
               PROVE  /\ Committed(p, work[p])'
                      /\ \A i \in Rest("write")' : p \in DOMAIN cmd'.todo[i].files =>
                             Committed(p, cmd.todo[i].files[p])'
    BY DEF WriteFacts
  <1>1. commits' = commits /\ cmd.todo # <<>> /\ cmd.name \in {"switch", "pull"}
    BY EffectShape, RestShifts
  <1>3. /\ Committed(p, work[p])
        /\ \A i \in Rest("write") : p \in DOMAIN cmd.todo[i].files =>
               Committed(p, cmd.todo[i].files[p])
    BY <1>1 DEF WInv, WriteFacts
  <1>4. Committed(p, work'[p])
    <2>1. CASE Step.do = "write"
      <3>1. work' = Over(Step.files)  BY <2>1, EffectShape
      <3>2. 1 \in Rest("write")  BY <2>1, RestShifts DEF Rest, Step
      <3>3. p \in Path  BY WorkAssumption
      <3>4. work'[p] = IF p \in DOMAIN Step.files THEN Step.files[p] ELSE work[p]
        BY <3>1, <3>3 DEF Over
      <3> QED  BY <1>3, <3>2, <3>4 DEF Step
    <2>2. CASE Step.do # "write"  BY <2>2, <1>3, EffectShape
    <2> QED  BY <2>1, <2>2
  <1>5. ASSUME NEW i \in Rest("write")', p \in DOMAIN cmd'.todo[i].files
        PROVE  Committed(p, cmd'.todo[i].files[p])
    <2>1. i + 1 \in Rest("write") /\ cmd'.todo[i] = cmd.todo[i + 1]  BY RestShifts
    <2> QED  BY <1>3, <1>5, <2>1
  <1>6. Committed(p, work[p])'  BY <1>1, <1>4 DEF Committed, Commit, Tree
  <1> QED  BY <1>1, <1>5, <1>6 DEF Committed, Commit, Tree

LEMMA CleanFactsHold ==
    ASSUME WorkTypeOK, WInv, Effect, cmd'.todo # <<>>
    PROVE  CleanFacts'
  <1> SUFFICES ASSUME cmd'.name \in {"switch", "force", "pull", "merge", "pick"}, cmd'.clean
               PROVE  /\ sparse' = Path /\ Rest("sparse")' = {}
                      /\ \A i, j \in Rest("write")' : i = j
                      /\ \E c \in Commit' : EndsAt(c)' /\ \A p \in Path : BringsFile(p, c)'
    BY DEF CleanFacts
  <1> USE DEF WInv
  <1>1. /\ commits' = commits /\ cmd.todo # <<>> /\ cmd.clean /\ 1 \in DOMAIN cmd.todo
        /\ cmd.name \in {"switch", "force", "pull", "merge", "pick"}
    BY EffectShape, RestShifts
  <1>2. /\ sparse = Path /\ Rest("sparse") = {}
        /\ \A i, j \in Rest("write") : i = j
    BY <1>1 DEF CleanFacts
  <1>3. PICK c \in Commit : EndsAt(c) /\ \A p \in Path : BringsFile(p, c)
    BY <1>1 DEF CleanFacts
  <1>4. \A d : Step.do = d <=> 1 \in Rest(d)  BY <1>1 DEF Rest, Step
  <1>5. sparse' = Path /\ Rest("sparse")' = {}
    <2>1. Step.do # "sparse"  BY <1>2, <1>4
    <2> QED  BY <1>2, <2>1, EffectShape, RestShifts
  <1>6. ASSUME NEW i \in Rest("write")', NEW j \in Rest("write")'  PROVE i = j
    <2>1. /\ i \in Nat /\ i + 1 \in Rest("write")
          /\ j \in Nat /\ j + 1 \in Rest("write")
      BY RestShifts
    <2> QED  BY <1>2, <2>1
  <1>7. c \in Commit' /\ \A x : Tree(x)' = Tree(x)  BY <1>1 DEF Commit, Tree
  <1>8. EndsAt(c)'
    <2>1. CASE Step.do = "branch"
      <3>1. Rest("head") = {} /\ Step.branch = head /\ Step.commit = c
        BY <1>3, <1>4, <2>1 DEF EndsAt, Step
      <3>2. Rest("branch") = {1}  BY <1>4, <2>1 DEF BranchFacts
      <3>3. Rest("head")' = {} /\ Rest("branch")' = {}
        <4>1. \A i \in Rest("branch")' : i \in Nat \ {0} /\ i + 1 \in Rest("branch")
          BY RestShifts
        <4>2. \A i \in Rest("head")' : i + 1 \in Rest("head")  BY RestShifts
        <4> QED  BY <3>1, <3>2, <4>1, <4>2
      <3>4. refs' = [refs EXCEPT ![head] = c] /\ head' = head
        BY <2>1, <3>1, EffectShape
      <3>5. Tip' = c  BY <3>4 DEF WorkTypeOK, Tip
      <3> QED  BY <3>3, <3>5 DEF EndsAt
    <2>2. CASE Step.do = "head"
      <3>1. Rest("branch") = {} /\ refs[Step.branch] = c
        BY <1>3, <1>4, <2>2 DEF EndsAt, Step
      <3>2. refs' = refs /\ head' = Step.branch  BY <2>2, EffectShape
      <3>3. Tip' = c  BY <3>1, <3>2 DEF Tip
      <3>4. Rest("branch")' = {}  BY <3>1, RestShifts
      <3>5. \A i \in Rest("head")' : refs'[cmd'.todo[i].branch] = c
        <4>1. \A i \in Rest("head")' : i + 1 \in Rest("head") /\ cmd'.todo[i] = cmd.todo[i + 1]
          BY RestShifts
        <4> QED  BY <1>3, <3>2, <4>1 DEF EndsAt
      <3> QED  BY <3>3, <3>4, <3>5 DEF EndsAt
    <2>3. CASE Step.do \notin {"branch", "head"}
      <3>1. refs' = refs /\ head' = head  BY <2>3, EffectShape
      <3>2. 1 \notin Rest("branch") /\ 1 \notin Rest("head")  BY <1>4, <2>3
      <3>3. \A d \in {"branch", "head"} : \A i \in Rest(d)' :
                i + 1 \in Rest(d) /\ cmd'.todo[i] = cmd.todo[i + 1]
        BY RestShifts
      <3>4. \A d \in {"branch", "head"} : Rest(d)' = {} => Rest(d) = {}
        BY <3>2, RestShifts
      <3>5. Tip' = Tip  BY <3>1 DEF Tip
      <3>6. \A d \in {"branch", "head"} : Rest(d) = {} => Rest(d)' = {}  BY <3>3
      <3>7. \A i \in Rest("head")' : refs'[cmd'.todo[i].branch] = c
        BY <1>3, <3>1, <3>3 DEF EndsAt
      <3>8. \A i \in Rest("branch")' : /\ cmd'.todo[i].branch = head' /\ cmd'.todo[i].commit = c
                                       /\ Rest("head")' = {}
        BY <1>3, <3>1, <3>3, <3>6 DEF EndsAt
      <3>9. Rest("head")' \cup Rest("branch")' = {} => Tip' = c
        BY <1>3, <3>4, <3>5 DEF EndsAt
      <3> QED  BY <3>7, <3>8, <3>9 DEF EndsAt
    <2> QED  BY <2>1, <2>2, <2>3
  <1>9. ASSUME NEW p \in Path  PROVE BringsFile(p, c)'
    <2>1. BringsFile(p, c)  BY <1>3
    <2>2. CASE Step.do = "write"
      <3>1. Rest("write") = {1}  BY <1>2, <1>4, <2>2
      <3>2. Rest("write")' = {}
        <4>1. \A i \in Rest("write")' : i \in Nat \ {0} /\ i + 1 \in Rest("write")
          BY RestShifts
        <4> QED  BY <3>1, <4>1
      <3>3. work' = Over(Step.files) /\ \A q \in DOMAIN Step.files : Step.files[q] # Broken
        BY <2>2, EffectShape
      <3>4. work'[p] = IF p \in DOMAIN Step.files THEN Step.files[p] ELSE work[p]
        BY <3>3 DEF Over
      <3>5. Tree(c)[p] # Broken /\ (p \in Jsonl => work'[p] = Tree(c)[p])
        BY <2>1, <3>1, <3>3, <3>4 DEF BringsFile, Step
      <3> QED  BY <1>7, <3>2, <3>5 DEF BringsFile
    <2>3. CASE Step.do # "write"
      <3>1. work' = work /\ 1 \notin Rest("write")  BY <1>4, <2>3, EffectShape
      <3>2. \A i \in Rest("write")' : i + 1 \in Rest("write") /\ cmd'.todo[i] = cmd.todo[i + 1]
        BY RestShifts
      <3>3. \A i \in Rest("write") : i - 1 \in Rest("write")' /\ cmd'.todo[i - 1] = cmd.todo[i]
        BY <3>1, RestShifts
      <3> QED  BY <1>7, <2>1, <3>1, <3>2, <3>3 DEF BringsFile
    <2> QED  BY <2>2, <2>3
  <1> QED  BY <1>5, <1>6, <1>7, <1>8, <1>9

LEMMA EffectKeepsInv ==
    ASSUME WorkTypeOK, WInv, Effect
    PROVE  WorkTypeOK' /\ WInv'
  <1>1. WorkTypeOK'  BY EffectKeepsType DEF WInv
  <1>2. CASE cmd'.todo = <<>>  BY <1>1, <1>2, NothingLeftToDo
  <1>3. CASE cmd'.todo # <<>>
    <2>1. BranchFacts' /\ WriteFacts'  BY <1>3, BranchFactsHold, WriteFactsHold
    <2>2. StageFacts' /\ CleanFacts'  BY <1>3, StageFactsHold, CleanFactsHold
    <2> QED  BY <1>1, <2>1, <2>2 DEF WInv
  <1> QED  BY <1>2, <1>3

----------------------------------------------------------------------------
(* A command starts.  Commits are only added to the store.                  *)
Grown ==
    /\ commits' \in Seq([first : Nat, anc : SUBSET Nat, tree : [Path -> Entry]])
    /\ \A c \in Commit' :
          /\ commits'[c].first < c
          /\ c \in commits'[c].anc /\ commits'[c].anc \subseteq 1..c
    /\ Commit \subseteq Commit' /\ Known \subseteq Known'
    /\ \A c \in Commit : commits'[c] = commits[c]

LEMMA SameCommits == ASSUME WorkTypeOK, commits' = commits  PROVE Grown
  BY DEF WorkTypeOK, Grown, Commit, Known

LEMMA OneMoreCommit ==
    ASSUME WorkTypeOK, NEW first \in Known, NEW parents \in SUBSET Commit,
           NEW tree \in [Path -> Entry], NewCommit(first, parents, tree),
           NEW n, n = New
    PROVE  /\ Grown /\ n \in Commit' /\ n # 0
           /\ commits'[n].tree = tree /\ Tree(n)' = tree
           /\ \A c \in parents : commits[c].anc \subseteq commits'[n].anc
  <1> DEFINE R == [first : Nat, anc : SUBSET Nat, tree : [Path -> Entry]]
             r == [first |-> first, tree |-> tree,
                   anc |-> {n} \cup UNION {commits[c].anc : c \in parents}]
             len == Len(commits)
  <1>1. commits \in Seq(R) /\ len \in Nat /\ Commit = 1..len /\ Known = 0..len
    BY DEF WorkTypeOK, Commit, Known
  <1>2. n = len + 1 /\ commits' = Append(commits, r)  BY DEF NewCommit, New
  <1>3. \A c \in Commit : /\ c \in commits[c].anc /\ commits[c].anc \subseteq 1..c
                          /\ commits[c].first < c
    BY DEF WorkTypeOK
  <1>4. r.anc \subseteq 1..n /\ n \in r.anc /\ r.first < n
    <2>1. \A c \in parents : commits[c].anc \subseteq 1..n  BY <1>1, <1>2, <1>3
    <2>2. n \in Nat /\ n > 0 /\ first < n  BY <1>1, <1>2
    <2> QED  BY <2>1, <2>2
  <1>5. r \in R /\ r.tree = tree /\ \A c \in parents : commits[c].anc \subseteq r.anc
    <2>1. n \in Nat /\ first \in Nat  BY <1>1, <1>2
    <2>2. 1..n \subseteq Nat  BY <2>1
    <2> DEFINE anc == r.anc
    <2>3. anc \subseteq 1..n  BY <1>4
    <2>4. /\ r = [first |-> first, tree |-> tree, anc |-> anc]
          /\ \A c \in parents : commits[c].anc \subseteq anc
      OBVIOUS
    <2> HIDE DEF anc, r
    <2>5. anc \in SUBSET Nat  BY <2>2, <2>3
    <2> QED  BY <2>1, <2>4, <2>5
  <1> HIDE DEF R, r
  <1>6. /\ commits' \in Seq(R) /\ Len(commits') = n /\ commits'[n] = r
        /\ \A c \in Commit : commits'[c] = commits[c]
    BY <1>1, <1>2, <1>5
  <1>7. Commit' = 1..n /\ Known' = 0..n  BY <1>6 DEF Commit, Known
  <1>8. \A c \in Commit' :
            /\ commits'[c].first < c
            /\ c \in commits'[c].anc /\ commits'[c].anc \subseteq 1..c
    <2> SUFFICES ASSUME NEW c \in Commit'
                 PROVE  /\ commits'[c].first < c
                        /\ c \in commits'[c].anc /\ commits'[c].anc \subseteq 1..c
      OBVIOUS
    <2>1. CASE c = n  BY <2>1, <1>4, <1>6
    <2>2. CASE c # n
      <3>1. c \in Commit  BY <2>2, <1>1, <1>2, <1>7
      <3> QED  BY <3>1, <1>3, <1>6
    <2> QED  BY <2>1, <2>2
  <1>9. Commit \subseteq Commit' /\ Known \subseteq Known' /\ n \in Commit' /\ n # 0
    BY <1>1, <1>2, <1>7
  <1>10. Tree(n)' = tree  BY <1>5, <1>6, <1>9 DEF Tree
  <1> QED  BY <1>5, <1>6, <1>8, <1>9, <1>10 DEF Grown, R

LEMMA RunTyped ==
    ASSUME WorkTypeOK, Grown, NEW name \in Names, NEW effects \in Seq(EffectType'),
           Run(name, effects)
    PROVE  /\ WorkTypeOK'
           /\ cmd'.name = name /\ cmd'.todo = effects
           /\ cmd'.clean = (~Uncommitted /\ sparse = Path)
           /\ UNCHANGED <<refs, head, index, work, pending, sparse>> /\ Tip' = Tip
           /\ \A c \in Known : Tree(c)' = Tree(c)
  <1>1. /\ UNCHANGED <<refs, head, index, work, pending, sparse>>
        /\ cmd' = [name |-> name, clean |-> ~Uncommitted /\ sparse = Path, todo |-> effects]
    BY DEF Run
  <1>2. (~Uncommitted /\ sparse = Path) \in BOOLEAN  OBVIOUS
  <1> DEFINE clean == ~Uncommitted /\ sparse = Path
  <1> HIDE DEF clean
  <1>3. cmd' \in [name : Names, clean : BOOLEAN, todo : Seq(EffectType)']
    <2>1. clean \in BOOLEAN  BY <1>2 DEF clean
    <2>2. cmd' = [name |-> name, clean |-> clean, todo |-> effects]  BY <1>1 DEF clean
    <2> QED  BY <2>1, <2>2
  <1>4. Tip' = Tip /\ Known \subseteq Known'  BY <1>1 DEF Tip, Grown
  <1>5. refs' \in [Branch -> Known'] /\ head' \in Branch /\ Tip' # 0
    BY <1>1, <1>4 DEF WorkTypeOK
  <1>6. pending' \in [merge : Known', pick : Known', conflicts : [base : Known', ours : Known']]
    BY <1>1, <1>4 DEF WorkTypeOK
  <1>7. WorkTypeOK'
    BY <1>1, <1>3, <1>5, <1>6 DEF WorkTypeOK, Grown
  <1>8. cmd'.name = name /\ cmd'.todo = effects /\ cmd'.clean = clean
    BY <1>1 DEF clean
  <1>9. \A c \in Known : Tree(c)' = Tree(c)
    <2>1. \A c \in Known : c # 0 => c \in Commit  BY DEF Known, Commit, WorkTypeOK
    <2> QED  BY <2>1 DEF Grown, Tree
  <1> QED  BY <1>1, <1>4, <1>7, <1>8, <1>9 DEF clean

(* The effects a command may have.                                          *)
LEMMA EffectsTyped ==
    /\ \A files \in FileSet : Write(files) \in EffectType'
    /\ \A b \in Branch, c \in Known' : MoveBranch(b, c) \in EffectType'
    /\ \A b \in Branch : MoveHead(b) \in EffectType'
    /\ \A kind \in {"merge", "pick"}, c \in Known' : Pend(kind, c) \in EffectType'
    /\ \A base \in Known', ours \in Known' : Note(base, ours) \in EffectType'
    /\ \A paths \in SUBSET Path : Save(paths) \in EffectType'
    /\ Clear \in EffectType'
    /\ \A p \in Path, e \in Content \cup {Unstaged, Deletion} :
          index \in Index => Stage(p, e) \in EffectType'
  <1>1. Empty \in Index  BY DEF Empty, Index
  <1>2. \A p \in Path, e \in Content \cup {Unstaged, Deletion} :
            index \in Index => [index EXCEPT ![p] = e] \in Index
    BY DEF Index
  <1> QED
    BY <1>1, <1>2
    DEF EffectType, Write, MoveBranch, MoveHead, Pend, Note, Save, Clear, Stage

LEMMA DoOf ==
    /\ \A f : Write(f).do = "write" /\ Write(f).files = f
    /\ \A b, c : /\ MoveBranch(b, c).do = "branch"
                 /\ MoveBranch(b, c).branch = b /\ MoveBranch(b, c).commit = c
    /\ \A b : MoveHead(b).do = "head" /\ MoveHead(b).branch = b
    /\ \A k, c : Pend(k, c).do = "pend"
    /\ \A a, o : Note(a, o).do = "note"
    /\ \A s : Save(s).do = "sparse"
    /\ Clear.do = "stage" /\ \A p, e : Stage(p, e).do = "stage"
  BY DEF Write, MoveBranch, MoveHead, Pend, Note, Save, Clear, Stage

LEMMA OneEffect ==
    ASSUME NEW e, cmd'.todo = <<e>>
    PROVE  /\ Len(cmd'.todo) = 1 /\ cmd'.todo[1] = e
           /\ \A d : \A i : i \in Rest(d)' <=> i = 1 /\ e.do = d
  BY DEF Rest

LEMMA TwoEffects ==
    ASSUME NEW e, NEW f, cmd'.todo = <<e, f>>
    PROVE  /\ Len(cmd'.todo) = 2 /\ cmd'.todo[1] = e /\ cmd'.todo[2] = f
           /\ \A d : \A i : i \in Rest(d)' <=> (i = 1 /\ e.do = d) \/ (i = 2 /\ f.do = d)
  BY DEF Rest

LEMMA ThreeEffects ==
    ASSUME NEW e, NEW f, NEW g, cmd'.todo = <<e, f, g>>
    PROVE  /\ Len(cmd'.todo) = 3
           /\ cmd'.todo[1] = e /\ cmd'.todo[2] = f /\ cmd'.todo[3] = g
           /\ \A d : \A i : i \in Rest(d)' <=>
                  \/ i = 1 /\ e.do = d
                  \/ i = 2 /\ f.do = d
                  \/ i = 3 /\ g.do = d
  BY DEF Rest

LEMMA FourEffects ==
    ASSUME NEW e, NEW f, NEW g, NEW h, cmd'.todo = <<e, f, g, h>>
    PROVE  /\ Len(cmd'.todo) = 4
           /\ cmd'.todo[1] = e /\ cmd'.todo[2] = f /\ cmd'.todo[3] = g /\ cmd'.todo[4] = h
           /\ \A d : \A i : i \in Rest(d)' <=>
                  \/ i = 1 /\ e.do = d
                  \/ i = 2 /\ f.do = d
                  \/ i = 3 /\ g.do = d
                  \/ i = 4 /\ h.do = d
  BY DEF Rest

(* The trees and sets of files commands compute.                            *)
LEMMA TreeTyped == ASSUME WorkTypeOK, NEW c \in Known  PROVE Tree(c) \in [Path -> Entry]
  <1>1. CASE c = 0  BY <1>1 DEF Tree, Entry
  <1>2. CASE c # 0
    <2> DEFINE R == [first : Nat, anc : SUBSET Nat, tree : [Path -> Entry]]
    <2>1. c \in 1..Len(commits) /\ commits \in Seq(R)  BY <1>2 DEF WorkTypeOK, Known
    <2>2. \A r \in R : r.tree \in [Path -> Entry]  OBVIOUS
    <2> HIDE DEF R
    <2>3. commits[c] \in R  BY <2>1
    <2> QED  BY <1>2, <2>2, <2>3 DEF Tree
  <1> QED  BY <1>1, <1>2

LEMMA SomeFiles ==
    ASSUME NEW S \in SUBSET Path, NEW f, f \in [S -> Entry]
    PROVE  f \in FileSet
  BY DEF FileSet

LEMMA ChangesBring ==
    ASSUME NEW new \in [Path -> Entry], NEW old, NEW within,
           NEW f, f = Changes(new, old, within)
    PROVE  /\ f \in FileSet
           /\ \A p \in DOMAIN f : p \in Path /\ f[p] = (IF p \in within THEN new[p] ELSE Gone)
           /\ \A p \in Path \cap within : p \in DOMAIN f <=> new[p] # old[p]
  <1> DEFINE wanted == [p \in Path |-> IF p \in within THEN new[p] ELSE Gone]
             S == {q \in Path : wanted[q] # old[q]}
  <1>1. f = [p \in S |-> wanted[p]]  BY DEF Changes
  <1>2. \A p \in Path : wanted[p] = IF p \in within THEN new[p] ELSE Gone  OBVIOUS
  <1>3. \A p \in Path : wanted[p] \in Entry  BY <1>2 DEF Entry
  <1>4. \A p : p \in S <=> p \in Path /\ wanted[p] # old[p]  OBVIOUS
  <1> HIDE DEF wanted, S
  <1>5. S \in SUBSET Path /\ DOMAIN f = S /\ \A p \in S : f[p] = wanted[p]
    BY <1>1, <1>4
  <1>6. f \in [S -> Entry]  BY <1>1, <1>3, <1>4
  <1>7. f \in FileSet  BY <1>5, <1>6, SomeFiles
  <1> QED  BY <1>2, <1>4, <1>5, <1>7

LEMMA OverlayTyped ==
    ASSUME index \in Index, NEW tree \in [Path -> Entry]
    PROVE  /\ Overlay(tree) \in [Path -> Entry]
           /\ \A p \in Path : index[p] \notin {Unstaged, Deletion} => Overlay(tree)[p] = index[p]
  BY DEF Index, Overlay, Entry

LEMMA AsManifestsTyped ==
    ASSUME index \in Index, NEW tree \in [Path -> Entry]
    PROVE  /\ AsManifests(tree) \in [Path -> Entry]
           /\ \A p \in Jsonl : index[p] \notin {Unstaged, Deletion} =>
                  AsManifests(tree)[p] = index[p]
  BY WorkAssumption DEF Index, AsManifests, Entry

LEMMA MergedTyped ==
    ASSUME WorkTypeOK, NEW base \in Known, NEW ours \in Known, NEW theirs \in Known,
           NEW tree \in MergedTrees(base, ours, theirs)
    PROVE  tree \in [Path -> Entry \cup {Clash}]
  <1> DEFINE out(p) == Outcomes(Manifest(p, Tree(base)[p]), Manifest(p, Tree(ours)[p]),
                                Manifest(p, Tree(theirs)[p]))
             mixed == {p \in Path : out(p) = Content \cup {Clash}}
  <1>1. \A c \in Known, p \in Path : Manifest(p, Tree(c)[p]) \in Entry
    BY TreeTyped DEF Manifest, Entry
  <1>2. \A x \in Entry, y \in Entry, z \in Entry : Outcomes(x, y, z) \subseteq Entry \cup {Clash}
    BY DEF Outcomes, Entry
  <1>3. \A p \in Path : out(p) \subseteq Entry \cup {Clash}  BY <1>1, <1>2
  <1>4. /\ \A p \in Path : out(p) # {}
        /\ \E rows \in [mixed -> Content \cup {Clash}] :
               tree = [p \in Path |-> IF p \in mixed THEN rows[p] ELSE CHOOSE e \in out(p) : TRUE]
    BY DEF MergedTrees
  <1>5. PICK rows \in [mixed -> Content \cup {Clash}] :
            tree = [p \in Path |-> IF p \in mixed THEN rows[p] ELSE CHOOSE e \in out(p) : TRUE]
    BY <1>4
  <1>6. ASSUME NEW p \in Path, p \notin mixed
        PROVE  (CHOOSE e \in out(p) : TRUE) \in Entry \cup {Clash}
    <2> HIDE DEF out, mixed
    <2>1. PICK e : e \in out(p)  BY <1>4
    <2>2. (CHOOSE x \in out(p) : TRUE) \in out(p)  BY <2>1
    <2> QED  BY <2>2, <1>3
  <1>7. \A p \in mixed : rows[p] \in Entry \cup {Clash}  BY <1>5 DEF Entry
  <1> HIDE DEF out, mixed
  <1> QED  BY <1>5, <1>6, <1>7

(* Commands that touch no branch and make no promise about files.           *)
LEMMA QuietStarts ==
    ASSUME WorkTypeOK, Grown, NEW name \in Names, NEW effects \in Seq(EffectType'),
           Run(name, effects),
           name \notin {"switch", "force", "pull", "merge", "pick"},
           Rest("branch")' = {}, Rest("head")' = {},
           name \in {"add", "reset", "abort"} \/ Rest("stage")' = {}
    PROVE  WorkTypeOK' /\ WInv'
  <1>1. WorkTypeOK' /\ cmd'.name = name  BY RunTyped
  <1>2. BranchFacts'  BY DEF BranchFacts
  <1>3. WriteFacts' /\ CleanFacts'  BY <1>1 DEF WriteFacts, CleanFacts
  <1>4. StageFacts'  BY <1>1 DEF StageFacts
  <1> QED  BY <1>1, <1>2, <1>3, <1>4 DEF WInv

LEMMA AddStarts == ASSUME WorkTypeOK, NEW p \in Path, Add(p)  PROVE WorkTypeOK' /\ WInv'
  <1>1. Grown /\ index \in Index  BY SameCommits DEF Add, WorkTypeOK, Readable
  <1>2. PICK e \in Content \cup {Unstaged, Deletion} : Run("add", <<Stage(p, e)>>)
    BY DEF Add, WorkTypeOK
  <1>3. <<Stage(p, e)>> \in Seq(EffectType')  BY <1>1, EffectsTyped
  <1>4. cmd'.todo = <<Stage(p, e)>>  BY <1>2 DEF Run
  <1>5. Rest("branch")' = {} /\ Rest("head")' = {}  BY <1>4, OneEffect, DoOf
  <1> QED  BY <1>1, <1>2, <1>3, <1>5, QuietStarts DEF Names

LEMMA ResetStarts ==
    ASSUME WorkTypeOK, (\E p \in Path : Reset(p)) \/ ResetAll
    PROVE  WorkTypeOK' /\ WInv'
  <1>1. Grown  BY SameCommits DEF Reset, ResetAll
  <1>2. PICK e : Run("reset", <<e>>) /\ e \in EffectType' /\ e.do = "stage"
    <2>1. CASE ResetAll  BY <2>1, EffectsTyped, DoOf DEF ResetAll
    <2>2. ASSUME NEW p \in Path, Reset(p)
          PROVE  \E e : Run("reset", <<e>>) /\ e \in EffectType' /\ e.do = "stage"
      <3>1. index \in Index  BY <2>2 DEF Reset, WorkTypeOK, Readable
      <3>2. Stage(p, Unstaged) \in EffectType' /\ Stage(p, Unstaged).do = "stage"
        BY <3>1, EffectsTyped, DoOf
      <3> QED  BY <2>2, <3>2 DEF Reset
    <2> QED  BY <2>1, <2>2
  <1>3. <<e>> \in Seq(EffectType')  BY <1>2
  <1>4. cmd'.todo = <<e>>  BY <1>2 DEF Run
  <1>5. Rest("branch")' = {} /\ Rest("head")' = {}  BY <1>2, <1>4, OneEffect
  <1> QED  BY <1>1, <1>2, <1>3, <1>5, QuietStarts DEF Names

LEMMA WholeTree ==
    ASSUME WorkTypeOK, NEW c \in Known
    PROVE  Write(AllFiles(Tree(c))) \in EffectType'
  <1>1. AllFiles(Tree(c)) \in FileSet
    BY TreeTyped, ChangesBring DEF AllFiles
  <1> QED  BY <1>1, EffectsTyped

LEMMA TipKnown == ASSUME WorkTypeOK  PROVE Tip \in Known /\ Tip \in Commit
  BY DEF WorkTypeOK, Tip, Known, Commit

LEMMA ResetHardStarts == ASSUME WorkTypeOK, ResetHard  PROVE WorkTypeOK' /\ WInv'
  <1> DEFINE S == {p \in Jsonl : work[p] # Gone /\ Tree(Tip)[p] = Gone}
             g == [p \in S |-> Gone]
             w == Write(AllFiles(Tree(Tip)))
  <1>1. Grown  BY SameCommits DEF ResetHard
  <1>2. Run("reset", <<Clear, w, Write(g)>>)  BY DEF ResetHard
  <1>3. Write(g) \in EffectType'
    <2>1. S \in SUBSET Path  BY WorkAssumption
    <2> HIDE DEF S
    <2>2. g \in [S -> Entry]  BY DEF Entry
    <2>3. g \in FileSet  BY <2>1, <2>2, SomeFiles
    <2> QED  BY <2>3, EffectsTyped
  <1>4. w \in EffectType' /\ Clear \in EffectType'  BY WholeTree, TipKnown, EffectsTyped
  <1>5. w.do = "write" /\ Write(g).do = "write" /\ Clear.do = "stage"  BY DoOf
  <1> HIDE DEF w, g
  <1>6. <<Clear, w, Write(g)>> \in Seq(EffectType')  BY <1>3, <1>4
  <1>7. cmd'.todo = <<Clear, w, Write(g)>>  BY <1>2 DEF Run
  <1>8. Rest("branch")' = {} /\ Rest("head")' = {}  BY <1>5, <1>7, ThreeEffects
  <1> QED  BY <1>1, <1>2, <1>6, <1>8, QuietStarts DEF Names

LEMMA AbortStarts ==
    ASSUME WorkTypeOK, NEW kind \in {"merge", "pick"}, Abort(kind)
    PROVE  WorkTypeOK' /\ WInv'
  <1> DEFINE ours == IF pending.conflicts.ours # 0 THEN pending.conflicts.ours ELSE Tip
             w == Write(AllFiles(Tree(ours)))
             q == Pend(kind, 0)
             n == Note(0, 0)
  <1>1. Grown  BY SameCommits DEF Abort
  <1>2. Run("abort", <<w, q, n, Clear>>)  BY DEF Abort
  <1>3. ours \in Known /\ 0 \in Known'
    <2>1. pending.conflicts.ours \in Known
      <3>1. pending.conflicts \in [base : Known, ours : Known]  BY DEF WorkTypeOK
      <3> QED  BY <3>1
    <2>2. Tip \in Known /\ 0 \in Known  BY TipKnown DEF WorkTypeOK, Known
    <2> QED  BY <1>1, <2>1, <2>2 DEF Grown
  <1>4. w \in EffectType' /\ q \in EffectType' /\ n \in EffectType' /\ Clear \in EffectType'
    BY <1>3, WholeTree, EffectsTyped
  <1>5. w.do = "write" /\ q.do = "pend" /\ n.do = "note" /\ Clear.do = "stage"  BY DoOf
  <1> HIDE DEF w, q, n
  <1>6. <<w, q, n, Clear>> \in Seq(EffectType')  BY <1>4
  <1>7. cmd'.todo = <<w, q, n, Clear>>  BY <1>2 DEF Run
  <1>8. Rest("branch")' = {} /\ Rest("head")' = {}  BY <1>5, <1>7, FourEffects
  <1> QED  BY <1>1, <1>2, <1>6, <1>8, QuietStarts DEF Names

LEMMA SparseStarts ==
    ASSUME WorkTypeOK, (\E p \in Path : SparseAdd(p) \/ SparseRemove(p)) \/ SparseDisable
    PROVE  WorkTypeOK' /\ WInv'
  <1>1. Grown  BY SameCommits DEF SparseAdd, SparseRemove, SparseDisable
  <1>2. Tree(Tip) \in [Path -> Entry]  BY TreeTyped, TipKnown
  <1>3. PICK S \in SUBSET Path, paths \in SUBSET Path :
            \E f \in [S -> Entry] : Run("sparse", <<Write(f), Save(paths)>>)
    <2> DEFINE Goal == \E S \in SUBSET Path, paths \in SUBSET Path :
                   \E f \in [S -> Entry] : Run("sparse", <<Write(f), Save(paths)>>)
    <2>0. ASSUME NEW S \in SUBSET Path, NEW f \in [S -> Entry], NEW paths \in SUBSET Path,
                 Run("sparse", <<Write(f), Save(paths)>>)
          PROVE  Goal
      BY <2>0
    <2> HIDE DEF Goal
    <2>1. ASSUME NEW p \in Path, SparseAdd(p)  PROVE Goal
      <3> DEFINE f == [q \in {p} |-> Tree(Tip)[p]]
      <3>1. f \in [{p} -> Entry] /\ {p} \in SUBSET Path  BY <1>2
      <3>2. sparse \cup {p} \in SUBSET Path  BY DEF WorkTypeOK
      <3>3. Run("sparse", <<Write(f), Save(sparse \cup {p})>>)  BY <2>1 DEF SparseAdd
      <3> HIDE DEF f
      <3> QED  BY <2>0, <3>1, <3>2, <3>3
    <2>2. ASSUME NEW p \in Path, SparseRemove(p)  PROVE Goal
      <3> DEFINE S == {q \in {p} : Tree(Tip)[q] # Gone}
                 f == [q \in S |-> Gone]
      <3>1. f \in [S -> Entry] /\ S \in SUBSET Path  BY DEF Entry
      <3>2. sparse \ {p} \in SUBSET Path  BY DEF WorkTypeOK
      <3>3. Run("sparse", <<Write(f), Save(sparse \ {p})>>)  BY <2>2 DEF SparseRemove
      <3> HIDE DEF f, S
      <3> QED  BY <2>0, <3>1, <3>2, <3>3
    <2>3. ASSUME SparseDisable  PROVE Goal
      <3>2. PICK nameless \in SUBSET {p \in Path \ Jsonl : Tree(Tip)[p] = Broken} :
                Run("sparse", <<Write([p \in {q \in Jsonl : Tree(Tip)[q] # Gone} \cup nameless |->
                                          Tree(Tip)[p]]), Save(Path)>>)
        BY <2>3 DEF SparseDisable
      <3> DEFINE S == {q \in Jsonl : Tree(Tip)[q] # Gone} \cup nameless
                 f == [p \in S |-> Tree(Tip)[p]]
      <3>1. f \in [S -> Entry] /\ S \in SUBSET Path  BY <1>2, WorkAssumption
      <3>3. Run("sparse", <<Write(f), Save(Path)>>)  BY <3>2
      <3> HIDE DEF f, S
      <3> QED  BY <2>0, <3>1, <3>3
    <2>4. Goal  BY <2>1, <2>2, <2>3
    <2> QED  BY <2>4 DEF Goal
  <1>8. PICK f \in [S -> Entry] : Run("sparse", <<Write(f), Save(paths)>>)  BY <1>3
  <1>4. Write(f) \in EffectType' /\ Save(paths) \in EffectType'
    BY SomeFiles, EffectsTyped
  <1>5. <<Write(f), Save(paths)>> \in Seq(EffectType')  BY <1>4
  <1>6. cmd'.todo = <<Write(f), Save(paths)>>  BY <1>8 DEF Run
  <1>7. Rest("branch")' = {} /\ Rest("head")' = {} /\ Rest("stage")' = {}
    BY <1>6, TwoEffects, DoOf
  <1> QED  BY <1>1, <1>5, <1>7, <1>8, QuietStarts DEF Names

(* Commands that write commits into the branch: the index is cleared when   *)
(* the head has what it held.                                               *)
LEMMA StagedGoesIn ==
    ASSUME WorkTypeOK, Grown, index # Torn, NEW name \in {"commit", "continue"},
           NEW effects \in Seq(EffectType'), Run(name, effects),
           NEW n \in Commit', n # 0, Tip \in commits'[n].anc,
           NEW tree \in [Path -> Entry], Tree(n)' = tree,
           \A p \in Jsonl : index[p] \in {Unstaged, Deletion, tree[p]},
           effects[1] = MoveBranch(head, n), Rest("branch")' = {1}, Rest("head")' = {},
           Rest("stage")' = {2}
    PROVE  WorkTypeOK' /\ WInv'
  <1>1. /\ WorkTypeOK' /\ cmd'.name = name /\ cmd'.todo = effects
        /\ UNCHANGED <<refs, head, index>> /\ Tip' = Tip
    <2>1. name \in Names  BY DEF Names
    <2> QED  BY <2>1, RunTyped
  <1>2. /\ cmd'.todo[1].do = "branch" /\ cmd'.todo[1].branch = head
        /\ cmd'.todo[1].commit = n
    BY <1>1, DoOf
  <1>3. BranchFacts'  BY <1>1, <1>2 DEF BranchFacts, Tip
  <1>4. WriteFacts' /\ CleanFacts'  BY <1>1 DEF WriteFacts, CleanFacts
  <1>5. InTree(cmd.todo[1].commit)'
    <2>1. \A p \in Jsonl : index'[p] \in {Unstaged, Deletion, Tree(n)'[p]}  BY <1>1
    <2>2. Tree(cmd.todo[1].commit)' = Tree(n)'  BY <1>2 DEF Tree
    <2> QED  BY <2>1, <2>2 DEF InTree
  <1>6. StageFacts'  BY <1>1, <1>2, <1>5 DEF StageFacts
  <1> QED  BY <1>1, <1>3, <1>4, <1>6 DEF WInv

LEMMA TipIsParent ==
    ASSUME WorkTypeOK, NEW parents, Tip \in parents, NEW n,
           \A c \in parents : commits[c].anc \subseteq commits'[n].anc
    PROVE  Tip \in commits'[n].anc
  BY TipKnown DEF WorkTypeOK

LEMMA CommitStarts == ASSUME WorkTypeOK, CommitStaged  PROVE WorkTypeOK' /\ WInv'
  <1> DEFINE tree == Overlay(Tree(Tip))
  <1>1. index # Torn /\ index \in Index  BY DEF CommitStaged, Readable, WorkTypeOK
  <1>2. /\ tree \in [Path -> Entry]
        /\ \A p \in Path : index[p] \notin {Unstaged, Deletion} => tree[p] = index[p]
    BY <1>1, TipKnown, TreeTyped, OverlayTyped
  <1>3. NewCommit(Tip, {Tip}, tree)  BY DEF CommitStaged
  <1> HIDE DEF tree
  <1>n. PICK n : n = New  OBVIOUS
  <1> DEFINE m == MoveBranch(head, n)
  <1>4. Run("commit", <<m, Clear>>)  BY <1>n DEF CommitStaged
  <1>5. /\ Grown /\ n \in Commit' /\ n # 0 /\ Tree(n)' = tree
        /\ \A c \in {Tip} : commits[c].anc \subseteq commits'[n].anc
    BY <1>2, <1>3, <1>n, TipKnown, OneMoreCommit
  <1>6. n \in Known'  BY <1>5 DEF Known, Commit
  <1>7. m \in EffectType' /\ Clear \in EffectType' /\ m.do = "branch" /\ Clear.do = "stage"
    BY <1>6, EffectsTyped, DoOf DEF WorkTypeOK
  <1> HIDE DEF m
  <1>8. <<m, Clear>> \in Seq(EffectType')  BY <1>7
  <1>9. cmd'.todo = <<m, Clear>>  BY <1>4 DEF Run
  <1>10. Rest("branch")' = {1} /\ Rest("head")' = {} /\ Rest("stage")' = {2}
    BY <1>7, <1>9, TwoEffects
  <1>11. Tip \in commits'[n].anc  BY <1>5, TipKnown DEF WorkTypeOK
  <1>12. \A p \in Jsonl : index[p] \in {Unstaged, Deletion, tree[p]}  BY <1>2, WorkAssumption
  <1>13. <<m, Clear>>[1] = MoveBranch(head, n)  BY DEF m
  <1> QED  BY <1>1, <1>2, <1>4, <1>5, <1>8, <1>10, <1>11, <1>12, <1>13, StagedGoesIn

LEMMA ContinueStarts ==
    ASSUME WorkTypeOK, NEW kind \in {"merge", "pick"}, Continue(kind)
    PROVE  WorkTypeOK' /\ WInv'
  <1> DEFINE tree == AsManifests(Tree(Tip))
             parents == Parents(kind)
  <1>1. index # Torn /\ index \in Index  BY DEF Continue, Readable, WorkTypeOK
  <1>2. /\ tree \in [Path -> Entry]
        /\ \A p \in Jsonl : index[p] \notin {Unstaged, Deletion} => tree[p] = index[p]
    BY <1>1, TipKnown, TreeTyped, AsManifestsTyped
  <1>3. NewCommit(Tip, parents, tree)  BY DEF Continue
  <1>p. parents \in SUBSET Commit /\ Tip \in parents
    <2>1. pending[kind] \in Known /\ pending[kind] # 0  BY DEF Continue, WorkTypeOK
    <2>2. pending[kind] \in Commit  BY <2>1 DEF Known, Commit, WorkTypeOK
    <2> QED  BY <2>2, TipKnown DEF Parents
  <1> HIDE DEF tree, parents
  <1>n. PICK n : n = New  OBVIOUS
  <1> DEFINE m == MoveBranch(head, n)
             q == Pend(kind, 0)
             o == Note(0, 0)
  <1>4. Run("continue", <<m, Clear, q, o>>)  BY <1>n DEF Continue
  <1>5. /\ Grown /\ n \in Commit' /\ n # 0 /\ Tree(n)' = tree
        /\ \A c \in parents : commits[c].anc \subseteq commits'[n].anc
    BY <1>2, <1>3, <1>n, <1>p, TipKnown, OneMoreCommit
  <1>6. n \in Known' /\ 0 \in Known'  BY <1>5 DEF Known, Commit
  <1>7. /\ m \in EffectType' /\ Clear \in EffectType' /\ q \in EffectType' /\ o \in EffectType'
        /\ m.do = "branch" /\ Clear.do = "stage" /\ q.do = "pend" /\ o.do = "note"
    BY <1>6, EffectsTyped, DoOf DEF WorkTypeOK
  <1> HIDE DEF m, q, o
  <1>8. <<m, Clear, q, o>> \in Seq(EffectType')  BY <1>7
  <1>9. cmd'.todo = <<m, Clear, q, o>>  BY <1>4 DEF Run
  <1>10. Rest("branch")' = {1} /\ Rest("head")' = {} /\ Rest("stage")' = {2}
    BY <1>7, <1>9, FourEffects
  <1>11. Tip \in commits'[n].anc  BY <1>5, <1>p, TipIsParent
  <1>12. \A p \in Jsonl : index[p] \in {Unstaged, Deletion, tree[p]}  BY <1>2
  <1>13. <<m, Clear, q, o>>[1] = MoveBranch(head, n)  BY DEF m
  <1> QED  BY <1>1, <1>2, <1>4, <1>5, <1>8, <1>10, <1>11, <1>12, <1>13, StagedGoesIn

LEMMA BranchStarts ==
    ASSUME WorkTypeOK, NEW b \in Branch, CreateBranch(b) \/ DeleteBranch(b)
    PROVE  WorkTypeOK' /\ WInv'
  <1>1. Grown  BY SameCommits DEF CreateBranch, DeleteBranch
  <1>2. Tip \in Known' /\ Tip # 0 /\ 0 \in Known'
    BY <1>1, TipKnown DEF Grown, Known, WorkTypeOK
  <1>3. ASSUME NEW effects \in Seq(EffectType'), Run("branch", effects),
               Rest("stage")' = {}, BranchFacts'
        PROVE  WorkTypeOK' /\ WInv'
    <2>1. WorkTypeOK' /\ cmd'.name = "branch"  BY <1>1, <1>3, RunTyped DEF Names
    <2>2. WriteFacts' /\ CleanFacts' /\ StageFacts'
      BY <1>3, <2>1 DEF WriteFacts, CleanFacts, StageFacts
    <2> QED  BY <1>3, <2>1, <2>2 DEF WInv
  <1> DEFINE m == MoveBranch(b, Tip)
             h == MoveHead(b)
             d == MoveBranch(b, 0)
  <1>4. /\ m \in EffectType' /\ h \in EffectType' /\ d \in EffectType'
        /\ m.do = "branch" /\ m.branch = b /\ m.commit = Tip /\ h.do = "head" /\ h.branch = b
        /\ d.do = "branch" /\ d.branch = b /\ d.commit = 0
    BY <1>2, EffectsTyped, DoOf
  <1> HIDE DEF m, h, d
  <1>5. ASSUME refs[b] = 0, Run("branch", <<m>>)  PROVE WorkTypeOK' /\ WInv'
    <2>1. cmd'.todo = <<m>> /\ refs' = refs  BY <1>5 DEF Run
    <2>2. Rest("branch")' = {1} /\ Rest("head")' = {} /\ Rest("stage")' = {}
          /\ cmd'.todo[1] = m
      BY <1>4, <2>1, OneEffect
    <2>3. BranchFacts'  BY <1>2, <1>4, <1>5, <2>1, <2>2 DEF BranchFacts
    <2>4. <<m>> \in Seq(EffectType')  BY <1>4
    <2> QED  BY <1>3, <1>5, <2>2, <2>3, <2>4
  <1>6. ASSUME refs[b] = 0, Run("branch", <<m, h>>)  PROVE WorkTypeOK' /\ WInv'
    <2>1. cmd'.todo = <<m, h>> /\ refs' = refs  BY <1>6 DEF Run
    <2>2. Rest("branch")' = {1} /\ Rest("head")' = {2} /\ Rest("stage")' = {}
          /\ cmd'.todo[1] = m /\ cmd'.todo[2] = h
      BY <1>4, <2>1, TwoEffects
    <2>3. BranchFacts'  BY <1>2, <1>4, <1>6, <2>1, <2>2 DEF BranchFacts
    <2>4. <<m, h>> \in Seq(EffectType')  BY <1>4
    <2> QED  BY <1>3, <1>6, <2>2, <2>3, <2>4
  <1>7. ASSUME b # head, Run("branch", <<d>>)  PROVE WorkTypeOK' /\ WInv'
    <2>1. cmd'.todo = <<d>> /\ head' = head  BY <1>7 DEF Run
    <2>2. Rest("branch")' = {1} /\ Rest("head")' = {} /\ Rest("stage")' = {}
          /\ cmd'.todo[1] = d /\ Len(cmd'.todo) = 1
      BY <1>4, <2>1, OneEffect
    <2>3. BranchFacts'  BY <1>4, <1>7, <2>1, <2>2 DEF BranchFacts
    <2>4. <<d>> \in Seq(EffectType')  BY <1>4
    <2> QED  BY <1>3, <1>7, <2>2, <2>3, <2>4
  <1> QED  BY <1>5, <1>6, <1>7 DEF CreateBranch, DeleteBranch, m, h, d

(* What a clean working copy is.                                            *)
LEMMA CleanMeans ==
    ASSUME WorkTypeOK, ~Uncommitted
    PROVE  /\ \A p \in Jsonl : work[p] = Gone \/ work[p] = Tree(Tip)[p]
           /\ sparse = Path =>
                  \A p \in Path : /\ Tree(Tip)[p] # Broken
                                  /\ p \in Jsonl => work[p] = Tree(Tip)[p]
  <1> DEFINE tracked == {p \in sparse : \/ p \in Jsonl /\ Tree(Tip)[p] # Gone
                                        \/ Tree(Tip)[p] = Broken}
             present == {p \in Jsonl : work[p] # Gone}
  <1>1. tracked = present /\ \A p \in present : work[p] = Tree(Tip)[p]
    BY DEF Uncommitted
  <1>2. \A p \in present : work[p] # Broken
    BY WorkAssumption DEF WorkTypeOK
  <1>3. \A p \in sparse : Tree(Tip)[p] = Broken => p \in present  BY <1>1
  <1>4. \A p \in Jsonl : work[p] = Gone => p \notin present  OBVIOUS
  <1>5. \A p \in Jsonl \cap sparse : p \notin present => Tree(Tip)[p] = Gone  BY <1>1
  <1> QED  BY <1>1, <1>2, <1>3, <1>4, <1>5, WorkAssumption

(* A command that brings the files of commit c, started on a clean copy.    *)
LEMMA StartsClean ==
    ASSUME WorkTypeOK, work' = work, sparse' = sparse,
           cmd'.clean => ~Uncommitted /\ sparse = Path,
           NEW c \in Commit', NEW tree \in [Path -> Entry], Tree(c)' = tree, EndsAt(c)',
           Rest("sparse")' = {}, NEW k, Rest("write")' = {k},
           sparse = Path => cmd'.todo[k].files = Changes(tree, Tree(Tip), Path)
    PROVE  CleanFacts'
  <1> SUFFICES ASSUME cmd'.clean  PROVE  \A p \in Path : BringsFile(p, c)'
    BY DEF CleanFacts
  <1>1. PICK f : f = Changes(tree, Tree(Tip), Path)  OBVIOUS
  <1>2. cmd'.todo[k].files = f /\ k \in Rest("write")'  BY <1>1
  <1> SUFFICES ASSUME NEW p \in Path  PROVE BringsFile(p, c)'
    OBVIOUS
  <1>3. /\ p \in DOMAIN f => f[p] = tree[p]
        /\ p \notin DOMAIN f => tree[p] = Tree(Tip)[p]
    BY <1>1, ChangesBring
  <1>4. CASE p \in DOMAIN f
    BY <1>2, <1>3, <1>4 DEF BringsFile
  <1>5. CASE p \notin DOMAIN f
    <2>1. tree[p] # Broken /\ (p \in Jsonl => work[p] = tree[p])
      BY <1>3, <1>5, CleanMeans
    <2> QED  BY <1>2, <1>5, <2>1 DEF BringsFile
  <1> QED  BY <1>4, <1>5

(* A command that looks before it writes the files of commit c.             *)
LEMMA StartsCommitted ==
    ASSUME WorkTypeOK, commits' = commits, work' = work, ~Uncommitted,
           NEW c \in Commit, NEW k, Rest("write")' = {k}, NEW within, NEW old,
           cmd'.todo[k].files = Changes(Tree(c), old, within)
    PROVE  WriteFacts'
  <1>1. PICK f : f = Changes(Tree(c), old, within)  OBVIOUS
  <1>2. cmd'.todo[k].files = f  BY <1>1
  <1>3. c \in Known  BY DEF Known, Commit, WorkTypeOK
  <1>4. \A p \in DOMAIN f : f[p] = Gone \/ f[p] = Tree(c)[p]
    BY <1>1, <1>3, TreeTyped, ChangesBring
  <1>5. \A p \in Jsonl : work'[p] = Gone \/ Tree(Tip)[p] = work'[p]  BY CleanMeans
  <1>6. \A x : Tree(x)' = Tree(x)  BY DEF Tree
  <1>7. Commit' = Commit  BY DEF Commit
  <1>8. \A p \in Jsonl : Committed(p, work[p])'
    BY <1>5, <1>6, <1>7, TipKnown DEF Committed
  <1>9. \A p \in Jsonl : \A i \in Rest("write")' :
            p \in DOMAIN cmd'.todo[i].files => Committed(p, cmd.todo[i].files[p])'
    BY <1>2, <1>4, <1>6, <1>7 DEF Committed
  <1> QED  BY <1>8, <1>9 DEF WriteFacts

LEMMA SwitchStarts ==
    ASSUME WorkTypeOK, NEW b \in Branch, Switch(b)
    PROVE  WorkTypeOK' /\ WInv'
  <1>c. PICK c : c = refs[b]  OBVIOUS
  <1>f. PICK f : f = Changes(Tree(c), Tree(Tip), sparse)  OBVIOUS
  <1> DEFINE w == Write(f)
             h == MoveHead(b)
  <1>1. Grown /\ commits' = commits /\ ~Uncommitted  BY SameCommits DEF Switch
  <1>2. c \in Known /\ c # 0 /\ c \in Commit
    BY <1>c DEF Switch, WorkTypeOK, Known, Commit
  <1>3. Tree(c) \in [Path -> Entry]  BY <1>2, TreeTyped
  <1>4. f \in FileSet  BY <1>f, <1>3, ChangesBring
  <1>5. /\ w \in EffectType' /\ h \in EffectType'
        /\ w.do = "write" /\ w.files = f /\ h.do = "head" /\ h.branch = b
    BY <1>4, EffectsTyped, DoOf
  <1>6. Run("switch", <<w, h>>)  BY <1>c, <1>f DEF Switch
  <1> HIDE DEF w, h
  <1>7. <<w, h>> \in Seq(EffectType')  BY <1>5
  <1>8. /\ WorkTypeOK' /\ cmd'.name = "switch" /\ cmd'.todo = <<w, h>>
        /\ cmd'.clean = (~Uncommitted /\ sparse = Path)
        /\ UNCHANGED <<refs, head, index, work, sparse>>
        /\ \A x \in Known : Tree(x)' = Tree(x)
    BY <1>1, <1>6, <1>7, RunTyped DEF Names
  <1>9. /\ Rest("write")' = {1} /\ Rest("head")' = {2} /\ Rest("branch")' = {}
        /\ Rest("stage")' = {} /\ Rest("sparse")' = {}
        /\ cmd'.todo[1] = w /\ cmd'.todo[2] = h
    BY <1>5, <1>8, TwoEffects
  <1>10. BranchFacts'  BY <1>c, <1>2, <1>5, <1>8, <1>9 DEF BranchFacts
  <1>11. StageFacts'  BY <1>9 DEF StageFacts
  <1>12. WriteFacts'
    BY <1>1, <1>2, <1>5, <1>8, <1>9, <1>f, StartsCommitted
  <1>13. CleanFacts'
    <2>1. EndsAt(c)'  BY <1>c, <1>5, <1>8, <1>9 DEF EndsAt
    <2>2. c \in Commit' /\ Tree(c)' = Tree(c)  BY <1>1, <1>2, <1>8 DEF Grown
    <2> QED  BY <1>3, <1>5, <1>8, <1>9, <1>f, <2>1, <2>2, StartsClean
  <1> QED  BY <1>8, <1>10, <1>11, <1>12, <1>13 DEF WInv

LEMMA ForceStarts ==
    ASSUME WorkTypeOK, NEW b \in Branch, SwitchForce(b)
    PROVE  WorkTypeOK' /\ WInv'
  <1>c. PICK c : c = refs[b]  OBVIOUS
  <1>f. PICK f : f = Changes(Tree(c), Tree(Tip), sparse)  OBVIOUS
  <1> DEFINE w == Write(f)
             h == MoveHead(b)
  <1>1. Grown /\ commits' = commits  BY SameCommits DEF SwitchForce
  <1>2. c \in Known /\ c # 0 /\ c \in Commit
    BY <1>c DEF SwitchForce, WorkTypeOK, Known, Commit
  <1>3. Tree(c) \in [Path -> Entry]  BY <1>2, TreeTyped
  <1>4. f \in FileSet  BY <1>f, <1>3, ChangesBring
  <1>5. /\ w \in EffectType' /\ h \in EffectType' /\ Clear \in EffectType'
        /\ w.do = "write" /\ w.files = f /\ h.do = "head" /\ h.branch = b
        /\ Clear.do = "stage"
    BY <1>4, EffectsTyped, DoOf
  <1>6. Run("force", <<w, h>>) \/ Run("force", <<Clear, w, h>>)
    BY <1>c, <1>f DEF SwitchForce
  <1> HIDE DEF w, h
  <1>7. /\ <<w, h>> \in Seq(EffectType') /\ <<Clear, w, h>> \in Seq(EffectType')  BY <1>5
  <1>8. /\ WorkTypeOK' /\ cmd'.name = "force"
        /\ cmd'.todo = <<w, h>> \/ cmd'.todo = <<Clear, w, h>>
        /\ cmd'.clean = (~Uncommitted /\ sparse = Path)
        /\ UNCHANGED <<refs, head, index, work, sparse>>
        /\ \A x \in Known : Tree(x)' = Tree(x)
    <2>1. "force" \in Names  BY DEF Names
    <2>2. CASE Run("force", <<w, h>>)  BY <1>1, <1>7, <2>1, <2>2, RunTyped
    <2>3. CASE Run("force", <<Clear, w, h>>)  BY <1>1, <1>7, <2>1, <2>3, RunTyped
    <2> QED  BY <1>6, <2>2, <2>3
  <1>9. PICK k \in {1, 2} :
            /\ Rest("write")' = {k} /\ Rest("head")' = {k + 1} /\ Rest("branch")' = {}
            /\ Rest("sparse")' = {} /\ cmd'.todo[k] = w /\ cmd'.todo[k + 1] = h
    <2>1. CASE cmd'.todo = <<w, h>>
      <3>1. /\ Rest("write")' = {1} /\ Rest("head")' = {2} /\ Rest("branch")' = {}
            /\ Rest("sparse")' = {} /\ cmd'.todo[1] = w /\ cmd'.todo[2] = h
        BY <1>5, <2>1, TwoEffects
      <3> QED  BY <3>1
    <2>2. CASE cmd'.todo = <<Clear, w, h>>
      <3>1. /\ Rest("write")' = {2} /\ Rest("head")' = {3} /\ Rest("branch")' = {}
            /\ Rest("sparse")' = {} /\ cmd'.todo[2] = w /\ cmd'.todo[3] = h
        BY <1>5, <2>2, ThreeEffects
      <3> QED  BY <3>1
    <2> QED  BY <1>8, <2>1, <2>2
  <1>10. BranchFacts'  BY <1>c, <1>2, <1>5, <1>8, <1>9 DEF BranchFacts
  <1>11. StageFacts' /\ WriteFacts'  BY <1>8 DEF StageFacts, WriteFacts
  <1>12. CleanFacts'
    <2>1. EndsAt(c)'  BY <1>c, <1>5, <1>8, <1>9 DEF EndsAt
    <2>2. c \in Commit' /\ Tree(c)' = Tree(c)  BY <1>1, <1>2, <1>8 DEF Grown
    <2> QED  BY <1>3, <1>5, <1>8, <1>9, <1>f, <2>1, <2>2, StartsClean
  <1> QED  BY <1>8, <1>10, <1>11, <1>12 DEF WInv

LEMMA PullStarts ==
    ASSUME WorkTypeOK, NEW b \in Branch, NEW c \in Commit, Pull(b, c)
    PROVE  WorkTypeOK' /\ WInv'
  <1>f. PICK f : f = Changes(Tree(c), Tree(refs[b]), sparse)  OBVIOUS
  <1> DEFINE w == Write(f)
             m == MoveBranch(b, c)
             name == IF b = head THEN "pull" ELSE "pull other"
  <1>1. Grown /\ commits' = commits /\ ~Uncommitted  BY SameCommits DEF Pull
  <1>2. c \in Known /\ c # 0 /\ c \in Known'  BY <1>1 DEF WorkTypeOK, Known, Commit, Grown
  <1>3. Tree(c) \in [Path -> Entry]  BY <1>2, TreeTyped
  <1>4. f \in FileSet  BY <1>f, <1>3, ChangesBring
  <1>5. /\ w \in EffectType' /\ m \in EffectType'
        /\ w.do = "write" /\ w.files = f
        /\ m.do = "branch" /\ m.branch = b /\ m.commit = c
    BY <1>2, <1>4, EffectsTyped, DoOf
  <1>6. Run(name, <<m, w>>)  BY <1>f DEF Pull
  <1>n. name \in Names /\ (name = "pull" => b = head) /\ (name # "pull" => name = "pull other")
    BY DEF Names
  <1> HIDE DEF w, m, name
  <1>7. <<m, w>> \in Seq(EffectType')  BY <1>5
  <1>8. /\ WorkTypeOK' /\ cmd'.name = name /\ cmd'.todo = <<m, w>>
        /\ cmd'.clean = (~Uncommitted /\ sparse = Path)
        /\ UNCHANGED <<refs, head, index, work, sparse>>
        /\ \A x \in Known : Tree(x)' = Tree(x)
    BY <1>1, <1>6, <1>7, <1>n, RunTyped
  <1>9. /\ Rest("write")' = {2} /\ Rest("head")' = {} /\ Rest("branch")' = {1}
        /\ Rest("stage")' = {} /\ Rest("sparse")' = {}
        /\ cmd'.todo[1] = m /\ cmd'.todo[2] = w
    BY <1>5, <1>8, TwoEffects
  <1>10. BranchFacts'
    <2>1. refs[b] # 0 => refs[b] \in commits[c].anc  BY DEF Pull
    <2> QED  BY <1>1, <1>2, <1>5, <1>8, <1>9, <2>1 DEF BranchFacts
  <1>11. StageFacts'  BY <1>9 DEF StageFacts
  <1>12. WriteFacts'
    BY <1>1, <1>5, <1>8, <1>9, <1>f, StartsCommitted
  <1>13. CleanFacts'
    <2>1. CASE name = "pull"
      <3>1. EndsAt(c)'  BY <1>n, <2>1, <1>5, <1>8, <1>9 DEF EndsAt
      <3>2. c \in Commit' /\ Tree(c)' = Tree(c)  BY <1>1, <1>2, <1>8 DEF Grown
      <3>3. refs[b] = Tip  BY <1>n, <2>1 DEF Tip
      <3> QED  BY <1>3, <1>5, <1>8, <1>9, <1>f, <3>1, <3>2, <3>3, StartsClean
    <2>2. CASE name # "pull"  BY <1>n, <1>8, <2>2 DEF CleanFacts
    <2> QED  BY <2>1, <2>2
  <1> QED  BY <1>8, <1>10, <1>11, <1>12, <1>13 DEF WInv

(* Commands that write the files of a commit n and then move the branch     *)
(* that is checked out to it.                                               *)
LEMMA LandingStarts ==
    ASSUME WorkTypeOK, Grown, NEW name \in {"merge", "pick"},
           NEW n \in Commit', n # 0, Tip \in commits'[n].anc,
           NEW tree \in [Path -> Entry], Tree(n)' = tree,
           Run(name, <<Write(Changes(tree, Tree(Tip), Path)), MoveBranch(head, n)>>)
    PROVE  WorkTypeOK' /\ WInv'
  <1>f. PICK f : f = Changes(tree, Tree(Tip), Path)  OBVIOUS
  <1> DEFINE w == Write(f)
             m == MoveBranch(head, n)
  <1>1. n \in Known'  BY DEF Known, Commit
  <1>2. f \in FileSet  BY <1>f, ChangesBring
  <1>3. /\ w \in EffectType' /\ m \in EffectType'
        /\ w.do = "write" /\ w.files = f
        /\ m.do = "branch" /\ m.branch = head /\ m.commit = n
    BY <1>1, <1>2, EffectsTyped, DoOf DEF WorkTypeOK
  <1>4. Run(name, <<w, m>>)  BY <1>f
  <1> HIDE DEF w, m
  <1>5. <<w, m>> \in Seq(EffectType') /\ name \in Names
    <2>1. <<w, m>> \in Seq(EffectType')  BY <1>3
    <2>2. name \in Names  BY DEF Names
    <2> QED  BY <2>1, <2>2
  <1>6. /\ WorkTypeOK' /\ cmd'.name = name /\ cmd'.todo = <<w, m>>
        /\ cmd'.clean = (~Uncommitted /\ sparse = Path)
        /\ UNCHANGED <<refs, head, index, work, sparse>>
    BY <1>4, <1>5, RunTyped
  <1>7. /\ Rest("write")' = {1} /\ Rest("head")' = {} /\ Rest("branch")' = {2}
        /\ Rest("stage")' = {} /\ Rest("sparse")' = {}
        /\ cmd'.todo[1] = w /\ cmd'.todo[2] = m
    BY <1>3, <1>6, TwoEffects
  <1>8. BranchFacts'  BY <1>3, <1>6, <1>7 DEF BranchFacts, Tip
  <1>9. StageFacts' /\ WriteFacts'  BY <1>6, <1>7 DEF StageFacts, WriteFacts
  <1>10. CleanFacts'
    <2>1. EndsAt(n)'  BY <1>3, <1>6, <1>7 DEF EndsAt
    <2> QED  BY <1>3, <1>6, <1>7, <1>f, <2>1, StartsClean
  <1> QED  BY <1>6, <1>8, <1>9, <1>10 DEF WInv

LEMMA CommonIsAncestor ==
    ASSUME WorkTypeOK, NEW b \in Branch, refs[b] # Tip, refs[b] # 0,
           NEW base \in Bases(Tip, refs[b])
    PROVE  base \in Known /\ (base # 0 => base \in commits[refs[b]].anc)
  <1>1. refs[b] \in Commit /\ Tip \in Commit
    BY TipKnown DEF WorkTypeOK, Known, Commit
  <1>2. \/ base = 0
        \/ base \in commits[Tip].anc /\ base \in commits[refs[b]].anc
    BY DEF Bases
  <1>3. base = 0 \/ base \in 1..Tip  BY <1>1, <1>2 DEF WorkTypeOK
  <1>4. 0 \in Known /\ 1..Tip \subseteq Known
    BY <1>1 DEF WorkTypeOK, Known, Commit
  <1> QED  BY <1>2, <1>3, <1>4

LEMMA LandStarts ==
    ASSUME WorkTypeOK, NEW kind \in {"merge", "pick"}, NEW base \in Known,
           NEW theirs \in Commit, NEW parents \in SUBSET Commit, Tip \in parents,
           Land(kind, base, theirs, parents)
    PROVE  WorkTypeOK' /\ WInv'
  <1>t. theirs \in Known  BY DEF Known, Commit, WorkTypeOK
  <1>1. PICK tree \in MergedTrees(base, Tip, theirs) :
            \/ /\ Conflicts(tree) # {}
               /\ Run("stop", <<Write([p \in Merged(tree) |-> tree[p]]),
                                Pend(kind, theirs), Note(base, Tip)>>)
               /\ UNCHANGED commits
            \/ /\ Conflicts(tree) = {}
               /\ NewCommit(Tip, parents, tree)
               /\ Run(kind, <<Write(Changes(tree, Tree(Tip), Path)), MoveBranch(head, New)>>)
    BY DEF Land
  <1>2. /\ tree \in [Path -> Entry \cup {Clash}]
        /\ \A p \in Merged(tree) : tree[p] \in Entry
        /\ Conflicts(tree) = {} => tree \in [Path -> Entry]
    <2>1. tree \in [Path -> Entry \cup {Clash}]  BY <1>t, TipKnown, MergedTyped
    <2> QED  BY <2>1 DEF Merged, Conflicts
  <1>3. ASSUME Run("stop", <<Write([p \in Merged(tree) |-> tree[p]]),
                             Pend(kind, theirs), Note(base, Tip)>>),
               UNCHANGED commits
        PROVE  WorkTypeOK' /\ WInv'
    <2> DEFINE S == Merged(tree)
               f == [p \in S |-> tree[p]]
               w == Write(f)
               q == Pend(kind, theirs)
               o == Note(base, Tip)
    <2>1. Grown  BY <1>3, SameCommits
    <2>2. theirs \in Known' /\ base \in Known' /\ Tip \in Known'
      BY <1>t, <2>1, TipKnown DEF Grown
    <2>3. f \in FileSet
      <3>1. S \in SUBSET Path /\ \A p \in S : tree[p] \in Entry  BY <1>2 DEF Merged
      <3> HIDE DEF S
      <3>2. f \in [S -> Entry]  BY <3>1
      <3> QED  BY <3>1, <3>2, SomeFiles
    <2>4. Run("stop", <<w, q, o>>)  BY <1>3
    <2> HIDE DEF f
    <2>5. /\ w \in EffectType' /\ q \in EffectType' /\ o \in EffectType'
          /\ w.do = "write" /\ q.do = "pend" /\ o.do = "note"
      BY <2>2, <2>3, EffectsTyped, DoOf
    <2> HIDE DEF w, q, o
    <2>6. <<w, q, o>> \in Seq(EffectType')  BY <2>5
    <2>7. cmd'.todo = <<w, q, o>>  BY <2>4 DEF Run
    <2>8. Rest("branch")' = {} /\ Rest("head")' = {} /\ Rest("stage")' = {}
      BY <2>5, <2>7, ThreeEffects
    <2> QED  BY <2>1, <2>4, <2>6, <2>8, QuietStarts DEF Names
  <1>4. ASSUME Conflicts(tree) = {}, NewCommit(Tip, parents, tree),
               Run(kind, <<Write(Changes(tree, Tree(Tip), Path)), MoveBranch(head, New)>>)
        PROVE  WorkTypeOK' /\ WInv'
    <2>0. tree \in [Path -> Entry]  BY <1>2, <1>4
    <2>1. PICK n : n = New  OBVIOUS
    <2>2. /\ Grown /\ n \in Commit' /\ n # 0 /\ Tree(n)' = tree
          /\ \A c \in parents : commits[c].anc \subseteq commits'[n].anc
      BY <1>4, <2>0, <2>1, TipKnown, OneMoreCommit
    <2>3. Tip \in commits'[n].anc  BY <2>2, TipIsParent
    <2>4. Run(kind, <<Write(Changes(tree, Tree(Tip), Path)), MoveBranch(head, n)>>)
      BY <1>4, <2>1
    <2> QED  BY <2>0, <2>2, <2>3, <2>4, LandingStarts
  <1> QED  BY <1>1, <1>3, <1>4

LEMMA MergeStarts ==
    ASSUME WorkTypeOK, NEW b \in Branch, Merge(b)
    PROVE  WorkTypeOK' /\ WInv'
  <1>1. refs[b] # 0 /\ refs[b] # Tip /\ refs[b] \in Known /\ refs[b] \in Commit
    BY DEF Merge, WorkTypeOK, Known, Commit
  <1>2. PICK base \in Bases(Tip, refs[b]) :
          \/ /\ base = Tip
             /\ Run("merge", <<Write(Changes(Tree(refs[b]), Tree(Tip), Path)),
                               MoveBranch(head, refs[b])>>)
             /\ UNCHANGED commits
          \/ base \notin {Tip, refs[b]} /\ Land("merge", base, refs[b], {Tip, refs[b]})
    BY DEF Merge
  <1>3. base \in Known /\ (base # 0 => base \in commits[refs[b]].anc)
    BY <1>1, CommonIsAncestor
  <1>4. ASSUME base = Tip, UNCHANGED commits,
               Run("merge", <<Write(Changes(Tree(refs[b]), Tree(Tip), Path)),
                              MoveBranch(head, refs[b])>>)
        PROVE  WorkTypeOK' /\ WInv'
    <2>1. PICK n : n = refs[b]  OBVIOUS
    <2>2. PICK tree : tree = Tree(n)  OBVIOUS
    <2>3. Grown  BY <1>4, SameCommits
    <2>4. n \in Commit' /\ n # 0 /\ Tip \in commits'[n].anc
      BY <1>1, <1>3, <1>4, <2>1, <2>3, TipKnown DEF Grown, WorkTypeOK
    <2>5. tree \in [Path -> Entry] /\ Tree(n)' = tree
      BY <1>1, <1>4, <2>1, <2>2, TreeTyped DEF Tree
    <2>6. Run("merge", <<Write(Changes(tree, Tree(Tip), Path)), MoveBranch(head, n)>>)
      BY <1>4, <2>1, <2>2
    <2> QED  BY <2>3, <2>4, <2>5, <2>6, LandingStarts
  <1>5. ASSUME Land("merge", base, refs[b], {Tip, refs[b]})  PROVE WorkTypeOK' /\ WInv'
    <2>1. {Tip, refs[b]} \in SUBSET Commit  BY <1>1, TipKnown
    <2> QED  BY <1>1, <1>3, <1>5, <2>1, LandStarts
  <1> QED  BY <1>2, <1>4, <1>5

LEMMA CherryPickStarts ==
    ASSUME WorkTypeOK, NEW c \in Commit, CherryPick(c)
    PROVE  WorkTypeOK' /\ WInv'
  <1>1. commits[c].first \in Known
    <2> DEFINE R == [first : Nat, anc : SUBSET Nat, tree : [Path -> Entry]]
    <2>1. \A r \in R : r.first \in Nat  OBVIOUS
    <2>2. commits \in Seq(R) /\ Len(commits) \in Nat /\ c \in 1..Len(commits)
      BY DEF WorkTypeOK, Commit
    <2> HIDE DEF R
    <2>3. commits[c].first \in Nat /\ commits[c].first < c
      BY <2>1, <2>2 DEF WorkTypeOK, Commit
    <2> QED  BY <2>2, <2>3 DEF Known
  <1>2. {Tip} \in SUBSET Commit  BY TipKnown
  <1> QED  BY <1>1, <1>2, LandStarts DEF CherryPick

----------------------------------------------------------------------------
(* Every step keeps the invariant.                                          *)
LEMMA CommandStarts == ASSUME WorkTypeOK, Command  PROVE WorkTypeOK' /\ WInv'
  <1>1. ASSUME NEW p \in Path, Add(p) \/ Reset(p) \/ SparseAdd(p) \/ SparseRemove(p)
        PROVE  WorkTypeOK' /\ WInv'
    BY <1>1, AddStarts, ResetStarts, SparseStarts
  <1>2. CASE CommitStaged \/ ResetAll \/ ResetHard \/ SparseDisable
    BY <1>2, CommitStarts, ResetStarts, ResetHardStarts, SparseStarts
  <1>3. ASSUME NEW b \in Branch, \/ CreateBranch(b) \/ DeleteBranch(b) \/ Switch(b)
                                \/ SwitchForce(b) \/ Merge(b)
        PROVE  WorkTypeOK' /\ WInv'
    BY <1>3, BranchStarts, SwitchStarts, ForceStarts, MergeStarts
  <1>4. ASSUME NEW b \in Branch, NEW c \in Commit, Pull(b, c)  PROVE WorkTypeOK' /\ WInv'
    BY <1>4, PullStarts
  <1>5. ASSUME NEW c \in Commit, CherryPick(c)  PROVE WorkTypeOK' /\ WInv'
    BY <1>5, CherryPickStarts
  <1>6. ASSUME NEW kind \in {"merge", "pick"}, Continue(kind) \/ Abort(kind)
        PROVE  WorkTypeOK' /\ WInv'
    BY <1>6, ContinueStarts, AbortStarts
  <1> QED  BY <1>1, <1>2, <1>3, <1>4, <1>5, <1>6 DEF Command

LEMMA CutTyped ==
    ASSUME WorkTypeOK, NEW files \in FileSet, NEW S,
           S \subseteq {p \in DOMAIN files : files[p] # Broken},
           NEW g, DOMAIN g = S, \A p \in S : g[p] = files[p] \/ g[p] = Cut,
           work' = Over(g)
    PROVE  work' \in [Path -> Content \cup {Gone}]
  <1>1. /\ S \subseteq Path
        /\ \A p \in S : files[p] \in Content \cup {Gone}
    BY FilesTyped
  <1>2. \A p \in S : g[p] \in Content \cup {Gone}  BY <1>1, WorkAssumption
  <1>3. \A p \in Path : (IF p \in DOMAIN g THEN g[p] ELSE work[p]) \in Content \cup {Gone}
    BY <1>2 DEF WorkTypeOK
  <1> QED  BY <1>3 DEF Over

LEMMA DeathKeeps ==
    ASSUME WorkTypeOK, DieWriting \/ DieStaging \/ DieBetween
    PROVE  WorkTypeOK' /\ WInv'
  <1>1. /\ cmd.todo # <<>> /\ cmd' = Idle
        /\ UNCHANGED <<commits, refs, head, pending, sparse>>
    BY DEF DieWriting, DieStaging, DieBetween, Die
  <1>2. cmd' \in [name : Names, clean : BOOLEAN, todo : Seq(EffectType)'] /\ cmd'.todo = <<>>
    BY <1>1 DEF Idle, Names
  <1>3. index' = Torn \/ index' \in Index
    BY DEF DieWriting, DieStaging, DieBetween, WorkTypeOK
  <1>4. work' \in [Path -> Content \cup {Gone}]
    <2>1. CASE DieStaging \/ DieBetween
      BY <2>1 DEF DieStaging, DieBetween, WorkTypeOK
    <2>2. CASE DieWriting
      <3> DEFINE files == Step.files
      <3>2. files \in FileSet  BY <1>1, <2>2, StepTyped DEF DieWriting, Is
      <3> DEFINE sound == {p \in DOMAIN files : files[p] # Broken}
      <3>3. PICK done \in SUBSET sound :
                \/ work' = Over([p \in done |-> files[p]])
                \/ \E q \in {p \in sound \ done : files[p] # Gone} :
                      work' = Over([p \in done \cup {q} |-> IF p = q THEN Cut ELSE files[p]])
        BY <2>2 DEF DieWriting
      <3> HIDE DEF files
      <3>4. CASE work' = Over([p \in done |-> files[p]])
        <4> DEFINE g == [p \in done |-> files[p]]
        <4>1. DOMAIN g = done /\ \A p \in done : g[p] = files[p]  OBVIOUS
        <4> HIDE DEF g
        <4>2. work' = Over(g)  BY <3>4 DEF g
        <4> QED  BY <3>2, <4>1, <4>2, CutTyped
      <3>5. ASSUME NEW q \in sound,
                   work' = Over([p \in done \cup {q} |-> IF p = q THEN Cut ELSE files[p]])
            PROVE  work' \in [Path -> Content \cup {Gone}]
        <4> DEFINE S == done \cup {q}
                   g == [p \in S |-> IF p = q THEN Cut ELSE files[p]]
        <4>1. /\ DOMAIN g = S /\ S \subseteq sound
              /\ \A p \in S : g[p] = files[p] \/ g[p] = Cut
          OBVIOUS
        <4>2. work' = Over(g)  BY <3>5
        <4> HIDE DEF g, S
        <4> QED  BY <3>2, <4>1, <4>2, CutTyped
      <3> QED  BY <3>3, <3>4, <3>5
    <2> QED  BY <2>1, <2>2
  <1>5. /\ refs' \in [Branch -> Known'] /\ head' \in Branch /\ Tip' # 0
        /\ pending' \in [merge : Known', pick : Known', conflicts : [base : Known', ours : Known']]
        /\ sparse' \subseteq Path
    BY <1>1 DEF WorkTypeOK, Known, Tip
  <1>6. WorkTypeOK'
    BY <1>1, <1>2, <1>3, <1>4, <1>5 DEF WorkTypeOK, Commit
  <1> QED  BY <1>2, <1>6, NothingLeftToDo

LEMMA EditKeeps ==
    ASSUME WorkTypeOK, NEW e \in Edits, Edit(e[1], e[2])
    PROVE  WorkTypeOK' /\ WInv'
  <1>1. e[1] \in Path /\ e[2] \in Content \cup {Gone}  BY WorkAssumption
  <1>2. /\ cmd.todo = <<>> /\ UNCHANGED <<commits, refs, head, index, pending, sparse, cmd>>
        /\ work' = [work EXCEPT ![e[1]] = e[2]]
    BY DEF Edit, Ready
  <1>3. work' \in [Path -> Content \cup {Gone}]  BY <1>1, <1>2 DEF WorkTypeOK
  <1>4. WorkTypeOK'
    BY <1>2, <1>3 DEF WorkTypeOK, Commit, Known, EffectType, Tip
  <1> QED  BY <1>2, <1>4, NothingLeftToDo

LEMMA Holds == WorkTypeOK /\ WInv /\ [Next]_vars => WorkTypeOK' /\ WInv'
  <1> SUFFICES ASSUME WorkTypeOK, WInv, [Next]_vars  PROVE WorkTypeOK' /\ WInv'
    OBVIOUS
  <1>1. CASE UNCHANGED vars
    <2>1. WorkTypeOK'
      BY <1>1 DEF vars, WorkTypeOK, Commit, Known, EffectType, Tip
    <2>2. BranchFacts' /\ StageFacts'
      BY <1>1 DEF vars, WInv, BranchFacts, StageFacts, Rest, InTree, Tree, Tip
    <2>3. WriteFacts'
      BY <1>1 DEF vars, WInv, WriteFacts, Committed, Rest, Tree, Commit
    <2>4. CleanFacts'
      BY <1>1 DEF vars, WInv, CleanFacts, EndsAt, BringsFile, Rest, Tree, Tip, Commit
    <2> QED  BY <2>1, <2>2, <2>3, <2>4 DEF WInv
  <1>2. ASSUME NEW e \in Edits, Edit(e[1], e[2])  PROVE WorkTypeOK' /\ WInv'
    BY <1>2, EditKeeps
  <1> QED  BY <1>1, <1>2, CommandStarts, EffectKeepsInv, DeathKeeps DEF Next

----------------------------------------------------------------------------
(* What the invariant says of single steps.                                 *)
LEMMA CommandShape ==
    ASSUME Command
    PROVE  /\ cmd.todo = <<>>
           /\ UNCHANGED <<refs, head, index, work, pending, sparse>>
  <1>1. \A name, effects : Run(name, effects) =>
            /\ cmd.todo = <<>>
            /\ UNCHANGED <<refs, head, index, work, pending, sparse>>
    BY DEF Run, Ready
  <1>2. ASSUME NEW p \in Path, Add(p) \/ Reset(p) \/ SparseAdd(p) \/ SparseRemove(p)
        PROVE  \E name, effects : Run(name, effects)
    BY <1>2 DEF Add, Reset, SparseAdd, SparseRemove
  <1>3. ASSUME CommitStaged \/ ResetAll \/ ResetHard \/ SparseDisable
        PROVE  \E name, effects : Run(name, effects)
    BY <1>3 DEF CommitStaged, ResetAll, ResetHard, SparseDisable
  <1>4. ASSUME NEW kind, NEW base, NEW theirs, NEW parents, Land(kind, base, theirs, parents)
        PROVE  \E name, effects : Run(name, effects)
    BY <1>4 DEF Land
  <1>5. ASSUME NEW b \in Branch, \/ CreateBranch(b) \/ DeleteBranch(b) \/ Switch(b)
                                \/ SwitchForce(b) \/ Merge(b)
        PROVE  \E name, effects : Run(name, effects)
    BY <1>4, <1>5 DEF CreateBranch, DeleteBranch, Switch, SwitchForce, Merge
  <1>6. ASSUME NEW c \in Commit, CherryPick(c)
        PROVE  \E name, effects : Run(name, effects)
    BY <1>4, <1>6 DEF CherryPick
  <1>7. ASSUME NEW kind \in {"merge", "pick"}, Continue(kind) \/ Abort(kind)
        PROVE  \E name, effects : Run(name, effects)
    BY <1>7 DEF Continue, Abort
  <1>8. ASSUME NEW b \in Branch, NEW c \in Commit, Pull(b, c)
        PROVE  \E name, effects : Run(name, effects)
    BY <1>4, <1>8 DEF Pull
  <1>9. \E name, effects : Run(name, effects)
    BY <1>2, <1>3, <1>5, <1>6, <1>7, <1>8 DEF Command
  <1> QED  BY <1>1, <1>9

(* A step is an effect of the running command, or changes neither a branch  *)
(* nor the files while a command runs, nor the index but to tear it.        *)
LEMMA StepShape ==
    ASSUME [Next]_vars
    PROVE  \/ Effect
           \/ /\ refs' = refs
              /\ index' \in {index, Torn}
              /\ \/ cmd.todo = <<>> \/ cmd' = Idle \/ cmd' = cmd
              /\ \/ cmd.todo = <<>> \/ work' = work \/ DieWriting
  <1>1. CASE Command  BY <1>1, CommandShape
  <1>2. ASSUME NEW e \in Edits, Edit(e[1], e[2])
        PROVE  cmd.todo = <<>> /\ refs' = refs /\ index' = index
    BY <1>2 DEF Edit, Ready
  <1>3. CASE DieWriting \/ DieStaging \/ DieBetween
    BY <1>3 DEF DieWriting, DieStaging, DieBetween, Die
  <1>4. CASE UNCHANGED vars  BY <1>4 DEF vars
  <1> QED  BY <1>1, <1>2, <1>3, <1>4 DEF Next

HeadsGrow ==
    \A b \in Branch :
        0 \notin {refs[b], refs'[b]} => refs[b] \in commits'[refs'[b]].anc

LEMMA HeadsGrowStep == WorkTypeOK /\ WInv /\ [Next]_vars => HeadsGrow
  <1> SUFFICES ASSUME WorkTypeOK, WInv, [Next]_vars, NEW b \in Branch,
                      refs[b] # 0, refs'[b] # 0
               PROVE  refs[b] \in commits'[refs'[b]].anc
    BY DEF HeadsGrow
  <1>1. ASSUME refs'[b] = refs[b]  PROVE refs[b] \in commits'[refs'[b]].anc
    <2>1. /\ refs' \in [Branch -> Known']
          /\ \A c \in Commit' : c \in commits'[c].anc
          /\ Len(commits)' \in Nat
      BY Holds DEF WorkTypeOK
    <2>2. refs'[b] \in 0..Len(commits)' /\ refs'[b] # 0  BY <2>1 DEF Known
    <2>3. refs'[b] \in Commit'  BY <2>1, <2>2 DEF Commit
    <2> QED  BY <1>1, <2>1, <2>3
  <1>2. CASE Effect /\ refs'[b] # refs[b]
    <2>1. /\ cmd.todo # <<>> /\ commits' = commits /\ Step.do = "branch"
          /\ refs' = [refs EXCEPT ![Step.branch] = Step.commit]
      BY <1>2, EffectShape
    <2>2. Step.branch = b /\ refs'[b] = Step.commit
      BY <1>2, <2>1, StepTyped DEF WorkTypeOK
    <2>3. 1 \in DOMAIN cmd.todo
      <3>1. cmd.todo \in Seq(EffectType)  BY DEF WorkTypeOK
      <3> HIDE DEF EffectType
      <3> QED  BY <2>1, <3>1
    <2>4. 1 \in Rest("branch")  BY <2>1, <2>3 DEF Rest, Step
    <2> QED  BY <2>1, <2>2, <2>4 DEF WInv, BranchFacts, Step
  <1> QED  BY <1>1, <1>2, StepShape

LookBeforeWriting ==
    \A p \in Jsonl :
        (cmd.name \in {"switch", "pull"} /\ cmd.todo # <<>> /\ work'[p] # work[p]) =>
            work[p] = Gone \/ \E c \in Commit : Tree(c)[p] = work[p]

LEMMA LookBeforeWritingHolds == WInv => LookBeforeWriting
  BY DEF WInv, WriteFacts, Committed, LookBeforeWriting

StagedIsKept ==
    \A p \in Jsonl :
        (index # Torn /\ index' \notin {index, Torn}) =>
            \/ index[p] \in {Unstaged, Deletion, index'[p]}
            \/ cmd.name \in {"add", "reset", "force", "abort"}
            \/ Tree(Tip)[p] = index[p]

LEMMA StagedIsKeptStep == WorkTypeOK /\ WInv /\ [Next]_vars => StagedIsKept
  <1> SUFFICES ASSUME WorkTypeOK, WInv, [Next]_vars, NEW p \in Jsonl,
                      index # Torn, index' \notin {index, Torn},
                      cmd.name \notin {"add", "reset", "force", "abort"}
               PROVE  index[p] \in {Unstaged, Deletion, Tree(Tip)[p]}
    BY DEF StagedIsKept
  <1>1. Effect  BY StepShape
  <1>2. cmd.todo # <<>> /\ Step.do = "stage"  BY <1>1, EffectShape
  <1>3. cmd.todo \in Seq(EffectType)  BY DEF WorkTypeOK
  <1>4. 1 \in DOMAIN cmd.todo
    <2> HIDE DEF EffectType
    <2> QED  BY <1>2, <1>3
  <1>5. 1 \in Rest("stage")  BY <1>2, <1>4 DEF Rest, Step
  <1> QED  BY <1>5 DEF WInv, StageFacts, InTree

EndsClean ==
    (cmd.name \in {"switch", "force", "pull", "merge", "pick"} /\ cmd.clean
        /\ Len(cmd.todo) = 1 /\ cmd' = Done) => ~Uncommitted'

(* The last effect leaves the files of the commit that is then checked out. *)
LEMMA EndsCleanStep == WorkTypeOK /\ WInv /\ [Next]_vars => EndsClean
  <1> SUFFICES ASSUME WorkTypeOK, WInv, [Next]_vars,
                      cmd.name \in {"switch", "force", "pull", "merge", "pick"}, cmd.clean,
                      Len(cmd.todo) = 1, cmd' = Done
               PROVE  ~Uncommitted'
    BY DEF EndsClean
  <1>1. cmd.todo # <<>>  OBVIOUS
  <1>2. Effect
    <2>1. cmd' # Idle /\ cmd' # cmd  BY <1>1 DEF Idle, Done
    <2> QED  BY <1>1, <2>1, StepShape
  <1>3. cmd.todo \in Seq(EffectType)  BY DEF WorkTypeOK
  <1>4. DOMAIN cmd.todo = {1}
    <2> HIDE DEF EffectType
    <2> QED  BY <1>3
  <1>5. \A d : Rest(d) = IF Step.do = d THEN {1} ELSE {}  BY <1>4 DEF Rest, Step
  <1>6. PICK c \in Commit : EndsAt(c) /\ \A p \in Path : BringsFile(p, c)
    BY <1>1 DEF WInv, CleanFacts
  <1>7. sparse = Path /\ Step.do # "sparse"  BY <1>1, <1>5 DEF WInv, CleanFacts
  <1>8. sparse' = Path /\ commits' = commits  BY <1>2, <1>7, EffectShape
  <1>9. Tip' = c
    <2>1. CASE Step.do = "branch"
      <3>1. Step.branch = head /\ Step.commit = c  BY <1>5, <1>6, <2>1 DEF EndsAt, Step
      <3>2. refs' = [refs EXCEPT ![head] = c] /\ head' = head
        BY <1>2, <2>1, <3>1, EffectShape
      <3> QED  BY <3>2 DEF WorkTypeOK, Tip
    <2>2. CASE Step.do = "head"
      <3>1. refs[Step.branch] = c  BY <1>5, <1>6, <2>2 DEF EndsAt, Step
      <3>2. refs' = refs /\ head' = Step.branch  BY <1>2, <2>2, EffectShape
      <3> QED  BY <3>1, <3>2 DEF Tip
    <2>3. CASE Step.do \notin {"branch", "head"}
      <3>1. Tip = c  BY <1>5, <1>6, <2>3 DEF EndsAt
      <3>2. refs' = refs /\ head' = head  BY <1>2, <2>3, EffectShape
      <3> QED  BY <3>1, <3>2 DEF Tip
    <2> QED  BY <2>1, <2>2, <2>3
  <1>10. ASSUME NEW p \in Path
         PROVE  Tree(c)[p] # Broken /\ (p \in Jsonl => work'[p] = Tree(c)[p])
    <2>1. BringsFile(p, c)  BY <1>6
    <2>2. CASE Step.do = "write"
      <3>1. /\ work' = Over(Step.files)
            /\ \A q \in DOMAIN Step.files : Step.files[q] # Broken
        BY <1>2, <2>2, EffectShape
      <3>2. work'[p] = IF p \in DOMAIN Step.files THEN Step.files[p] ELSE work[p]
        BY <3>1 DEF Over
      <3> QED  BY <1>5, <2>1, <2>2, <3>1, <3>2 DEF BringsFile, Step
    <2>3. CASE Step.do # "write"
      <3>1. work' = work  BY <1>2, <2>3, EffectShape
      <3> QED  BY <1>5, <2>1, <2>3, <3>1 DEF BringsFile
    <2> QED  BY <2>2, <2>3
  <1>11. Tree(Tip)' = Tree(c)  BY <1>8, <1>9 DEF Tree
  <1>12. {p \in sparse' : \/ p \in Jsonl /\ Tree(Tip)'[p] # Gone
                          \/ Tree(Tip)'[p] = Broken}
            = {p \in Jsonl : work'[p] # Gone}
    BY <1>8, <1>10, <1>11, WorkAssumption
  <1>13. \A p \in Jsonl : work'[p] = Tree(Tip)'[p]  BY <1>10, <1>11, WorkAssumption
  <1> QED  BY <1>12, <1>13 DEF Uncommitted

----------------------------------------------------------------------------
LEMMA Invariant == Spec => [](WorkTypeOK /\ WInv)
  BY Starts, Holds, PTL DEF Spec

(* The files, the index, the branches and the commits always fit together:  *)
(* in particular the branch that is checked out exists.                     *)
THEOREM WorkTyped == Spec => []WorkTypeOK
  BY Invariant, PTL

(* What a running command has still to do fits what it read (cli/main.py,   *)
(* one command at a time).                                                  *)
THEOREM WorkInvariant == Spec => []WInv
  BY Invariant, PTL

(* No command takes commits off a branch: commit, merge, cherry-pick,       *)
(* --continue and pull move it to a descendant, wherever they died before.  *)
THEOREM HeadsGrowAlways == Spec => HeadsOnlyGrow
  <1>1. WorkTypeOK /\ WInv /\ [Next]_vars => [HeadsGrow]_vars  BY HeadsGrowStep
  <1> QED  BY <1>1, Invariant, PTL DEF Spec, HeadsOnlyGrow, HeadsGrow

(* checkout, switch and pull replace no row that is in no commit, also when *)
(* they died half way and are run again (_has_uncommitted_changes).         *)
THEOREM OnlyCommittedGoes == Spec => OnlyCommittedIsReplaced
  <1>1. WInv => [LookBeforeWriting]_vars  BY LookBeforeWritingHolds
  <1> QED  BY <1>1, Invariant, PTL DEF Spec, OnlyCommittedIsReplaced, LookBeforeWriting

(* A clean working copy is clean again when checkout, pull, merge or        *)
(* cherry-pick has ended (_materialize_tree against the moved branch).      *)
THEOREM CleanEndsClean == Spec => CleanStaysClean
  <1>1. WorkTypeOK /\ WInv /\ [Next]_vars => [EndsClean]_vars  BY EndsCleanStep
  <1> QED  BY <1>1, Invariant, PTL DEF Spec, CleanStaysClean, EndsClean

(* The index is cleared only when the head's tree has the staged rows, or   *)
(* by a command that gives them up by name (commit, --continue).            *)
THEOREM StagedIsNotLost == Spec => StagedIsCommitted
  <1>1. WorkTypeOK /\ WInv /\ [Next]_vars => [StagedIsKept]_vars  BY StagedIsKeptStep
  <1> QED  BY <1>1, Invariant, PTL DEF Spec, StagedIsCommitted, StagedIsKept
=============================================================================
