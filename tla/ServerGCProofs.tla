--------------------------- MODULE ServerGCProofs ---------------------------
(* Collections on the server do no harm but the one their grace period      *)
(* leaves open, for any clients, branches and object graph.  RemoteSync's   *)
(* IInv is of no use here: it rests on a store that only grows.  What stays *)
(* is that the collector's list holds only old files, and that no file of a *)
(* running push is old.                                                     *)
EXTENDS ServerGC, RemoteSyncProofs

GcInv ==
    /\ TypeOK /\ PushTips /\ GcTypeOK
    /\ condemned \subseteq aged
    /\ \A c \in Client : own[c] \subseteq server \ aged

LEMMA GcStarts == GcInit => GcInv
  <1> SUFFICES ASSUME GcInit  PROVE GcInv
    OBVIOUS
  <1>1. TypeOK  BY TypeStart DEF GcInit
  <1>2. PushTips  BY DEF GcInit, Init, PushTips, Idle
  <1> QED  BY <1>1, <1>2 DEF GcInit, Init, GcInv, GcTypeOK

(* A push keeps its branch, and the branch its head, until the push ends.   *)
LEMMA PushTipsStep == TypeOK /\ PushTips /\ [Next]_vars => PushTips'
  <1> SUFFICES ASSUME TypeOK, PushTips, [Next]_vars,
                      NEW e \in Client, cmd'[e].op = "push"
               PROVE  cmd'[e].branch \in Branch /\ Tip(e)' # NoCommit
    BY DEF PushTips
  <1> USE DEF TypeOK
  <1>f. ASSUME cmd'[e].op = cmd[e].op, cmd'[e].branch = cmd[e].branch, heads'[e] = heads[e]
        PROVE  cmd'[e].branch \in Branch /\ Tip(e)' # NoCommit
    BY <1>f DEF PushTips, Tip
  <1>g. ASSUME NEW c \in Client, heads' = heads,
               \/ \E u, m : cmd' = [cmd EXCEPT ![c].unchecked = u, ![c].missing = m]
               \/ \E q, p : cmd' = [cmd EXCEPT ![c].queue = q, ![c].parts = p]
               \/ \E m : cmd' = [cmd EXCEPT ![c].missing = m]
               \/ \E q : cmd' = [cmd EXCEPT ![c].queue = q]
               \/ \E p : cmd' = [cmd EXCEPT ![c].parts = p]
        PROVE  cmd'[e].branch \in Branch /\ Tip(e)' # NoCommit
    <2>1. cmd'[e].op = cmd[e].op /\ cmd'[e].branch = cmd[e].branch
      <3>1. CASE c # e  BY <1>g, <3>1
      <3>2. CASE c = e
        <4>1. cmd[e] \in Command  OBVIOUS
        <4>2. ASSUME NEW u, NEW m, cmd' = [cmd EXCEPT ![c].unchecked = u, ![c].missing = m]
              PROVE  cmd'[e].op = cmd[e].op /\ cmd'[e].branch = cmd[e].branch
          BY <4>1, <4>2, <3>2 DEF Command
        <4>3. ASSUME NEW q, NEW p, cmd' = [cmd EXCEPT ![c].queue = q, ![c].parts = p]
              PROVE  cmd'[e].op = cmd[e].op /\ cmd'[e].branch = cmd[e].branch
          BY <4>1, <4>3, <3>2 DEF Command
        <4>4. ASSUME NEW s, \/ cmd' = [cmd EXCEPT ![c].missing = s]
                            \/ cmd' = [cmd EXCEPT ![c].queue = s]
                            \/ cmd' = [cmd EXCEPT ![c].parts = s]
              PROVE  cmd'[e].op = cmd[e].op /\ cmd'[e].branch = cmd[e].branch
          BY <4>1, <4>4, <3>2 DEF Command
        <4> QED  BY <1>g, <4>2, <4>3, <4>4
      <3> QED  BY <3>1, <3>2
    <2> QED  BY <1>g, <1>f, <2>1
  <1>i. ASSUME NEW c \in Client, cmd' = [cmd EXCEPT ![c] = Idle],
               c # e => heads'[e] = heads[e]
        PROVE  cmd'[e].branch \in Branch /\ Tip(e)' # NoCommit
    <2>1. c # e  BY <1>i DEF Idle
    <2> QED  BY <1>f, <1>i, <2>1
  <1>1. ASSUME NEW c \in Client, NEW b \in Branch, NEW x \in Commit, CommitLocally(c, b, x)
        PROVE  cmd'[e].branch \in Branch /\ Tip(e)' # NoCommit
    <2>1. cmd' = cmd /\ c # e /\ heads'[e] = heads[e]  BY <1>1 DEF CommitLocally
    <2> QED  BY <1>f, <2>1
  <1>2. ASSUME NEW c \in Client, NEW b \in Branch, NEW d \in Branch, CreateBranch(c, b, d)
        PROVE  cmd'[e].branch \in Branch /\ Tip(e)' # NoCommit
    <2>1. cmd' = cmd /\ c # e /\ heads'[e] = heads[e]  BY <1>2 DEF CreateBranch
    <2> QED  BY <1>f, <2>1
  <1>3. ASSUME NEW c \in Client, NEW b \in Branch, StartPush(c, b)
        PROVE  cmd'[e].branch \in Branch /\ Tip(e)' # NoCommit
    <2>1. CASE c = e  BY <1>3, <2>1 DEF StartPush, Idle, Tip
    <2>2. CASE c # e
      <3>1. cmd'[e] = cmd[e] /\ heads' = heads  BY <1>3, <2>2 DEF StartPush
      <3> QED  BY <1>f, <3>1
    <2> QED  BY <2>1, <2>2
  <1>4. ASSUME NEW c \in Client, CheckExists(c) \/ \E o \in Object : Upload(c, o)
        PROVE  cmd'[e].branch \in Branch /\ Tip(e)' # NoCommit
    <2>1. CASE CheckExists(c)  BY <2>1, <1>g DEF CheckExists
    <2>2. ASSUME NEW o \in Object, Upload(c, o)
          PROVE  cmd'[e].branch \in Branch /\ Tip(e)' # NoCommit
      BY <2>2, <1>g DEF Upload
    <2> QED  BY <1>4, <2>1, <2>2
  <1>5. ASSUME NEW c \in Client, FinishPush(c) \/ GiveUpOnCas(c) \/ Abort(c) \/ CheckRefused(c)
        PROVE  cmd'[e].branch \in Branch /\ Tip(e)' # NoCommit
    BY <1>5, <1>i DEF FinishPush, GiveUpOnCas, Abort, CheckRefused
  <1>6. ASSUME NEW m, ServeLate(m)
        PROVE  cmd'[e].branch \in Branch /\ Tip(e)' # NoCommit
    BY <1>6, <1>f DEF ServeLate
  <1>7. ASSUME NEW b \in Branch, DeleteRef(b)
        PROVE  cmd'[e].branch \in Branch /\ Tip(e)' # NoCommit
    BY <1>7, <1>f DEF DeleteRef
  <1>8. ASSUME NEW c \in Client, NEW b \in Branch, NEW op \in UsedOps, StartFetch(c, b, op)
        PROVE  cmd'[e].branch \in Branch /\ Tip(e)' # NoCommit
    <2>1. c # e  BY <1>8, SyncAssumption DEF StartFetch, Idle
    <2>2. cmd'[e] = cmd[e] /\ heads' = heads  BY <1>8, <2>1 DEF StartFetch
    <2> QED  BY <1>f, <2>2
  <1>9. ASSUME NEW c \in Client,
               \/ \E x \in Commit : FetchCommit(c, x)
               \/ \E o \in Object : FetchPart(c, o)
        PROVE  cmd'[e].branch \in Branch /\ Tip(e)' # NoCommit
    <2>1. ASSUME NEW x \in Commit, FetchCommit(c, x)
          PROVE  cmd'[e].branch \in Branch /\ Tip(e)' # NoCommit
      BY <2>1, <1>g DEF FetchCommit
    <2>2. ASSUME NEW o \in Object, FetchPart(c, o)
          PROVE  cmd'[e].branch \in Branch /\ Tip(e)' # NoCommit
      BY <2>2, <1>g DEF FetchPart
    <2> QED  BY <1>9, <2>1, <2>2
  <1>10. ASSUME NEW c \in Client, FinishFetch(c)
         PROVE  cmd'[e].branch \in Branch /\ Tip(e)' # NoCommit
    <2>1. c # e => heads'[e] = heads[e]  BY <1>10 DEF FinishFetch
    <2> QED  BY <1>10, <1>i, <2>1 DEF FinishFetch
  <1>11. CASE UNCHANGED vars  BY <1>11, <1>f DEF vars
  <1> QED
    BY <1>1, <1>2, <1>3, <1>4, <1>5, <1>6, <1>7, <1>8, <1>9, <1>10, <1>11
    DEF Next, ClientStep, UserStep

(* No client ever removes a file from the server.                           *)
LEMMA ClientsOnlyAdd ==
    ASSUME NEW c \in Client, ClientStep(c) \/ UserStep(c) \/ Abort(c)
    PROVE  server \subseteq server'
  BY DEF ClientStep, UserStep, CheckExists, CheckRefused, Upload, FinishPush, FetchCommit,
     FetchPart, FinishFetch, CommitLocally, CreateBranch, StartPush, StartFetch, Abort

(* Steps of the client keep the collector's variables apart: what it stores *)
(* was absent, so it is neither old nor condemned.                          *)
LEMMA GcClientKeeps ==
    ASSUME GcInv, NEW c \in Client, GcClientStep(c)
    PROVE  GcInv'
  <1>1. server \subseteq server'  BY ClientsOnlyAdd DEF GcClientStep
  <1>2. [Next]_vars  BY DEF GcClientStep, Next
  <1>3. TypeOK' /\ PushTips'  BY <1>2, TypeStep, PushTipsStep DEF GcInv
  <1>4. /\ server' \subseteq Object /\ aged' = aged /\ condemned' = condemned
        /\ aged \subseteq server /\ condemned \subseteq aged
        /\ own \in [Client -> SUBSET Object]
    BY <1>3 DEF GcInv, GcTypeOK, TypeOK, GcClientStep
  <1>5. \/ own' = [own EXCEPT ![c] = @ \cup (server' \ server)]
        \/ own' = [own EXCEPT ![c] = {}]
    BY DEF GcClientStep
  <1>6. own' \in [Client -> SUBSET Object]  BY <1>4, <1>5
  <1>7. \A e \in Client : own'[e] \subseteq server' \ aged'
    BY <1>1, <1>4, <1>5 DEF GcInv
  <1> QED  BY <1>1, <1>3, <1>4, <1>6, <1>7 DEF GcInv, GcTypeOK

LEMMA GcStep == GcInv /\ [GcNext]_gcVars => GcInv'
  <1> SUFFICES ASSUME GcInv, [GcNext]_gcVars  PROVE GcInv'
    OBVIOUS
  <1>u. ASSUME UNCHANGED vars  PROVE TypeOK' /\ PushTips'
    BY <1>u DEF vars, GcInv, TypeOK, PushTips, Tip
  <1>1. ASSUME NEW b \in Branch, GcDeleteRef(b)  PROVE GcInv'
    <2>1. [Next]_vars  BY <1>1 DEF GcDeleteRef, Next
    <2>2. TypeOK' /\ PushTips'  BY <2>1, TypeStep, PushTipsStep DEF GcInv
    <2>3. UNCHANGED <<server, aged, own, condemned>>  BY <1>1 DEF GcDeleteRef, DeleteRef
    <2> QED  BY <2>2, <2>3 DEF GcInv, GcTypeOK
  <1>2. ASSUME NEW o \in Object, Age(o)  PROVE GcInv'
    <2>1. TypeOK' /\ PushTips'  BY <1>2, <1>u DEF Age
    <2> QED  BY <1>2, <2>1 DEF GcInv, GcTypeOK, Age, vars
  <1>3. CASE GcStart
    <2>1. TypeOK' /\ PushTips'  BY <1>3, <1>u DEF GcStart
    <2>2. condemned' \subseteq aged  BY <1>3 DEF GcStart, Condemned
    <2> QED  BY <1>3, <2>1, <2>2 DEF GcInv, GcTypeOK, GcStart, vars
  <1>4. ASSUME NEW o \in Object, Unlink(o)  PROVE GcInv'
    <2>1. o \in condemned  BY <1>4, TurnIsFromList DEF Unlink
    <2>2. TypeOK' /\ PushTips'  BY <1>4 DEF Unlink, GcInv, TypeOK, PushTips, Tip
    <2> QED  BY <1>4, <2>1, <2>2 DEF GcInv, GcTypeOK, Unlink
  <1>5. CASE UNCHANGED gcVars
    <2>1. TypeOK' /\ PushTips'  BY <1>5, <1>u DEF gcVars
    <2> QED  BY <1>5, <2>1 DEF GcInv, GcTypeOK, gcVars, vars
  <1> QED  BY <1>1, <1>2, <1>3, <1>4, <1>5, GcClientKeeps DEF GcNext

(* What a collection holds live contains the whole of every branch that is  *)
(* whole, so nothing of it is condemned.                                    *)
LEMMA LiveBranches ==
    ASSUME GcInv, NEW b \in Branch, refs[b] # NoCommit, Reach[refs[b]] \subseteq server
    PROVE  Reach[refs[b]] \subseteq LiveSet(server, RefHashes)
  <1> DEFINE head == refs[b]
             W == WalkSince(server, head, NoCommit)
  <1>1. head \in Commit /\ head \in Object /\ NoCommit \notin Object
    BY GraphAssumption DEF GcInv, TypeOK, MaybeCommit, Commit
  <1>2. /\ W \subseteq Object
        /\ head \in W
        /\ \A o \in W \cap server : Deps[o] \ {NoCommit} \subseteq W
    BY <1>1, WalkIsComplete
  <1>3. W \subseteq Reach[head]  BY <1>1, WalkStaysInHistory
  <1> HIDE DEF W
  <1>4. Closed(W)
    <2>1. \A o \in W : Deps[o] \ {NoCommit} \subseteq W  BY <1>2, <1>3
    <2>2. \A o \in W : NoCommit \notin Deps[o]  BY <1>1, <1>2, GraphAssumption
    <2> QED  BY <2>1, <2>2 DEF Closed
  <1>5. Reach[head] \subseteq W  BY <1>1, <1>2, <1>4, ReachIsLeast
  <1>6. W \subseteq LiveSet(server, RefHashes)  BY DEF LiveSet, RefHashes, W
  <1> QED  BY <1>5, <1>6

WholeStays ==
    \A b \in Branch :
        (/\ refs[b] # NoCommit
         /\ refs'[b] = refs[b]
         /\ Reach[refs[b]] \subseteq server \ condemned)
            => Reach[refs[b]] \subseteq server' \ condemned'

LEMMA WholeStaysStep == GcInv /\ [GcNext]_gcVars => WholeStays
  <1> SUFFICES ASSUME GcInv, [GcNext]_gcVars, NEW b \in Branch, refs[b] # NoCommit,
                      Reach[refs[b]] \subseteq server \ condemned
               PROVE  Reach[refs[b]] \subseteq server' \ condemned'
    BY DEF WholeStays
  <1>1. ASSUME NEW c \in Client, GcClientStep(c)
        PROVE  Reach[refs[b]] \subseteq server' \ condemned'
    <2>1. server \subseteq server' /\ condemned' = condemned
      BY <1>1, ClientsOnlyAdd DEF GcClientStep
    <2> QED  BY <2>1
  <1>2. CASE GcStart
    <2>1. Reach[refs[b]] \subseteq LiveSet(server, RefHashes)  BY LiveBranches
    <2>2. server' = server /\ condemned' = Condemned(server, aged, LiveSet(server, RefHashes))
      BY <1>2 DEF GcStart, vars
    <2> QED  BY <2>1, <2>2 DEF Condemned
  <1>3. ASSUME NEW o \in Object, Unlink(o)
        PROVE  Reach[refs[b]] \subseteq server' \ condemned'
    <2>1. o \in condemned  BY <1>3, TurnIsFromList DEF Unlink
    <2> QED  BY <1>3, <2>1 DEF Unlink
  <1>4. ASSUME server' = server, condemned' = condemned
        PROVE  Reach[refs[b]] \subseteq server' \ condemned'
    BY <1>4
  <1> QED
    BY <1>1, <1>2, <1>3, <1>4 DEF GcNext, gcVars, vars, GcDeleteRef, DeleteRef, Age

----------------------------------------------------------------------------
(* The collector's bookkeeping (gc.py, sweep): only files that are there    *)
(* are condemned or old.                                                    *)
THEOREM GcTyped == GcSpec => []GcTypeOK
  <1>1. GcInv => GcTypeOK  BY DEF GcInv
  <1> QED  BY GcStarts, GcStep, <1>1, PTL DEF GcSpec

(* The grace period protects what a running push has stored itself, however *)
(* many collections start and end meanwhile.                                *)
THEOREM UploadsSurvive == GcSpec => []OwnUploadsSurvive
  <1>1. GcInv => OwnUploadsSurvive  BY DEF GcInv, OwnUploadsSurvive
  <1> QED  BY GcStarts, GcStep, <1>1, PTL DEF GcSpec

(* A branch that is whole, and not on a collection's list, stays whole      *)
(* (collect_live_set, sweep): only a collection that was under way when the *)
(* branch was set can harm it.                                              *)
THEOREM WholeBranchesStay == GcSpec => WholeBranchStays
  <1>1. GcSpec => []GcInv  BY GcStarts, GcStep, PTL DEF GcSpec
  <1>2. GcInv /\ [GcNext]_gcVars => [WholeStays]_gcVars  BY WholeStaysStep
  <1> QED  BY <1>1, <1>2, PTL DEF GcSpec, WholeBranchStays, WholeStays
=============================================================================
