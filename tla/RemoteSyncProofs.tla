-------------------------- MODULE RemoteSyncProofs --------------------------
(* The safety of push, fetch, pull and clone, for any set of working        *)
(* copies, any branches, any object graph and any interleaving.  The        *)
(* argument is IInv: what a running command knows stays true until it ends, *)
(* because the store of the server only grows (RemoteSync has no garbage    *)
(* collection) and each local store changes only by its own commands.       *)
EXTENDS RemoteSync, ObjectGraphProofs

(* The lists of a push hold objects, and a turn is taken from its list.     *)
LEMMA WalkTyping ==
    ASSUME NEW L, NEW head \in Commit, NEW stop
    PROVE  WalkSince(L, head, stop) \subseteq Object
  BY WalkIsComplete

LEMMA TurnIsFromList ==
    ASSUME NEW S, NEW rank  PROVE FirstOf(S, rank) \subseteq S
  BY DEF FirstOf

LEMMA TypeStart == Init => TypeOK
  BY DEF Init, TypeOK, Idle, Command, MaybeCommit

(* A running push has a branch with a head: all that types depend on.       *)
PushTips ==
    \A c \in Client : cmd[c].op = "push" => cmd[c].branch \in Branch /\ Tip(c) # NoCommit

(* A command with other lists of objects is a command.                      *)
LEMMA CommandLists ==
    ASSUME NEW k \in Command, NEW O \in SUBSET Object, NEW M \in SUBSET Object,
           NEW C \in SUBSET Commit
    PROVE  /\ [k EXCEPT !.unchecked = O, !.missing = M] \in Command
           /\ [k EXCEPT !.missing = O] \in Command
           /\ [k EXCEPT !.queue = C] \in Command
           /\ [k EXCEPT !.queue = C, !.parts = O] \in Command
           /\ [k EXCEPT !.parts = O] \in Command
  <1>1. [k EXCEPT !.unchecked = O, !.missing = M] \in Command  BY DEF Command
  <1>2. [k EXCEPT !.missing = O] \in Command  BY DEF Command
  <1>3. [k EXCEPT !.queue = C] \in Command  BY DEF Command
  <1>4. [k EXCEPT !.queue = C, !.parts = O] \in Command  BY DEF Command
  <1>5. [k EXCEPT !.parts = O] \in Command  BY DEF Command
  <1> QED  BY <1>1, <1>2, <1>3, <1>4, <1>5

(* What a command may hold in its lists.                                    *)
LEMMA ListsOf ==
    ASSUME NEW k \in Command
    PROVE  /\ k.unchecked \in SUBSET Object /\ k.missing \in SUBSET Object
           /\ k.queue \in SUBSET Commit /\ k.parts \in SUBSET Object
  BY DEF Command

LEMMA OneCommandChanged ==
    ASSUME cmd \in [Client -> Command], NEW c \in Client, NEW k \in Command,
           cmd' = [cmd EXCEPT ![c] = k]
    PROVE  cmd' \in [Client -> Command]
  OBVIOUS

(* No request, retry or late answer puts a value of the wrong type anywhere.*)
LEMMA TypeStep == TypeOK /\ PushTips /\ [Next]_vars => TypeOK'
  <1> SUFFICES ASSUME TypeOK, PushTips, [Next]_vars  PROVE TypeOK'
    OBVIOUS
  <1> USE DEF TypeOK
  <1>i. Idle \in Command  BY DEF Idle, Command, MaybeCommit
  <1>1. ASSUME NEW c \in Client, NEW b \in Branch, NEW x \in Commit,
               CommitLocally(c, b, x)
        PROVE  TypeOK'
    <2>1. Written(x) \subseteq Object
      BY ReachIsHistory DEF Written, Commit
    <2> QED  BY <1>1, <2>1 DEF CommitLocally, MaybeCommit
  <1>2. ASSUME NEW c \in Client, NEW b \in Branch, NEW d \in Branch,
               CreateBranch(c, b, d)
        PROVE  TypeOK'
    BY <1>2 DEF CreateBranch
  <1>3. ASSUME NEW c \in Client, NEW b \in Branch, StartPush(c, b)
        PROVE  TypeOK'
    <2>1. heads[c][b] \in Commit  BY <1>3 DEF StartPush, MaybeCommit
    <2>2. WalkSince(local[c], heads[c][b], refs[b]) \subseteq Object
      BY <2>1, WalkTyping
    <2>3. refs[b] \in MaybeCommit  OBVIOUS
    <2>4. [Idle EXCEPT !.op = "push", !.branch = b, !.remote = refs[b],
                       !.unchecked = WalkSince(local[c], heads[c][b], refs[b])]
             \in Command
      BY <2>2, <2>3, <1>i DEF Command, Idle
    <2> QED  BY <1>3, <2>4 DEF StartPush
  <1>4. ASSUME NEW c \in Client, CheckExists(c)  PROVE TypeOK'
    <2> DEFINE asked == Asked(c)
    <2>1. asked \subseteq Object  BY TurnIsFromList DEF Command, Asked
    <2> HIDE DEF asked
    <2>2. cmd' = [cmd EXCEPT ![c].unchecked = @ \ asked,
                             ![c].missing = @ \cup (asked \ server)]
      BY <1>4 DEF CheckExists, asked
    <2>3. /\ cmd[c].unchecked \ asked \in SUBSET Object
          /\ cmd[c].missing \cup (asked \ server) \in SUBSET Object
      BY <2>1, ListsOf
    <2>4. cmd' = [cmd EXCEPT ![c] =
                     [cmd[c] EXCEPT !.unchecked = cmd[c].unchecked \ asked,
                                    !.missing = cmd[c].missing \cup (asked \ server)]]
      BY <2>2
    <2>5. cmd' \in [Client -> Command]
      BY <2>3, <2>4, CommandLists, OneCommandChanged
    <2> QED  BY <1>4, <2>5 DEF CheckExists
  <1>5. ASSUME NEW c \in Client, NEW o \in Object, Upload(c, o)
        PROVE  TypeOK'
    <2>1. cmd' = [cmd EXCEPT ![c] = [cmd[c] EXCEPT !.missing = cmd[c].missing \ {o}]]
      BY <1>5 DEF Upload
    <2>2. cmd[c].missing \ {o} \in SUBSET Object  BY ListsOf
    <2>3. cmd' \in [Client -> Command]
      BY <2>1, <2>2, CommandLists, OneCommandChanged
    <2> QED  BY <1>5, <2>3 DEF Upload
  <1>6. ASSUME NEW b, NEW old, NEW new \in Commit, CasUpdateRef(b, old, new)
        PROVE  refs' \in [Branch -> MaybeCommit]
    BY <1>6 DEF CasUpdateRef, MaybeCommit
  <1>7. ASSUME NEW c \in Client, Uploaded(c)
        PROVE  cmd[c].branch \in Branch /\ Tip(c) \in Commit
    BY <1>7 DEF Uploaded, PushTips, Tip, MaybeCommit
  <1>8. ASSUME NEW c \in Client, FinishPush(c)  PROVE TypeOK'
    BY <1>8, <1>6, <1>7, <1>i DEF FinishPush
  <1>9. ASSUME NEW c \in Client, GiveUpOnCas(c)  PROVE TypeOK'
    <2>1. [branch |-> cmd[c].branch, old |-> cmd[c].remote, new |-> Tip(c)]
             \in RefUpdate
      BY <1>9, <1>7 DEF GiveUpOnCas, RefUpdate, Command
    <2> QED  BY <1>9, <2>1, <1>i DEF GiveUpOnCas
  <1>10. ASSUME NEW m \in late, ServeLate(m)  PROVE TypeOK'
    BY <1>10, <1>6 DEF ServeLate, RefUpdate
  <1>11. ASSUME NEW c \in Client, Abort(c) \/ CheckRefused(c)  PROVE TypeOK'
    BY <1>11, <1>i DEF Abort, CheckRefused
  <1>12. ASSUME NEW b \in Branch, DeleteRef(b)  PROVE TypeOK'
    BY <1>12 DEF DeleteRef, MaybeCommit
  <1>13. ASSUME NEW c \in Client, NEW b \in Branch, NEW op \in UsedOps,
                StartFetch(c, b, op)
         PROVE  TypeOK'
    <2>1. refs[b] \in Commit /\ op \in Downloads
      BY <1>13, SyncAssumption DEF StartFetch, MaybeCommit, Downloads, Clones
    <2>2. [Idle EXCEPT !.op = op, !.branch = b, !.remote = refs[b],
                       !.queue = {refs[b]}] \in Command
      BY <2>1 DEF Command, Idle, MaybeCommit
    <2> QED  BY <1>13, <2>2 DEF StartFetch
  <1>14. ASSUME NEW c \in Client, NEW x \in Commit, FetchCommit(c, x)
         PROVE  TypeOK'
    <2>1. /\ Parents(x) \subseteq Commit
          /\ Deps[x] \cap Tree \subseteq Object
          /\ x \in Object
      BY DEF Parents, Tree, Commit
    <2>2. local' \in [Client -> SUBSET Object]
      BY <1>14, <2>1 DEF FetchCommit
    <2>3. cmd' \in [Client -> Command]
      <3>1. \/ cmd' = [cmd EXCEPT ![c].queue = @ \ {x}]
            \/ cmd' = [cmd EXCEPT ![c].queue = (@ \ {x}) \cup Parents(x),
                                  ![c].parts = @ \cup (Deps[x] \cap Tree)]
        BY <1>14 DEF FetchCommit
      <3>2. CASE cmd' = [cmd EXCEPT ![c].queue = @ \ {x}]
        <4>1. cmd' = [cmd EXCEPT ![c] = [cmd[c] EXCEPT !.queue = cmd[c].queue \ {x}]]
          BY <3>2
        <4>2. cmd[c].queue \ {x} \in SUBSET Commit  BY ListsOf
        <4> QED  BY <4>1, <4>2, CommandLists, OneCommandChanged
      <3>3. CASE cmd' = [cmd EXCEPT ![c].queue = (@ \ {x}) \cup Parents(x),
                                    ![c].parts = @ \cup (Deps[x] \cap Tree)]
        <4>1. cmd' = [cmd EXCEPT ![c] =
                 [cmd[c] EXCEPT !.queue = (cmd[c].queue \ {x}) \cup Parents(x),
                                !.parts = cmd[c].parts \cup (Deps[x] \cap Tree)]]
          BY <3>3
        <4>2. /\ (cmd[c].queue \ {x}) \cup Parents(x) \in SUBSET Commit
              /\ cmd[c].parts \cup (Deps[x] \cap Tree) \in SUBSET Object
          BY <2>1, ListsOf
        <4> QED  BY <4>1, <4>2, CommandLists, OneCommandChanged
      <3> QED  BY <3>1, <3>2, <3>3
    <2> QED  BY <1>14, <2>2, <2>3 DEF FetchCommit
  <1>15. ASSUME NEW c \in Client, NEW o \in Object, FetchPart(c, o)
         PROVE  TypeOK'
    <2>1. Follow(c, o) \subseteq Object  BY DepsTyping DEF Follow
    <2>2. local' \in [Client -> SUBSET Object]  BY <1>15 DEF FetchPart
    <2>3. cmd' \in [Client -> Command]
      <3>1. \/ cmd' = [cmd EXCEPT ![c].parts = (@ \ {o}) \cup Follow(c, o)]
            \/ cmd' = [cmd EXCEPT ![c].parts = @ \ {o}]
        BY <1>15 DEF FetchPart
      <3>2. CASE cmd' = [cmd EXCEPT ![c].parts = (@ \ {o}) \cup Follow(c, o)]
        <4>1. cmd' = [cmd EXCEPT ![c] =
                 [cmd[c] EXCEPT !.parts = (cmd[c].parts \ {o}) \cup Follow(c, o)]]
          BY <3>2
        <4>2. (cmd[c].parts \ {o}) \cup Follow(c, o) \in SUBSET Object  BY <2>1, ListsOf
        <4> QED  BY <4>1, <4>2, CommandLists, OneCommandChanged
      <3>3. CASE cmd' = [cmd EXCEPT ![c].parts = @ \ {o}]
        <4>1. cmd' = [cmd EXCEPT ![c] = [cmd[c] EXCEPT !.parts = cmd[c].parts \ {o}]]
          BY <3>3
        <4>2. cmd[c].parts \ {o} \in SUBSET Object  BY ListsOf
        <4> QED  BY <4>1, <4>2, CommandLists, OneCommandChanged
      <3> QED  BY <3>1, <3>2, <3>3
    <2> QED  BY <1>15, <2>2, <2>3 DEF FetchPart
  <1>16. ASSUME NEW c \in Client, FinishFetch(c)  PROVE TypeOK'
    <2>1. cmd[c].remote \in MaybeCommit  BY DEF Command
    <2> QED  BY <1>16, <2>1, <1>i DEF FinishFetch
  <1>17. CASE UNCHANGED vars  BY <1>17 DEF vars
  <1> QED
    BY <1>1, <1>2, <1>3, <1>4, <1>5, <1>8, <1>9, <1>10, <1>11, <1>12,
       <1>13, <1>14, <1>15, <1>16, <1>17 DEF Next, ClientStep, UserStep

----------------------------------------------------------------------------
(* Frames: what survives a step that leaves the rest of the state alone.    *)
LEMMA RefsFrame ==
    ASSUME RefClosed, server \subseteq server', refs' = refs
    PROVE  RefClosed'
  BY DEF RefClosed

LEMMA StoresFrame ==
    ASSUME HolesServed, server \subseteq server', local' = local
    PROVE  HolesServed'
  BY DEF HolesServed

LEMMA LateFrame ==
    ASSUME LateFacts, server \subseteq server', late' \subseteq late
    PROVE  LateFacts'
  BY DEF LateFacts

LEMMA Undisturbed ==
    ASSUME NEW e \in Client, PushFacts(e), FetchFacts(e),
           server \subseteq server',
           cmd'[e] = cmd[e], local'[e] = local[e], heads'[e] = heads[e]
    PROVE  PushFacts(e)' /\ FetchFacts(e)'
  <1>1. /\ Tip(e)' = Tip(e)
        /\ Want(e)' = Want(e)
        /\ Fetching(e)' = Fetching(e)
        /\ Cloning(e)' = Cloning(e)
    BY DEF Tip, Want, Fetching, Cloning
  <1>2. PushFacts(e)'  BY <1>1 DEF PushFacts
  <1>3. FetchFacts(e)'  BY <1>1 DEF FetchFacts
  <1> QED  BY <1>2, <1>3

LEMMA AtRest ==
    ASSUME NEW e \in Client, cmd'[e].op = "idle"
    PROVE  PushFacts(e)' /\ FetchFacts(e)'
  BY DEF PushFacts, FetchFacts, Fetching, Downloads, Clones

----------------------------------------------------------------------------
(* What a working copy holds of a history it has started to hold: each      *)
(* object is stored, or the server has it with all it needs.                *)
LEMMA LocalHistory ==
    ASSUME TypeOK, HolesServed, NEW c \in Client, NEW o \in local[c]
    PROVE  /\ o \in Object
           /\ Reach[o] \subseteq local[c] \cup {x \in Object : Reach[x] \subseteq server}
  <1> DEFINE served == {x \in Object : Reach[x] \subseteq server}
             Q == local[c] \cup served
  <1>1. local[c] \subseteq Object  BY DEF TypeOK
  <1>2. Closed(served)  BY ServedClosed
  <1>3. ASSUME NEW x \in Q, NEW d \in Deps[x]  PROVE d \in Q
    <2>1. CASE x \in local[c]
      <3>1. d \in Object  BY <2>1, <1>1, DepsTyping
      <3> QED  BY <2>1, <3>1 DEF HolesServed
    <2>2. CASE x \in served  BY <2>2, <1>2 DEF Closed
    <2> QED  BY <2>1, <2>2
  <1>4. Closed(Q)  BY <1>3 DEF Closed
  <1>5. Q \in SUBSET Object /\ o \in Q  BY <1>1
  <1> HIDE DEF Q
  <1>6. Reach[o] \subseteq Q  BY <1>1, <1>4, <1>5, ReachIsLeast
  <1> QED  BY <1>1, <1>6 DEF Q

(* When a push has nothing left to send, the server can serve its tip.      *)
LEMMA PushedWhole ==
    ASSUME IInv, NEW c \in Client, Uploaded(c)
    PROVE  /\ cmd[c].branch \in Branch
           /\ Tip(c) \in Commit
           /\ Reach[Tip(c)] \subseteq server
           /\ cmd[c].remote # NoCommit => cmd[c].remote \in Reach[Tip(c)]
  <1> DEFINE served == {x \in Object : Reach[x] \subseteq server}
             had == Want(c) \cap local[c]
             Q == served \cup had
  <1>1. /\ TypeOK /\ HolesServed /\ HeadsStored /\ PushFacts(c)
        /\ cmd[c].op = "push"
        /\ cmd[c].unchecked = {} /\ cmd[c].missing = {}
    BY DEF IInv, Uploaded
  <1>2. /\ cmd[c].branch \in Branch
        /\ Tip(c) # NoCommit
        /\ had \subseteq server
        /\ cmd[c].remote # NoCommit =>
               Reach[cmd[c].remote] \subseteq server /\ cmd[c].remote \in Reach[Tip(c)]
    BY <1>1 DEF PushFacts
  <1>3. Tip(c) \in Commit /\ Tip(c) \in local[c]
    BY <1>1, <1>2 DEF TypeOK, HeadsStored, Tip, MaybeCommit
  <1>4. /\ Want(c) \subseteq Object
        /\ Tip(c) # cmd[c].remote => Tip(c) \in Want(c)
        /\ \A o \in Want(c) \cap local[c] : Deps[o] \ {cmd[c].remote} \subseteq Want(c)
    BY <1>3, WalkIsComplete DEF Want
  <1>5. ASSUME NEW o \in Q, NEW d \in Deps[o]  PROVE d \in Q
    <2>1. CASE o \in served  BY <2>1, ServedClosed DEF Closed
    <2>2. CASE o \in had
      <3>1. o \in Object /\ d \in Object  BY <2>2, <1>4, DepsTyping
      <3>2. CASE d = cmd[c].remote
        <4>1. d # NoCommit  BY <3>1, GraphAssumption
        <4> QED  BY <3>1, <3>2, <4>1, <1>2
      <3>3. CASE d # cmd[c].remote
        <4>1. d \in Want(c)  BY <2>2, <3>3, <1>4
        <4>2. d \in local[c] \/ Reach[d] \subseteq server
          BY <2>2, <1>1 DEF HolesServed
        <4> QED  BY <3>1, <4>1, <4>2
      <3> QED  BY <3>2, <3>3
    <2> QED  BY <2>1, <2>2
  <1>6. Closed(Q)  BY <1>5 DEF Closed
  <1>7. Tip(c) \in Q
    <2>1. CASE Tip(c) = cmd[c].remote  BY <2>1, <1>2, <1>3 DEF Commit
    <2>2. CASE Tip(c) # cmd[c].remote  BY <2>2, <1>3, <1>4
    <2> QED  BY <2>1, <2>2
  <1>8. Q \in SUBSET Object  BY <1>4
  <1>9. Q \subseteq server  BY <1>2, ReachIsHistory
  <1> HIDE DEF Q
  <1>10. Reach[Tip(c)] \subseteq Q
    BY <1>3, <1>6, <1>7, <1>8, ReachIsLeast DEF Commit
  <1> QED  BY <1>2, <1>3, <1>9, <1>10

(* A compare-and-swap that keeps its promises keeps the branches whole and  *)
(* moves them forward only.                                                 *)
LEMMA CasIsSafe ==
    ASSUME TypeOK, RefClosed,
           NEW b \in Branch, NEW old, NEW new \in Commit,
           Reach[new] \subseteq server,
           old # NoCommit => old \in Reach[new],
           CasUpdateRef(b, old, new)
    PROVE  \A d \in Branch :
              /\ refs'[d] # NoCommit => Reach[refs'[d]] \subseteq server
              /\ refs[d] # NoCommit =>
                     refs'[d] # NoCommit /\ refs[d] \in Reach[refs'[d]]
  <1> SUFFICES ASSUME NEW d \in Branch
               PROVE  /\ refs'[d] # NoCommit => Reach[refs'[d]] \subseteq server
                      /\ refs[d] # NoCommit =>
                            refs'[d] # NoCommit /\ refs[d] \in Reach[refs'[d]]
    OBVIOUS
  <1>1. new # NoCommit  BY GraphAssumption DEF Commit
  <1>2. refs[d] # NoCommit => refs[d] \in Reach[refs[d]]
    BY ReachIsHistory DEF TypeOK, MaybeCommit, Commit
  <1>3. CASE refs'[d] = refs[d]  BY <1>2, <1>3 DEF RefClosed
  <1>4. CASE refs'[d] # refs[d]
    <2>1. d = b /\ refs'[d] = new /\ refs[d] = old
      BY <1>4 DEF CasUpdateRef, CasAccepts, TypeOK
    <2> QED  BY <2>1, <1>1
  <1> QED  BY <1>3, <1>4

----------------------------------------------------------------------------
(* The steps that write no object and move no server ref.                   *)
LEMMA CreateBranchStep ==
    ASSUME IInv, TypeOK', NEW c \in Client, NEW b \in Branch, NEW d \in Branch,
           CreateBranch(c, b, d)
    PROVE  IInv'
  <1> USE DEF IInv, CreateBranch
  <1>1. /\ server \subseteq server' /\ server' = server /\ refs' = refs
        /\ local' = local /\ late' \subseteq late /\ cmd' = cmd
        /\ heads' = [heads EXCEPT ![c][b] = heads[c][d]]
    OBVIOUS
  <1>2. RefClosed' /\ HolesServed' /\ LateFacts'
    BY <1>1, RefsFrame, StoresFrame, LateFrame
  <1>3. StoreLayered'  BY <1>1 DEF StoreLayered
  <1>4. HeadsStored'  BY <1>1 DEF HeadsStored, TypeOK
  <1>5. ASSUME NEW e \in Client  PROVE PushFacts(e)' /\ FetchFacts(e)'
    <2>1. CASE e = c  BY <2>1, AtRest
    <2>2. CASE e # c
      <3>1. heads'[e] = heads[e]  BY <1>1, <2>2 DEF TypeOK
      <3> QED  BY <1>1, <3>1, Undisturbed
    <2> QED  BY <2>1, <2>2
  <1> QED  BY <1>2, <1>3, <1>4, <1>5

LEMMA StartPushStep ==
    ASSUME IInv, TypeOK', NEW c \in Client, NEW b \in Branch, StartPush(c, b)
    PROVE  IInv'
  <1> DEFINE want == WalkSince(local[c], heads[c][b], refs[b])
  <1> USE DEF IInv
  <1>1. /\ server \subseteq server' /\ server' = server /\ refs' = refs
        /\ local' = local /\ heads' = heads /\ late' \subseteq late
        /\ heads[c][b] # NoCommit
        /\ refs[b] # NoCommit => IsAncestor(local[c], refs[b], heads[c][b])
        /\ cmd' = [cmd EXCEPT ![c] =
              [Idle EXCEPT !.op = "push", !.branch = b, !.remote = refs[b],
                           !.unchecked = want]]
    BY DEF StartPush
  <1>2. RefClosed' /\ HolesServed' /\ LateFacts'
    BY <1>1, RefsFrame, StoresFrame, LateFrame
  <1>3. StoreLayered' /\ HeadsStored'  BY <1>1 DEF StoreLayered, HeadsStored
  <1>4. cmd'[c] = [Idle EXCEPT !.op = "push", !.branch = b, !.remote = refs[b],
                               !.unchecked = want]
    BY <1>1 DEF TypeOK
  <1> HIDE DEF want
  <1>5. /\ cmd'[c].op = "push" /\ cmd'[c].branch = b /\ cmd'[c].remote = refs[b]
        /\ cmd'[c].unchecked = want /\ cmd'[c].missing = {}
    BY <1>4 DEF Idle
  <1>6. Tip(c)' = heads[c][b] /\ Want(c)' = want
    BY <1>1, <1>5 DEF Tip, Want, want
  <1>7. refs[b] # NoCommit =>
           Reach[refs[b]] \subseteq server /\ refs[b] \in Reach[heads[c][b]]
    BY <1>1, AncestorIsSound DEF RefClosed, TypeOK, MaybeCommit
  <1>8. PushFacts(c)'  BY <1>1, <1>5, <1>6, <1>7 DEF PushFacts
  <1>9. FetchFacts(c)'
    BY <1>5 DEF FetchFacts, Fetching, Downloads, Clones
  <1>10. ASSUME NEW e \in Client, e # c  PROVE PushFacts(e)' /\ FetchFacts(e)'
    <2>1. cmd'[e] = cmd[e]  BY <1>1, <1>10 DEF TypeOK
    <2> QED  BY <1>1, <2>1, Undisturbed
  <1> QED  BY <1>2, <1>3, <1>8, <1>9, <1>10

LEMMA CheckExistsStep ==
    ASSUME IInv, TypeOK', NEW c \in Client, CheckExists(c)
    PROVE  IInv'
  <1> DEFINE asked == Asked(c)
  <1> USE DEF IInv
  <1>1. /\ server \subseteq server' /\ server' = server /\ refs' = refs
        /\ local' = local /\ heads' = heads /\ late' \subseteq late
        /\ cmd[c].op = "push"
        /\ cmd' = [cmd EXCEPT ![c].unchecked = @ \ asked,
                              ![c].missing = @ \cup (asked \ server)]
    BY DEF CheckExists
  <1>2. RefClosed' /\ HolesServed' /\ LateFacts'
    BY <1>1, RefsFrame, StoresFrame, LateFrame
  <1>3. StoreLayered' /\ HeadsStored'  BY <1>1 DEF StoreLayered, HeadsStored
  <1>4. asked \subseteq cmd[c].unchecked  BY TurnIsFromList DEF Asked
  <1> HIDE DEF asked
  <1>5. /\ cmd'[c].op = "push" /\ cmd'[c].branch = cmd[c].branch
        /\ cmd'[c].remote = cmd[c].remote
        /\ cmd'[c].unchecked = cmd[c].unchecked \ asked
        /\ cmd'[c].missing = cmd[c].missing \cup (asked \ server)
    BY <1>1 DEF TypeOK, Command
  <1>6. Tip(c)' = Tip(c) /\ Want(c)' = Want(c)
    BY <1>1, <1>5 DEF Tip, Want
  <1>7. PushFacts(c)'
    <2>1. PushFacts(c)  OBVIOUS
    <2>2. /\ cmd[c].unchecked \cup cmd[c].missing \subseteq Want(c)
          /\ Want(c) \cap local[c]
                 \subseteq cmd[c].unchecked \cup cmd[c].missing \cup server
      BY <1>1, <2>1 DEF PushFacts
    <2>3. cmd'[c].unchecked \cup cmd'[c].missing \subseteq Want(c)
      BY <1>4, <1>5, <2>2
    <2>4. Want(c) \cap local[c]
             \subseteq cmd'[c].unchecked \cup cmd'[c].missing \cup server
      BY <1>5, <2>2
    <2> QED  BY <1>1, <1>5, <1>6, <2>1, <2>3, <2>4 DEF PushFacts
  <1>8. FetchFacts(c)'
    BY <1>5 DEF FetchFacts, Fetching, Downloads, Clones
  <1>9. ASSUME NEW e \in Client, e # c  PROVE PushFacts(e)' /\ FetchFacts(e)'
    <2>1. cmd'[e] = cmd[e]  BY <1>1, <1>9 DEF TypeOK
    <2> QED  BY <1>1, <2>1, Undisturbed
  <1> QED  BY <1>2, <1>3, <1>7, <1>8, <1>9

LEMMA StartFetchStep ==
    ASSUME IInv, TypeOK', NEW c \in Client, NEW b \in Branch, NEW op \in UsedOps,
           StartFetch(c, b, op)
    PROVE  IInv'
  <1> USE DEF IInv
  <1>1. /\ server \subseteq server' /\ server' = server /\ refs' = refs
        /\ local' = local /\ heads' = heads /\ late' \subseteq late
        /\ refs[b] # NoCommit
        /\ op \in Clones => local[c] = {}
        /\ cmd' = [cmd EXCEPT ![c] = [Idle EXCEPT !.op = op, !.branch = b,
                                        !.remote = refs[b], !.queue = {refs[b]}]]
    BY DEF StartFetch
  <1>2. RefClosed' /\ HolesServed' /\ LateFacts'
    BY <1>1, RefsFrame, StoresFrame, LateFrame
  <1>3. StoreLayered' /\ HeadsStored'  BY <1>1 DEF StoreLayered, HeadsStored
  <1>4. /\ cmd'[c].op = op /\ cmd'[c].branch = b /\ cmd'[c].remote = refs[b]
        /\ cmd'[c].queue = {refs[b]} /\ cmd'[c].parts = {}
    <2>1. cmd'[c] = [Idle EXCEPT !.op = op, !.branch = b,
                                 !.remote = refs[b], !.queue = {refs[b]}]
      BY <1>1 DEF TypeOK
    <2> QED  BY <2>1 DEF Idle
  <1>5. op # "push"  BY SyncAssumption
  <1>6. refs[b] \in Commit /\ Reach[refs[b]] \subseteq server
        /\ refs[b] \in Reach[refs[b]]
    BY <1>1, ReachIsHistory DEF RefClosed, TypeOK, MaybeCommit, Commit
  <1>7. op \in Clones => \A d \in Branch : heads[c][d] = NoCommit
    BY <1>1 DEF HeadsStored
  <1>8. PushFacts(c)'  BY <1>4, <1>5 DEF PushFacts
  <1>9. FetchFacts(c)'
    BY <1>1, <1>4, <1>6, <1>7 DEF FetchFacts, Cloning
  <1>10. ASSUME NEW e \in Client, e # c  PROVE PushFacts(e)' /\ FetchFacts(e)'
    <2>1. cmd'[e] = cmd[e]  BY <1>1, <1>10 DEF TypeOK
    <2> QED  BY <1>1, <2>1, Undisturbed
  <1> QED  BY <1>2, <1>3, <1>8, <1>9, <1>10

LEMMA AbortStep ==
    ASSUME IInv, TypeOK', NEW c \in Client, Abort(c) \/ CheckRefused(c)
    PROVE  IInv'
  <1> USE DEF IInv
  <1>1. /\ server \subseteq server' /\ server' = server /\ refs' = refs
        /\ local' = local /\ heads' = heads /\ late' \subseteq late
        /\ cmd' = [cmd EXCEPT ![c] = Idle]
    BY DEF Abort, CheckRefused
  <1>2. RefClosed' /\ HolesServed' /\ LateFacts'
    BY <1>1, RefsFrame, StoresFrame, LateFrame
  <1>3. StoreLayered' /\ HeadsStored'  BY <1>1 DEF StoreLayered, HeadsStored
  <1>4. ASSUME NEW e \in Client  PROVE PushFacts(e)' /\ FetchFacts(e)'
    <2>1. CASE e = c
      <3>1. cmd'[e].op = "idle"  BY <1>1, <2>1 DEF TypeOK, Idle
      <3> QED  BY <3>1, AtRest
    <2>2. CASE e # c
      <3>1. cmd'[e] = cmd[e]  BY <1>1, <2>2 DEF TypeOK
      <3> QED  BY <1>1, <3>1, Undisturbed
    <2> QED  BY <2>1, <2>2
  <1> QED  BY <1>2, <1>3, <1>4

LEMMA DeleteRefStep ==
    ASSUME IInv, TypeOK', NEW b \in Branch, DeleteRef(b)
    PROVE  IInv'
  <1> USE DEF IInv
  <1>1. /\ server \subseteq server' /\ server' = server
        /\ refs' = [refs EXCEPT ![b] = NoCommit]
        /\ local' = local /\ heads' = heads /\ late' \subseteq late /\ cmd' = cmd
    BY DEF DeleteRef
  <1>2. HolesServed' /\ LateFacts'  BY <1>1, StoresFrame, LateFrame
  <1>3. RefClosed'  BY <1>1 DEF RefClosed, TypeOK
  <1>4. StoreLayered' /\ HeadsStored'  BY <1>1 DEF StoreLayered, HeadsStored
  <1>5. \A e \in Client : PushFacts(e)' /\ FetchFacts(e)'
    BY <1>1, Undisturbed
  <1> QED  BY <1>2, <1>3, <1>4, <1>5

----------------------------------------------------------------------------
(* The steps that add objects.                                              *)

(* A new commit brings all it needs beyond what its parents stand for.      *)
LEMMA CommitLocallyStep ==
    ASSUME IInv, TypeOK', NEW c \in Client, NEW b \in Branch, NEW x \in Commit,
           CommitLocally(c, b, x)
    PROVE  IInv'
  <1> USE DEF IInv
  <1>1. /\ server \subseteq server' /\ server' = server /\ refs' = refs
        /\ late' \subseteq late /\ cmd' = cmd /\ cmd[c].op = "idle"
        /\ local' = [local EXCEPT ![c] = @ \cup Written(x)]
        /\ heads' = [heads EXCEPT ![c][b] = x]
    BY DEF CommitLocally
  <1>2. RefClosed' /\ LateFacts'  BY <1>1, RefsFrame, LateFrame
  <1>3. StoreLayered'  BY <1>1 DEF StoreLayered
  <1>4. x \in Object /\ Parents(x) \subseteq local[c]
    BY DEF CommitLocally, Commit, Parents
  <1>5. ASSUME NEW o \in Written(x), NEW d \in Deps[o]
        PROVE  d \in local'[c] \/ Reach[d] \subseteq server'
    <2>1. o \in Reach[x]  BY <1>4, ReachIsHistory DEF Written
    <2>2. d \in Reach[x]  BY <1>4, <2>1, ReachIsHistory DEF Closed
    <2>3. CASE d \in Written(x)  BY <1>1, <2>3 DEF TypeOK
    <2>4. CASE d \notin Written(x)
      <3>1. PICK p \in Parents(x) : d \in Reach[p]
        BY <2>2, <2>4 DEF Written
      <3>2. d \in local[c] \/ Reach[d] \subseteq server
        BY <1>4, <3>1, LocalHistory
      <3> QED  BY <1>1, <3>2 DEF TypeOK
    <2> QED  BY <2>3, <2>4
  <1>6. HolesServed'
    <2> SUFFICES ASSUME NEW e \in Client, NEW o \in local'[e], NEW d \in Deps[o]
                 PROVE  d \in local'[e] \/ Reach[d] \subseteq server'
      BY DEF HolesServed
    <2>1. CASE o \in local[e]
      <3>1. d \in local[e] \/ Reach[d] \subseteq server
        BY <2>1 DEF HolesServed
      <3> QED  BY <1>1, <3>1 DEF TypeOK
    <2>2. CASE o \notin local[e]
      <3>1. e = c /\ o \in Written(x)  BY <1>1, <2>2 DEF TypeOK
      <3> QED  BY <1>5, <3>1
    <2> QED  BY <2>1, <2>2
  <1>7. HeadsStored'
    <2>1. x \in local'[c]  BY <1>1 DEF TypeOK, Written
    <2> QED  BY <1>1, <2>1 DEF HeadsStored, TypeOK
  <1>8. ASSUME NEW e \in Client  PROVE PushFacts(e)' /\ FetchFacts(e)'
    <2>1. CASE e = c  BY <1>1, <2>1, AtRest
    <2>2. CASE e # c
      <3>1. local'[e] = local[e] /\ heads'[e] = heads[e]
        BY <1>1, <2>2 DEF TypeOK
      <3> QED  BY <1>1, <3>1, Undisturbed
    <2> QED  BY <2>1, <2>2
  <1> QED  BY <1>2, <1>3, <1>6, <1>7, <1>8

(* What is uploaded finds its parts on the server: those the push could     *)
(* read went before it, those it could not read were there.                 *)
LEMMA UploadStep ==
    ASSUME IInv, TypeOK', NEW c \in Client, NEW o \in Object, Upload(c, o)
    PROVE  IInv'
  <1> USE DEF IInv
  <1>1. /\ server \subseteq server' /\ server' = server \cup ({o} \cap local[c])
        /\ refs' = refs /\ local' = local /\ heads' = heads /\ late' \subseteq late
        /\ cmd[c].op = "push" /\ cmd[c].unchecked = {}
        /\ o \in FirstOf(cmd[c].missing, UploadRank)
        /\ cmd' = [cmd EXCEPT ![c].missing = @ \ {o}]
    BY DEF Upload
  <1>2. RefClosed' /\ HolesServed' /\ LateFacts'
    BY <1>1, RefsFrame, StoresFrame, LateFrame
  <1>3. HeadsStored'  BY <1>1 DEF HeadsStored
  <1>4. /\ cmd'[c].op = "push" /\ cmd'[c].branch = cmd[c].branch
        /\ cmd'[c].remote = cmd[c].remote
        /\ cmd'[c].unchecked = cmd[c].unchecked
        /\ cmd'[c].missing = cmd[c].missing \ {o}
    BY <1>1 DEF TypeOK, Command
  <1>5. Tip(c)' = Tip(c) /\ Want(c)' = Want(c)
    BY <1>1, <1>4 DEF Tip, Want
  <1>6. PushFacts(c)'  BY <1>1, <1>4, <1>5 DEF PushFacts
  <1>7. FetchFacts(c)'
    BY <1>4 DEF FetchFacts, Fetching, Downloads, Clones
  <1>8. ASSUME NEW e \in Client, e # c  PROVE PushFacts(e)' /\ FetchFacts(e)'
    <2>1. cmd'[e] = cmd[e]  BY <1>1, <1>8 DEF TypeOK
    <2> QED  BY <1>1, <2>1, Undisturbed
  <1>9. StoreLayered'
    <2> SUFFICES ASSUME NEW y \in server', NEW d \in Deps[y], Kind[d] # Kind[y]
                 PROVE  d \in server'
      BY DEF StoreLayered
    <2>1. CASE y \in server  BY <1>1, <2>1 DEF StoreLayered
    <2>2. CASE y \notin server
      <3>1. y = o /\ o \in local[c] /\ o \in cmd[c].missing
        BY <1>1, <2>2, TurnIsFromList
      <3>2. d \in Object /\ (d \in Commit => o \in Commit)
        BY <3>1, DepsTyping
      <3>3. CASE d \notin local[c]
        <4>1. Reach[d] \subseteq server  BY <3>1, <3>3 DEF HolesServed
        <4> QED  BY <1>1, <3>2, <4>1, ReachIsHistory
      <3>4. CASE d \in local[c]
        <4>1. d # cmd[c].remote
          <5>1. d \notin Commit  BY <3>1, <3>2 DEF Commit
          <5>2. d # NoCommit  BY <3>2, GraphAssumption
          <5> QED  BY <5>1, <5>2 DEF TypeOK, Command, MaybeCommit
        <4>2. Tip(c) \in Commit
          BY <1>1 DEF PushFacts, TypeOK, Tip, MaybeCommit
        <4>3. o \in Want(c)  BY <1>1, <3>1 DEF PushFacts
        <4>4. d \in Want(c)
          BY <3>1, <4>1, <4>2, <4>3, WalkIsComplete DEF Want
        <4>5. d \in cmd[c].missing \cup server
          BY <1>1, <3>4, <4>4 DEF PushFacts
        <4>6. d \notin cmd[c].missing
          <5>1. /\ Kind[o] \in Kinds /\ Kind[d] \in MayName[Kind[o]]
                /\ Kind[d] # Kind[o]
            BY <3>1, DepsTyping
          <5>2. ~ (UploadRank[Kind[o]] <= UploadRank[Kind[d]])
            BY <5>1 DEF UploadRank, MayName, Kinds
          <5> QED  BY <1>1, <5>2 DEF FirstOf
        <4> QED  BY <1>1, <4>5, <4>6
      <3> QED  BY <3>3, <3>4
    <2> QED  BY <2>1, <2>2
  <1> QED  BY <1>2, <1>3, <1>6, <1>7, <1>8, <1>9

(* A popped commit, or an object under one, is part of a history that the   *)
(* server has in full: so is whatever it names.                             *)
LEMMA FetchedIsServed ==
    ASSUME IInv, NEW c \in Client, Fetching(c),
           NEW o \in cmd[c].queue \cup cmd[c].parts
    PROVE  /\ o \in server /\ o \in Object
           /\ Deps[o] \subseteq Reach[cmd[c].remote]
           /\ \A d \in Deps[o] : Reach[d] \subseteq server
  <1>1. /\ cmd[c].remote \in Object
        /\ Reach[cmd[c].remote] \subseteq server
        /\ o \in Reach[cmd[c].remote]
    BY DEF IInv, FetchFacts, Commit
  <1>2. /\ o \in server /\ o \in Object
        /\ Deps[o] \subseteq Reach[cmd[c].remote]
    BY <1>1, ReachIsHistory DEF Closed
  <1>3. \A d \in Deps[o] : Reach[d] \subseteq server
    BY <1>1, <1>2, ReachMonotone
  <1> QED  BY <1>2, <1>3

(* A local store that takes one object whose parts the server has.          *)
LEMMA StoreFetched ==
    ASSUME IInv, TypeOK', NEW c \in Client, NEW o \in Object,
           \A d \in Deps[o] : Reach[d] \subseteq server,
           server' = server,
           local' = [local EXCEPT ![c] = @ \cup {o}]
    PROVE  HolesServed'
  <1> SUFFICES ASSUME NEW e \in Client, NEW y \in local'[e], NEW d \in Deps[y]
               PROVE  d \in local'[e] \/ Reach[d] \subseteq server'
    BY DEF HolesServed
  <1>1. CASE y \in local[e]
    <2>1. d \in local[e] \/ Reach[d] \subseteq server
      BY <1>1 DEF IInv, HolesServed
    <2>2. local[e] \subseteq local'[e]  BY DEF IInv, TypeOK
    <2> QED  BY <2>1, <2>2
  <1>2. CASE y \notin local[e]
    <2>1. y = o  BY <1>2 DEF IInv, TypeOK
    <2> QED  BY <2>1
  <1> QED  BY <1>1, <1>2

LEMMA FetchCommitStep ==
    ASSUME IInv, TypeOK', NEW c \in Client, NEW x \in Commit, FetchCommit(c, x)
    PROVE  IInv'
  <1> USE DEF IInv
  <1>1. /\ server \subseteq server' /\ server' = server /\ refs' = refs
        /\ heads' = heads /\ late' \subseteq late
        /\ Fetching(c) /\ x \in cmd[c].queue
    BY DEF FetchCommit
  <1>2. RefClosed' /\ LateFacts'  BY <1>1, RefsFrame, LateFrame
  <1>3. StoreLayered'  BY <1>1 DEF StoreLayered
  <1>4. /\ x \in server /\ x \in Object
        /\ Deps[x] \subseteq Reach[cmd[c].remote]
        /\ \A d \in Deps[x] : Reach[d] \subseteq server
    BY <1>1, FetchedIsServed
  <1>5. \/ /\ x = Tip(c) \/ x \in local[c]
           /\ cmd' = [cmd EXCEPT ![c].queue = @ \ {x}]
           /\ local' = local
        \/ /\ cmd' = [cmd EXCEPT ![c].queue = (@ \ {x}) \cup Parents(x),
                                 ![c].parts = @ \cup (Deps[x] \cap Tree)]
           /\ local' = [local EXCEPT ![c] = @ \cup {x}]
    BY <1>4 DEF FetchCommit
  <1>6. FetchFacts(c) /\ HolesServed /\ HeadsStored  OBVIOUS
  <1>7. x = Tip(c) => x \in local[c]
    <2>1. cmd[c].branch \in Branch  BY <1>1, <1>6 DEF FetchFacts
    <2>2. x # NoCommit  BY <1>4, GraphAssumption
    <2> QED  BY <1>6, <2>1, <2>2 DEF HeadsStored, Tip
  <1>8. /\ x \in local'[c]
        /\ \A e \in Client : local[e] \subseteq local'[e]
        /\ \A e \in Client : e # c => local'[e] = local[e] /\ cmd'[e] = cmd[e]
    BY <1>5, <1>7 DEF TypeOK
  <1>9. HolesServed'
    <2>1. CASE local' = local  BY <1>1, <1>6, <2>1, StoresFrame
    <2>2. CASE local' = [local EXCEPT ![c] = @ \cup {x}]
      BY <1>1, <1>4, <2>2, StoreFetched
    <2> QED  BY <1>5, <2>1, <2>2
  <1>10. HeadsStored'  BY <1>1, <1>6, <1>8 DEF HeadsStored
  <1>11. /\ cmd'[c].op = cmd[c].op /\ cmd'[c].branch = cmd[c].branch
         /\ cmd'[c].remote = cmd[c].remote
         /\ cmd[c].queue \ {x} \subseteq cmd'[c].queue
         /\ cmd'[c].queue \subseteq cmd[c].queue \cup Parents(x)
         /\ cmd'[c].parts \subseteq cmd[c].parts \cup Deps[x]
    <2>1. CASE cmd' = [cmd EXCEPT ![c].queue = @ \ {x}]
      BY <2>1 DEF TypeOK, Command
    <2>2. CASE cmd' = [cmd EXCEPT ![c].queue = (@ \ {x}) \cup Parents(x),
                                  ![c].parts = @ \cup (Deps[x] \cap Tree)]
      BY <2>2 DEF TypeOK, Command
    <2> QED  BY <1>5, <2>1, <2>2
  <1>12. FetchFacts(c)'
    <2>1. Fetching(c)' /\ (Cloning(c)' => Cloning(c))
      BY <1>1, <1>11 DEF Fetching, Cloning
    <2>2. /\ cmd[c].branch \in Branch /\ cmd[c].remote \in Commit
          /\ Reach[cmd[c].remote] \subseteq server
          /\ cmd[c].queue \cup cmd[c].parts \subseteq Reach[cmd[c].remote]
          /\ cmd[c].remote \in local[c] \cup cmd[c].queue
          /\ Cloning(c) => \A b \in Branch : heads[c][b] = NoCommit
      BY <1>1, <1>6 DEF FetchFacts
    <2>3. cmd'[c].queue \cup cmd'[c].parts \subseteq Reach[cmd[c].remote]
      BY <1>4, <1>11, <2>2 DEF Parents
    <2>4. cmd[c].remote \in local'[c] \cup cmd'[c].queue
      BY <1>8, <1>11, <2>2
    <2> QED  BY <1>1, <1>11, <2>1, <2>2, <2>3, <2>4 DEF FetchFacts
  <1>13. PushFacts(c)'
    BY <1>1, <1>11 DEF PushFacts, Fetching, Downloads, Clones
  <1>14. ASSUME NEW e \in Client, e # c  PROVE PushFacts(e)' /\ FetchFacts(e)'
    BY <1>1, <1>8, <1>14, Undisturbed
  <1> QED  BY <1>2, <1>3, <1>9, <1>10, <1>12, <1>13, <1>14

LEMMA FetchPartStep ==
    ASSUME IInv, TypeOK', NEW c \in Client, NEW o \in Object, FetchPart(c, o)
    PROVE  IInv'
  <1> USE DEF IInv
  <1>1. /\ server \subseteq server' /\ server' = server /\ refs' = refs
        /\ heads' = heads /\ late' \subseteq late
        /\ Fetching(c) /\ o \in cmd[c].parts
    BY DEF FetchPart
  <1>2. RefClosed' /\ LateFacts'  BY <1>1, RefsFrame, LateFrame
  <1>3. StoreLayered'  BY <1>1 DEF StoreLayered
  <1>4. /\ o \in server
        /\ Deps[o] \subseteq Reach[cmd[c].remote]
        /\ \A d \in Deps[o] : Reach[d] \subseteq server
    BY <1>1, FetchedIsServed
  <1>5. /\ cmd' = [cmd EXCEPT ![c].parts = (@ \ {o}) \cup Follow(c, o)]
        /\ local' = [local EXCEPT ![c] = @ \cup {o}]
    BY <1>4 DEF FetchPart
  <1>6. FetchFacts(c) /\ HeadsStored  OBVIOUS
  <1>7. /\ \A e \in Client : local[e] \subseteq local'[e]
        /\ \A e \in Client : e # c => local'[e] = local[e] /\ cmd'[e] = cmd[e]
    BY <1>5 DEF TypeOK
  <1>8. HolesServed'  BY <1>1, <1>4, <1>5, StoreFetched
  <1>9. HeadsStored'  BY <1>1, <1>6, <1>7 DEF HeadsStored
  <1>10. /\ cmd'[c].op = cmd[c].op /\ cmd'[c].branch = cmd[c].branch
         /\ cmd'[c].remote = cmd[c].remote /\ cmd'[c].queue = cmd[c].queue
         /\ cmd'[c].parts \subseteq cmd[c].parts \cup Deps[o]
    <2>1. cmd' = [cmd EXCEPT ![c] =
             [cmd[c] EXCEPT !.parts = (cmd[c].parts \ {o}) \cup Follow(c, o)]]
      BY <1>5
    <2>2. cmd'[c] = [cmd[c] EXCEPT !.parts = (cmd[c].parts \ {o}) \cup Follow(c, o)]
      BY <2>1 DEF TypeOK
    <2>3. Follow(c, o) \subseteq Deps[o]  BY DEF Follow
    <2>4. cmd[c] \in Command  BY DEF TypeOK
    <2> QED  BY <2>2, <2>3, <2>4 DEF Command
  <1>11. FetchFacts(c)'
    <2>1. Fetching(c)' /\ (Cloning(c)' => Cloning(c))
      BY <1>1, <1>10 DEF Fetching, Cloning
    <2>2. cmd'[c].queue \cup cmd'[c].parts \subseteq Reach[cmd[c].remote]
      BY <1>1, <1>4, <1>6, <1>10 DEF FetchFacts
    <2> QED  BY <1>1, <1>6, <1>7, <1>10, <2>1, <2>2 DEF FetchFacts
  <1>12. PushFacts(c)'
    BY <1>1, <1>10 DEF PushFacts, Fetching, Downloads, Clones
  <1>13. ASSUME NEW e \in Client, e # c  PROVE PushFacts(e)' /\ FetchFacts(e)'
    BY <1>1, <1>7, <1>13, Undisturbed
  <1> QED  BY <1>2, <1>3, <1>8, <1>9, <1>11, <1>12, <1>13

----------------------------------------------------------------------------
(* The steps that move a branch.                                            *)
LEMMA FinishPushStep ==
    ASSUME IInv, TypeOK', NEW c \in Client, FinishPush(c)
    PROVE  IInv'
  <1> USE DEF IInv
  <1>1. /\ server \subseteq server' /\ server' = server
        /\ local' = local /\ heads' = heads /\ late' \subseteq late
        /\ Uploaded(c)
        /\ CasUpdateRef(cmd[c].branch, cmd[c].remote, Tip(c))
        /\ cmd' = [cmd EXCEPT ![c] = Idle]
    BY DEF FinishPush
  <1>2. HolesServed' /\ LateFacts'  BY <1>1, StoresFrame, LateFrame
  <1>3. StoreLayered' /\ HeadsStored'  BY <1>1 DEF StoreLayered, HeadsStored
  <1>4. RefClosed'  BY <1>1, PushedWhole, CasIsSafe DEF RefClosed
  <1>5. ASSUME NEW e \in Client  PROVE PushFacts(e)' /\ FetchFacts(e)'
    <2>1. CASE e = c
      <3>1. cmd'[e].op = "idle"  BY <1>1, <2>1 DEF TypeOK, Idle
      <3> QED  BY <3>1, AtRest
    <2>2. CASE e # c
      <3>1. cmd'[e] = cmd[e]  BY <1>1, <2>2 DEF TypeOK
      <3> QED  BY <1>1, <3>1, Undisturbed
    <2> QED  BY <2>1, <2>2
  <1> QED  BY <1>2, <1>3, <1>4, <1>5

LEMMA GiveUpOnCasStep ==
    ASSUME IInv, TypeOK', NEW c \in Client, GiveUpOnCas(c)
    PROVE  IInv'
  <1> DEFINE sent == [branch |-> cmd[c].branch, old |-> cmd[c].remote,
                      new |-> Tip(c)]
  <1> USE DEF IInv
  <1>1. /\ server \subseteq server' /\ server' = server /\ refs' = refs
        /\ local' = local /\ heads' = heads
        /\ Uploaded(c) /\ late' = late \cup {sent}
        /\ cmd' = [cmd EXCEPT ![c] = Idle]
    BY DEF GiveUpOnCas
  <1>2. RefClosed' /\ HolesServed'  BY <1>1, RefsFrame, StoresFrame
  <1>3. StoreLayered' /\ HeadsStored'  BY <1>1 DEF StoreLayered, HeadsStored
  <1>4. LateFacts'
    <2>1. /\ Reach[sent.new] \subseteq server
          /\ sent.old # NoCommit => sent.old \in Reach[sent.new]
      BY <1>1, PushedWhole
    <2> HIDE DEF sent
    <2> QED  BY <1>1, <2>1 DEF LateFacts
  <1>5. ASSUME NEW e \in Client  PROVE PushFacts(e)' /\ FetchFacts(e)'
    <2>1. CASE e = c
      <3>1. cmd'[e].op = "idle"  BY <1>1, <2>1 DEF TypeOK, Idle
      <3> QED  BY <3>1, AtRest
    <2>2. CASE e # c
      <3>1. cmd'[e] = cmd[e]  BY <1>1, <2>2 DEF TypeOK
      <3> QED  BY <1>1, <3>1, Undisturbed
    <2> QED  BY <2>1, <2>2
  <1> QED  BY <1>2, <1>3, <1>4, <1>5

LEMMA ServeLateStep ==
    ASSUME IInv, TypeOK', NEW m \in late, ServeLate(m)
    PROVE  IInv'
  <1> USE DEF IInv
  <1>1. /\ server \subseteq server' /\ server' = server
        /\ local' = local /\ heads' = heads /\ late' \subseteq late /\ cmd' = cmd
        /\ CasUpdateRef(m.branch, m.old, m.new)
    BY DEF ServeLate
  <1>2. HolesServed' /\ LateFacts'  BY <1>1, StoresFrame, LateFrame
  <1>3. StoreLayered' /\ HeadsStored'  BY <1>1 DEF StoreLayered, HeadsStored
  <1>4. RefClosed'
    <2>1. /\ m.branch \in Branch /\ m.new \in Commit
          /\ Reach[m.new] \subseteq server
          /\ m.old # NoCommit => m.old \in Reach[m.new]
      BY DEF TypeOK, RefUpdate, LateFacts
    <2> QED  BY <1>1, <2>1, CasIsSafe DEF RefClosed
  <1>5. \A e \in Client : PushFacts(e)' /\ FetchFacts(e)'
    BY <1>1, Undisturbed
  <1> QED  BY <1>2, <1>3, <1>4, <1>5

LEMMA FinishFetchStep ==
    ASSUME IInv, TypeOK', NEW c \in Client, FinishFetch(c)
    PROVE  IInv'
  <1> USE DEF IInv
  <1>1. /\ server \subseteq server' /\ server' = server /\ refs' = refs
        /\ local' = local /\ late' \subseteq late
        /\ Fetching(c) /\ cmd[c].queue = {}
        /\ \/ heads' = heads
           \/ heads' = [heads EXCEPT ![c][cmd[c].branch] = cmd[c].remote]
        /\ cmd' = [cmd EXCEPT ![c] = Idle]
    BY DEF FinishFetch
  <1>2. RefClosed' /\ HolesServed' /\ LateFacts'
    BY <1>1, RefsFrame, StoresFrame, LateFrame
  <1>3. StoreLayered'  BY <1>1 DEF StoreLayered
  <1>4. cmd[c].remote \in local[c]  BY <1>1 DEF FetchFacts
  <1>5. HeadsStored'  BY <1>1, <1>4 DEF HeadsStored, TypeOK
  <1>6. ASSUME NEW e \in Client  PROVE PushFacts(e)' /\ FetchFacts(e)'
    <2>1. CASE e = c
      <3>1. cmd'[e].op = "idle"  BY <1>1, <2>1 DEF TypeOK, Idle
      <3> QED  BY <3>1, AtRest
    <2>2. CASE e # c
      <3>1. cmd'[e] = cmd[e] /\ heads'[e] = heads[e]
        BY <1>1, <2>2 DEF TypeOK
      <3> QED  BY <1>1, <3>1, Undisturbed
    <2> QED  BY <2>1, <2>2
  <1> QED  BY <1>2, <1>3, <1>5, <1>6

----------------------------------------------------------------------------
LEMMA InvariantStarts == Init => IInv
  <1> SUFFICES ASSUME Init  PROVE IInv
    OBVIOUS
  <1>1. TypeOK  BY TypeStart
  <1>2. RefClosed /\ StoreLayered /\ HolesServed /\ HeadsStored /\ LateFacts
    BY DEF Init, RefClosed, StoreLayered, HolesServed, HeadsStored, LateFacts
  <1>3. \A c \in Client : PushFacts(c) /\ FetchFacts(c)
    BY DEF Init, Idle, PushFacts, FetchFacts, Fetching, Downloads, Clones
  <1> QED  BY <1>1, <1>2, <1>3 DEF IInv

LEMMA InvariantStaysUnchanged ==
    ASSUME IInv, UNCHANGED vars  PROVE IInv'
  <1>1. /\ server' = server /\ refs' = refs /\ local' = local
        /\ heads' = heads /\ cmd' = cmd /\ late' = late
    BY DEF vars
  <1>2. TypeOK'  BY <1>1 DEF IInv, TypeOK
  <1>3. RefClosed' /\ HolesServed' /\ LateFacts'
    BY <1>1, RefsFrame, StoresFrame, LateFrame DEF IInv
  <1>4. StoreLayered' /\ HeadsStored'
    BY <1>1 DEF IInv, StoreLayered, HeadsStored
  <1>5. \A e \in Client : PushFacts(e)' /\ FetchFacts(e)'
    BY <1>1, Undisturbed DEF IInv
  <1> QED  BY <1>2, <1>3, <1>4, <1>5 DEF IInv

LEMMA InvariantHolds == IInv /\ [Next]_vars => IInv'
  <1> SUFFICES ASSUME IInv, [Next]_vars  PROVE IInv'
    OBVIOUS
  <1>t. TypeOK'  BY TypeStep DEF IInv, PushTips, PushFacts
  <1>1. ASSUME NEW c \in Client, ClientStep(c)  PROVE IInv'
    BY <1>t, <1>1, CheckExistsStep, AbortStep, UploadStep,
       FinishPushStep, FetchCommitStep, FetchPartStep, FinishFetchStep DEF ClientStep
  <1>2. ASSUME NEW c \in Client, UserStep(c)  PROVE IInv'
    BY <1>t, <1>2, CommitLocallyStep, CreateBranchStep, StartPushStep,
       StartFetchStep DEF UserStep
  <1>3. ASSUME NEW c \in Client, GiveUpOnCas(c) \/ Abort(c)  PROVE IInv'
    BY <1>t, <1>3, GiveUpOnCasStep, AbortStep
  <1>4. ASSUME NEW m \in late, ServeLate(m)  PROVE IInv'
    BY <1>t, <1>4, ServeLateStep
  <1>5. ASSUME NEW b \in Branch, DeleteRef(b)  PROVE IInv'
    BY <1>t, <1>5, DeleteRefStep
  <1>6. CASE UNCHANGED vars  BY <1>6, InvariantStaysUnchanged
  <1> QED  BY <1>1, <1>2, <1>3, <1>4, <1>5, <1>6 DEF Next

(* Push, fetch, pull and clone keep the facts that they rely on.            *)
THEOREM InvariantAlways == Spec => []IInv
  <1>1. Init => IInv  BY InvariantStarts
  <1>2. IInv /\ [Next]_vars => IInv'  BY InvariantHolds
  <1> QED  BY <1>1, <1>2, PTL DEF Spec

(* Every variable keeps its type, in every interleaving.                    *)
THEOREM TypeCorrect == Spec => []TypeOK
  <1>1. IInv => TypeOK  BY DEF IInv
  <1> QED  BY <1>1, InvariantAlways, PTL

(* A branch of the server can always be read in full: cas_update_ref never  *)
(* takes a commit whose history the pushes have not completed.              *)
THEOREM BranchesReadable == Spec => []RefClosed
  <1>1. IInv => RefClosed  BY DEF IInv
  <1> QED  BY <1>1, InvariantAlways, PTL

(* upload_order does its work at every moment of every push.                *)
THEOREM UploadsLayered == Spec => []StoreLayered
  <1>1. IInv => StoreLayered  BY DEF IInv
  <1> QED  BY <1>1, InvariantAlways, PTL

(* What an interrupted or sparse working copy lacks, the server has.        *)
THEOREM HolesAlwaysServed == Spec => []HolesServed
  <1>1. IInv => HolesServed  BY DEF IInv
  <1> QED  BY <1>1, InvariantAlways, PTL

(* fsck reports the holes of a working copy, all of them that a branch      *)
(* reaches, whatever was interrupted before.                                *)
THEOREM HolesAreReported == Spec => []FsckFindsEveryHole
  <1>1. TypeOK => FsckFindsEveryHole
    <2> SUFFICES ASSUME TypeOK, NEW c \in Client
        PROVE  Missing(local[c], Roots(c)) = {}
                   <=> \A r \in Roots(c) : Reach[r] \subseteq local[c]
      BY DEF FsckFindsEveryHole
    <2>1. Roots(c) \in SUBSET Commit  BY DEF TypeOK, MaybeCommit, Roots
    <2> QED  BY <2>1, FsckIsExact
  <1> QED  BY <1>1, TypeCorrect, PTL

----------------------------------------------------------------------------
(* What one step may do to the branches of the server.                      *)
LEMMA BranchStep ==
    ASSUME IInv, [Next]_vars
    PROVE  \/ \A d \in Branch : refs[d] # NoCommit =>
                 refs'[d] # NoCommit /\ refs[d] \in Reach[refs'[d]]
           \/ \E b \in Branch : refs' = [refs EXCEPT ![b] = NoCommit]
  <1>i. TypeOK /\ RefClosed /\ LateFacts  BY DEF IInv
  <1>1. ASSUME refs' = refs
        PROVE  \A d \in Branch : refs[d] # NoCommit =>
                  refs'[d] # NoCommit /\ refs[d] \in Reach[refs'[d]]
    BY <1>1, <1>i, ReachIsHistory DEF TypeOK, MaybeCommit, Commit
  <1>2. ASSUME NEW c \in Client, ClientStep(c) \/ UserStep(c), ~FinishPush(c)
        PROVE  refs' = refs
    BY <1>2 DEF ClientStep, UserStep, CheckExists, CheckRefused, Upload,
       FetchCommit, FetchPart, FinishFetch, CommitLocally, CreateBranch,
       StartPush, StartFetch
  <1>3. ASSUME NEW c \in Client, FinishPush(c)
        PROVE  \A d \in Branch : refs[d] # NoCommit =>
                  refs'[d] # NoCommit /\ refs[d] \in Reach[refs'[d]]
    BY <1>3, <1>i, PushedWhole, CasIsSafe DEF FinishPush
  <1>4. ASSUME NEW c \in Client, GiveUpOnCas(c) \/ Abort(c)  PROVE refs' = refs
    BY <1>4 DEF GiveUpOnCas, Abort
  <1>5. ASSUME NEW m \in late, ServeLate(m)
        PROVE  \A d \in Branch : refs[d] # NoCommit =>
                  refs'[d] # NoCommit /\ refs[d] \in Reach[refs'[d]]
    <2>1. /\ m.branch \in Branch /\ m.new \in Commit
          /\ Reach[m.new] \subseteq server
          /\ m.old # NoCommit => m.old \in Reach[m.new]
      BY <1>i DEF TypeOK, RefUpdate, LateFacts
    <2> QED  BY <1>5, <1>i, <2>1, CasIsSafe DEF ServeLate
  <1>6. ASSUME NEW b \in Branch, DeleteRef(b)
        PROVE  refs' = [refs EXCEPT ![b] = NoCommit]
    BY <1>6 DEF DeleteRef
  <1>7. CASE UNCHANGED vars  BY <1>1, <1>7 DEF vars
  <1> QED  BY <1>1, <1>2, <1>3, <1>4, <1>5, <1>6, <1>7 DEF Next

(* Between creation and deletion a branch only moves forward.               *)
THEOREM BranchesMoveForward == Spec => FastForwardOnly
  <1> DEFINE Forward ==
        \A b \in Branch : refs[b] # NoCommit /\ refs'[b] # NoCommit
                             => refs[b] \in Reach[refs'[b]]
  <1>1. IInv /\ [Next]_vars => [Forward]_refs
    <2> SUFFICES ASSUME IInv, [Next]_vars  PROVE Forward
      OBVIOUS
    <2>1. CASE \E b \in Branch : refs' = [refs EXCEPT ![b] = NoCommit]
      <3>1. PICK b \in Branch : refs' = [refs EXCEPT ![b] = NoCommit]
        BY <2>1
      <3>2. ASSUME NEW d \in Branch, refs[d] # NoCommit, refs'[d] # NoCommit
            PROVE  refs'[d] = refs[d] /\ refs[d] \in Object
        BY <3>1, <3>2 DEF IInv, TypeOK, MaybeCommit, Commit
      <3> QED  BY <3>2, ReachIsHistory
    <2>2. CASE ~ \E b \in Branch : refs' = [refs EXCEPT ![b] = NoCommit]
      BY <2>2, BranchStep
    <2> QED  BY <2>1, <2>2
  <1>2. Spec => [][Forward]_refs
    BY <1>1, InvariantAlways, PTL DEF Spec
  <1> QED  BY <1>2 DEF FastForwardOnly

(* No remote command takes a local branch off its own history.              *)
THEOREM LocalBranchesKept == Spec => LocalWorkKept
  <1> DEFINE Kept ==
        \A c \in Client, b \in Branch : heads[c][b] # NoCommit =>
            /\ heads'[c][b] # NoCommit
            /\ heads[c][b] \in Reach[heads'[c][b]]
  <1>1. IInv /\ [Next]_vars => [Kept]_heads
    <2> SUFFICES ASSUME IInv, [Next]_vars,
                        NEW e \in Client, NEW f \in Branch, heads[e][f] # NoCommit
                 PROVE  /\ heads'[e][f] # NoCommit
                        /\ heads[e][f] \in Reach[heads'[e][f]]
      OBVIOUS
    <2>i. TypeOK  BY DEF IInv
    <2>h. heads[e][f] \in Commit  BY <2>i DEF TypeOK, MaybeCommit
    <2>0. CASE heads'[e][f] = heads[e][f]
      BY <2>0, <2>h, ReachIsHistory DEF Commit
    <2>1. ASSUME NEW c \in Client, NEW b \in Branch, NEW x \in Commit,
                 CommitLocally(c, b, x), heads'[e][f] # heads[e][f]
          PROVE  heads'[e][f] # NoCommit /\ heads[e][f] \in Reach[heads'[e][f]]
      <3>1. e = c /\ f = b /\ heads'[e][f] = x
        BY <2>1, <2>i DEF CommitLocally, TypeOK
      <3>2. heads[e][f] \in Parents(x)  BY <2>1, <3>1 DEF CommitLocally
      <3>3. x \in Object  BY DEF Commit
      <3> QED  BY <3>1, <3>2, <3>3, ReachOfDeps, GraphAssumption DEF Parents
    <2>2. ASSUME NEW c \in Client, NEW b \in Branch, NEW d \in Branch,
                 CreateBranch(c, b, d)
          PROVE  heads'[e][f] = heads[e][f]
      BY <2>2, <2>i DEF CreateBranch, TypeOK
    <2>3. ASSUME NEW c \in Client, FinishFetch(c), heads'[e][f] # heads[e][f]
          PROVE  heads'[e][f] # NoCommit /\ heads[e][f] \in Reach[heads'[e][f]]
      <3>1. /\ cmd[c].branch \in Branch /\ cmd[c].remote \in Commit
            /\ Cloning(c) => \A b \in Branch : heads[c][b] = NoCommit
        BY <2>3 DEF FinishFetch, IInv, FetchFacts
      <3>2. /\ e = c /\ f = cmd[c].branch /\ heads'[e][f] = cmd[c].remote
            /\ MovesHead(c)
        BY <2>3, <2>i DEF FinishFetch, TypeOK
      <3>3. Tip(c) = heads[e][f]  BY <3>2 DEF Tip
      <3>4. IsAncestor(local[c], Tip(c), cmd[c].remote)
        BY <3>1, <3>2, <3>3 DEF MovesHead
      <3>5. heads[e][f] \in Reach[cmd[c].remote]
        BY <2>h, <3>1, <3>3, <3>4, AncestorIsSound
      <3> QED  BY <3>1, <3>2, <3>5, GraphAssumption DEF Commit
    <2>4. CASE UNCHANGED vars  BY <2>0, <2>4 DEF vars
    <2>5. ASSUME NEW c \in Client, ClientStep(c), ~FinishFetch(c)
          PROVE  heads' = heads
      BY <2>5 DEF ClientStep, CheckExists, CheckRefused, Upload, FinishPush,
         FetchCommit, FetchPart
    <2>6. ASSUME NEW c \in Client, NEW b \in Branch,
                 StartPush(c, b) \/ \E op \in UsedOps : StartFetch(c, b, op)
          PROVE  heads' = heads
      BY <2>6 DEF StartPush, StartFetch
    <2>7. ASSUME NEW c \in Client, GiveUpOnCas(c) \/ Abort(c)
          PROVE  heads' = heads
      BY <2>7 DEF GiveUpOnCas, Abort
    <2>8. ASSUME NEW m \in late, ServeLate(m)  PROVE heads' = heads
      BY <2>8 DEF ServeLate
    <2>9. ASSUME NEW b \in Branch, DeleteRef(b)  PROVE heads' = heads
      BY <2>9 DEF DeleteRef
    <2> QED
      BY <2>0, <2>1, <2>2, <2>3, <2>4, <2>5, <2>6, <2>7, <2>8, <2>9
         DEF Next, UserStep
  <1>2. Spec => [][Kept]_heads
    BY <1>1, InvariantAlways, PTL DEF Spec
  <1> QED  BY <1>2 DEF LocalWorkKept

----------------------------------------------------------------------------
(* The store of the server only grows.                                      *)
LEMMA StoreGrows == Next => server \subseteq server'
  <1> SUFFICES ASSUME Next  PROVE server \subseteq server'
    OBVIOUS
  <1>1. ASSUME NEW c \in Client, ClientStep(c)  PROVE server \subseteq server'
    BY <1>1 DEF ClientStep, CheckExists, CheckRefused, Upload, FinishPush,
       FetchCommit, FetchPart, FinishFetch
  <1>2. ASSUME NEW c \in Client, UserStep(c)  PROVE server \subseteq server'
    BY <1>2 DEF UserStep, CommitLocally, CreateBranch, StartPush, StartFetch
  <1>3. ASSUME NEW c \in Client, GiveUpOnCas(c) \/ Abort(c)
        PROVE  server \subseteq server'
    BY <1>3 DEF GiveUpOnCas, Abort
  <1>4. ASSUME NEW m \in late, ServeLate(m)  PROVE server \subseteq server'
    BY <1>4 DEF ServeLate
  <1>5. ASSUME NEW b \in Branch, DeleteRef(b)  PROVE server \subseteq server'
    BY <1>5 DEF DeleteRef
  <1> QED  BY <1>1, <1>2, <1>3, <1>4, <1>5 DEF Next

(* Uploading makes commits readable, with their ancestors, for good.        *)
LEMMA WholeGrows ==
    ASSUME server \subseteq server'
    PROVE  /\ Whole' \in SUBSET Commit
           /\ Whole \subseteq Whole'
           /\ \A x \in Whole' : CommitHistory[x] \subseteq Whole'
  <1>1. Whole' \in SUBSET Commit /\ Whole \subseteq Whole'  BY DEF Whole
  <1>2. ASSUME NEW x \in Whole', NEW y \in CommitHistory[x]
        PROVE  y \in Whole'
    <2>1. x \in Commit /\ Reach[x] \subseteq server'  BY <1>2 DEF Whole
    <2>2. y \in Commit /\ y \in Reach[x]  BY <1>2, <2>1 DEF CommitHistory
    <2> QED  BY <2>1, <2>2, ReachMonotone DEF Whole, Commit
  <1> QED  BY <1>1, <1>2

(* A step that leaves the objects of the server alone.                      *)
LEMMA WholeSame == ASSUME server' = server  PROVE Whole' = Whole
  BY DEF Whole

(* An accepted or refused compare-and-swap is one step of the contract.     *)
LEMMA CasKeepsContract ==
    ASSUME TypeOK, RefClosed, server' = server,
           NEW b \in Branch, NEW old, NEW new \in Commit,
           Reach[new] \subseteq server,
           old # NoCommit => old \in Reach[new],
           CasUpdateRef(b, old, new)
    PROVE  Contract!Next \/ (refs' = refs /\ Whole' = Whole)
  <1>1. Whole' = Whole  BY WholeSame
  <1>2. new \in Whole  BY DEF Whole
  <1>3. CASE CasAccepts(b, old, new)
    <2>1. refs' = [refs EXCEPT ![b] = new] /\ refs[b] = old
      BY <1>3 DEF CasUpdateRef, CasAccepts
    <2>2. refs[b] # NoCommit => refs[b] \in CommitHistory[new]
      BY <2>1 DEF CommitHistory, TypeOK, MaybeCommit
    <2>3. Contract!SetBranch(b, new)
      BY <1>1, <1>2, <2>1, <2>2 DEF Contract!SetBranch
    <2> QED  BY <2>3 DEF Contract!Next
  <1>4. CASE ~ CasAccepts(b, old, new)
    BY <1>1, <1>4 DEF CasUpdateRef
  <1> QED  BY <1>3, <1>4

(* Every step of the many that make up a push is a step of the contract, or *)
(* invisible to the people who share the branches.                          *)
LEMMA ContractStep ==
    ASSUME IInv, [Next]_vars
    PROVE  [Contract!Next]_<<refs, Whole>>
  <1>i. TypeOK /\ RefClosed /\ LateFacts  BY DEF IInv
  <1> SUFFICES Contract!Next \/ (refs' = refs /\ Whole' = Whole)
    OBVIOUS
  <1>1. ASSUME refs' = refs, Next  PROVE Contract!Next
    <2>1. Contract!Publish
      BY <1>1, StoreGrows, WholeGrows DEF Contract!Publish
    <2> QED  BY <2>1 DEF Contract!Next
  <1>2. ASSUME NEW c \in Client, FinishPush(c)
        PROVE  Contract!Next \/ (refs' = refs /\ Whole' = Whole)
    BY <1>2, <1>i, PushedWhole, CasKeepsContract DEF FinishPush
  <1>3. ASSUME NEW m \in late, ServeLate(m)
        PROVE  Contract!Next \/ (refs' = refs /\ Whole' = Whole)
    <2>1. /\ m.branch \in Branch /\ m.new \in Commit
          /\ Reach[m.new] \subseteq server
          /\ m.old # NoCommit => m.old \in Reach[m.new]
      BY <1>i DEF TypeOK, RefUpdate, LateFacts
    <2> QED  BY <1>3, <1>i, <2>1, CasKeepsContract DEF ServeLate
  <1>4. ASSUME NEW b \in Branch, DeleteRef(b)  PROVE Contract!Next
    <2>1. Contract!DeleteBranch(b)
      BY <1>4, WholeSame DEF DeleteRef, Contract!DeleteBranch
    <2> QED  BY <2>1 DEF Contract!Next
  <1>5. ASSUME NEW c \in Client, ClientStep(c) \/ UserStep(c), ~FinishPush(c)
        PROVE  refs' = refs
    BY <1>5 DEF ClientStep, UserStep, CheckExists, CheckRefused, Upload,
       FetchCommit, FetchPart, FinishFetch, CommitLocally, CreateBranch,
       StartPush, StartFetch
  <1>6. ASSUME NEW c \in Client, GiveUpOnCas(c) \/ Abort(c)  PROVE refs' = refs
    BY <1>6 DEF GiveUpOnCas, Abort
  <1>7. CASE UNCHANGED vars  BY <1>7, WholeSame DEF vars
  <1> QED  BY <1>1, <1>2, <1>3, <1>4, <1>5, <1>6, <1>7 DEF Next

(* The requests of push implement what the server promises of its branches. *)
THEOREM PushKeepsContract == Spec => KeepsContract
  <1>1. Init => Contract!Init
    <2> SUFFICES ASSUME Init  PROVE Contract!Init
      OBVIOUS
    <2>1. Whole = {}
      BY ReachIsHistory DEF Init, Whole, Commit
    <2> QED  BY <2>1 DEF Init, Contract!Init
  <1>2. IInv /\ [Next]_vars => [Contract!Next]_<<refs, Whole>>
    BY ContractStep
  <1>3. Spec => Contract!Spec
    BY <1>1, <1>2, InvariantAlways, PTL DEF Spec, Contract!Spec
  <1> QED  BY <1>3 DEF KeepsContract
=============================================================================
