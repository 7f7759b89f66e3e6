------------------------------ MODULE ServerGC ------------------------------
(* Garbage collection of the server's store (core/gc.py, called by          *)
(* routes/gc_api.py) while clients push.  The collector is a handler of its *)
(* own: it reads the refs, marks what they reach, and then unlinks the old  *)
(* unmarked files one after the other, between the requests of any push.    *)
EXTENDS RemoteSync

VARIABLES
    aged,       \* objects whose file is older than the grace period
    own,        \* objects the running push of each client has itself stored
    condemned   \* files the running collection has still to unlink

gcVars == <<vars, aged, own, condemned>>

GcTypeOK ==
    /\ aged \in SUBSET server
    /\ own \in [Client -> SUBSET Object]
    /\ condemned \in SUBSET server

GcInit ==
    /\ Init
    /\ aged = {}
    /\ own = [c \in Client |-> {}]
    /\ condemned = {}

(* A step of a client.  ObjectStore.write returns early for an object that  *)
(* is there, so only an object that was absent becomes the push's own and   *)
(* gets a fresh modification time.                                          *)
GcClientStep(c) ==
    /\ ClientStep(c) \/ UserStep(c) \/ Abort(c)
    /\ own' = [own EXCEPT ![c] = IF cmd'[c].op = "push"
                                 THEN @ \cup (server' \ server) ELSE {}]
    /\ UNCHANGED <<aged, condemned>>

GcDeleteRef(b) == DeleteRef(b) /\ UNCHANGED <<aged, own, condemned>>

(* A file passes the grace period.  phase5b-gc.md:130 asks for a period     *)
(* longer than any push, so no object ages under the push that stored it.   *)
Age(o) ==
    /\ o \in server \ aged
    /\ \A c \in Client : o \notin own[c]
    /\ aged' = aged \cup {o}
    /\ UNCHANGED <<vars, own, condemned>>

----------------------------------------------------------------------------
CondemnedAnyAge(heap, old, marked) == heap \ marked   \* faulty variant

(* The files `sweep` unlinks: not live and older than the cutoff, which is  *)
(* fixed when it starts.                                                    *)
Condemned(heap, old, marked) == (heap \cap old) \ marked

LiveSetCommitsOnly(store, hashes) ==   \* faulty variant
    UNION {NewCommits(store, r, NoCommit) : r \in hashes}

(* collect_live_set, without a staging index on the server.                 *)
LiveSet(store, hashes) ==
    UNION {WalkSince(store, r, NoCommit) : r \in hashes}

RefHashes == {refs[b] : b \in Branch} \ {NoCommit}

GcStart ==
    /\ condemned = {}
    /\ condemned' = Condemned(server, aged, LiveSet(server, RefHashes))
    /\ UNCHANGED <<vars, aged, own>>

(* OBJ_TYPES, in the order sweep visits them.                               *)
SweepRank == [k \in Kinds |->
    CASE k = "commits" -> 1 [] k = "trees" -> 2 [] k = "manifests" -> 3
      [] k = "rows" -> 4 [] k = "sidecars" -> 5 [] k = "blobs" -> 6]

UnlinkAgain(o) ==   \* faulty variant: the file stays on the list
    /\ o \in FirstOf(condemned, SweepRank)
    /\ server' = server \ {o}
    /\ aged' = aged \ {o}
    /\ UNCHANGED <<refs, local, heads, cmd, late, own, condemned>>

Unlink(o) ==
    /\ o \in FirstOf(condemned, SweepRank)
    /\ server' = server \ {o}
    /\ aged' = aged \ {o}
    /\ condemned' = condemned \ {o}
    /\ UNCHANGED <<refs, local, heads, cmd, late, own>>

GcNext ==
    \/ \E c \in Client : GcClientStep(c)
    \/ \E b \in Branch : GcDeleteRef(b)
    \/ \E o \in Object : Age(o)
    \/ GcStart
    \/ \E o \in Object : Unlink(o)

GcSpec == GcInit /\ [][GcNext]_gcVars

----------------------------------------------------------------------------
(* What a branch holds safely it keeps: while it names a commit with all    *)
(* its objects stored and none of them condemned, no request, no ageing and *)
(* no collection changes that (collect_live_set misses nothing).  So only a *)
(* collection that was under way when the branch was set can damage it.     *)
WholeBranchStays ==
    [][\A b \in Branch :
          (/\ refs[b] # NoCommit
           /\ refs'[b] = refs[b]
           /\ Reach[refs[b]] \subseteq server \ condemned)
              => Reach[refs[b]] \subseteq server' \ condemned']_gcVars

(* The grace period protects what it is meant to: what a running push has   *)
(* itself stored stays until the push ends, however many collections start  *)
(* and end meanwhile.                                                       *)
OwnUploadsSurvive == \A c \in Client : own[c] \subseteq server

(* phase5b-gc.md:295 calls the grace period "Conservative; covers all       *)
(* in-flight operations": a collection leaves every branch readable, also   *)
(* one whose push was under way.                                            *)
InFlightPushesCovered == RefClosed
=============================================================================
