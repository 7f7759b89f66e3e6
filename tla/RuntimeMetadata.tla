-------------------------- MODULE RuntimeMetadata --------------------------
(* get_runtime_metadata_summary of core/runtime_metadata.py: threads of the *)
(* server that want the metadata summary of a manifest share a bounded      *)
(* cache, and a thread that finds a computation of the same summary under   *)
(* way waits for its Event.  Each action is one hold of                     *)
(* _SUMMARY_CACHE_LOCK; between two of them other threads run.  The summary *)
(* is a function of the manifest's hash, so a cache entry is just its key.  *)
EXTENDS Naturals, Sequences

CONSTANTS
    Thread,   \* threads of asyncio.to_thread
    Key,      \* (store root, manifest hash)
    CacheMax  \* _SUMMARY_CACHE_MAX

ASSUME CacheAssumption == CacheMax \in Nat \ {0}

VARIABLES
    cache,     \* _SUMMARY_CACHE, oldest entry first
    inFlight,  \* the keys of _SUMMARY_IN_FLIGHT
    waiters,   \* for each key, who waits on the Event filed under it
    pc,        \* where each thread is in its call
    key        \* the key of that call

vars == <<cache, inFlight, waiters, pc, key>>

Places == {"idle", "waiting", "woken", "computing"}

InCache(k) == \E i \in DOMAIN cache : cache[i] = k

(* The cache when the entry of k, if there is one, has been taken out.      *)
Without(k) ==
    LET n == CHOOSE i \in DOMAIN cache : cache[i] = k
    IN IF InCache(k)
       THEN [i \in 1 .. Len(cache) - 1 |-> cache[IF i < n THEN i ELSE i + 1]]
       ELSE cache

Init ==
    /\ cache = <<>>
    /\ inFlight = {}
    /\ waiters = [k \in Key |-> {}]
    /\ pc = [t \in Thread |-> "idle"]
    /\ key \in [Thread -> Key]    \* read only after a call has set it

----------------------------------------------------------------------------
(* A hit moves the entry to the end.                                        *)
Hit(t, k) ==
    /\ pc[t] = "idle"
    /\ InCache(k)
    /\ cache' = Append(Without(k), k)
    /\ UNCHANGED <<inFlight, waiters, pc, key>>

(* A miss, or a call with refresh, which first drops the entry: the call    *)
(* waits for the computation under way, or files an Event and computes.     *)
Miss(t, k, refresh) ==
    /\ pc[t] = "idle"
    /\ refresh \/ ~InCache(k)
    /\ cache' = Without(k)
    /\ key' = [key EXCEPT ![t] = k]
    /\ IF k \in inFlight
       THEN /\ pc' = [pc EXCEPT ![t] = "waiting"]
            /\ waiters' = [waiters EXCEPT ![k] = @ \cup {t}]
            /\ UNCHANGED inFlight
       ELSE /\ pc' = [pc EXCEPT ![t] = "computing"]
            /\ inFlight' = inFlight \cup {k}
            /\ UNCHANGED waiters

(* After the wait: the summary is there, or the thread computes it itself,  *)
(* without an Event of its own.                                             *)
Look(t) ==
    /\ pc[t] = "woken"
    /\ pc' = [pc EXCEPT ![t] = IF InCache(key[t]) THEN "idle" ELSE "computing"]
    /\ UNCHANGED <<cache, inFlight, waiters, key>>

SettleQuietly(t) ==   \* faulty variant: the Event is dropped, but not set
    /\ inFlight' = inFlight \ {key[t]}
    /\ waiters' = [waiters EXCEPT ![key[t]] = {}]
    /\ pc' = [pc EXCEPT ![t] = "idle"]

(* A computation ends: whatever Event stands under the key, its own or one  *)
(* that a later call filed, is dropped and set.                             *)
Settle(t) ==
    /\ inFlight' = inFlight \ {key[t]}
    /\ waiters' = [waiters EXCEPT ![key[t]] = {}]
    /\ pc' = [u \in Thread |->
           IF u = t THEN "idle"
           ELSE IF u \in waiters[key[t]] THEN "woken" ELSE pc[u]]

StoredUnbounded(k) ==   \* faulty variant: nothing is evicted
    IF InCache(k) THEN cache ELSE Append(cache, k)

(* An OrderedDict keeps the place of an entry that is assigned again; a new *)
(* one goes to the end and pushes out the oldest.                           *)
Stored(k) ==
    IF InCache(k) THEN cache
    ELSE IF Len(cache) < CacheMax THEN Append(cache, k)
    ELSE Append(Tail(cache), k)

Computed(t) ==
    /\ pc[t] = "computing"
    /\ cache' = Stored(key[t])
    /\ Settle(t)
    /\ UNCHANGED key

FailedAlone(t) ==   \* faulty variant: the error path leaves the Event filed
    /\ pc[t] = "computing"
    /\ pc' = [pc EXCEPT ![t] = "idle"]
    /\ UNCHANGED <<cache, inFlight, waiters, key>>

(* compute_sidecar raises: a row is missing or is not JSON.                 *)
Failed(t) ==
    /\ pc[t] = "computing"
    /\ Settle(t)
    /\ UNCHANGED <<cache, key>>

----------------------------------------------------------------------------
Next ==
    \/ \E t \in Thread, k \in Key :
           Hit(t, k) \/ \E refresh \in BOOLEAN : Miss(t, k, refresh)
    \/ \E t \in Thread : Look(t) \/ Computed(t) \/ Failed(t)

(* A thread that is woken runs, and a computation ends.  No call is obliged *)
(* to be made.                                                              *)
Spec ==
    /\ Init /\ [][Next]_vars
    /\ \A t \in Thread : WF_vars(Look(t) \/ Computed(t) \/ Failed(t))

----------------------------------------------------------------------------
(* The cache holds no key twice and never more than _SUMMARY_CACHE_MAX.     *)
TypeOK ==
    /\ cache \in UNION {[1 .. n -> Key] : n \in 0 .. CacheMax}
    /\ \A i, j \in DOMAIN cache : cache[i] = cache[j] => i = j
    /\ inFlight \in SUBSET Key
    /\ waiters \in [Key -> SUBSET Thread]
    /\ pc \in [Thread -> Places]
    /\ key \in [Thread -> Key]

(* Nobody waits for an Event that nobody will set: who waits on a key is on *)
(* the Event filed under it, and some thread computes that key, although    *)
(* finishing threads drop each other's Events and waiters that find nothing *)
(* compute without one.                                                     *)
NoWaiterForgotten ==
    \A k \in Key :
        /\ waiters[k] = {t \in Thread : pc[t] = "waiting" /\ key[t] = k}
        /\ waiters[k] # {} => k \in inFlight
        /\ k \in inFlight =>
               \E t \in Thread : pc[t] = "computing" /\ key[t] = k

(* Every call returns, with a summary or an exception.                      *)
CallsReturn == \A t \in Thread : pc[t] # "idle" ~> pc[t] = "idle"
=============================================================================
