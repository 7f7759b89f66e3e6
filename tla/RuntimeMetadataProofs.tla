----------------------- MODULE RuntimeMetadataProofs -----------------------
(* No thread is left waiting and the cache stays within its bound, for any  *)
(* number of threads and manifests.  The two arguments are independent: the *)
(* order and the size of the cache play no part in who waits for whom.      *)
EXTENDS RuntimeMetadata, TLAPS

(* The part of TypeOK the argument needs.                                   *)
CallsTyped ==
    /\ inFlight \in SUBSET Key
    /\ waiters \in [Key -> SUBSET Thread]
    /\ pc \in [Thread -> Places]
    /\ key \in [Thread -> Key]

CallsInv == CallsTyped /\ NoWaiterForgotten

LEMMA CallsStart == Init => CallsInv
  BY DEF Init, CallsInv, CallsTyped, NoWaiterForgotten, Places

(* Settling a key wakes all who wait on it and no one else.                 *)
LEMMA SettleKeeps ==
    ASSUME CallsInv, NEW t \in Thread, pc[t] = "computing",
           Settle(t), UNCHANGED key
    PROVE  CallsInv'
  <1> DEFINE k == key[t]
  <1>k. k \in Key  BY DEF CallsInv, CallsTyped
  <1>w. waiters[k] = {u \in Thread : pc[u] = "waiting" /\ key[u] = k}
    BY <1>k DEF CallsInv, NoWaiterForgotten
  <1>1. CallsTyped'
    BY <1>k DEF CallsInv, CallsTyped, Settle, Places
  <1>2. ASSUME NEW j \in Key
        PROVE  /\ waiters'[j] =
                      {u \in Thread : pc'[u] = "waiting" /\ key'[u] = j}
               /\ waiters'[j] # {} => j \in inFlight'
               /\ j \in inFlight' =>
                      \E u \in Thread : pc'[u] = "computing" /\ key'[u] = j
    <2>1. CASE j = k
      <3>1. waiters'[j] = {} /\ j \notin inFlight'
        BY <2>1, <1>k DEF Settle, CallsInv, CallsTyped
      <3>2. ASSUME NEW u \in Thread, key'[u] = j  PROVE pc'[u] # "waiting"
        BY <2>1, <3>2, <1>w DEF Settle
      <3> QED  BY <3>1, <3>2
    <2>2. CASE j # k
      <3>1. waiters'[j] = waiters[j] /\ (j \in inFlight' <=> j \in inFlight)
        BY <2>2, <1>k DEF Settle, CallsInv, CallsTyped
      <3>2. ASSUME NEW u \in Thread, key[u] = j
            PROVE  pc'[u] = pc[u] /\ key'[u] = j
        BY <2>2, <3>2, <1>w DEF Settle
      <3>3. \A u \in Thread : key'[u] = j => key[u] = j  OBVIOUS
      <3> QED  BY <3>1, <3>2, <3>3 DEF CallsInv, NoWaiterForgotten
    <2> QED  BY <2>1, <2>2
  <1> QED  BY <1>1, <1>2 DEF CallsInv, NoWaiterForgotten

(* A call that misses joins an Event some thread will set, or files one     *)
(* that it will set itself.                                                 *)
LEMMA MissKeeps ==
    ASSUME CallsInv, NEW t \in Thread, NEW k \in Key, NEW refresh \in BOOLEAN,
           Miss(t, k, refresh)
    PROVE  CallsInv'
  <1>1. CallsTyped'
    BY DEF CallsInv, CallsTyped, Miss, Places
  <1>2. \A u \in Thread : u # t => pc'[u] = pc[u] /\ key'[u] = key[u]
    BY DEF Miss, CallsInv, CallsTyped
  <1>3. pc[t] = "idle" /\ key'[t] = k
    BY DEF Miss, CallsInv, CallsTyped
  <1>4. CASE k \in inFlight
    <2>1. /\ pc'[t] = "waiting" /\ inFlight' = inFlight
          /\ waiters' = [waiters EXCEPT ![k] = @ \cup {t}]
      BY <1>4 DEF Miss, CallsInv, CallsTyped
    <2> QED
      BY <1>1, <1>2, <1>3, <1>4, <2>1
      DEF CallsInv, CallsTyped, NoWaiterForgotten
  <1>5. CASE k \notin inFlight
    <2>1. /\ pc'[t] = "computing" /\ inFlight' = inFlight \cup {k}
          /\ waiters' = waiters
      BY <1>5 DEF Miss, CallsInv, CallsTyped
    <2> QED
      BY <1>1, <1>2, <1>3, <1>5, <2>1
      DEF CallsInv, CallsTyped, NoWaiterForgotten
  <1> QED  BY <1>4, <1>5

LEMMA CallsStep == CallsInv /\ [Next]_vars => CallsInv'
  <1> SUFFICES ASSUME CallsInv, [Next]_vars  PROVE CallsInv'
    OBVIOUS
  <1>1. ASSUME NEW t \in Thread, NEW k \in Key, Hit(t, k)  PROVE CallsInv'
    BY <1>1 DEF Hit, CallsInv, CallsTyped, NoWaiterForgotten
  <1>2. ASSUME NEW t \in Thread, Look(t)  PROVE CallsInv'
    BY <1>2 DEF Look, CallsInv, CallsTyped, NoWaiterForgotten, Places
  <1>3. ASSUME NEW t \in Thread, Computed(t)  PROVE CallsInv'
    BY <1>3, SettleKeeps DEF Computed
  <1>4. ASSUME NEW t \in Thread, Failed(t)  PROVE CallsInv'
    BY <1>4, SettleKeeps DEF Failed
  <1>5. CASE UNCHANGED vars
    BY <1>5 DEF vars, CallsInv, CallsTyped, NoWaiterForgotten
  <1> QED  BY <1>1, <1>2, <1>3, <1>4, <1>5, MissKeeps DEF Next

(* No call ever waits for an Event nobody will set, although finishing      *)
(* threads drop each other's Events (get_runtime_metadata_summary).         *)
THEOREM WaitersRemembered == Spec => []NoWaiterForgotten
  <1>1. CallsInv => NoWaiterForgotten  BY DEF CallsInv
  <1> QED  BY CallsStart, CallsStep, <1>1, PTL DEF Spec

----------------------------------------------------------------------------
(* The cache itself: a short sequence of distinct keys.                     *)
Distinct(s) ==
    /\ Len(s) <= CacheMax
    /\ \A i, j \in DOMAIN s : s[i] = s[j] => i = j

CacheInv == CallsInv /\ cache \in Seq(Key) /\ Distinct(cache)

(* Taking an entry out leaves the others, and one place less if it was      *)
(* there.                                                                   *)
LEMMA WithoutTakesOut ==
    ASSUME CacheInv, NEW k
    PROVE  /\ Without(k) \in Seq(Key) /\ Distinct(Without(k))
           /\ \A i \in DOMAIN Without(k) : Without(k)[i] # k
           /\ InCache(k) => Len(Without(k)) < CacheMax
  <1> USE DEF CacheInv, Distinct, InCache
  <1>1. CASE ~InCache(k)  BY <1>1 DEF Without
  <1>2. CASE InCache(k)
    <2> DEFINE n == CHOOSE i \in DOMAIN cache : cache[i] = k
               W == [i \in 1 .. Len(cache) - 1 |-> cache[IF i < n THEN i ELSE i + 1]]
    <2>1. n \in 1 .. Len(cache) /\ cache[n] = k  BY <1>2
    <2>2. Without(k) = W  BY <1>2 DEF Without
    <2> HIDE DEF n
    <2>3. Len(cache) \in Nat /\ Len(cache) - 1 \in Nat  BY <2>1
    <2>4. \A i \in 1 .. Len(cache) - 1 :
             \E j \in 1 .. Len(cache) :
                 /\ j # n /\ W[i] = cache[j]
                 /\ j = IF i < n THEN i ELSE i + 1
      BY <2>1, <2>3
    <2>5. W \in Seq(Key) /\ Len(W) = Len(cache) - 1  BY <2>3, <2>4
    <2> HIDE DEF W
    <2>6. DOMAIN W = 1 .. Len(cache) - 1  BY <2>5, <2>3
    <2>7. \A i \in DOMAIN W : W[i] # k  BY <2>1, <2>4, <2>6
    <2>8. ASSUME NEW i \in DOMAIN W, NEW j \in DOMAIN W, W[i] = W[j]  PROVE i = j
      BY <2>1, <2>3, <2>4, <2>6, <2>8
    <2>9. CacheMax \in Nat /\ Len(cache) <= CacheMax  BY CacheAssumption
    <2>10. Distinct(W) /\ Len(W) < CacheMax  BY <2>3, <2>5, <2>8, <2>9
    <2> HIDE DEF InCache, Distinct
    <2> QED  BY <2>2, <2>5, <2>7, <2>10
  <1> QED  BY <1>1, <1>2

LEMMA AppendKeepsDistinct ==
    ASSUME NEW s \in Seq(Key), Distinct(s), Len(s) < CacheMax, NEW k \in Key,
           \A i \in DOMAIN s : s[i] # k
    PROVE  Append(s, k) \in Seq(Key) /\ Distinct(Append(s, k))
  BY CacheAssumption DEF Distinct

LEMMA CacheStarts == Init => CacheInv
  BY CallsStart, CacheAssumption DEF Init, CacheInv, Distinct

LEMMA StoredKeeps ==
    ASSUME CacheInv, NEW k \in Key
    PROVE  Stored(k) \in Seq(Key) /\ Distinct(Stored(k))
  <1> USE DEF CacheInv
  <1>1. CASE InCache(k)  BY <1>1 DEF Stored
  <1>2. CASE ~InCache(k) /\ Len(cache) < CacheMax
    BY <1>2, AppendKeepsDistinct DEF Stored, InCache
  <1>3. CASE ~InCache(k) /\ ~(Len(cache) < CacheMax)
    <2>1. Len(cache) = CacheMax /\ cache # <<>>
      BY <1>3, CacheAssumption DEF Distinct
    <2>2. /\ Tail(cache) \in Seq(Key) /\ Len(Tail(cache)) = Len(cache) - 1
          /\ \A i \in DOMAIN Tail(cache) : i + 1 \in DOMAIN cache /\ Tail(cache)[i] = cache[i + 1]
      BY <2>1
    <2>3. Distinct(Tail(cache))  BY <2>1, <2>2, CacheAssumption DEF Distinct
    <2>4. \A i \in DOMAIN Tail(cache) : Tail(cache)[i] # k  BY <1>3, <2>2 DEF InCache
    <2>5. Len(Tail(cache)) < CacheMax  BY <2>1, <2>2, CacheAssumption
    <2>6. Stored(k) = Append(Tail(cache), k)  BY <1>3 DEF Stored
    <2> QED  BY <2>2, <2>3, <2>4, <2>5, <2>6, AppendKeepsDistinct
  <1> QED  BY <1>1, <1>2, <1>3

LEMMA CacheStep == CacheInv /\ [Next]_vars => CacheInv'
  <1> SUFFICES ASSUME CacheInv, [Next]_vars  PROVE CacheInv'
    OBVIOUS
  <1>c. CallsInv'  BY CallsStep DEF CacheInv
  <1>s. ASSUME cache' \in Seq(Key), Distinct(cache')  PROVE CacheInv'
    BY <1>c, <1>s DEF CacheInv, Distinct
  <1>1. ASSUME NEW t \in Thread, NEW k \in Key, Hit(t, k)  PROVE CacheInv'
    BY <1>1, <1>s, WithoutTakesOut, AppendKeepsDistinct DEF Hit
  <1>2. ASSUME NEW t \in Thread, NEW k \in Key, NEW refresh \in BOOLEAN, Miss(t, k, refresh)
        PROVE  CacheInv'
    BY <1>2, <1>s, WithoutTakesOut DEF Miss
  <1>3. ASSUME NEW t \in Thread, Computed(t)  PROVE CacheInv'
    <2>1. key[t] \in Key  BY DEF CacheInv, CallsInv, CallsTyped
    <2> QED  BY <1>3, <2>1, <1>s, StoredKeeps DEF Computed
  <1>4. ASSUME cache' = cache  PROVE CacheInv'
    BY <1>4, <1>s DEF CacheInv
  <1> QED  BY <1>1, <1>2, <1>3, <1>4 DEF Next, Look, Failed, vars

(* The cache never holds a key twice nor more than _SUMMARY_CACHE_MAX       *)
(* summaries, although hits and misses reorder it and threads store the     *)
(* same summary after one another (get_runtime_metadata_summary).           *)
THEOREM CacheBounded == Spec => []TypeOK
  <1>1. CacheInv => TypeOK
    <2> SUFFICES ASSUME CacheInv  PROVE TypeOK
      OBVIOUS
    <2>1. cache \in [1 .. Len(cache) -> Key] /\ Len(cache) \in 0 .. CacheMax
      BY CacheAssumption DEF CacheInv, Distinct
    <2> QED  BY <2>1 DEF TypeOK, CacheInv, CallsInv, CallsTyped, Distinct
  <1> QED  BY CacheStarts, CacheStep, <1>1, PTL DEF Spec
=============================================================================
