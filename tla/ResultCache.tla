---------------------------- MODULE ResultCache ----------------------------
(***************************************************************************)
(* The result cache of cache.py.  Every public method holds the one lock   *)
(* from its first read to its last write, so each is one action whatever   *)
(* threads call it.  The hit, miss and eviction counters and the fields    *)
(* that no decision reads (access_count, last_accessed) are left out.      *)
(***************************************************************************)
EXTENDS Integers, SequencesExt

CONSTANTS
  Key,         \* what make_key returns
  Value,       \* chunk lists
  None,        \* no entry
  TTL,         \* ttl_s, in ticks
  MaxEntries,  \* max_entries
  Policies     \* the policies a cache may be built with

ASSUME CacheAssumption ==
  /\ TTL \in Nat \ {0}
  /\ MaxEntries \in Nat \ {0}
  /\ Policies \subseteq {"lru", "ttl", "fifo", "lfu"}
  /\ None \notin Value

VARIABLES
  policy,    \* the policy it was built with
  order,     \* the keys of _store, in the dict's order
  chunks,    \* chunks[k]: the entry's chunks, None if k is not in _store
  left,      \* left[k]: ticks until expires_at, -1 once that is past
  sweeping,  \* the background thread runs
  latest,    \* history: the value last put for k, None once it was removed
  age,       \* history: ticks since that put, cut off above TTL
  rank       \* history: the keys of _store as the policy is to evict them

cacheHistory == <<latest, age, rank>>
cacheVars == <<policy, order, chunks, left, sweeping, cacheHistory>>

CacheTypeOK ==
  /\ policy \in Policies
  /\ order \in Seq(Key)
  /\ IsInjective(order)
  /\ ToSet(order) = {k \in Key : chunks[k] # None}
  /\ chunks \in [Key -> Value \cup {None}]
  /\ left \in [Key -> -1..TTL]
  /\ sweeping \in BOOLEAN
  /\ latest \in [Key -> Value \cup {None}]
  /\ age \in [Key -> 0..(TTL + 1)]
  /\ rank \in Seq(Key)
  \* Only the TTL policy lets the store outgrow max_entries ("may exceed
  \* max_entries until background cleanup runs").
  /\ policy # "ttl" => Len(order) <= MaxEntries

CacheInit ==
  /\ policy \in Policies
  /\ order = <<>>
  /\ chunks = [k \in Key |-> None]
  /\ left = [k \in Key |-> -1]
  /\ sweeping \in BOOLEAN
  /\ latest = [k \in Key |-> None]
  /\ age = [k \in Key |-> 0]
  /\ rank = <<>>

----------------------------------------------------------------------------
\* The sequence s without the elements of K.
Without(s, K) ==
  LET kept[i \in 0..Len(s)] ==
        IF i = 0 THEN <<>>
        ELSE IF s[i] \in K THEN kept[i - 1]
        ELSE Append(kept[i - 1], s[i])
  IN kept[Len(s)]

MovedToEnd(s, k) == Append(Without(s, {k}), k)

Stored == ToSet(order)
Expired == {k \in Stored : left[k] < 0}

\* The entries of K are deleted.
Delete(K) ==
  /\ order' = Without(order, K)
  /\ chunks' = [k \in Key |-> IF k \in K THEN None ELSE chunks[k]]
  /\ rank' = Without(rank, K)

\* An entry that is past its time is handed out all the same.
Lookup_NoExpiry(k) == chunks[k]

\* What get(k) returns.
Lookup(k) == IF left[k] >= 0 THEN chunks[k] ELSE None

\* A hit does not count as a use.
Get_NoMove(k) ==
  \/ /\ Lookup(k) # None
     /\ rank' = IF policy = "lru" THEN MovedToEnd(rank, k) ELSE rank
     /\ UNCHANGED <<policy, order, chunks, left, sweeping, latest, age>>
  \/ /\ k \in Expired
     /\ Delete({k})
     /\ UNCHANGED <<policy, left, sweeping, latest, age>>

\* get(k): a hit is a use for LRU, an expired entry is deleted.
Get(k) ==
  \/ /\ Lookup(k) # None
     /\ policy = "lru"
     /\ order' = MovedToEnd(order, k)
     /\ rank' = MovedToEnd(rank, k)
     /\ UNCHANGED <<policy, chunks, left, sweeping, latest, age>>
  \/ /\ k \in Expired
     /\ Delete({k})
     /\ UNCHANGED <<policy, left, sweeping, latest, age>>

\* put(k, v) writes the entry, with a full life ahead of it.
Store(k, v, evicted) ==
  /\ chunks' = [m \in Key |-> IF m = k THEN v
                              ELSE IF m \in evicted THEN None ELSE chunks[m]]
  /\ left' = [left EXCEPT ![k] = TTL]
  /\ latest' = [latest EXCEPT ![k] = v]
  /\ age' = [age EXCEPT ![k] = 0]

\* Live entries go to make room, under the TTL policy too.
Evicted_TTLEvictsLive ==
  IF Len(order) >= MaxEntries
  THEN ToSet(SubSeq(order, 1, Len(order) - MaxEntries + 1))
  ELSE {}

\* _evict_if_needed(): what has to go before a new entry comes in.  TTL lets
\* the expired entries go, however many or few they are; the others take
\* the first of _store until one place is free.  (FIFO and LFU look for the
\* least inserted_at, which is the first: only LRU moves an entry.)
Evicted ==
  IF Len(order) < MaxEntries THEN {}
  ELSE IF policy = "ttl" THEN Expired
  ELSE ToSet(SubSeq(order, 1, Len(order) - MaxEntries + 1))

\* The room is made after the entry has come in.
PutNew_LateEvict(k, v) ==
  /\ k \notin Stored
  /\ LET E == IF Len(order) <= MaxEntries THEN {} ELSE Evicted
     IN /\ Store(k, v, E)
        /\ order' = Append(Without(order, E), k)
        /\ rank' = Append(Without(rank, E), k)
  /\ UNCHANGED <<policy, sweeping>>

\* put() of a key that is not in the store.
PutNew(k, v) ==
  /\ k \notin Stored
  /\ Store(k, v, Evicted)
  /\ order' = Append(Without(order, Evicted), k)
  /\ rank' = Append(Without(rank, Evicted), k)
  /\ UNCHANGED <<policy, sweeping>>

\* A key that is there is put in once more.
PutAgain_Twice(k, v) ==
  /\ k \in Stored
  /\ Store(k, v, {})
  /\ order' = Append(order, k)
  /\ rank' = MovedToEnd(rank, k)
  /\ UNCHANGED <<policy, sweeping>>

\* put() of a key that is: refreshed where it stands, or at the end for LRU.
PutAgain(k, v) ==
  /\ k \in Stored
  /\ Store(k, v, {})
  /\ IF policy = "lru"
     THEN order' = MovedToEnd(order, k) /\ rank' = MovedToEnd(rank, k)
     ELSE UNCHANGED <<order, rank>>
  /\ UNCHANGED <<policy, sweeping>>

Forget(K) ==
  /\ Delete(K)
  /\ latest' = [k \in Key |-> IF k \in K THEN None ELSE latest[k]]
  /\ UNCHANGED <<policy, left, sweeping, age>>

Invalidate(k) == k \in Stored /\ Forget({k})

Clear == Stored # {} /\ Forget(Key)

\* evict_expired()
EvictExpired ==
  /\ Expired # {}
  /\ Delete(Expired)
  /\ UNCHANGED <<policy, left, sweeping, latest, age>>

\* The background thread wakes up.
BackgroundEviction == sweeping /\ EvictExpired

StopBackgroundEviction ==
  /\ sweeping
  /\ sweeping' = FALSE
  /\ UNCHANGED <<policy, order, chunks, left, cacheHistory>>

CacheTick ==
  /\ \E k \in Key : left[k] >= 0 \/ age[k] <= TTL
  /\ left' = [k \in Key |-> IF left[k] >= 0 THEN left[k] - 1 ELSE -1]
  /\ age' = [k \in Key |-> IF age[k] <= TTL THEN age[k] + 1 ELSE age[k]]
  /\ UNCHANGED <<policy, order, chunks, sweeping, latest, rank>>

CacheNext ==
  \/ \E k \in Key :
       \/ Get(k) \/ Invalidate(k)
       \/ \E v \in Value : PutNew(k, v) \/ PutAgain(k, v)
  \/ Clear \/ EvictExpired \/ BackgroundEviction \/ StopBackgroundEviction \/ CacheTick

CacheSpec == CacheInit /\ [][CacheNext]_cacheVars

----------------------------------------------------------------------------
(***************************************************************************)
(* Properties                                                              *)
(***************************************************************************)

\* A hit returns what was last put for the key, put no more than ttl_s ago
\* and not invalidated or cleared since (get's expiry and copy).
HitIsFresh ==
  \A k \in Key : Lookup(k) # None => Lookup(k) = latest[k] /\ age[k] <= TTL

Before(s, k, m) == \E i, j \in DOMAIN s : i < j /\ s[i] = k /\ s[j] = m

\* An entry goes for a reason.  One that has not expired goes when a client
\* invalidates or clears it; under the TTL policy for nothing else ("never
\* evict live entries"); under the others to make room in put(), and then it
\* comes before all that stay in the policy's order: least recently used
\* first for LRU, oldest first for FIFO (_evict_if_needed).
EvictsInOrder ==
  [][ \A k \in Stored \ ToSet(order') :
        \/ k \in Expired \/ latest'[k] = None
        \/ /\ policy # "ttl"
           /\ ToSet(order') \ Stored # {}
           /\ \A m \in Stored \cap ToSet(order') : Before(rank, k, m) ]_cacheVars

=============================================================================
