-------------------------- MODULE ShardCache_proofs --------------------------
(***************************************************************************)
(* What ShardCache guarantees for any number of clients, keys and loads,   *)
(* any sizes, with and without cancellation, and what patient callers add. *)
(***************************************************************************)
EXTENDS ShardCache, TLAPS, SequenceTheorems, FiniteSetTheorems, WellFoundedInduction

\* A load that is in flight, finished, listed, mapped or held has a key, so
\* that its tokens are the length of some content.
Keyed ==
  /\ \A l \in Loads : status[l] # "free" => hash[l] \in Keys
  /\ \A i \in DOMAIN lru : status[lru[i]] # "free"
  /\ \A c \in Clients :
       ref[c].kind \in {"loading", "entry"} => status[ref[c].load] # "free"
  /\ \A k \in Keys : items[k] # Absent => status[items[k].load] # "free"
  /\ \A c \in Clients : pc[c] \in {"held", "evict"} => want[c].key \in Keys

IInv == TypeOK /\ Keyed /\ TokensConserved

-----------------------------------------------------------------------------
\* What a handle is: nothing, a prepare, or a pointer to a load.
LEMMA HandleKinds ==
  ASSUME NEW h \in Handles \cup {Absent, Prepare}
  PROVE  /\ h.kind \in {"none", "prepare", "loading", "entry"}
         /\ h.kind = "none" <=> h = Absent
         /\ h.kind = "prepare" <=> h = Prepare
         /\ h.kind \in {"loading", "entry"} => h.load \in Loads /\ h \in Handles
         /\ h \in Handles => h.kind \in {"loading", "entry"} /\ h.load \in Loads
BY DEF Handles, Absent, Prepare, Loading, EntryOf

\* allocatedSize() is a number.
LEMMA TokensNat ==
  ASSUME TypeOK, Keyed, NEW l \in Loads
  PROVE  Tokens(l) \in Nat
BY CacheAssumption DEF TypeOK, Keyed, Tokens, CacheAssumption

\* The LRU list stays a list of loads that have a key.
LEMMA UnlistedSeq ==
  ASSUME TypeOK, Keyed, NEW l \in Loads
  PROVE  /\ Unlisted(l) \in Seq(Loads)
         /\ \A i \in DOMAIN Unlisted(l) : status[Unlisted(l)[i]] # "free"
<1> DEFINE Good == {x \in Loads : status[x] # "free"}
           i == CHOOSE i \in DOMAIN lru : lru[i] = l
<1>1. lru \in Seq(Good)
  <2>1. lru \in Seq(Loads) /\ \A n \in 1..Len(lru) : lru[n] \in Good
    BY LenProperties DEF TypeOK, Keyed
  <2>2. QED  BY <2>1, SubSeqFull, SubSeqProperties, LenProperties
<1>2. Unlisted(l) \in Seq(Good)
  <2>1. CASE ~\E j \in DOMAIN lru : lru[j] = l
    BY <1>1, <2>1 DEF Unlisted
  <2>2. CASE \E j \in DOMAIN lru : lru[j] = l
    <3>1. i \in 1..Len(lru)
      BY <2>2, <1>1, LenProperties
    <3>2. SubSeq(lru, 1, i - 1) \in Seq(Good) /\ SubSeq(lru, i + 1, Len(lru)) \in Seq(Good)
      <4>1. \A n \in 1..Len(lru) : lru[n] \in Good
        BY <1>1, LenProperties
      <4> HIDE DEF Good, i
      <4>2. Len(lru) \in Nat
        BY <1>1, LenProperties
      <4>3. QED  BY <3>1, <4>1, <4>2, SubSeqProperties
    <3>3. QED  BY <2>2, <3>2, ConcatProperties DEF Unlisted
  <2>3. QED  BY <2>1, <2>2
<1>3. Seq(Good) \subseteq Seq(Loads)
  BY SeqMonotonic
<1>4. QED  BY <1>2, <1>3, LenProperties

-----------------------------------------------------------------------------
\* Taking a handle on a mapped load keeps the types and the token sum.
LEMMA AcquireEntryInv ==
  ASSUME IInv, NEW l \in Loads, status[l] # "free", AcquireEntry(l)
  PROVE  /\ count' \in [Loads -> Int] /\ element' \subseteq Loads
         /\ lru' \in Seq(Loads)
         /\ \A i \in DOMAIN lru' : status[lru'[i]] # "free"
         /\ inLRU' \in Int /\ inUse' \in Int /\ panicked' \in BOOLEAN
         /\ available + inLRU' + inUse' = Capacity
<1> USE DEF IInv
<1>1. count' \in [Loads -> Int] /\ element' \subseteq Loads
  BY DEF AcquireEntry, TypeOK
<1>2. lru' \in Seq(Loads) /\ \A i \in DOMAIN lru' : status[lru'[i]] # "free"
  BY UnlistedSeq DEF AcquireEntry, TypeOK, Keyed
<1>3. panicked' \in BOOLEAN
  BY DEF AcquireEntry, TypeOK
<1>4. inLRU' \in Int /\ inUse' \in Int /\ available + inLRU' + inUse' = Capacity
  BY TokensNat DEF AcquireEntry, TypeOK, TokensConserved
<1>5. QED  BY <1>1, <1>2, <1>3, <1>4

\* So does giving a body to the LRU list.
LEMMA PushFrontInv ==
  ASSUME IInv, NEW l \in Loads, status[l] # "free", PushFront(l)
  PROVE  /\ count' \in [Loads -> Int] /\ element' \subseteq Loads
         /\ lru' \in Seq(Loads)
         /\ \A i \in DOMAIN lru' : status[lru'[i]] # "free"
         /\ inLRU' \in Int /\ inUse' \in Int
         /\ available + inLRU' + inUse' = Capacity
<1> USE DEF IInv
<1>1. count' \in [Loads -> Int] /\ element' \subseteq Loads
  BY DEF PushFront, TypeOK
<1>2. <<l>> \in Seq(Loads) /\ Len(<<l>>) = 1 /\ <<l>>[1] = l
  OBVIOUS
<1>3. /\ lru' \in Seq(Loads)
      /\ Len(lru') = 1 + Len(lru)
      /\ \A i \in 1..(1 + Len(lru)) : lru'[i] = IF i <= 1 THEN l ELSE lru[i - 1]
  BY <1>2, ConcatProperties DEF PushFront, TypeOK
<1>4. \A i \in DOMAIN lru' : status[lru'[i]] # "free"
  <2>1. Len(lru) \in Nat /\ DOMAIN lru = 1..Len(lru) /\ DOMAIN lru' = 1..(1 + Len(lru))
    BY <1>3, LenProperties DEF TypeOK
  <2>2. \A i \in 1..Len(lru) : status[lru[i]] # "free"
    BY <2>1 DEF Keyed
  <2>3. QED  BY <1>3, <2>1, <2>2
<1>5. inLRU' \in Int /\ inUse' \in Int /\ available + inLRU' + inUse' = Capacity
  <2>1. Tokens(l) \in Nat /\ available \in Int /\ inLRU \in Int /\ inUse \in Int
    BY TokensNat DEF TypeOK
  <2>2. inLRU' = inLRU + Tokens(l) /\ inUse' = inUse - Tokens(l)
    BY DEF PushFront
  <2>3. QED  BY <2>1, <2>2 DEF TokensConserved
<1>6. QED  BY <1>1, <1>3, <1>4, <1>5

-----------------------------------------------------------------------------
\* IInv is inductive: one lemma per action, or per group of actions that
\* touch the same part of the cache.
LEMMA InitInv == Init => IInv
<1> SUFFICES ASSUME Init PROVE IInv
  OBVIOUS
<1>1. lru \in Seq(Loads) /\ DOMAIN lru = {}
  BY DEF Init
<1>2. TypeOK
  <2>1. /\ mu \in Clients \cup {NoClient}
        /\ available \in Int /\ inLRU \in Int /\ inUse \in Int
        /\ status \in [Loads -> {"free", "loading", "ok", "err"}]
        /\ hash \in [Loads -> Keys \cup {NoKey}]
        /\ count \in [Loads -> Int]
        /\ element \subseteq Loads /\ cancelled \subseteq Loads
    BY CacheAssumption DEF Init, CacheAssumption
  <2>2. /\ items \in [Keys -> Handles \cup {Absent}]
        /\ ref \in [Clients -> Handles \cup {Absent, Prepare}]
    BY DEF Init
  <2>3. /\ pc \in [Clients -> {"idle", "held", "evict", "ready", "drain"}]
        /\ got \in [Clients -> {"none", "data", "error"}]
        /\ panicked \in BOOLEAN
    BY DEF Init
  <2>4. want \in [Clients -> [key : Keys \cup {NoKey}, ignoreLimit : BOOLEAN]]
    BY DEF Init
  <2>5. QED  BY <1>1, <2>1, <2>2, <2>3, <2>4 DEF TypeOK
<1>3. Keyed
  BY <1>1 DEF Init, Keyed, Absent
<1>4. TokensConserved
  BY CacheAssumption DEF Init, TokensConserved, CacheAssumption
<1>5. QED  BY <1>2, <1>3, <1>4 DEF IInv

\* A client joins what the map holds for a key (Acquire and tryLoad).
LEMMA JoinInv ==
  ASSUME IInv, NEW c \in Clients, NEW k \in Keys, items[k] # Absent,
         AcquireEntry(items[k].load),
         ref' = [ref EXCEPT ![c] = items[k]],
         UNCHANGED <<mu, items, available, status, hash, cancelled, got>>,
         pc' \in [Clients -> {"idle", "held", "evict", "ready", "drain"}],
         want' \in [Clients -> [key : Keys \cup {NoKey}, ignoreLimit : BOOLEAN]],
         \A d \in Clients : pc'[d] \in {"held", "evict"} => want'[d].key \in Keys
  PROVE  IInv'
<1>1. items[k] \in Handles /\ items[k].load \in Loads /\ status[items[k].load] # "free"
  BY HandleKinds DEF IInv, TypeOK, Keyed
<1>2. /\ count' \in [Loads -> Int] /\ element' \subseteq Loads
      /\ lru' \in Seq(Loads)
      /\ \A i \in DOMAIN lru' : status[lru'[i]] # "free"
      /\ inLRU' \in Int /\ inUse' \in Int /\ panicked' \in BOOLEAN
      /\ available + inLRU' + inUse' = Capacity
  BY <1>1, AcquireEntryInv
<1>3. TypeOK'
  BY <1>1, <1>2 DEF IInv, TypeOK
<1>4. Keyed'
  BY <1>1, <1>2 DEF IInv, TypeOK, Keyed
<1>5. TokensConserved'
  <2>1. available' = available
    OBVIOUS
  <2>2. QED  BY <1>2, <2>1, Zenon DEF TokensConserved
<1>6. QED  BY <1>3, <1>4, <1>5 DEF IInv

LEMMA AcquireInv ==
  ASSUME IInv, NEW c \in Clients, Acquire(c)
  PROVE  IInv'
<1>1. PICK k \in Keys, ignore \in Limits :
        /\ want' = [want EXCEPT ![c] = [key |-> k, ignoreLimit |-> ignore]]
        /\ pc' = [pc EXCEPT ![c] = "held"]
        /\ \/ /\ items[k] = Absent
              /\ ref' = [ref EXCEPT ![c] = Prepare]
              /\ UNCHANGED <<lru, inLRU, inUse, count, element, panicked>>
           \/ /\ items[k] # Absent
              /\ ref' = [ref EXCEPT ![c] = items[k]]
              /\ AcquireEntry(items[k].load)
  BY DEF Acquire
<1>2. UNCHANGED <<mu, items, available, status, hash, cancelled, got>>
  BY DEF Acquire
<1>3. /\ pc' \in [Clients -> {"idle", "held", "evict", "ready", "drain"}]
      /\ want' \in [Clients -> [key : Keys \cup {NoKey}, ignoreLimit : BOOLEAN]]
      /\ \A d \in Clients : pc'[d] \in {"held", "evict"} => want'[d].key \in Keys
  BY <1>1, CacheAssumption DEF CacheAssumption, IInv, TypeOK, Keyed
<1>4. CASE items[k] = Absent
  <2>1. /\ ref' = [ref EXCEPT ![c] = Prepare]
        /\ UNCHANGED <<lru, inLRU, inUse, count, element, panicked>>
    BY <1>1, <1>4
  <2>2. TypeOK'
    BY <1>2, <1>3, <2>1 DEF IInv, TypeOK
  <2>3. Keyed'
    BY <1>2, <1>3, <2>1 DEF IInv, TypeOK, Keyed, Prepare
  <2>4. TokensConserved'
    BY <1>2, <2>1 DEF IInv, TokensConserved
  <2>5. QED  BY <2>2, <2>3, <2>4 DEF IInv
<1>5. CASE items[k] # Absent
  BY <1>1, <1>2, <1>3, <1>5, JoinInv
<1>6. QED  BY <1>4, <1>5

\* Get's outcomes that leave the cache alone.
LEMMA ReturnInv ==
  ASSUME IInv, NEW c \in Clients,
         GetLoaded(c) \/ GetCancelled(c) \/ SizeFails(c) \/ TryLoadPressure(c)
  PROVE  IInv'
<1>1. PICK result \in {"data", "error"} : Returns(c, result)
  BY DEF GetLoaded, GetCancelled, SizeFails, TryLoadPressure
<1>2. UNCHANGED <<cacheVars, ref, want>>
  BY DEF GetLoaded, GetCancelled, SizeFails, TryLoadPressure
<1>3. QED
  BY <1>1, <1>2 DEF Returns, cacheVars, tokenVars, loadVars, IInv, TypeOK, Keyed,
     TokensConserved

LEMMA TryLoadSharedInv ==
  ASSUME IInv, NEW c \in Clients, TryLoadShared(c)
  PROVE  IInv'
<1>1. want[c].key \in Keys
  BY DEF TryLoadShared, IInv, Keyed
<1>2. QED
  BY <1>1, JoinInv DEF TryLoadShared, Misses, IInv, TypeOK, Keyed

LEMMA TryLoadBeginInv ==
  ASSUME IInv, NEW c \in Clients, TryLoadBegin(c)
  PROVE  IInv'
BY DEF TryLoadBegin, tokenVars, loadVars, IInv, TypeOK, Keyed, TokensConserved

LEMMA EvictOneInv ==
  ASSUME IInv, NEW c \in Clients, EvictOne(c)
  PROVE  IInv'
<1> DEFINE k == hash[lru[Len(lru)]]
           victim == items[k]
<1>1. Len(lru) \in 1..Len(lru) /\ lru[Len(lru)] \in Loads /\ k \in Keys
  <2>1. Len(lru) \in Nat \ {0}
    BY EmptySeq DEF EvictOne, MustEvict, IInv, TypeOK
  <2>2. QED  BY <2>1, LenProperties DEF IInv, TypeOK, Keyed
<1>2. victim \in Handles \cup {Absent}
  BY <1>1 DEF IInv, TypeOK
<1>3. lru' \in Seq(Loads) /\ \A i \in DOMAIN lru' : status[lru'[i]] # "free"
  <2>1. \A i \in 1..(Len(lru) - 1) : lru[i] \in Loads /\ status[lru[i]] # "free"
    BY LenProperties DEF IInv, TypeOK, Keyed
  <2>2. /\ SubSeq(lru, 1, Len(lru) - 1) \in Seq(Loads)
        /\ Len(SubSeq(lru, 1, Len(lru) - 1)) = Len(lru) - 1
        /\ \A i \in 1..(Len(lru) - 1) : SubSeq(lru, 1, Len(lru) - 1)[i] = lru[i]
    <3>1. Len(lru) \in Nat \ {0}
      BY <1>1, LenProperties DEF IInv, TypeOK
    <3> DEFINE n == Len(lru) - 1
    <3>2. n \in Int /\ 1 \in Int /\ n >= 0 /\ \A i \in 1..n : lru[i] \in Loads
      BY <2>1, <3>1
    <3> HIDE DEF n
    <3>3. /\ SubSeq(lru, 1, n) \in Seq(Loads)
          /\ Len(SubSeq(lru, 1, n)) = IF 1 <= n THEN n - 1 + 1 ELSE 0
          /\ \A i \in 1..(n - 1 + 1) : SubSeq(lru, 1, n)[i] = lru[1 + i - 1]
      BY <3>2, SubSeqProperties
    <3>4. n - 1 + 1 = n /\ \A i \in 1..n : 1 + i - 1 = i
      BY <3>2
    <3>5. QED  BY <3>2, <3>3, <3>4 DEF n
  <2>3. QED  BY <2>1, <2>2, LenProperties DEF EvictOne
<1>4. UNCHANGED <<mu, inUse, status, hash, count, element, cancelled, pc, ref, want, got>>
  BY DEF EvictOne, loadVars, clientVars
<1>5. CASE victim.kind = "entry"
  <2>1. Tokens(victim.load) \in Nat
    BY <1>2, <1>5, HandleKinds, TokensNat DEF IInv
  <2>2. /\ available' = available + Tokens(victim.load)
        /\ inLRU' = inLRU - Tokens(victim.load)
        /\ items' = [items EXCEPT ![k] = Absent]
        /\ UNCHANGED panicked
    BY <1>5 DEF EvictOne
  <2>3. TypeOK'
    BY <1>1, <1>3, <1>4, <2>1, <2>2 DEF IInv, TypeOK
  <2>4. Keyed'
    BY <1>1, <1>3, <1>4, <2>2 DEF IInv, TypeOK, Keyed
  <2>5. TokensConserved'
    BY <1>4, <2>1, <2>2 DEF IInv, TypeOK, TokensConserved
  <2>6. QED  BY <2>3, <2>4, <2>5 DEF IInv
<1>6. CASE victim.kind # "entry"
  <2>1. panicked' = TRUE /\ UNCHANGED <<available, inLRU, items>>
    BY <1>6 DEF EvictOne
  <2>2. QED  BY <1>3, <1>4, <2>1 DEF IInv, TypeOK, Keyed, TokensConserved
<1>7. QED  BY <1>5, <1>6

LEMMA StartLoadInv ==
  ASSUME IInv, NEW c \in Clients, StartLoad(c)
  PROVE  IInv'
<1>1. PICK l \in Loads :
        /\ status' = [status EXCEPT ![l] = "loading"]
        /\ hash' = [hash EXCEPT ![l] = want[c].key]
        /\ count' = [count EXCEPT ![l] = 1]
        /\ items' = [items EXCEPT ![want[c].key] = Loading(l)]
        /\ ref' = [ref EXCEPT ![c] = Loading(l)]
        /\ element' = element \ {l} /\ cancelled' = cancelled \ {l}
  BY DEF StartLoad
<1>2. /\ available' = available - Size[want[c].key]
      /\ inUse' = inUse + Size[want[c].key]
      /\ mu' = NoClient
      /\ pc' = [pc EXCEPT ![c] = "held"]
      /\ UNCHANGED <<lru, inLRU, panicked, want, got>>
  BY DEF StartLoad
<1>3. want[c].key \in Keys /\ Size[want[c].key] \in Nat
  BY CacheAssumption DEF StartLoad, IInv, Keyed, CacheAssumption
<1>4. Loading(l) \in Handles /\ Loading(l).load = l
  BY DEF Handles, Loading
<1>5. TypeOK'
  BY <1>1, <1>2, <1>3, <1>4 DEF IInv, TypeOK
<1>6. Keyed'
  <2>1. \A i \in DOMAIN lru : lru[i] \in Loads
    BY LenProperties DEF IInv, TypeOK
  <2>2. \A x \in Loads : status[x] # "free" => status'[x] # "free"
    BY <1>1 DEF IInv, TypeOK
  <2>3. \A x \in Loads : status'[x] # "free" => hash'[x] \in Keys
    BY <1>1, <1>3 DEF IInv, TypeOK, Keyed
  <2>4. \A d \in Clients :
          ref'[d].kind \in {"loading", "entry"} => status'[ref'[d].load] # "free"
    BY <1>1, <1>4, <2>2, HandleKinds DEF IInv, TypeOK, Keyed
  <2>5. \A j \in Keys : items'[j] # Absent => status'[items'[j].load] # "free"
    BY <1>1, <1>4, <2>2, HandleKinds DEF IInv, TypeOK, Keyed
  <2>6. QED  BY <1>2, <1>3, <2>1, <2>2, <2>3, <2>4, <2>5 DEF IInv, TypeOK, Keyed
<1>7. TokensConserved'
  BY <1>2, <1>3 DEF IInv, TypeOK, TokensConserved
<1>8. QED  BY <1>5, <1>6, <1>7 DEF IInv

LEMMA FinishInv ==
  ASSUME IInv, NEW l \in Loads, Finish(l)
  PROVE  IInv'
<1>1. hash[l] \in Keys /\ Tokens(l) \in Nat
  BY TokensNat DEF Finish, FinishOK, FinishError, IInv, Keyed
<1>2. EntryOf(l) \in Handles /\ EntryOf(l).load = l
  BY DEF Handles, EntryOf
<1>3. \A x \in Loads : status[x] # "free" => status'[x] # "free" /\ hash[x] \in Keys
  BY DEF Finish, FinishOK, FinishError, IInv, TypeOK, Keyed
<1>4. \A i \in DOMAIN lru : lru[i] \in Loads
  BY LenProperties DEF IInv, TypeOK
<1>5. \A d \in Clients : ref[d].kind \in {"loading", "entry"} => ref[d].load \in Loads
  BY HandleKinds DEF IInv, TypeOK
<1>6. \A j \in Keys : items[j] # Absent => items[j].load \in Loads
  BY HandleKinds DEF IInv, TypeOK
<1>7. CASE FinishOK(l)
  <2>1. TypeOK'
    BY <1>1, <1>2, <1>7 DEF FinishOK, clientVars, tokenVars, IInv, TypeOK
  <2>2. Keyed'
    BY <1>1, <1>2, <1>3, <1>4, <1>5, <1>6, <1>7
       DEF FinishOK, clientVars, tokenVars, IInv, TypeOK, Keyed
  <2>3. TokensConserved'
    BY <1>7 DEF FinishOK, tokenVars, IInv, TokensConserved
  <2>4. QED  BY <2>1, <2>2, <2>3 DEF IInv
<1>8. CASE FinishError(l)
  <2>1. TypeOK'
    BY <1>1, <1>8 DEF FinishError, clientVars, tokenVars, IInv, TypeOK
  <2>2. Keyed'
    BY <1>1, <1>3, <1>4, <1>5, <1>6, <1>8
       DEF FinishError, clientVars, tokenVars, IInv, TypeOK, Keyed
  <2>3. TokensConserved'
    BY <1>1, <1>8 DEF FinishError, tokenVars, IInv, TypeOK, TokensConserved
  <2>4. QED  BY <2>1, <2>2, <2>3 DEF IInv
<1>9. QED  BY <1>7, <1>8 DEF Finish

LEMMA ReleaseInv ==
  ASSUME IInv, NEW c \in Clients, Release(c) \/ Drain(c)
  PROVE  IInv'
<1>1. ASSUME Forget(c)
      PROVE  /\ pc' \in [Clients -> {"idle", "held", "evict", "ready", "drain"}]
             /\ ref' \in [Clients -> Handles \cup {Absent, Prepare}]
             /\ want' \in [Clients -> [key : Keys \cup {NoKey}, ignoreLimit : BOOLEAN]]
             /\ got' \in [Clients -> {"none", "data", "error"}]
             /\ \A d \in Clients : pc'[d] \in {"held", "evict"} => want'[d].key \in Keys
             /\ \A d \in Clients :
                  ref'[d].kind \in {"loading", "entry"} => status[ref'[d].load] # "free"
  BY <1>1 DEF Forget, Absent, IInv, TypeOK, Keyed
<1>2. ref[c].kind \in {"loading", "entry"} =>
        ref[c].load \in Loads /\ status[ref[c].load] # "free"
  BY HandleKinds DEF IInv, TypeOK, Keyed
<1>3. CASE ReleasePrepare(c) \/ Drain(c)
  <2>1. Forget(c) /\ UNCHANGED cacheVars
    BY <1>3 DEF ReleasePrepare, Drain
  <2>2. TypeOK'
    BY <1>1, <2>1 DEF cacheVars, tokenVars, loadVars, IInv, TypeOK
  <2>3. Keyed'
    BY <1>1, <2>1 DEF cacheVars, tokenVars, loadVars, IInv, Keyed
  <2>4. TokensConserved'
    BY <2>1 DEF cacheVars, tokenVars, IInv, TokensConserved
  <2>5. QED  BY <2>2, <2>3, <2>4 DEF IInv
<1>4. CASE ReleaseShared(c)
  <2>1. count' \in [Loads -> Int]
    BY <1>2, <1>4 DEF ReleaseShared, IInv, TypeOK
  <2>2. /\ Forget(c)
        /\ UNCHANGED <<mu, items, lru, tokenVars, status, hash, element, cancelled,
              panicked>>
    BY <1>4 DEF ReleaseShared
  <2>3. TypeOK'
    BY <1>1, <2>1, <2>2 DEF tokenVars, IInv, TypeOK
  <2>4. Keyed'
    BY <1>1, <2>2 DEF IInv, Keyed
  <2>5. TokensConserved'
    BY <2>2 DEF tokenVars, IInv, TokensConserved
  <2>6. QED  BY <2>3, <2>4, <2>5 DEF IInv
<1>5. CASE ReleaseLast(c)
  <2> DEFINE l == ref[c].load
  <2>1. l \in Loads /\ status[l] # "free"
    BY <1>2, <1>5 DEF ReleaseLast
  <2>2. /\ Forget(c)
        /\ UNCHANGED <<mu, items, available, status, hash, cancelled, panicked>>
    BY <1>5 DEF ReleaseLast
  <2>3. /\ count' \in [Loads -> Int] /\ element' \subseteq Loads
        /\ lru' \in Seq(Loads)
        /\ \A i \in DOMAIN lru' : status[lru'[i]] # "free"
        /\ inLRU' \in Int /\ inUse' \in Int
        /\ available + inLRU' + inUse' = Capacity
    <3>1. CASE PushFront(l)
      BY <2>1, <3>1, PushFrontInv
    <3>2. CASE /\ count' = [count EXCEPT ![l] = 0]
               /\ UNCHANGED <<lru, inLRU, inUse, element>>
      BY <2>1, <3>2 DEF IInv, TypeOK, Keyed, TokensConserved
    <3>3. QED  BY <1>5, <3>1, <3>2 DEF ReleaseLast
  <2>4. TypeOK'
    BY <1>1, <2>2, <2>3 DEF IInv, TypeOK
  <2>5. Keyed'
    BY <1>1, <2>2, <2>3 DEF IInv, Keyed
  <2>6. TokensConserved'
    BY <2>2, <2>3, Zenon DEF TokensConserved
  <2>7. QED  BY <2>4, <2>5, <2>6 DEF IInv
<1>6. CASE ReleasePending(c)
  <2> DEFINE l == ref[c].load
  <2>1. l \in Loads /\ hash[l] \in Keys
    BY <1>2, <1>6 DEF ReleasePending, IInv, Keyed
  <2>2. /\ count' = [count EXCEPT ![l] = 0]
        /\ cancelled' = cancelled \cup {l}
        /\ items' = [items EXCEPT ![hash[l]] = Absent]
        /\ pc' = [pc EXCEPT ![c] = "drain"]
        /\ UNCHANGED <<mu, lru, tokenVars, status, hash, element, panicked, ref, want, got>>
    BY <1>6 DEF ReleasePending
  <2>3. TypeOK'
    BY <2>1, <2>2 DEF tokenVars, IInv, TypeOK
  <2>4. Keyed'
    BY <2>1, <2>2 DEF IInv, TypeOK, Keyed
  <2>5. TokensConserved'
    BY <2>2 DEF tokenVars, IInv, TokensConserved
  <2>6. QED  BY <2>3, <2>4, <2>5 DEF IInv
<1>7. QED  BY <1>3, <1>4, <1>5, <1>6 DEF Release

LEMMA StutterInv == IInv /\ UNCHANGED vars => IInv'
BY DEF vars, cacheVars, tokenVars, loadVars, clientVars, IInv, TypeOK, Keyed,
   TokensConserved

-----------------------------------------------------------------------------
LEMMA NextInv == IInv /\ [Next]_vars => IInv'
<1> SUFFICES ASSUME IInv, [Next]_vars PROVE IInv'
  OBVIOUS
<1>1. ASSUME NEW c \in Clients, Get(c) PROVE IInv'
  BY <1>1, ReturnInv, TryLoadSharedInv, TryLoadBeginInv, EvictOneInv, StartLoadInv
     DEF Get, TryLoad
<1>2. QED
  BY <1>1, AcquireInv, ReleaseInv, FinishInv, StutterInv DEF Next

\* The invariant that is inductive holds of every run of the cache.
THEOREM Invariant == Spec => []IInv
BY InitInv, NextInv, PTL DEF Spec

\* Every variable of the cache stays in its type: in particular the LRU list
\* only ever holds loads, and a handle always points to one.
THEOREM TypeCorrect == Spec => []TypeOK
BY Invariant, PTL DEF IInv

\* The token sum TestRacingLoad checks is the cache size in every state of
\* every run, cancellations, failures and interrupted evictions included.
THEOREM TokensAreConserved == Spec => []TokensConserved
BY Invariant, PTL DEF IInv

-----------------------------------------------------------------------------
(***************************************************************************)
(* CountIsHandles: each action adds its client to the holders of one load, *)
(* takes it away, or leaves the holders of every load as they are.         *)
(***************************************************************************)

\* The holders of a load are finitely many clients.
LEMMA HoldersFinite ==
  ASSUME NEW l
  PROVE  IsFiniteSet(HoldersOf(l)) /\ Cardinality(HoldersOf(l)) \in Nat
BY CacheAssumption, FS_Subset, FS_CardinalityType DEF HoldersOf, CacheAssumption

\* A step that changes neither counts nor holders.
LEMMA SameHolders ==
  ASSUME CountIsHandles, UNCHANGED count, \A l \in Loads : HoldersOf(l)' = HoldersOf(l)
  PROVE  CountIsHandles'
BY DEF CountIsHandles

\* A client joins the holders of l.
LEMMA HolderJoins ==
  ASSUME IInv, CountIsHandles, NEW c \in Clients, NEW l \in Loads,
         count' = [count EXCEPT ![l] = @ + 1],
         c \notin HoldersOf(l),
         \A x \in Loads : HoldersOf(x)' = IF x = l THEN HoldersOf(x) \cup {c} ELSE HoldersOf(x)
  PROVE  CountIsHandles'
<1>1. Cardinality(HoldersOf(l) \cup {c}) = Cardinality(HoldersOf(l)) + 1
  BY HoldersFinite, FS_AddElement
<1>2. QED  BY <1>1 DEF CountIsHandles, IInv, TypeOK

\* A client leaves the holders of l.
LEMMA HolderLeaves ==
  ASSUME IInv, CountIsHandles, NEW c \in Clients, NEW l \in Loads,
         count' = [count EXCEPT ![l] = @ - 1],
         c \in HoldersOf(l),
         \A x \in Loads : HoldersOf(x)' = IF x = l THEN HoldersOf(x) \ {c} ELSE HoldersOf(x)
  PROVE  CountIsHandles'
<1>1. Cardinality(HoldersOf(l) \ {c}) = Cardinality(HoldersOf(l)) - 1
  BY HoldersFinite, FS_RemoveElement
<1>2. QED  BY <1>1 DEF CountIsHandles, IInv, TypeOK

\* Acquire and tryLoad take a handle on what the map holds.
LEMMA JoinCount ==
  ASSUME IInv, CountIsHandles, NEW c \in Clients, NEW k \in Keys, items[k] # Absent,
         AcquireEntry(items[k].load), pc' = [pc EXCEPT ![c] = "held"],
         ref' = [ref EXCEPT ![c] = items[k]],
         pc[c] = "idle" \/ ref[c] = Prepare
  PROVE  CountIsHandles'
<1> DEFINE l == items[k].load
<1>1. l \in Loads
  BY HandleKinds DEF IInv, TypeOK
<1>2. \A x \in Loads : c \notin HoldersOf(x)
  BY CacheAssumption DEF HoldersOf, Prepare, CacheAssumption
<1>3. \A x \in Loads : HoldersOf(x)' = IF x = l THEN HoldersOf(x) \cup {c} ELSE HoldersOf(x)
  BY <1>1, <1>2 DEF HoldersOf, IInv, TypeOK
<1>4. QED  BY <1>1, <1>2, <1>3, HolderJoins DEF AcquireEntry

LEMMA AcquireCount ==
  ASSUME IInv, CountIsHandles, NEW c \in Clients, Acquire(c)
  PROVE  CountIsHandles'
<1>1. PICK k \in Keys :
        /\ pc' = [pc EXCEPT ![c] = "held"]
        /\ \/ /\ items[k] = Absent
              /\ ref' = [ref EXCEPT ![c] = Prepare]
              /\ UNCHANGED count
           \/ /\ items[k] # Absent
              /\ ref' = [ref EXCEPT ![c] = items[k]]
              /\ AcquireEntry(items[k].load)
  BY DEF Acquire
<1>2. pc[c] = "idle"
  BY DEF Acquire
<1>3. CASE items[k] = Absent
  <2>1. \A x \in Loads : HoldersOf(x)' = HoldersOf(x)
    BY <1>1, <1>2, <1>3, CacheAssumption
       DEF HoldersOf, Prepare, CacheAssumption, IInv, TypeOK
  <2>2. QED  BY <1>1, <1>3, <2>1, SameHolders
<1>4. CASE items[k] # Absent
  BY <1>1, <1>2, <1>4, JoinCount
<1>5. QED  BY <1>3, <1>4

LEMMA GetCount ==
  ASSUME IInv, CountIsHandles, NEW c \in Clients, Get(c)
  PROVE  CountIsHandles'
<1>1. CASE GetLoaded(c) \/ GetCancelled(c) \/ SizeFails(c) \/ TryLoadPressure(c)
  <2>1. /\ \E result \in {"data", "error"} : Returns(c, result)
        /\ UNCHANGED <<cacheVars, ref>> /\ pc[c] = "held"
    BY <1>1 DEF GetLoaded, GetCancelled, SizeFails, TryLoadPressure
  <2>2. \A x \in Loads : HoldersOf(x)' = HoldersOf(x)
    BY <2>1 DEF Returns, HoldersOf, IInv, TypeOK
  <2>3. QED  BY <2>1, <2>2, SameHolders DEF cacheVars, loadVars
<1>2. CASE TryLoadShared(c)
  <2>1. pc' = [pc EXCEPT ![c] = "held"] /\ want[c].key \in Keys
    BY <1>2 DEF TryLoadShared, IInv, TypeOK, Keyed
  <2>2. QED  BY <1>2, <2>1, JoinCount DEF TryLoadShared, Misses
<1>3. CASE TryLoadBegin(c)
  <2>1. \A x \in Loads : HoldersOf(x)' = HoldersOf(x)
    BY <1>3, CacheAssumption
       DEF TryLoadBegin, HoldersOf, Prepare, CacheAssumption, IInv, TypeOK
  <2>2. QED  BY <1>3, <2>1, SameHolders DEF TryLoadBegin, loadVars
<1>4. CASE EvictOne(c)
  <2>1. UNCHANGED <<count, pc, ref>>
    BY <1>4 DEF EvictOne, loadVars, clientVars
  <2>2. QED  BY <2>1, SameHolders DEF HoldersOf
<1>5. CASE StartLoad(c)
  <2>1. PICK l \in Loads :
          /\ Reusable(l)
          /\ count' = [count EXCEPT ![l] = 1]
          /\ ref' = [ref EXCEPT ![c] = Loading(l)]
    BY <1>5 DEF StartLoad
  <2>2. pc' = [pc EXCEPT ![c] = "held"] /\ pc[c] = "evict"
    BY <1>5 DEF StartLoad
  <2>3. HoldersOf(l) = {}
    <3>1. \A d \in Clients : ref[d].load = l => status[l] # "free"
      <4>1. ASSUME NEW d \in Clients, ref[d].load = l PROVE status[l] # "free"
        <5>1. ref[d] # Absent /\ ref[d] # Prepare
          BY <4>1, CacheAssumption DEF Absent, Prepare, CacheAssumption
        <5>2. ref[d] \in Handles
          BY <5>1 DEF IInv, TypeOK
        <5>3. ref[d].kind \in {"loading", "entry"}
          BY <5>2, HandleKinds
        <5>4. QED  BY <4>1, <5>3 DEF IInv, Keyed
      <4>2. QED  BY <4>1
    <3>2. QED  BY <2>1, <3>1 DEF Reusable, HoldersOf
  <2>4. \A x \in Loads : HoldersOf(x)' = IF x = l THEN {c} ELSE HoldersOf(x)
    BY <2>1, <2>2, <2>3 DEF HoldersOf, Loading, IInv, TypeOK
  <2>5. Cardinality({c}) = 1
    BY FS_Singleton
  <2>6. QED  BY <2>1, <2>4, <2>5 DEF CountIsHandles, IInv, TypeOK
<1>6. QED  BY <1>1, <1>2, <1>3, <1>4, <1>5 DEF Get, TryLoad

LEMMA ReleaseCount ==
  ASSUME IInv, CountIsHandles, NEW c \in Clients, Release(c) \/ Drain(c)
  PROVE  CountIsHandles'
<1> DEFINE l == ref[c].load
<1>1. CASE ReleasePrepare(c) \/ Drain(c)
  <2>1. UNCHANGED count /\ Forget(c) /\ (ref[c] = Prepare \/ pc[c] = "drain")
    BY <1>1 DEF ReleasePrepare, Drain, cacheVars, loadVars
  <2>2. \A x \in Loads : HoldersOf(x)' = HoldersOf(x)
    BY <2>1, CacheAssumption
       DEF Forget, HoldersOf, Prepare, CacheAssumption, IInv, TypeOK
  <2>3. QED  BY <2>1, <2>2, SameHolders
<1>2. CASE ReleaseShared(c) \/ ReleaseLast(c) \/ ReleasePending(c)
  <2>1. l \in Loads /\ pc[c] = "ready"
    BY <1>2, HandleKinds DEF ReleaseShared, ReleaseLast, ReleasePending, IInv, TypeOK
  <2>2. c \in HoldersOf(l)
    BY <2>1 DEF HoldersOf
  <2>3. count' = [count EXCEPT ![l] = @ - 1]
    BY <1>2, <2>1 DEF ReleaseShared, ReleaseLast, ReleasePending, PushFront, IInv, TypeOK
  <2>4. \A x \in Loads : HoldersOf(x)' = IF x = l THEN HoldersOf(x) \ {c} ELSE HoldersOf(x)
    <3>1. CASE Forget(c)
      BY <2>1, <3>1 DEF Forget, HoldersOf, IInv, TypeOK
    <3>2. CASE pc' = [pc EXCEPT ![c] = "drain"] /\ UNCHANGED ref
      BY <2>1, <3>2 DEF HoldersOf, IInv, TypeOK
    <3>3. QED  BY <1>2, <3>1, <3>2 DEF ReleaseShared, ReleaseLast, ReleasePending
  <2>5. QED  BY <2>1, <2>2, <2>3, <2>4, HolderLeaves
<1>3. QED  BY <1>1, <1>2 DEF Release

LEMMA InitCount == Init => CountIsHandles
<1>1. Init => \A l \in Loads : HoldersOf(l) = {} /\ count[l] = 0
  BY DEF Init, HoldersOf
<1>2. QED  BY <1>1, FS_EmptySet DEF CountIsHandles

LEMMA NextCount == IInv /\ CountIsHandles /\ [Next]_vars => CountIsHandles'
<1> SUFFICES ASSUME IInv, CountIsHandles, [Next]_vars PROVE CountIsHandles'
  OBVIOUS
<1>1. ASSUME NEW l \in Loads, Finish(l) PROVE CountIsHandles'
  <2>1. UNCHANGED <<count, pc, ref>>
    BY <1>1 DEF Finish, FinishOK, FinishError, clientVars
  <2>2. QED  BY <2>1, SameHolders DEF HoldersOf
<1>2. CASE UNCHANGED vars
  <2>1. UNCHANGED <<count, pc, ref>>
    BY <1>2 DEF vars, cacheVars, loadVars, clientVars
  <2>2. QED  BY <2>1, SameHolders DEF HoldersOf
<1>3. QED  BY <1>1, <1>2, AcquireCount, GetCount, ReleaseCount DEF Next

\* entry.count is the number of outstanding handles in every state of every
\* run: no path through Get, Release, errors and cancellation loses one.
THEOREM CountsAreHandles == Spec => []CountIsHandles
BY InitCount, NextCount, Invariant, PTL DEF Spec

-----------------------------------------------------------------------------
(***************************************************************************)
(* Sums of weights over finite sets.  SumSizes folds the set in the order  *)
(* CHOOSE picks; the lemmas show that there is such a sum, that the order  *)
(* does not matter, and what adding or removing a member does to it.  Each *)
(* induction is over the subsets of a finite set: the strict subset order  *)
(* is well founded, so a failing subset would have a minimal one.          *)
(***************************************************************************)
\* The member FoldSet takes next, the functions that add the weights w of the
\* members up in that order, and what they add up to.
Pick(s) == CHOOSE x \in s : TRUE
Adds(w, h, S) ==
  h = [s \in SUBSET S |-> IF s = {} THEN 0 ELSE h[s \ {Pick(s)}] + w[Pick(s)]]
Total(w, S) == (CHOOSE h : Adds(w, h, S))[S]

LEMMA PickIn == ASSUME NEW s, s # {} PROVE Pick(s) \in s
BY DEF Pick

\* Of the subsets of a finite set with some property one is minimal.
LEMMA MinimalSubset ==
  ASSUME NEW S, IsFiniteSet(S), NEW B \in SUBSET SUBSET S, B # {}
  PROVE  \E s \in B : \A t \in B : t \subseteq s => t = s
<1>1. IsWellFoundedOn(StrictSubsetOrdering(S), SUBSET S)
  BY FS_StrictSubsetOrderingWellFounded, FS_FiniteSubsetsOfFinite
<1>2. PICK s \in B : \A t \in B : ~(<<t, s>> \in StrictSubsetOrdering(S))
  BY <1>1, WFMin
<1> QED
  BY <1>2 DEF StrictSubsetOrdering

\* What such a function is at a subset.
LEMMA AddsAt ==
  ASSUME NEW w, NEW h, NEW S, Adds(w, h, S), NEW s \in SUBSET S
  PROVE  /\ s = {} => h[s] = 0
         /\ s # {} => h[s] = h[s \ {Pick(s)}] + w[Pick(s)]
<1>1. h[s] = IF s = {} THEN 0 ELSE h[s \ {Pick(s)}] + w[Pick(s)]
  BY Zenon DEF Adds
<1> QED
  BY <1>1

\* Any two of them agree where the weights do.
LEMMA AddsUnique ==
  ASSUME NEW w, NEW v, NEW g, NEW h, NEW S, NEW T, Adds(w, g, S), Adds(v, h, T),
         NEW U, IsFiniteSet(U), U \subseteq S, U \subseteq T, \A x \in U : w[x] = v[x]
  PROVE  g[U] = h[U]
<1> DEFINE B == {s \in SUBSET U : g[s] # h[s]}
<1> SUFFICES ASSUME B # {} PROVE FALSE
  OBVIOUS
<1>1. PICK s \in B : \A t \in B : t \subseteq s => t = s
  <2>1. B \in SUBSET SUBSET U
    OBVIOUS
  <2> HIDE DEF B
  <2> QED
    BY <2>1, MinimalSubset
<1>2. s \in SUBSET S /\ s \in SUBSET T /\ s \in SUBSET U /\ g[s] # h[s]
  BY <1>1
<1>3. s # {}
  <2> SUFFICES ASSUME s = {} PROVE FALSE
    OBVIOUS
  <2>1. g[s] = 0
    BY <1>2, AddsAt
  <2>2. h[s] = 0
    BY <1>2, AddsAt
  <2> QED
    BY <1>2, <2>1, <2>2
<1> DEFINE x == Pick(s)
<1>4. x \in s
  BY <1>3, PickIn
<1>5. g[s \ {x}] = h[s \ {x}]
  BY <1>1, <1>4
<1> HIDE DEF B
<1>6. g[s] = g[s \ {x}] + w[x]
  BY <1>2, <1>3, AddsAt
<1>7. h[s] = h[s \ {x}] + v[x]
  BY <1>2, <1>3, AddsAt
<1> QED
  BY <1>2, <1>4, <1>5, <1>6, <1>7

\* There is one for every finite set.
LEMMA AddsExists ==
  ASSUME NEW w, NEW S, IsFiniteSet(S)
  PROVE  \E h : Adds(w, h, S)
<1> DEFINE B == {s \in SUBSET S : ~\E h : Adds(w, h, s)}
<1> SUFFICES ASSUME B # {} PROVE FALSE
  OBVIOUS
<1>1. PICK s \in B : \A t \in B : t \subseteq s => t = s
  <2>1. B \in SUBSET SUBSET S
    OBVIOUS
  <2> HIDE DEF B
  <2> QED
    BY <2>1, MinimalSubset
<1>2. IsFiniteSet(s)
  BY FS_Subset
<1> DEFINE f(t) == CHOOSE h : Adds(w, h, t)
<1>3. \A t \in SUBSET s : t # s => Adds(w, f(t), t)
  BY <1>1
<1> DEFINE v(t) == IF t = {} THEN 0 ELSE f(t \ {Pick(t)})[t \ {Pick(t)}] + w[Pick(t)]
           g == [t \in SUBSET s |-> v(t)]
<1>4. \A t \in SUBSET s : t # s => f(t)[t] = v(t)
  <2> SUFFICES ASSUME NEW t \in SUBSET s, t # s PROVE f(t)[t] = v(t)
    OBVIOUS
  <2>1. Adds(w, f(t), t)
    BY <1>3
  <2>2. CASE t = {}
    BY <2>1, <2>2, AddsAt
  <2>3. CASE t # {}
    <3> DEFINE u == t \ {Pick(t)}
    <3>1. Pick(t) \in t /\ u \in SUBSET s /\ u # s /\ u \subseteq t
      BY <2>3, PickIn
    <3>2. Adds(w, f(u), u) /\ IsFiniteSet(u)
      BY <1>2, <1>3, <3>1, FS_Subset
    <3>3. f(t)[u] = f(u)[u]
      <4> HIDE DEF u, f
      <4> QED BY <2>1, <3>1, <3>2, AddsUnique
    <3>4. f(t)[t] = f(t)[u] + w[Pick(t)]
      <4> HIDE DEF f
      <4> QED BY <2>1, <2>3, AddsAt
    <3> QED
      BY <2>3, <3>3, <3>4
  <2> QED
    BY <2>2, <2>3
<1>5. \A t \in SUBSET s : g[t] = IF t = {} THEN 0 ELSE g[t \ {Pick(t)}] + w[Pick(t)]
  <2> SUFFICES ASSUME NEW t \in SUBSET s, t # {}
               PROVE  g[t] = g[t \ {Pick(t)}] + w[Pick(t)]
    <3>1. {} \in SUBSET s => g[{}] = 0
      OBVIOUS
    <3> HIDE DEF g
    <3> QED
      BY <3>1
  <2> DEFINE u == t \ {Pick(t)}
  <2>1. Pick(t) \in t /\ u \in SUBSET s /\ u # s
    BY PickIn
  <2>2. f(u)[u] = v(u)
    BY <1>4, <2>1
  <2>3. g[u] = v(u) /\ g[t] = v(t)
    BY <2>1
  <2>4. v(t) = f(u)[u] + w[Pick(t)]
    OBVIOUS
  <2> QED
    BY <2>2, <2>3, <2>4
<1>6. Adds(w, g, s)
  <2> HIDE DEF v
  <2> QED
    BY <1>5 DEF Adds
<1> QED
  BY <1>1, <1>6

\* A total is the sum the fold computes.
LEMMA TotalAdds ==
  ASSUME NEW w, NEW S, IsFiniteSet(S)
  PROVE  Adds(w, CHOOSE h : Adds(w, h, S), S)
BY AddsExists

LEMMA TotalIs ==
  ASSUME NEW w, NEW v, NEW h, NEW S, NEW T, IsFiniteSet(S), Adds(v, h, T), S \subseteq T,
         \A x \in S : w[x] = v[x]
  PROVE  Total(w, S) = h[S]
<1>1. Adds(w, CHOOSE g : Adds(w, g, S), S)
  BY TotalAdds
<1> QED
  BY <1>1, AddsUnique DEF Total

\* Totals depend on the weights of the members only.
LEMMA TotalSame ==
  ASSUME NEW w, NEW v, NEW S, IsFiniteSet(S), \A x \in S : w[x] = v[x]
  PROVE  Total(w, S) = Total(v, S)
<1>1. Adds(v, CHOOSE g : Adds(v, g, S), S)
  BY TotalAdds
<1> QED
  BY <1>1, TotalIs DEF Total

\* The total of nothing, and of a set less the member picked first.
LEMMA TotalEmpty ==
  ASSUME NEW w
  PROVE  Total(w, {}) = 0
<1>1. Adds(w, CHOOSE g : Adds(w, g, {}), {})
  BY TotalAdds, FS_EmptySet
<1> QED
  BY <1>1, AddsAt DEF Total

LEMMA TotalPick ==
  ASSUME NEW w, NEW S, IsFiniteSet(S), S # {}
  PROVE  Total(w, S) = Total(w, S \ {Pick(S)}) + w[Pick(S)]
<1> DEFINE h == CHOOSE g : Adds(w, g, S)
           T == S \ {Pick(S)}
<1>1. Adds(w, h, S)
  BY TotalAdds
<1>2. IsFiniteSet(T) /\ T \subseteq S
  BY FS_Subset
<1>3. Total(w, S) = h[S]
  BY DEF Total
<1> HIDE DEF h
<1>4. h[S] = h[T] + w[Pick(S)]
  BY <1>1, AddsAt
<1>5. Total(w, T) = h[T]
  <2> HIDE DEF T
  <2> QED
    BY <1>1, <1>2, TotalIs
<1> QED
  BY <1>3, <1>4, <1>5

\* In whatever order the members are taken.
LEMMA TotalStep ==
  ASSUME NEW L, NEW w \in [L -> Nat], NEW S \in SUBSET L, IsFiniteSet(S)
  PROVE  Total(w, S) \in Nat /\ \A y \in S : Total(w, S) = Total(w, S \ {y}) + w[y]
<1> DEFINE Good(s) == Total(w, s) \in Nat
      /\ \A y \in s : Total(w, s) = Total(w, s \ {y}) + w[y]
           B == {s \in SUBSET S : ~Good(s)}
<1> SUFFICES ASSUME B # {} PROVE FALSE
  OBVIOUS
<1>1. PICK s \in B : \A t \in B : t \subseteq s => t = s
  <2>1. B \in SUBSET SUBSET S
    OBVIOUS
  <2> HIDE DEF B
  <2> QED
    BY <2>1, MinimalSubset
<1>2. s \in SUBSET L /\ IsFiniteSet(s) /\ ~Good(s)
  BY <1>1, FS_Subset
<1>3. \A t \in SUBSET s : t # s => Good(t)
  BY <1>1
<1>4. s # {}
  BY <1>2, TotalEmpty
<1> DEFINE x == Pick(s)
<1>5. x \in s /\ x \in L
  BY <1>2, <1>4, PickIn
<1>6. Total(w, s) = Total(w, s \ {x}) + w[x]
  BY <1>2, <1>4, TotalPick
<1>7. Good(s \ {x})
  BY <1>3, <1>5
<1>8. Total(w, s) \in Nat
  BY <1>5, <1>6, <1>7
<1>9. ASSUME NEW y \in s, y # x
      PROVE  Total(w, s) = Total(w, s \ {y}) + w[y]
  <2>1. (s \ {x}) \ {y} = (s \ {y}) \ {x}
    OBVIOUS
  <2>2. Total(w, s \ {x}) = Total(w, (s \ {y}) \ {x}) + w[y]
    BY <1>7, <1>9, <2>1
  <2>3. Good(s \ {y})
    BY <1>3
  <2>4. Total(w, s \ {y}) = Total(w, (s \ {y}) \ {x}) + w[x]
    BY <1>5, <1>9, <2>3
  <2>5. Good((s \ {y}) \ {x})
    BY <1>3, <1>5
  <2>6. w[x] \in Nat /\ w[y] \in Nat /\ Total(w, (s \ {y}) \ {x}) \in Nat
    BY <1>2, <1>5, <2>5
  <2>7. \A a, b, c \in Nat : (a + b) + c = (a + c) + b
    OBVIOUS
  <2> HIDE DEF x
  <2> QED
    BY <1>6, <2>2, <2>4, <2>6, <2>7
<1> QED
  BY <1>2, <1>6, <1>8, <1>9

TokensOf == [l \in Loads |-> Tokens(l)]

\* SumSizes, the fold of the properties, is such a total.
LEMMA SumIsTotal ==
  ASSUME NEW S \in SUBSET Loads, IsFiniteSet(S)
  PROVE  SumSizes(S) = Total(TokensOf, S)
<1> DEFINE It(h) == h = [s \in SUBSET S |->
                          IF s = {} THEN 0 ELSE h[s \ {Pick(s)}] + Tokens(Pick(s))]
           iter == CHOOSE h : It(h)
<1>1. SumSizes(S) = iter[S]
  BY DEF SumSizes, FoldSet, MapThenFoldSet, Pick
<1>2. PICK h : Adds(TokensOf, h, S)
  BY AddsExists
<1>3. \A g : Adds(TokensOf, g, S) <=> It(g)
  BY PickIn DEF Adds, TokensOf
<1>4. Adds(TokensOf, iter, S)
  BY <1>2, <1>3
<1>5. Total(TokensOf, S) = iter[S]
  <2> HIDE DEF iter
  <2> QED
    BY <1>4, TotalIs
<1> QED
  BY <1>1, <1>5

\* Adding a member, taking one away, and leaving some out.
LEMMA TotalAdd ==
  ASSUME NEW L, NEW w \in [L -> Nat], NEW S \in SUBSET L, IsFiniteSet(S), NEW y \in L,
        y \notin S
  PROVE  IsFiniteSet(S \cup {y}) /\ Total(w, S \cup {y}) = Total(w, S) + w[y]
<1> DEFINE T == S \cup {y}
<1>1. T \in SUBSET L /\ IsFiniteSet(T) /\ y \in T /\ T \ {y} = S
  BY FS_AddElement
<1> HIDE DEF T
<1>2. Total(w, T) = Total(w, T \ {y}) + w[y]
  BY <1>1, TotalStep
<1> QED
  BY <1>1, <1>2 DEF T

\* A part weighs no more than the whole.
LEMMA TotalLess ==
  ASSUME NEW L, NEW w \in [L -> Nat], NEW T \in SUBSET L, IsFiniteSet(T), NEW S \in SUBSET T
  PROVE  Total(w, S) =< Total(w, T)
<1> DEFINE B == {t \in SUBSET T : S \subseteq t /\ ~(Total(w, S) =< Total(w, t))}
<1> SUFFICES ASSUME B # {} PROVE FALSE
  OBVIOUS
<1>1. PICK t \in B : \A u \in B : u \subseteq t => u = t
  <2>1. B \in SUBSET SUBSET T
    OBVIOUS
  <2> HIDE DEF B
  <2> QED
    BY <2>1, MinimalSubset
<1>2. t \in SUBSET T /\ t \in SUBSET L /\ IsFiniteSet(t) /\ S \subseteq t
        /\ ~(Total(w, S) =< Total(w, t))
  BY <1>1, FS_Subset
<1>3. IsFiniteSet(S) /\ S \in SUBSET L
  BY FS_Subset
<1>4. Total(w, S) \in Nat /\ Total(w, t) \in Nat
  BY <1>2, <1>3, TotalStep
<1>5. PICK y \in t : y \notin S
  BY <1>2, <1>4
<1> DEFINE u == t \ {y}
<1>6. u \in SUBSET T /\ u \in SUBSET L /\ IsFiniteSet(u) /\ S \subseteq u /\ u # t
        /\ u \subseteq t
  BY <1>2, <1>5, FS_Subset
<1>7. Total(w, S) =< Total(w, u)
  BY <1>1, <1>6
<1>8. Total(w, t) = Total(w, u) + w[y] /\ w[y] \in Nat
  BY <1>2, <1>5, TotalStep
<1>9. Total(w, u) \in Nat
  <2> HIDE DEF u
  <2> QED
    BY <1>6, TotalStep
<1> HIDE DEF u
<1> QED
  BY <1>2, <1>4, <1>7, <1>8, <1>9

-----------------------------------------------------------------------------
(***************************************************************************)
(* The LRU list: its set of members, and that it has no duplicates.        *)
(***************************************************************************)
\* Pushing to the front of a list without duplicates.
LEMMA ConsList ==
  ASSUME NEW S, NEW s \in Seq(S), NEW l \in S
  PROVE  /\ Range(<<l>> \o s) = Range(s) \cup {l}
         /\ IsInjective(s) /\ l \notin Range(s) => IsInjective(<<l>> \o s)
<1> DEFINE t == <<l>> \o s
           n == Len(s)
<1>1. <<l>> \in Seq(S) /\ Len(<<l>>) = 1 /\ <<l>>[1] = l
  OBVIOUS
<1>2. /\ t \in Seq(S) /\ Len(t) = 1 + n
      /\ \A i \in 1..(1 + n) : t[i] = IF i <= 1 THEN l ELSE s[i - 1]
  BY <1>1, ConcatProperties
<1>3. n \in Nat /\ DOMAIN s = 1..n /\ DOMAIN t = 1..(1 + n)
  BY <1>2, LenProperties
<1>4. t[1] = l /\ \A i \in 1..n : t[i + 1] = s[i]
  BY <1>2, <1>3
<1>5. \A i \in 1..(1 + n) : i = 1 \/ (i - 1 \in 1..n /\ t[i] = s[i - 1])
  BY <1>2, <1>3
<1> HIDE DEF t, n
<1>6. Range(t) = Range(s) \cup {l}
  <2>1. ASSUME NEW i \in 1..(1 + n) PROVE t[i] \in Range(s) \cup {l}
    BY <1>3, <1>4, <1>5 DEF Range
  <2>2. l \in Range(t)
    BY <1>3, <1>4 DEF Range
  <2>3. ASSUME NEW i \in 1..n PROVE s[i] \in Range(t)
    <3>1. i + 1 \in 1..(1 + n) /\ t[i + 1] = s[i]
      BY <1>3, <1>4
    <3> QED
      BY <1>3, <3>1 DEF Range
  <2> QED
    BY <1>3, <2>1, <2>2, <2>3 DEF Range
<1>7. ASSUME IsInjective(s), l \notin Range(s), NEW i \in 1..(1 + n), NEW j \in 1..(1 + n),
             t[i] = t[j]
      PROVE  i = j
  <2>1. CASE i = 1 /\ j = 1
    BY <2>1
  <2>2. CASE i = 1 /\ j # 1
    BY <1>3, <1>4, <1>5, <1>7, <2>2 DEF Range
  <2>3. CASE i # 1 /\ j = 1
    BY <1>3, <1>4, <1>5, <1>7, <2>3 DEF Range
  <2>4. CASE i # 1 /\ j # 1
    <3>1. i - 1 \in 1..n /\ j - 1 \in 1..n /\ s[i - 1] = s[j - 1]
      BY <1>5, <1>7, <2>4
    <3>2. i - 1 = j - 1
      BY <1>3, <1>7, <3>1 DEF IsInjective
    <3> QED
      BY <1>3, <3>2
  <2> QED
    BY <2>1, <2>2, <2>3, <2>4
<1> QED
  BY <1>3, <1>6, <1>7 DEF IsInjective, t

\* Dropping the last element of one.
LEMMA FrontList ==
  ASSUME NEW S, NEW s \in Seq(S), s # <<>>, IsInjective(s)
  PROVE  /\ Len(s) \in DOMAIN s
         /\ SubSeq(s, 1, Len(s) - 1) \in Seq(S)
         /\ Range(SubSeq(s, 1, Len(s) - 1)) = Range(s) \ {s[Len(s)]}
         /\ IsInjective(SubSeq(s, 1, Len(s) - 1))
<1> DEFINE n == Len(s)
           m == n - 1
           t == SubSeq(s, 1, m)
<1>1. n \in Nat \ {0} /\ DOMAIN s = 1..n /\ \A i \in 1..n : s[i] \in S
  BY LenProperties, EmptySeq
<1>2. m \in Nat /\ n \in 1..n /\ 1..m = (1..n) \ {n} /\ n = m + 1
  BY <1>1
<1> HIDE DEF m
<1>3. /\ t \in Seq(S) /\ DOMAIN t = 1..m
      /\ \A i \in 1..m : t[i] = s[i]
  <2>1. \A i \in 1..m : s[i] \in S
    BY <1>1, <1>2
  <2>2. /\ t \in Seq(S)
        /\ Len(t) = IF 1 <= m THEN m - 1 + 1 ELSE 0
        /\ \A i \in 1..(m - 1 + 1) : t[i] = s[1 + i - 1]
    BY <1>2, <2>1, SubSeqProperties
  <2>3. m - 1 + 1 = m /\ (\A i \in 1..m : 1 + i - 1 = i) /\ (~(1 <= m) => m = 0)
    BY <1>2
  <2>4. Len(t) = m
    BY <2>2, <2>3
  <2> QED
    BY <2>2, <2>3, <2>4, LenProperties
<1> HIDE DEF t, n
<1>4. Range(t) = Range(s) \ {s[n]}
  BY <1>1, <1>2, <1>3 DEF Range, IsInjective
<1>5. IsInjective(t)
  BY <1>1, <1>2, <1>3 DEF IsInjective
<1> QED
  BY <1>1, <1>2, <1>3, <1>4, <1>5 DEF t, m, n

\* list.Remove takes exactly that element out.
LEMMA UnlistedList ==
  ASSUME lru \in Seq(Loads), IsInjective(lru), NEW l \in Loads
  PROVE  Range(Unlisted(l)) = Listed \ {l} /\ IsInjective(Unlisted(l))
<1> DEFINE n == Len(lru)
           t == Unlisted(l)
           i == CHOOSE i \in DOMAIN lru : lru[i] = l
<1>1. n \in Nat /\ DOMAIN lru = 1..n /\ \A x \in 1..n : lru[x] \in Loads
  BY LenProperties
<1>2. CASE ~\E j \in DOMAIN lru : lru[j] = l
  <2>1. t = lru
    BY <1>2 DEF Unlisted
  <2> QED
    BY <1>2, <2>1 DEF Listed, Range
<1>3. CASE \E j \in DOMAIN lru : lru[j] = l
  <2>1. i \in 1..n /\ lru[i] = l
    BY <1>1, <1>3
  <2>2. t = SubSeq(lru, 1, i - 1) \o SubSeq(lru, i + 1, n)
    BY <1>3 DEF Unlisted
  <2> HIDE DEF i, t
  <2> DEFINE a == SubSeq(lru, 1, i - 1)
             b == SubSeq(lru, i + 1, n)
  <2>3. a \in Seq(Loads) /\ Len(a) = i - 1 /\ \A x \in 1..(i - 1) : a[x] = lru[x]
    <3> DEFINE m == i - 1
    <3>1. m \in Int /\ m >= 0 /\ 1 \in Int /\ \A x \in 1..m : lru[x] \in Loads
      BY <1>1, <2>1
    <3> HIDE DEF m
    <3>2. /\ SubSeq(lru, 1, m) \in Seq(Loads)
          /\ Len(SubSeq(lru, 1, m)) = IF 1 <= m THEN m - 1 + 1 ELSE 0
          /\ \A x \in 1..(m - 1 + 1) : SubSeq(lru, 1, m)[x] = lru[1 + x - 1]
      BY <3>1, SubSeqProperties
    <3>3. m - 1 + 1 = m /\ (\A x \in 1..m : 1 + x - 1 = x) /\ (~(1 <= m) => m = 0)
      BY <3>1
    <3>4. Len(SubSeq(lru, 1, m)) = m /\ \A x \in 1..m : SubSeq(lru, 1, m)[x] = lru[x]
      BY <3>2, <3>3
    <3> QED
      BY <3>2, <3>4 DEF m
  <2>4. b \in Seq(Loads) /\ Len(b) = n - i /\ \A x \in 1..(n - i) : b[x] = lru[i + x]
    <3> DEFINE m == i + 1
    <3>1. m \in Int /\ n \in Int /\ \A x \in m..n : lru[x] \in Loads
      BY <1>1, <2>1
    <3>0. m >= 1 /\ m <= n + 1
      BY <1>1, <2>1
    <3> HIDE DEF m
    <3>2. /\ SubSeq(lru, m, n) \in Seq(Loads)
          /\ Len(SubSeq(lru, m, n)) = IF m <= n THEN n - m + 1 ELSE 0
          /\ \A x \in 1..(n - m + 1) : SubSeq(lru, m, n)[x] = lru[m + x - 1]
      BY <3>1, SubSeqProperties
    <3>3. /\ n - m + 1 = n - i /\ (\A x \in 1..(n - i) : m + x - 1 = i + x)
          /\ (~(m <= n) => n - i = 0)
      <4>1. i \in Int /\ n \in Int /\ m = i + 1
        BY <1>1, <2>1 DEF m
      <4> HIDE DEF n
      <4> QED
        BY <3>0, <4>1
    <3>4. /\ Len(SubSeq(lru, m, n)) = n - i
          /\ \A x \in 1..(n - i) : SubSeq(lru, m, n)[x] = lru[i + x]
      BY <3>2, <3>3
    <3> QED
      BY <3>2, <3>4 DEF m
  <2> HIDE DEF a, b
  <2>5. /\ t \in Seq(Loads) /\ Len(t) = (i - 1) + (n - i)
        /\ \A x \in 1..((i - 1) + (n - i)) : t[x] = IF x <= i - 1 THEN a[x] ELSE b[x - (i - 1)]
    BY <2>2, <2>3, <2>4, ConcatProperties DEF a, b
  <2>6. (i - 1) + (n - i) = n - 1
    BY <1>1, <2>1
  <2>7. DOMAIN t = 1..(n - 1)
    BY <2>5, <2>6, LenProperties
  <2>8. \A x \in 1..(n - 1) : t[x] = IF x < i THEN lru[x] ELSE lru[x + 1]
    <3> SUFFICES ASSUME NEW x \in 1..(n - 1)
                 PROVE  t[x] = IF x < i THEN lru[x] ELSE lru[x + 1]
      OBVIOUS
    <3>1. t[x] = IF x <= i - 1 THEN a[x] ELSE b[x - (i - 1)]
      BY <2>5, <2>6
    <3>2. CASE x < i
      BY <1>1, <2>1, <2>3, <3>1, <3>2
    <3>3. CASE ~(x < i)
      <4>1. x - (i - 1) \in 1..(n - i) /\ i + (x - (i - 1)) = x + 1 /\ ~(x <= i - 1)
        BY <1>1, <2>1, <3>3
      <4> QED
        BY <2>4, <3>1, <3>3, <4>1
    <3> QED
      BY <3>2, <3>3
  <2>9. IsInjective(t)
    <3> SUFFICES ASSUME NEW x \in 1..(n - 1), NEW y \in 1..(n - 1), t[x] = t[y]
                 PROVE  x = y
      BY <2>7 DEF IsInjective
    <3> DEFINE p(z) == IF z < i THEN z ELSE z + 1
    <3>1. t[x] = lru[p(x)] /\ t[y] = lru[p(y)] /\ p(x) \in 1..n /\ p(y) \in 1..n
      BY <1>1, <2>1, <2>8
    <3>2. p(x) = p(y)
      BY <1>1, <3>1 DEF IsInjective
    <3> QED
      BY <1>1, <2>1, <3>2
  <2>10. Range(t) \subseteq Listed \ {l}
    <3> SUFFICES ASSUME NEW x \in 1..(n - 1)
                 PROVE  t[x] \in Listed /\ t[x] # l
      BY <2>7 DEF Range
    <3> DEFINE p == IF x < i THEN x ELSE x + 1
    <3>1. t[x] = lru[p] /\ p \in 1..n /\ p # i
      BY <1>1, <2>1, <2>8
    <3> QED
      BY <1>1, <2>1, <3>1 DEF Listed, IsInjective
  <2>11. Listed \ {l} \subseteq Range(t)
    <3> SUFFICES ASSUME NEW x \in 1..n, lru[x] # l
                 PROVE  lru[x] \in Range(t)
      BY <1>1 DEF Listed
    <3> DEFINE p == IF x < i THEN x ELSE x - 1
    <3>1. p \in 1..(n - 1) /\ t[p] = lru[x]
      <4>1. x # i
        BY <2>1
      <4> QED
        BY <1>1, <2>1, <2>8, <4>1
    <3> QED
      BY <2>7, <3>1 DEF Range
  <2> QED
    BY <2>9, <2>10, <2>11 DEF t
<1> QED
  BY <1>2, <1>3

\* A list without duplicates is as long as it has members.
LEMMA DistinctCount ==
  ASSUME NEW S, NEW s \in Seq(S)
  PROVE  IsFiniteSet(Range(s)) /\ (IsInjective(s) => Cardinality(Range(s)) = Len(s))
<1>1. Len(s) \in Nat /\ DOMAIN s = 1..Len(s) /\ s \in [1..Len(s) -> Range(s)]
  BY LenProperties DEF Range
<1>2. IsFiniteSet(1..Len(s)) /\ Cardinality(1..Len(s)) = Len(s)
  BY <1>1, FS_Interval
<1>3. s \in Surjection(1..Len(s), Range(s))
  BY <1>1 DEF Surjection, Range
<1>4. IsFiniteSet(Range(s))
  BY <1>2, <1>3, FS_Surjection
<1>5. ASSUME IsInjective(s) PROVE Cardinality(Range(s)) = Len(s)
  <2>1. s \in Injection(1..Len(s), Range(s))
    BY <1>1, <1>5 DEF Injection, IsInjective
  <2>2. s \in Bijection(1..Len(s), Range(s))
    BY <1>3, <2>1 DEF Bijection
  <2> QED
    BY <1>2, <2>2, FS_Bijection DEF ExistsBijection
<1> QED
  BY <1>4, <1>5

-----------------------------------------------------------------------------
(***************************************************************************)
(* The invariant of every configuration.  Shape says how the map, the      *)
(* handles, the list and the critical section of tryLoad fit together; Sums*)
(* what the three token counters cover.  They need each other: an eviction *)
(* gives back the tokens of the entry the map holds for the key, not of the*)
(* one on the list, and these agree only because of Shape; tryLoad's check *)
(* against the limit is still good when it takes the tokens only because   *)
(* inLRU is what the list adds up to.                                      *)
(***************************************************************************)
\* The map holds loads of its keys: one that is in flight and held, or a body,
\* which is on the LRU list if nobody holds it.
MapOK ==
  \A k \in Keys : items[k] # Absent =>
    /\ hash[items[k].load] = k
    /\ items[k].kind = "loading" =>
         status[items[k].load] = "loading" /\ count[items[k].load] > 0
    /\ items[k].kind = "entry" =>
         /\ status[items[k].load] = "ok"
         /\ count[items[k].load] = 0 =>
              items[k].load \in Listed /\ items[k].load \in element

\* A handle is one of the key that was asked for; an *entry has a body.
HandleOK ==
  \A c \in Clients : ref[c].kind \in {"loading", "entry"} =>
    /\ hash[ref[c].load] = want[c].key
    /\ ref[c].kind = "entry" => status[ref[c].load] = "ok"

\* What a Get that succeeded handed out is a body.
DataOK ==
  \A c \in Clients : pc[c] = "ready" /\ got[c] = "data" =>
    ref[c].kind \in {"loading", "entry"} /\ status[ref[c].load] = "ok"

\* The LRU list holds idle bodies, each once.
ListOK ==
  /\ IsInjective(lru)
  /\ \A l \in Listed : count[l] = 0 /\ status[l] = "ok" /\ l \in element

\* Under the lock tryLoad's answers stay true until StartLoad.
LockOK ==
  \A c \in Clients : pc[c] = "evict" =>
    mu = c /\ ref[c] = Prepare /\ items[want[c].key] = Absent /\ HasRoom(c)

LimitOK ==
  \A c \in Clients : pc[c] \in {"held", "evict"} => want[c].ignoreLimit \in Limits

\* inLRU is the total of the list, until a panic interrupts an eviction.
LRUTokens == inLRU >= 0 /\ (~panicked => inLRU = Total(TokensOf, Listed))

\* The loads that need tokens: those that are held and those in flight, whose
\* tokens FinishError will give back.
Active == {l \in Loads : count[l] > 0 \/ status[l] = "loading"}
UseTokens == IsFiniteSet(Active) /\ inUse >= Total(TokensOf, Active)

AvailableOK == Limits = {FALSE} => available >= 0

Shape == MapOK /\ HandleOK /\ DataOK /\ ListOK /\ LockOK /\ LimitOK
Sums == LRUTokens /\ UseTokens /\ AvailableOK

CacheInv == IInv /\ CountIsHandles /\ Shape /\ Sums

-----------------------------------------------------------------------------
\* What the types say about the parts the invariant speaks of.
LEMMA Facts ==
  ASSUME IInv, CountIsHandles
  PROVE  /\ \A k \in Keys : items[k] # Absent =>
              items[k].load \in Loads /\ items[k].kind \in {"loading", "entry"}
         /\ \A c \in Clients : ref[c].kind \in {"loading", "entry"} => ref[c].load \in Loads
         /\ \A l \in Loads : count[l] \in Nat
         /\ Listed = Range(lru) /\ Listed \subseteq Loads /\ IsFiniteSet(Listed)
         /\ TokensOf \in [Loads -> Nat]
<1>1. \A k \in Keys : items[k] # Absent =>
              items[k].load \in Loads /\ items[k].kind \in {"loading", "entry"}
  BY HandleKinds DEF IInv, TypeOK
<1>2. \A c \in Clients : ref[c].kind \in {"loading", "entry"} => ref[c].load \in Loads
  BY HandleKinds DEF IInv, TypeOK
<1>3. \A l \in Loads : count[l] \in Nat
  BY HoldersFinite DEF CountIsHandles
<1>4. Listed = Range(lru)
  BY DEF Listed, Range
<1>5. Listed \subseteq Loads
  BY LenProperties DEF Listed, IInv, TypeOK
<1>6. IsFiniteSet(Listed)
  BY <1>4, DistinctCount DEF IInv, TypeOK
<1>7. TokensOf \in [Loads -> Nat]
  BY TokensNat DEF TokensOf, IInv
<1> QED
  BY <1>1, <1>2, <1>3, <1>4, <1>5, <1>6, <1>7

\* A step that leaves the loads and the list alone leaves the sums alone.
LEMMA SameSums ==
  ASSUME Sums, UNCHANGED <<lru, available, inLRU, inUse, status, hash, count, panicked>>
  PROVE  Sums'
BY DEF Sums, LRUTokens, UseTokens, AvailableOK, TokensOf, Tokens, Listed, Active

\* With the lock free nobody is in the middle of tryLoad.
LEMMA NobodyEvicts ==
  ASSUME IInv, LockOK, Unlocked, NEW c \in Clients
  PROVE  pc[c] # "evict"
BY CacheAssumption DEF LockOK, Unlocked, CacheAssumption

\* A client joins what the map holds: Acquire, and tryLoad when it comes late.
\* An entry nobody holds is on the list, so list.Remove never meets nil.
LEMMA JoinShape ==
  ASSUME CacheInv, Unlocked, NEW c \in Clients, NEW k \in Keys, items[k] # Absent,
         AcquireEntry(items[k].load),
         ref' = [ref EXCEPT ![c] = items[k]],
         pc' = [pc EXCEPT ![c] = "held"],
         UNCHANGED <<mu, items, available, status, hash, cancelled, got>>,
         want'[c].key = k, want'[c].ignoreLimit \in Limits,
         \A d \in Clients : d # c => want'[d] = want[d]
  PROVE  Shape' /\ Sums' /\ panicked' = FALSE
<1> DEFINE l == items[k].load
<1>1. IInv /\ CountIsHandles /\ MapOK /\ HandleOK /\ DataOK /\ ListOK /\ LockOK /\ LimitOK
  BY DEF CacheInv, Shape
<1>2. l \in Loads /\ items[k].kind \in {"loading", "entry"} /\ count[l] \in Nat
  BY <1>1, Facts
<1>3. hash[l] = k /\ status[l] \in {"loading", "ok"}
        /\ (items[k].kind = "entry" => status[l] = "ok")
  BY <1>1, <1>2 DEF MapOK
<1>4. count[l] = 0 => l \in Listed /\ l \in element /\ status[l] = "ok"
  BY <1>1, <1>2 DEF MapOK
<1>5. /\ count' = [count EXCEPT ![l] = @ + 1] /\ count \in [Loads -> Int]
      /\ count[l] = 0 => /\ inLRU' = inLRU - Tokens(l) /\ inUse' = inUse + Tokens(l)
                         /\ lru' = Unlisted(l) /\ element' = element \ {l}
                         /\ panicked' = FALSE
      /\ count[l] # 0 => UNCHANGED <<inLRU, inUse, lru, element, panicked>>
      /\ panicked = FALSE
  BY <1>1, <1>4 DEF AcquireEntry, Unlocked, IInv, TypeOK
<1>6. lru \in Seq(Loads) /\ IsInjective(lru) /\ Listed = Range(lru)
        /\ Listed \subseteq Loads
  BY <1>1, Facts DEF IInv, TypeOK, ListOK
<1>7. Listed' = Listed \ {l} /\ IsInjective(lru')
  <2>1. CASE count[l] = 0
    <3>1. Range(Unlisted(l)) = Listed \ {l} /\ IsInjective(Unlisted(l))
      BY <1>2, <1>6, UnlistedList
    <3> QED
      BY <1>5, <2>1, <3>1 DEF Listed, Range
  <2>2. CASE count[l] # 0
    <3>1. l \notin Listed
      BY <1>1, <2>2 DEF ListOK
    <3> QED
      BY <1>5, <1>6, <2>2, <3>1 DEF Listed
  <2> QED
    BY <2>1, <2>2
<1>8. element \ {l} \subseteq element' /\ count'[l] > 0
        /\ \A x \in Loads : x # l => count'[x] = count[x]
  BY <1>2, <1>5
<1> HIDE DEF l
<1>9. MapOK'
  <2> SUFFICES ASSUME NEW j \in Keys, items[j] # Absent
               PROVE  /\ hash[items[j].load] = j
                      /\ items[j].kind = "loading" =>
                           status[items[j].load] = "loading" /\ count'[items[j].load] > 0
                      /\ items[j].kind = "entry" =>
                           /\ status[items[j].load] = "ok"
                           /\ count'[items[j].load] = 0 =>
                                items[j].load \in Listed' /\ items[j].load \in element'
    BY DEF MapOK
  <2>1. items[j].load \in Loads
    BY <1>1, Facts
  <2> QED
    BY <1>1, <1>7, <1>8, <2>1 DEF MapOK
<1>10. HandleOK'
  BY <1>1, <1>3 DEF HandleOK, IInv, TypeOK, l
<1>11. DataOK'
  BY <1>1 DEF DataOK, IInv, TypeOK
<1>12. ListOK'
  <2>1. \A x \in Listed \ {l} : count'[x] = 0 /\ status[x] = "ok" /\ x \in element'
    BY <1>1, <1>6, <1>8 DEF ListOK
  <2> QED
    BY <1>7, <2>1 DEF ListOK
<1>13. LockOK'
  <2>1. \A d \in Clients : pc'[d] # "evict"
    BY <1>1, NobodyEvicts DEF IInv, TypeOK
  <2> QED
    BY <2>1 DEF LockOK
<1>14. LimitOK'
  BY <1>1 DEF LimitOK, IInv, TypeOK
<1>15. TokensOf' = TokensOf /\ TokensOf[l] = Tokens(l) /\ TokensOf \in [Loads -> Nat]
         /\ IsFiniteSet(Listed)
  BY <1>1, <1>2, Facts DEF TokensOf, Tokens, l
<1>16. inLRU \in Int /\ inUse \in Int /\ inLRU >= 0 /\ inLRU = Total(TokensOf, Listed)
       /\ IsFiniteSet(Active) /\ inUse >= Total(TokensOf, Active)
  BY <1>5 DEF CacheInv, IInv, TypeOK, Sums, LRUTokens, UseTokens
<1>17. Active' = Active \cup {l} /\ (l \in Active <=> count[l] # 0)
         /\ Active \in SUBSET Loads
  BY <1>2, <1>4, <1>5 DEF Active, l
<1> DEFINE w == TokensOf
           A == Active
           Q == Listed
<1>18. Sums'
  <2>1. CASE count[l] = 0
    <3>1. l \in Q /\ Total(w, Q) = Total(w, Q \ {l}) + w[l] /\ Total(w, Q \ {l}) \in Nat
      <4>1. l \in Q /\ Q \in SUBSET Loads /\ Q \ {l} \in SUBSET Loads
              /\ IsFiniteSet(Q) /\ IsFiniteSet(Q \ {l})
        BY <1>4, <1>6, <1>15, <2>1, FS_Subset DEF l
      <4>2. w \in [Loads -> Nat]
        BY <1>15
      <4> HIDE DEF Q, w
      <4> QED
        BY <4>1, <4>2, TotalStep
    <3>2. IsFiniteSet(A \cup {l}) /\ Total(w, A \cup {l}) = Total(w, A) + w[l]
            /\ Total(w, A) \in Nat /\ w[l] \in Nat
      <4>1. l \notin A /\ A \in SUBSET Loads /\ IsFiniteSet(A) /\ l \in Loads
        BY <1>2, <1>16, <1>17, <2>1 DEF l
      <4>2. w \in [Loads -> Nat]
        BY <1>15
      <4> HIDE DEF A, w
      <4> QED
        BY <4>1, <4>2, TotalAdd, TotalStep
    <3>3. Total(TokensOf, Listed)' = Total(w, Q \ {l})
            /\ Total(TokensOf, Active)' = Total(w, A \cup {l})
      BY <1>7, <1>15, <1>17
    <3>4. inLRU' = inLRU - w[l] /\ inUse' = inUse + w[l]
      BY <1>5, <1>15, <2>1
    <3>5. inLRU = Total(w, Q) /\ inUse >= Total(w, A)
      BY <1>16
    <3>6. inLRU' >= 0 /\ inLRU' = Total(w, Q \ {l}) /\ inUse' >= Total(w, A \cup {l})
      <4> HIDE DEF w, Q, A
      <4> QED
        BY <3>1, <3>2, <3>4, <3>5, <1>16
    <3>7. IsFiniteSet(Active)'
      BY <1>17, <3>2
    <3> QED
      BY <3>3, <3>6, <3>7 DEF CacheInv, Sums, LRUTokens, UseTokens, AvailableOK
  <2>2. CASE count[l] # 0
    <3>1. l \notin Listed
      BY <1>1, <2>2 DEF ListOK
    <3>2. Listed' = Listed /\ Active' = Active
      BY <1>7, <1>17, <2>2, <3>1
    <3>3. UNCHANGED <<inLRU, inUse, panicked>>
      BY <1>5, <2>2
    <3> QED
      BY <1>15, <3>2, <3>3 DEF CacheInv, Sums, LRUTokens, UseTokens, AvailableOK
  <2> QED
    BY <2>1, <2>2
<1> QED
  BY <1>5, <1>9, <1>10, <1>11, <1>12, <1>13, <1>14, <1>18 DEF Shape

\* CacheInv holds initially and each action keeps it.
LEMMA InitCacheInv == Init => CacheInv
<1> SUFFICES ASSUME Init PROVE CacheInv
  OBVIOUS
<1>1. IInv
  BY InitInv
<1>2. CountIsHandles
  BY InitCount
<1>3. Listed = {} /\ Active = {} /\ IsInjective(lru)
  BY DEF Init, Listed, Active, IsInjective
<1>4. Shape
  BY <1>3 DEF Init, Shape, MapOK, HandleOK, DataOK, ListOK, LockOK, LimitOK, Absent
<1>5. Total(TokensOf, Listed) = 0 /\ Total(TokensOf, Active) = 0 /\ IsFiniteSet(Active)
  BY <1>3, TotalEmpty, FS_EmptySet
<1>6. inLRU = 0 /\ inUse = 0 /\ available = Capacity /\ Capacity \in Nat
  BY CacheAssumption DEF Init, CacheAssumption
<1>7. LRUTokens /\ UseTokens
  BY <1>5, <1>6 DEF LRUTokens, UseTokens
<1>8. AvailableOK
  BY <1>6 DEF AvailableOK
<1> QED
  BY <1>1, <1>2, <1>4, <1>7, <1>8 DEF CacheInv, Sums

LEMMA AcquireShape ==
  ASSUME CacheInv, NEW c \in Clients, Acquire(c)
  PROVE  Shape' /\ Sums' /\ panicked' = FALSE
<1>1. PICK k \in Keys, ignore \in Limits :
        /\ want' = [want EXCEPT ![c] = [key |-> k, ignoreLimit |-> ignore]]
        /\ pc' = [pc EXCEPT ![c] = "held"]
        /\ \/ /\ items[k] = Absent
              /\ ref' = [ref EXCEPT ![c] = Prepare]
              /\ UNCHANGED <<lru, inLRU, inUse, count, element, panicked>>
           \/ /\ items[k] # Absent
              /\ ref' = [ref EXCEPT ![c] = items[k]]
              /\ AcquireEntry(items[k].load)
  BY DEF Acquire
<1>2. UNCHANGED <<mu, items, available, status, hash, cancelled, got>> /\ Unlocked
  BY DEF Acquire
<1>3. /\ want'[c].key = k /\ want'[c].ignoreLimit \in Limits
      /\ \A d \in Clients : d # c => want'[d] = want[d]
  BY <1>1 DEF CacheInv, IInv, TypeOK
<1>4. CASE items[k] # Absent
  BY <1>1, <1>2, <1>3, <1>4, JoinShape
<1>5. CASE items[k] = Absent
  <2>1. /\ ref' = [ref EXCEPT ![c] = Prepare]
        /\ UNCHANGED <<lru, inLRU, inUse, count, element, panicked>>
    BY <1>1, <1>5
  <2>2. Sums'
    BY <1>2, <2>1, SameSums DEF CacheInv
  <2>3. Listed' = Listed
    BY <2>1 DEF Listed
  <2>4. MapOK' /\ ListOK'
    BY <1>2, <2>1, <2>3 DEF CacheInv, Shape, MapOK, ListOK
  <2>5. HandleOK' /\ DataOK'
    BY <1>1, <1>2, <1>3, <2>1 DEF CacheInv, Shape, HandleOK, DataOK, IInv, TypeOK, Prepare
  <2>6. \A d \in Clients : pc'[d] # "evict"
    BY <1>1, <1>2, NobodyEvicts DEF CacheInv, Shape, IInv, TypeOK
  <2>7. LockOK' /\ LimitOK'
    BY <1>1, <1>3, <2>6 DEF CacheInv, Shape, LockOK, LimitOK, IInv, TypeOK
  <2> QED
    BY <1>2, <2>1, <2>2, <2>4, <2>5, <2>7 DEF Shape, Unlocked, CacheInv, IInv, TypeOK
<1> QED
  BY <1>4, <1>5

LEMMA ReturnShape ==
  ASSUME CacheInv, NEW c \in Clients,
         GetLoaded(c) \/ GetCancelled(c) \/ SizeFails(c) \/ TryLoadPressure(c)
  PROVE  Shape' /\ Sums'
<1>1. PICK result \in {"data", "error"} :
        /\ Returns(c, result)
        /\ result = "data" => /\ ref[c].kind \in {"loading", "entry"}
                              /\ status[ref[c].load] = "ok"
  <2>1. CASE GetLoaded(c)
    <3>1. CASE ref[c].kind = "entry" /\ Returns(c, "data")
      BY <3>1 DEF CacheInv, Shape, HandleOK
    <3>2. CASE ref[c].kind = "loading"
            /\ Returns(c, IF status[ref[c].load] = "ok" THEN "data" ELSE "error")
      BY <3>2
    <3> QED
      BY <2>1, <3>1, <3>2 DEF GetLoaded
  <2> QED
    BY <2>1 DEF GetCancelled, SizeFails, TryLoadPressure
<1>2. UNCHANGED <<cacheVars, ref, want>>
  BY DEF GetLoaded, GetCancelled, SizeFails, TryLoadPressure
<1>3. UNCHANGED <<mu, items, lru, available, inLRU, inUse, status, hash, count, element,
          panicked, ref, want>>
  BY <1>2 DEF cacheVars, tokenVars, loadVars
<1>4. Sums'
  BY <1>3, SameSums DEF CacheInv
<1>5. Listed' = Listed
  BY <1>3 DEF Listed
<1>6. MapOK' /\ ListOK' /\ HandleOK'
  BY <1>3, <1>5 DEF CacheInv, Shape, MapOK, ListOK, HandleOK
<1>7. \A d \in Clients : /\ d # c => pc'[d] = pc[d] /\ got'[d] = got[d]
                         /\ pc'[c] = "ready" /\ got'[c] = result
  BY <1>1 DEF Returns, CacheInv, IInv, TypeOK
<1>8. DataOK'
  BY <1>1, <1>3, <1>7 DEF CacheInv, Shape, DataOK
<1>9. LockOK' /\ LimitOK'
  BY <1>3, <1>7 DEF CacheInv, Shape, LockOK, LimitOK, HasRoom
<1> QED
  BY <1>4, <1>6, <1>8, <1>9 DEF Shape

LEMMA TryLoadSharedShape ==
  ASSUME CacheInv, NEW c \in Clients, TryLoadShared(c)
  PROVE  Shape' /\ Sums' /\ panicked' = FALSE
<1>1. want[c].key \in Keys /\ want[c].ignoreLimit \in Limits
  BY DEF TryLoadShared, CacheInv, IInv, Keyed, Shape, LimitOK
<1>2. pc' = [pc EXCEPT ![c] = "held"] /\ want' = want
  BY DEF TryLoadShared, CacheInv, IInv, TypeOK
<1> QED
  BY <1>1, <1>2, JoinShape DEF TryLoadShared, Misses

LEMMA TryLoadBeginShape ==
  ASSUME CacheInv, NEW c \in Clients, TryLoadBegin(c)
  PROVE  Shape' /\ Sums'
<1>1. /\ UNCHANGED <<items, lru, available, inLRU, inUse, status, hash, count, element,
          panicked, ref, want, got>>
      /\ mu' = c /\ pc' = [pc EXCEPT ![c] = "evict"]
      /\ pc[c] = "held" /\ ref[c] = Prepare /\ Unlocked /\ Misses(c) /\ HasRoom(c)
  BY DEF TryLoadBegin, tokenVars, loadVars
<1>2. Sums'
  BY <1>1, SameSums DEF CacheInv
<1>3. Listed' = Listed
  BY <1>1 DEF Listed
<1>4. MapOK' /\ ListOK' /\ HandleOK'
  BY <1>1, <1>3 DEF CacheInv, Shape, MapOK, ListOK, HandleOK
<1>5. DataOK' /\ LimitOK'
  BY <1>1 DEF CacheInv, Shape, DataOK, LimitOK, IInv, TypeOK
<1>6. LockOK'
  <2>1. \A d \in Clients : pc[d] # "evict"
    BY <1>1, NobodyEvicts DEF CacheInv, Shape
  <2> QED
    BY <1>1, <2>1 DEF LockOK, HasRoom, Misses, CacheInv, IInv, TypeOK
<1> QED
  BY <1>2, <1>4, <1>5, <1>6 DEF Shape

\* The entry evicted by key has the size of the one on the list, even where it
\* is another load of that key.
LEMMA EvictOneShape ==
  ASSUME CacheInv, NEW c \in Clients, EvictOne(c)
  PROVE  /\ Shape' /\ Sums'
         /\ lru[Len(lru)] \in Listed /\ hash[lru[Len(lru)]] \in Keys
         /\ Listed' = Listed \ {lru[Len(lru)]}
<1> DEFINE v == lru[Len(lru)]
           k == hash[v]
           victim == items[k]
<1>1. IInv /\ CountIsHandles /\ MapOK /\ HandleOK /\ DataOK /\ ListOK /\ LockOK /\ LimitOK
  BY DEF CacheInv, Shape
<1>2. lru \in Seq(Loads) /\ lru # <<>> /\ IsInjective(lru) /\ Listed = Range(lru)
        /\ Listed \subseteq Loads
      /\ IsFiniteSet(Listed)
  BY <1>1, Facts DEF EvictOne, MustEvict, IInv, TypeOK, ListOK
<1>3. Len(lru) \in DOMAIN lru /\ lru' = SubSeq(lru, 1, Len(lru) - 1)
  BY <1>2, FrontList DEF EvictOne
<1>4. Listed' = Listed \ {v} /\ IsInjective(lru')
  BY <1>2, <1>3, FrontList DEF Listed, Range
<1>5. v \in Listed /\ v \in Loads /\ status[v] = "ok" /\ count[v] = 0 /\ k \in Keys
  BY <1>1, <1>2, <1>3 DEF Range, ListOK, IInv, Keyed
<1>6. UNCHANGED <<mu, inUse, status, hash, count, element, cancelled, pc, ref, want, got>>
  BY DEF EvictOne, loadVars, clientVars
<1>7. HandleOK' /\ DataOK' /\ LimitOK'
  BY <1>1, <1>6 DEF HandleOK, DataOK, LimitOK
<1>8. ListOK'
  BY <1>1, <1>4, <1>6 DEF ListOK
<1>9. /\ TokensOf' = TokensOf /\ TokensOf[v] = Size[k] /\ TokensOf \in [Loads -> Nat]
      /\ Size[k] \in Nat /\ available \in Int /\ inLRU \in Int /\ inUse \in Int
  BY <1>1, <1>5, <1>6, Facts, CacheAssumption
     DEF TokensOf, Tokens, CacheAssumption, IInv, TypeOK
<1>10. /\ inLRU >= 0 /\ inLRU = Total(TokensOf, Listed)
       /\ IsFiniteSet(Active) /\ inUse >= Total(TokensOf, Active)
       /\ Limits = {FALSE} => available >= 0
  BY DEF EvictOne, CacheInv, Sums, LRUTokens, UseTokens, AvailableOK
<1>11. Active' = Active
  BY <1>6 DEF Active
<1>12. UseTokens'
  BY <1>6, <1>9, <1>10, <1>11 DEF UseTokens
<1>13. Total(TokensOf, Listed) = Total(TokensOf, Listed \ {v}) + TokensOf[v]
         /\ Total(TokensOf, Listed \ {v}) \in Nat
  <2> DEFINE w == TokensOf
             Q == Listed
  <2>1. v \in Q /\ Q \in SUBSET Loads /\ IsFiniteSet(Q) /\ Q \ {v} \in SUBSET Loads
          /\ IsFiniteSet(Q \ {v})
        /\ w \in [Loads -> Nat]
    BY <1>2, <1>5, <1>9, FS_Subset
  <2> HIDE DEF w, Q, v
  <2>2. Total(w, Q) = Total(w, Q \ {v}) + w[v] /\ Total(w, Q \ {v}) \in Nat
    BY <2>1, TotalStep
  <2> QED
    BY <2>2 DEF w, Q
<1>14. \A j \in Keys : items[j] # Absent /\ items[j].load = v => j = k
  BY <1>1 DEF MapOK
<1> HIDE DEF v
<1>15. CASE victim.kind = "entry"
  <2>1. /\ available' = available + Tokens(victim.load)
        /\ inLRU' = inLRU - Tokens(victim.load)
        /\ items' = [items EXCEPT ![k] = Absent]
        /\ UNCHANGED panicked
    BY <1>15 DEF EvictOne, v
  <2>2. Tokens(victim.load) = Size[k]
    <3>1. victim # Absent
      BY <1>15 DEF Absent
    <3> QED
      BY <1>1, <1>5, <1>15, <3>1 DEF MapOK, Tokens
  <2>3. \A j \in Keys : items'[j] = IF j = k THEN Absent ELSE items[j]
    BY <1>1, <2>1 DEF IInv, TypeOK
  <2>4. MapOK'
    BY <1>1, <1>4, <1>6, <1>14, <2>3 DEF MapOK
  <2>5. LockOK'
    <3>1. available' + inLRU' = available + inLRU
      BY <1>9, <2>1, <2>2
    <3>2. \A d \in Clients : pc[d] = "evict" => want[d].key \in Keys
      BY <1>1 DEF IInv, Keyed
    <3> QED
      BY <1>1, <1>6, <2>3, <3>1, <3>2 DEF LockOK, HasRoom
  <2>6. LRUTokens'
    <3>1. Total(TokensOf, Listed)' = Total(TokensOf, Listed \ {v})
      BY <1>4, <1>9
    <3>2. inLRU' = Total(TokensOf, Listed \ {v}) /\ inLRU' >= 0
      BY <1>9, <1>10, <1>13, <2>1, <2>2
    <3> QED
      BY <3>1, <3>2 DEF LRUTokens
  <2>7. AvailableOK'
    BY <1>9, <1>10, <2>1, <2>2 DEF AvailableOK
  <2> QED
    BY <1>4, <1>5, <1>7, <1>8, <1>12, <2>4, <2>5, <2>6, <2>7 DEF Shape, Sums, v
<1>16. CASE victim.kind # "entry"
  <2>1. panicked' = TRUE /\ UNCHANGED <<available, inLRU, items>>
    BY <1>16 DEF EvictOne, v
  <2>2. MapOK'
    BY <1>1, <1>4, <1>6, <1>14, <1>16, <2>1 DEF MapOK
  <2>3. LockOK'
    BY <1>1, <1>6, <2>1 DEF LockOK, HasRoom
  <2>4. LRUTokens' /\ AvailableOK'
    BY <1>10, <2>1 DEF LRUTokens, AvailableOK
  <2> QED
    BY <1>4, <1>5, <1>7, <1>8, <1>12, <2>2, <2>3, <2>4 DEF Shape, Sums, v
<1> QED
  BY <1>15, <1>16

\* The object the allocator hands to tryLoad is nobody's.
LEMMA ReusableFresh ==
  ASSUME IInv, CountIsHandles, ListOK, NEW l \in Loads, Reusable(l)
  PROVE  /\ l \notin Listed /\ count[l] = 0 /\ status[l] # "loading"
         /\ \A k \in Keys : items[k].load # l
         /\ \A c \in Clients : ref[c].load # l
<1>1. l \notin Listed
  BY DEF Reusable, Listed, ListOK
<1>2. \A k \in Keys : items[k].load # l
  BY CacheAssumption DEF CacheAssumption, Reusable, IInv, Keyed, Absent
<1>3. \A c \in Clients : ref[c].load # l
  <2> SUFFICES ASSUME NEW c \in Clients, ref[c].load = l PROVE FALSE
    OBVIOUS
  <2>1. ref[c] # Absent /\ ref[c] # Prepare
    BY CacheAssumption DEF Absent, Prepare, CacheAssumption
  <2>2. ref[c] \in Handles
    BY <2>1 DEF IInv, TypeOK
  <2>3. ref[c].kind \in {"loading", "entry"}
    BY <2>2, HandleKinds
  <2> QED
    BY <2>3 DEF IInv, Keyed, Reusable
<1>4. HoldersOf(l) = {}
  BY <1>3 DEF HoldersOf
<1>5. count[l] = 0
  BY <1>4, FS_EmptySet DEF CountIsHandles
<1>6. status[l] # "loading"
  BY DEF Reusable, IsDone
<1> QED
  BY <1>1, <1>2, <1>3, <1>5, <1>6

\* Room was found under the lock, and inLRU is 0 once the list is empty.
LEMMA StartLoadShape ==
  ASSUME CacheInv, NEW c \in Clients, StartLoad(c)
  PROVE  Shape' /\ Sums'
<1>1. PICK l \in Loads :
        /\ Reusable(l)
        /\ status' = [status EXCEPT ![l] = "loading"]
        /\ hash' = [hash EXCEPT ![l] = want[c].key]
        /\ count' = [count EXCEPT ![l] = 1]
        /\ items' = [items EXCEPT ![want[c].key] = Loading(l)]
        /\ ref' = [ref EXCEPT ![c] = Loading(l)]
        /\ element' = element \ {l}
  BY DEF StartLoad
<1>2. /\ available' = available - Size[want[c].key]
      /\ inUse' = inUse + Size[want[c].key]
      /\ mu' = NoClient
      /\ pc' = [pc EXCEPT ![c] = "held"]
      /\ UNCHANGED <<lru, inLRU, panicked, want, got>>
      /\ pc[c] = "evict" /\ ~panicked /\ ~MustEvict(c)
  BY DEF StartLoad
<1>3. IInv /\ CountIsHandles /\ MapOK /\ HandleOK /\ DataOK /\ ListOK /\ LockOK /\ LimitOK
  BY DEF CacheInv, Shape
<1>4. want[c].key \in Keys /\ Size[want[c].key] \in Nat
  BY <1>2, <1>3, CacheAssumption DEF IInv, Keyed, CacheAssumption
<1>5. /\ l \notin Listed /\ count[l] = 0 /\ status[l] # "loading"
      /\ \A k \in Keys : items[k].load # l
      /\ \A d \in Clients : ref[d].load # l
  BY <1>1, <1>3, ReusableFresh
<1>6. Listed' = Listed /\ Listed \subseteq Loads /\ IsFiniteSet(Listed)
  BY <1>2, <1>3, Facts DEF Listed
<1>7. /\ status'[l] = "loading" /\ hash'[l] = want[c].key /\ count'[l] = 1
      /\ \A x \in Loads : x # l => status'[x] = status[x] /\ hash'[x] = hash[x]
          /\ count'[x] = count[x]
      /\ \A k \in Keys : items'[k] = IF k = want[c].key THEN Loading(l) ELSE items[k]
      /\ \A d \in Clients : ref'[d] = IF d = c THEN Loading(l) ELSE ref[d]
      /\ \A d \in Clients : pc'[d] = IF d = c THEN "held" ELSE pc[d]
  BY <1>1, <1>2, <1>3 DEF IInv, TypeOK
<1>8. Loading(l).kind = "loading" /\ Loading(l).load = l /\ Loading(l) # Absent
  BY DEF Loading, Absent
<1>9. MapOK'
  <2> SUFFICES ASSUME NEW k \in Keys, items'[k] # Absent
               PROVE  /\ hash'[items'[k].load] = k
                      /\ items'[k].kind = "loading" =>
                           status'[items'[k].load] = "loading" /\ count'[items'[k].load] > 0
                      /\ items'[k].kind = "entry" =>
                           /\ status'[items'[k].load] = "ok"
                           /\ count'[items'[k].load] = 0 =>
                                items'[k].load \in Listed' /\ items'[k].load \in element'
    BY DEF MapOK
  <2>1. CASE k = want[c].key
    BY <1>7, <1>8, <2>1
  <2>2. CASE k # want[c].key
    <3>1. items'[k] = items[k] /\ items[k].load \in Loads /\ items[k].load # l
      BY <1>3, <1>5, <1>7, <2>2, Facts
    <3> QED
      BY <1>1, <1>3, <1>6, <1>7, <3>1 DEF MapOK
  <2> QED
    BY <2>1, <2>2
<1>10. HandleOK'
  <2> SUFFICES ASSUME NEW d \in Clients, ref'[d].kind \in {"loading", "entry"}
               PROVE  /\ hash'[ref'[d].load] = want[d].key
                      /\ ref'[d].kind = "entry" => status'[ref'[d].load] = "ok"
    BY <1>2 DEF HandleOK
  <2>1. CASE d = c
    BY <1>7, <1>8, <2>1
  <2>2. CASE d # c
    <3>1. ref'[d] = ref[d] /\ ref[d].load \in Loads /\ ref[d].load # l
      BY <1>3, <1>5, <1>7, <2>2, Facts
    <3> QED
      BY <1>3, <1>7, <3>1 DEF HandleOK
  <2> QED
    BY <2>1, <2>2
<1>11. DataOK'
  <2> SUFFICES ASSUME NEW d \in Clients, pc'[d] = "ready", got[d] = "data"
               PROVE  ref'[d].kind \in {"loading", "entry"} /\ status'[ref'[d].load] = "ok"
    BY <1>2 DEF DataOK
  <2>1. d # c /\ pc[d] = "ready" /\ ref'[d] = ref[d]
    BY <1>7
  <2>2. ref[d].load \in Loads /\ ref[d].load # l
    BY <1>3, <1>5, <2>1, Facts DEF DataOK
  <2> QED
    BY <1>3, <1>7, <2>1, <2>2 DEF DataOK
<1>12. ListOK'
  BY <1>1, <1>2, <1>3, <1>5, <1>6, <1>7 DEF ListOK
<1>13. LockOK' /\ LimitOK'
  <2>1. \A d \in Clients : pc'[d] # "evict"
    BY <1>2, <1>3, <1>7 DEF LockOK
  <2> QED
    BY <1>2, <1>3, <1>7, <2>1 DEF LockOK, LimitOK
<1>14. /\ inLRU >= 0 /\ inLRU = Total(TokensOf, Listed)
       /\ IsFiniteSet(Active) /\ inUse >= Total(TokensOf, Active)
       /\ Limits = {FALSE} => available >= 0
  BY <1>2 DEF CacheInv, Sums, LRUTokens, UseTokens, AvailableOK
<1>15. /\ TokensOf \in [Loads -> Nat] /\ TokensOf' \in [Loads -> Nat]
         /\ TokensOf'[l] = Size[want[c].key]
       /\ \A x \in Loads : x # l => TokensOf'[x] = TokensOf[x]
  <2>1. TokensOf \in [Loads -> Nat]
    BY <1>3, Facts
  <2>2. \A x \in Loads : TokensOf'[x] = IF x = l THEN Size[want[c].key] ELSE TokensOf[x]
    BY <1>7 DEF TokensOf, Tokens
  <2>3. TokensOf' = [x \in Loads |-> TokensOf'[x]]
    BY DEF TokensOf
  <2> QED
    BY <1>4, <2>1, <2>2, <2>3
<1>16. Active' = Active \cup {l} /\ l \notin Active /\ Active \in SUBSET Loads
  BY <1>5, <1>7 DEF Active
<1> DEFINE w == TokensOf
           u == TokensOf'
           A == Active
           Q == Listed
           z == Size[want[c].key]
<1>17. LRUTokens'
  <2>1. Total(u, Q) = Total(w, Q)
    <3>1. IsFiniteSet(Q) /\ \A x \in Q : u[x] = w[x]
      BY <1>5, <1>6, <1>15
    <3> HIDE DEF w, u, Q
    <3> QED
      BY <3>1, TotalSame
  <2> QED
    BY <1>2, <1>6, <1>14, <2>1 DEF LRUTokens
<1>18. UseTokens'
  <2>1. IsFiniteSet(A) /\ A \in SUBSET Loads /\ l \notin A /\ (\A x \in A : u[x] = w[x])
        /\ w \in [Loads -> Nat] /\ u \in [Loads -> Nat] /\ u[l] = z /\ z \in Nat
        /\ inUse >= Total(w, A) /\ inUse \in Int
    BY <1>3, <1>4, <1>14, <1>15, <1>16 DEF IInv, TypeOK
  <2>2. UseTokens' <=> IsFiniteSet(A \cup {l}) /\ inUse' >= Total(u, A \cup {l})
    BY <1>16 DEF UseTokens
  <2>3. inUse' = inUse + z
    BY <1>2
  <2> HIDE DEF w, u, A, z
  <2>4. Total(u, A) = Total(w, A) /\ Total(u, A) \in Nat
    BY <2>1, TotalSame, TotalStep
  <2>5. IsFiniteSet(A \cup {l}) /\ Total(u, A \cup {l}) = Total(u, A) + z
    BY <2>1, TotalAdd
  <2> QED
    BY <2>1, <2>2, <2>3, <2>4, <2>5
<1>19. AvailableOK'
  <2> SUFFICES ASSUME Limits = {FALSE} PROVE available' >= 0
    BY DEF AvailableOK
  <2>1. available + inLRU >= Size[want[c].key]
    BY <1>2, <1>3 DEF LockOK, HasRoom, LimitOK
  <2>2. available \in Int /\ inLRU \in Int
    BY <1>3 DEF IInv, TypeOK
  <2>3. CASE available < Size[want[c].key]
    <3>1. lru = <<>>
      BY <1>2, <2>3 DEF MustEvict
    <3>2. Listed = {}
      BY <3>1 DEF Listed
    <3>3. inLRU = 0
      BY <1>14, <3>2, TotalEmpty
    <3> QED
      BY <1>2, <1>4, <2>1, <2>2, <3>3
  <2>4. CASE ~(available < Size[want[c].key])
    BY <1>2, <1>4, <2>2, <2>4
  <2> QED
    BY <2>3, <2>4
<1> QED
  BY <1>9, <1>10, <1>11, <1>12, <1>13, <1>17, <1>18, <1>19 DEF Shape, Sums

\* A load that ends after its last handle leaves inUse too large, never too small.
LEMMA FinishOKShape ==
  ASSUME CacheInv, NEW l \in Loads, FinishOK(l)
  PROVE  Shape' /\ Sums'
<1>1. IInv /\ CountIsHandles /\ MapOK /\ HandleOK /\ DataOK /\ ListOK /\ LockOK /\ LimitOK
  BY DEF CacheInv, Shape
<1>2. /\ status[l] = "loading" /\ Unlocked
      /\ status' = [status EXCEPT ![l] = "ok"]
      /\ items' = IF count[l] > 0 THEN [items EXCEPT ![hash[l]] = EntryOf(l)] ELSE items
      /\ UNCHANGED <<mu, lru, available, inLRU, inUse, hash, count, element, cancelled,
                     panicked, pc, ref, want, got>>
  BY DEF FinishOK, tokenVars, clientVars
<1>3. hash[l] \in Keys /\ count[l] \in Nat /\ l \notin Listed
  BY <1>1, <1>2, Facts DEF IInv, Keyed, ListOK
<1>4. /\ status'[l] = "ok" /\ \A x \in Loads : x # l => status'[x] = status[x]
      /\ \A k \in Keys :
           items'[k] = IF count[l] > 0 /\ k = hash[l] THEN EntryOf(l) ELSE items[k]
  BY <1>1, <1>2 DEF IInv, TypeOK
<1>5. EntryOf(l).kind = "entry" /\ EntryOf(l).load = l /\ EntryOf(l) # Absent
  BY DEF EntryOf, Absent
<1>6. Listed' = Listed
  BY <1>2 DEF Listed
<1>7. MapOK'
  <2> SUFFICES ASSUME NEW k \in Keys, items'[k] # Absent
               PROVE  /\ hash[items'[k].load] = k
                      /\ items'[k].kind = "loading" =>
                           status'[items'[k].load] = "loading" /\ count[items'[k].load] > 0
                      /\ items'[k].kind = "entry" =>
                           /\ status'[items'[k].load] = "ok"
                           /\ count[items'[k].load] = 0 =>
                                items'[k].load \in Listed /\ items'[k].load \in element
    BY <1>2, <1>6 DEF MapOK
  <2>1. CASE count[l] > 0 /\ k = hash[l]
    BY <1>3, <1>4, <1>5, <2>1
  <2>2. CASE ~(count[l] > 0 /\ k = hash[l])
    <3>1. items'[k] = items[k] /\ items[k].load \in Loads
            /\ items[k].kind \in {"loading", "entry"}
      BY <1>1, <1>4, <2>2, Facts
    <3>2. items[k].load # l
      BY <1>1, <1>2, <2>2, <3>1 DEF MapOK
    <3> QED
      BY <1>1, <1>4, <3>1, <3>2 DEF MapOK
  <2> QED
    BY <2>1, <2>2
<1>8. HandleOK' /\ DataOK'
  <2>1. \A d \in Clients : ref[d].kind \in {"loading", "entry"} => ref[d].load \in Loads
    BY <1>1, Facts
  <2> QED
    BY <1>1, <1>2, <1>4, <2>1 DEF HandleOK, DataOK
<1>9. ListOK'
  <2>1. Listed \subseteq Loads
    BY <1>1, Facts
  <2> QED
    BY <1>1, <1>2, <1>3, <1>4, <1>6, <2>1 DEF ListOK
<1>10. LockOK' /\ LimitOK'
  <2>1. \A d \in Clients : pc[d] # "evict"
    BY <1>1, <1>2, NobodyEvicts
  <2> QED
    BY <1>1, <1>2, <2>1 DEF LockOK, LimitOK
<1>11. TokensOf' = TokensOf /\ TokensOf \in [Loads -> Nat]
  <2>1. \A x \in Loads : Tokens(x)' = Tokens(x)
    BY <1>2, <1>4 DEF Tokens
  <2> QED
    BY <1>1, <2>1, Facts DEF TokensOf
<1>12. Active' \subseteq Active /\ Active \in SUBSET Loads
  BY <1>2, <1>4 DEF Active
<1>13. UseTokens'
  <2> DEFINE w == TokensOf
             A == Active
             B == Active'
  <2>1. IsFiniteSet(A) /\ A \in SUBSET Loads /\ B \in SUBSET A /\ w \in [Loads -> Nat]
          /\ B \in SUBSET Loads
        /\ inUse >= Total(w, A) /\ inUse \in Int
    BY <1>1, <1>11, <1>12 DEF CacheInv, Sums, UseTokens, IInv, TypeOK
  <2>2. UseTokens' <=> IsFiniteSet(B) /\ inUse >= Total(w, B)
    BY <1>2, <1>11 DEF UseTokens
  <2> HIDE DEF w, A, B
  <2>3. IsFiniteSet(B) /\ Total(w, B) =< Total(w, A)
    BY <2>1, FS_Subset, TotalLess
  <2>4. Total(w, A) \in Nat /\ Total(w, B) \in Nat
    BY <2>1, <2>3, TotalStep
  <2> QED
    BY <2>1, <2>2, <2>3, <2>4
<1>14. LRUTokens' /\ AvailableOK'
  BY <1>2, <1>6, <1>11 DEF CacheInv, Sums, LRUTokens, AvailableOK
<1> QED
  BY <1>7, <1>8, <1>9, <1>10, <1>13, <1>14 DEF Shape, Sums

\* A load that no longer needs its tokens gives back exactly those.
LEMMA TotalDrop ==
  ASSUME NEW w \in [Loads -> Nat], NEW u \in [Loads -> Nat], NEW l \in Loads,
         NEW A \in SUBSET Loads, IsFiniteSet(A), l \in A, NEW B, B = A \/ B = A \ {l},
         \A x \in Loads : x # l => u[x] = w[x],
         B = A => u[l] = 0
  PROVE  IsFiniteSet(B) /\ Total(w, A) = Total(u, B) + w[l] /\ Total(u, B) \in Nat
      /\ w[l] \in Nat
<1>1. A \ {l} \in SUBSET Loads /\ IsFiniteSet(A \ {l})
  BY FS_Subset
<1>2. Total(w, A) = Total(w, A \ {l}) + w[l] /\ Total(w, A \ {l}) \in Nat /\ w[l] \in Nat
  BY <1>1, TotalStep
<1>3. Total(u, A \ {l}) = Total(w, A \ {l})
  BY <1>1, TotalSame
<1>4. Total(u, A) = Total(u, A \ {l}) + u[l]
  BY TotalStep
<1>5. CASE B = A
  BY <1>2, <1>3, <1>4, <1>5
<1>6. CASE B = A \ {l}
  BY <1>1, <1>2, <1>3, <1>6
<1> QED
  BY <1>5, <1>6

\* Only the mapping of the failing load's key is dropped, and its tokens returned.
LEMMA FinishErrorShape ==
  ASSUME CacheInv, NEW l \in Loads, FinishError(l)
  PROVE  Shape' /\ Sums'
<1>1. IInv /\ CountIsHandles /\ MapOK /\ HandleOK /\ DataOK /\ ListOK /\ LockOK /\ LimitOK
  BY DEF CacheInv, Shape
<1>2. /\ status[l] = "loading" /\ Unlocked
      /\ status' = [status EXCEPT ![l] = "err"]
      /\ items' = [items EXCEPT ![hash[l]] = Absent]
      /\ inUse' = inUse - Tokens(l)
      /\ available' = available + Tokens(l)
      /\ UNCHANGED <<mu, lru, inLRU, hash, count, element, cancelled,
                     panicked, pc, ref, want, got>>
  BY DEF FinishError, clientVars
<1>3. hash[l] \in Keys /\ count[l] \in Nat /\ l \notin Listed /\ Tokens(l) \in Nat
  BY <1>1, <1>2, Facts, TokensNat DEF IInv, Keyed, ListOK
<1>4. /\ status'[l] = "err" /\ \A x \in Loads : x # l => status'[x] = status[x]
      /\ \A k \in Keys : items'[k] = IF k = hash[l] THEN Absent ELSE items[k]
  BY <1>1, <1>2 DEF IInv, TypeOK
<1>5. Listed' = Listed /\ Listed \subseteq Loads /\ IsFiniteSet(Listed)
  BY <1>1, <1>2, Facts DEF Listed
<1>6. MapOK'
  <2> SUFFICES ASSUME NEW k \in Keys, items'[k] # Absent
               PROVE  /\ hash[items'[k].load] = k
                      /\ items'[k].kind = "loading" =>
                           status'[items'[k].load] = "loading" /\ count[items'[k].load] > 0
                      /\ items'[k].kind = "entry" =>
                           /\ status'[items'[k].load] = "ok"
                           /\ count[items'[k].load] = 0 =>
                                items'[k].load \in Listed /\ items'[k].load \in element
    BY <1>2, <1>5 DEF MapOK
  <2>1. items'[k] = items[k] /\ k # hash[l] /\ items[k].load \in Loads
    BY <1>1, <1>4, Facts
  <2>2. items[k].load # l
    BY <1>1, <2>1 DEF MapOK
  <2> QED
    BY <1>1, <1>4, <2>1, <2>2 DEF MapOK
<1>7. HandleOK' /\ DataOK'
  <2>1. \A d \in Clients : ref[d].kind \in {"loading", "entry"} => ref[d].load \in Loads
    BY <1>1, Facts
  <2> QED
    BY <1>1, <1>2, <1>4, <2>1 DEF HandleOK, DataOK
<1>8. ListOK'
  BY <1>1, <1>2, <1>3, <1>4, <1>5 DEF ListOK
<1>9. LockOK' /\ LimitOK'
  <2>1. \A d \in Clients : pc[d] # "evict"
    BY <1>1, <1>2, NobodyEvicts
  <2> QED
    BY <1>1, <1>2, <2>1 DEF LockOK, LimitOK
<1>10. /\ TokensOf \in [Loads -> Nat] /\ TokensOf' \in [Loads -> Nat]
         /\ TokensOf[l] = Tokens(l) /\ TokensOf'[l] = 0
       /\ \A x \in Loads : x # l => TokensOf'[x] = TokensOf[x]
  <2>1. TokensOf \in [Loads -> Nat]
    BY <1>1, Facts
  <2>2. \A x \in Loads : TokensOf'[x] = IF x = l THEN 0 ELSE TokensOf[x]
    BY <1>2, <1>4 DEF TokensOf, Tokens
  <2>3. TokensOf' = [x \in Loads |-> TokensOf'[x]]
    BY DEF TokensOf
  <2>4. TokensOf[l] = Tokens(l)
    BY DEF TokensOf
  <2> QED
    BY <2>1, <2>2, <2>3, <2>4
<1>11. l \in Active /\ (Active' = Active \/ Active' = Active \ {l})
         /\ Active \in SUBSET Loads
  BY <1>2, <1>4 DEF Active
<1>12. UseTokens'
  <2> DEFINE w == TokensOf
             u == TokensOf'
             A == Active
             B == Active'
  <2>1. IsFiniteSet(A) /\ A \in SUBSET Loads /\ l \in A /\ (B = A \/ B = A \ {l})
        /\ w \in [Loads -> Nat] /\ u \in [Loads -> Nat] /\ u[l] = 0
        /\ (\A x \in Loads : x # l => u[x] = w[x])
        /\ inUse >= Total(w, A) /\ inUse \in Int /\ inUse' = inUse - w[l]
    BY <1>1, <1>2, <1>10, <1>11 DEF CacheInv, Sums, UseTokens, IInv, TypeOK
  <2>2. UseTokens' <=> IsFiniteSet(B) /\ inUse' >= Total(u, B)
    BY DEF UseTokens
  <2> HIDE DEF w, u, A, B
  <2>3. IsFiniteSet(B) /\ Total(w, A) = Total(u, B) + w[l] /\ Total(u, B) \in Nat
          /\ w[l] \in Nat
    BY <2>1, TotalDrop
  <2> QED
    BY <2>1, <2>2, <2>3
<1>13. LRUTokens' /\ AvailableOK'
  <2> DEFINE w == TokensOf
             u == TokensOf'
             Q == Listed
  <2>1. IsFiniteSet(Q) /\ \A x \in Q : u[x] = w[x]
    BY <1>3, <1>5, <1>10
  <2>2. LRUTokens' <=> inLRU >= 0 /\ (~panicked => inLRU = Total(u, Q))
    BY <1>2, <1>5 DEF LRUTokens
  <2>3. inLRU >= 0 /\ (~panicked => inLRU = Total(w, Q))
    BY DEF CacheInv, Sums, LRUTokens
  <2>4. AvailableOK'
    BY <1>1, <1>2, <1>3 DEF CacheInv, Sums, AvailableOK, IInv, TypeOK
  <2> HIDE DEF w, u, Q
  <2> QED
    BY <2>1, <2>2, <2>3, <2>4, TotalSame
<1> QED
  BY <1>6, <1>7, <1>8, <1>9, <1>12, <1>13 DEF Shape, Sums

\* The client's side of Release.
LEMMA ForgetShape ==
  ASSUME CacheInv, NEW c \in Clients, Forget(c), pc[c] # "evict",
         UNCHANGED <<status, hash>>,
         UNCHANGED <<mu, items, available, inLRU>> \/ Unlocked
  PROVE  HandleOK' /\ DataOK' /\ LockOK' /\ LimitOK'
<1>1. IInv /\ CountIsHandles /\ MapOK /\ HandleOK /\ DataOK /\ ListOK /\ LockOK /\ LimitOK
  BY DEF CacheInv, Shape
<1>2. \A d \in Clients :
        /\ pc'[d] = (IF d = c THEN "idle" ELSE pc[d])
        /\ ref'[d] = (IF d = c THEN Absent ELSE ref[d])
        /\ got'[d] = (IF d = c THEN "none" ELSE got[d])
        /\ d # c => want'[d] = want[d]
  BY <1>1 DEF Forget, IInv, TypeOK
<1>3. HandleOK'
  BY <1>1, <1>2 DEF HandleOK, Absent
<1>4. DataOK' /\ LimitOK'
  BY <1>1, <1>2 DEF DataOK, LimitOK
<1>5. LockOK'
  <2>1. CASE UNCHANGED <<mu, items, available, inLRU>>
    BY <1>1, <1>2, <2>1 DEF LockOK, HasRoom
  <2>2. CASE Unlocked
    <3>1. \A d \in Clients : pc'[d] # "evict"
      BY <1>1, <1>2, <2>2, NobodyEvicts
    <3> QED
      BY <3>1 DEF LockOK
  <2> QED
    BY <2>1, <2>2
<1> QED
  BY <1>3, <1>4, <1>5

LEMMA ReleaseShape ==
  ASSUME CacheInv, NEW c \in Clients, Release(c) \/ Drain(c)
  PROVE  Shape' /\ Sums' /\ UNCHANGED panicked
<1> DEFINE l == ref[c].load
<1>1. IInv /\ CountIsHandles /\ MapOK /\ HandleOK /\ DataOK /\ ListOK /\ LockOK /\ LimitOK
  BY DEF CacheInv, Shape
<1>2. CASE ReleasePrepare(c) \/ Drain(c)
  <2>1. Forget(c) /\ pc[c] # "evict"
        /\ UNCHANGED <<mu, items, lru, available, inLRU, inUse, status, hash, count,
              element, panicked>>
    BY <1>2 DEF ReleasePrepare, Drain, cacheVars, tokenVars, loadVars
  <2>2. Listed' = Listed
    BY <2>1 DEF Listed
  <2>3. MapOK' /\ ListOK'
    BY <1>1, <2>1, <2>2 DEF MapOK, ListOK
  <2>4. HandleOK' /\ DataOK' /\ LockOK' /\ LimitOK'
    BY <2>1, ForgetShape
  <2>5. Sums'
    BY <2>1, SameSums DEF CacheInv
  <2> QED
    BY <2>1, <2>3, <2>4, <2>5 DEF Shape
<1>3. ASSUME ReleaseShared(c) \/ ReleaseLast(c) \/ ReleasePending(c)
      PROVE  /\ l \in Loads /\ pc[c] = "ready" /\ count[l] \in Nat /\ count[l] > 0
          /\ Unlocked
             /\ ref[c].kind \in {"loading", "entry"} /\ l \notin Listed /\ hash[l] \in Keys
             /\ status[l] # "free"
  <2>1. l \in Loads /\ pc[c] = "ready" /\ Unlocked /\ ref[c].kind \in {"loading", "entry"}
    BY <1>1, <1>3, Facts DEF ReleaseShared, ReleaseLast, ReleasePending
  <2>2. c \in HoldersOf(l)
    BY <2>1 DEF HoldersOf
  <2>3. Cardinality(HoldersOf(l)) # 0 /\ Cardinality(HoldersOf(l)) \in Nat
    BY <2>2, HoldersFinite, FS_EmptySet
  <2>4. count[l] \in Nat /\ count[l] > 0
    BY <1>1, <2>1, <2>3 DEF CountIsHandles
  <2>5. l \notin Listed
    BY <1>1, <2>4 DEF ListOK
  <2>6. status[l] # "free" /\ hash[l] \in Keys
    BY <1>1, <2>1 DEF IInv, Keyed
  <2> QED
    BY <2>1, <2>4, <2>5, <2>6
<1>4. CASE ReleaseShared(c)
  <2>1. /\ count' = [count EXCEPT ![l] = @ - 1] /\ count[l] # 1 /\ Forget(c)
        /\ UNCHANGED <<mu, items, lru, available, inLRU, inUse, status, hash, element,
              panicked>>
    BY <1>4 DEF ReleaseShared, tokenVars
  <2>2. count'[l] > 0 /\ (\A x \in Loads : x # l => count'[x] = count[x])
          /\ l \in Loads /\ l \notin Listed
    BY <1>1, <1>3, <1>4, <2>1 DEF IInv, TypeOK
  <2> HIDE DEF l
  <2>3. Listed' = Listed /\ Listed \subseteq Loads
    BY <1>1, <2>1, Facts DEF Listed
  <2>4. MapOK'
    <3>1. \A k \in Keys : items[k] # Absent => items[k].load \in Loads
      BY <1>1, Facts
    <3> QED
      BY <1>1, <2>1, <2>2, <2>3, <3>1 DEF MapOK
  <2>5. ListOK'
    BY <1>1, <2>1, <2>2, <2>3 DEF ListOK
  <2>6. HandleOK' /\ DataOK' /\ LockOK' /\ LimitOK'
    BY <1>3, <1>4, <2>1, ForgetShape
  <2>7. Active' = Active
    <3>1. count[l] > 0
      BY <1>3, <1>4 DEF l
    <3> QED
      BY <2>1, <2>2, <3>1 DEF Active
  <2>8. Sums'
    BY <2>1, <2>3, <2>7
       DEF CacheInv, Sums, LRUTokens, UseTokens, AvailableOK, TokensOf, Tokens
  <2> QED
    BY <2>1, <2>4, <2>5, <2>6, <2>8 DEF Shape
<1>5. CASE ReleaseLast(c) /\ PushFront(l)
  <2>0. Forget(c) /\ UNCHANGED <<mu, items, available, status, hash, cancelled,
            panicked>> /\ count[l] = 1
    BY <1>5 DEF ReleaseLast
  <2>1. /\ count' = [count EXCEPT ![l] = @ - 1] /\ element' = element \cup {l}
          /\ lru' = <<l>> \o lru
        /\ inLRU' = inLRU + Tokens(l) /\ inUse' = inUse - Tokens(l)
    BY <1>5 DEF PushFront
  <2>2. l \in Loads /\ l \notin Listed /\ Unlocked /\ pc[c] = "ready" /\ hash[l] \in Keys
    BY <1>3, <1>5
  <2>3. status[l] = "ok"
    <3>1. ref[c].kind = "entry" => status[l] = "ok"
      BY <1>1 DEF HandleOK
    <3>2. ASSUME status[l] # "ok" PROVE FALSE
      <4>1. count' = [count EXCEPT ![l] = 0] /\ UNCHANGED <<lru>>
        BY <1>5, <3>1, <3>2 DEF ReleaseLast
      <4>2. <<l>> \o lru # lru
        <5>1. lru \in Seq(Loads) /\ <<l>> \in Seq(Loads) /\ Len(<<l>>) = 1
          BY <1>1, <2>2 DEF IInv, TypeOK
        <5>2. Len(<<l>> \o lru) = 1 + Len(lru) /\ Len(lru) \in Nat
          BY <5>1, ConcatProperties, LenProperties
        <5> QED
          BY <5>2
      <4> QED
        BY <2>1, <4>1, <4>2
    <3> QED
      BY <3>2
  <2>4. count'[l] = 0 /\ \A x \in Loads : x # l => count'[x] = count[x]
    BY <1>1, <2>0, <2>1, <2>2 DEF IInv, TypeOK
  <2> HIDE DEF l
  <2>5. Listed' = Listed \cup {l} /\ IsInjective(lru') /\ Listed \subseteq Loads
          /\ IsFiniteSet(Listed)
    <3>1. lru \in Seq(Loads) /\ IsInjective(lru) /\ Listed = Range(lru)
            /\ Listed \subseteq Loads /\ IsFiniteSet(Listed)
      BY <1>1, Facts DEF IInv, TypeOK, ListOK
    <3>2. Range(lru') = Range(lru) \cup {l} /\ IsInjective(lru')
      BY <2>1, <2>2, <3>1, ConsList
    <3> QED
      BY <3>1, <3>2 DEF Listed, Range
  <2>6. MapOK'
    <3>1. \A k \in Keys : items[k] # Absent => items[k].load \in Loads
      BY <1>1, Facts
    <3> QED
      BY <1>1, <2>0, <2>1, <2>2, <2>3, <2>4, <2>5, <3>1 DEF MapOK
  <2>7. ListOK'
    BY <1>1, <2>0, <2>1, <2>3, <2>4, <2>5 DEF ListOK
  <2>8. HandleOK' /\ DataOK' /\ LockOK' /\ LimitOK'
    BY <2>0, <2>2, ForgetShape
  <2>9. Sums'
    <3> DEFINE w == TokensOf
               A == Active
               Q == Listed
    <3>1. /\ TokensOf' = w /\ w \in [Loads -> Nat] /\ w[l] = Tokens(l)
          /\ A \in SUBSET Loads /\ l \in A /\ Active' = A \ {l} /\ IsFiniteSet(A)
          /\ Q \in SUBSET Loads /\ l \notin Q /\ IsFiniteSet(Q) /\ Listed' = Q \cup {l}
          /\ inLRU \in Int /\ inUse \in Int /\ l \in Loads
      BY <1>1, <2>0, <2>2, <2>3, <2>4, <2>5, Facts
         DEF TokensOf, Tokens, Active, CacheInv, Sums, UseTokens, IInv, TypeOK
    <3>2. inLRU = Total(w, Q) /\ inUse >= Total(w, A)
      BY <2>2 DEF CacheInv, Sums, LRUTokens, UseTokens, Unlocked
    <3>3. inLRU' = inLRU + w[l] /\ inUse' = inUse - w[l]
      BY <2>1, <3>1
    <3>4. /\ LRUTokens' <=> inLRU' >= 0 /\ (~panicked => inLRU' = Total(w, Q \cup {l}))
          /\ UseTokens' <=> IsFiniteSet(A \ {l}) /\ inUse' >= Total(w, A \ {l})
      BY <2>0, <3>1 DEF LRUTokens, UseTokens
    <3>5. AvailableOK'
      BY <2>0 DEF CacheInv, Sums, AvailableOK
    <3> HIDE DEF w, A, Q
    <3>6. Total(w, Q \cup {l}) = Total(w, Q) + w[l] /\ Total(w, Q) \in Nat /\ w[l] \in Nat
      BY <3>1, TotalAdd, TotalStep
    <3>7. IsFiniteSet(A \ {l}) /\ Total(w, A) = Total(w, A \ {l}) + w[l]
            /\ Total(w, A \ {l}) \in Nat
      <4>1. A \ {l} \in SUBSET Loads /\ IsFiniteSet(A \ {l})
        BY <3>1, FS_Subset
      <4> QED
        BY <3>1, <4>1, TotalStep
    <3>8. LRUTokens'
      BY <3>1, <3>2, <3>3, <3>4, <3>6
    <3>9. UseTokens'
      BY <3>1, <3>2, <3>3, <3>4, <3>6, <3>7
    <3> QED
      BY <3>5, <3>8, <3>9 DEF Sums
  <2> QED
    BY <2>0, <2>6, <2>7, <2>8, <2>9 DEF Shape
<1>6. CASE ReleaseLast(c) /\ ~PushFront(l)
  <2>1. /\ Forget(c) /\ UNCHANGED <<mu, items, available, status, hash, cancelled,
            panicked>>
        /\ count[l] = 1 /\ status[l] = "err" /\ count' = [count EXCEPT ![l] = 0]
        /\ UNCHANGED <<lru, inLRU, inUse, element>>
    BY <1>6 DEF ReleaseLast
  <2>2. l \in Loads /\ l \notin Listed /\ Unlocked /\ pc[c] = "ready" /\ hash[l] \in Keys
    BY <1>3, <1>6
  <2>3. count'[l] = 0 /\ \A x \in Loads : x # l => count'[x] = count[x]
    BY <1>1, <2>1, <2>2 DEF IInv, TypeOK
  <2> HIDE DEF l
  <2>4. Listed' = Listed /\ Listed \subseteq Loads
    BY <1>1, <2>1, Facts DEF Listed
  <2>5. MapOK'
    <3>1. \A k \in Keys : items[k] # Absent =>
            items[k].load \in Loads /\ items[k].kind \in {"loading", "entry"}
      BY <1>1, Facts
    <3> QED
      BY <1>1, <2>1, <2>2, <2>3, <2>4, <3>1 DEF MapOK
  <2>6. ListOK'
    BY <1>1, <2>1, <2>2, <2>3, <2>4 DEF ListOK
  <2>7. HandleOK' /\ DataOK' /\ LockOK' /\ LimitOK'
    BY <2>1, <2>2, ForgetShape
  <2>8. Sums'
    <3> DEFINE w == TokensOf
               A == Active
    <3>1. /\ TokensOf' = w /\ w \in [Loads -> Nat] /\ w[l] = 0
          /\ A \in SUBSET Loads /\ l \in A /\ Active' = A \ {l} /\ IsFiniteSet(A)
          /\ inUse \in Int /\ inUse >= Total(w, A)
      BY <1>1, <2>1, <2>2, <2>3, Facts
         DEF TokensOf, Tokens, Active, CacheInv, Sums, UseTokens, IInv, TypeOK
    <3>2. LRUTokens' /\ AvailableOK'
      BY <2>1, <2>4, <3>1 DEF CacheInv, Sums, LRUTokens, AvailableOK
    <3>3. UseTokens' <=> IsFiniteSet(A \ {l}) /\ inUse >= Total(w, A \ {l})
      BY <2>1, <3>1 DEF UseTokens
    <3> HIDE DEF w, A
    <3>4. IsFiniteSet(A \ {l}) /\ Total(w, A) = Total(w, A \ {l}) + w[l]
            /\ Total(w, A \ {l}) \in Nat
      <4>1. A \ {l} \in SUBSET Loads /\ IsFiniteSet(A \ {l})
        BY <3>1, FS_Subset
      <4> QED
        BY <3>1, <4>1, TotalStep
    <3>5. UseTokens'
      BY <3>1, <3>3, <3>4
    <3> QED
      BY <3>2, <3>5 DEF Sums
  <2> QED
    BY <2>1, <2>5, <2>6, <2>7, <2>8 DEF Shape
<1>7. CASE ReleasePending(c)
  <2>1. /\ count' = [count EXCEPT ![l] = 0] /\ items' = [items EXCEPT ![hash[l]] = Absent]
        /\ pc' = [pc EXCEPT ![c] = "drain"] /\ ~IsDone(l)
        /\ UNCHANGED <<mu, lru, available, inLRU, inUse, status, hash, element, panicked,
              ref, want, got>>
    BY <1>7 DEF ReleasePending, tokenVars
  <2>2. l \in Loads /\ l \notin Listed /\ Unlocked /\ pc[c] = "ready" /\ hash[l] \in Keys
    BY <1>3, <1>7
  <2>3. /\ status[l] = "loading"
        /\ count'[l] = 0 /\ \A x \in Loads : x # l => count'[x] = count[x]
        /\ \A k \in Keys : items'[k] = IF k = hash[l] THEN Absent ELSE items[k]
        /\ \A d \in Clients : pc'[d] = IF d = c THEN "drain" ELSE pc[d]
    BY <1>1, <1>3, <1>7, <2>1, <2>2 DEF IInv, TypeOK, IsDone
  <2> HIDE DEF l
  <2>4. Listed' = Listed /\ Listed \subseteq Loads
    BY <1>1, <2>1, Facts DEF Listed
  <2>5. MapOK'
    <3> SUFFICES ASSUME NEW k \in Keys, items'[k] # Absent
                 PROVE  /\ hash[items'[k].load] = k
                        /\ items'[k].kind = "loading" =>
                             status[items'[k].load] = "loading"
                                 /\ count'[items'[k].load] > 0
                        /\ items'[k].kind = "entry" =>
                             /\ status[items'[k].load] = "ok"
                             /\ count'[items'[k].load] = 0 =>
                                  items'[k].load \in Listed /\ items'[k].load \in element
      BY <2>1, <2>4 DEF MapOK
    <3>1. items'[k] = items[k] /\ k # hash[l] /\ items[k].load \in Loads
      BY <1>1, <2>3, Facts
    <3>2. items[k].load # l
      BY <1>1, <3>1 DEF MapOK
    <3> QED
      BY <1>1, <2>3, <3>1, <3>2 DEF MapOK
  <2>6. ListOK'
    BY <1>1, <2>1, <2>2, <2>3, <2>4 DEF ListOK
  <2>7. HandleOK' /\ DataOK' /\ LimitOK'
    BY <1>1, <2>1, <2>3 DEF HandleOK, DataOK, LimitOK
  <2>8. LockOK'
    BY <1>1, <2>2, <2>3, NobodyEvicts DEF LockOK
  <2>9. Active' = Active
    BY <2>1, <2>3 DEF Active
  <2>10. Sums'
    BY <2>1, <2>4, <2>9
       DEF CacheInv, Sums, LRUTokens, UseTokens, AvailableOK, TokensOf, Tokens
  <2> QED
    BY <2>1, <2>5, <2>6, <2>7, <2>8, <2>10 DEF Shape
<1> QED
  BY <1>2, <1>4, <1>5, <1>6, <1>7 DEF Release

LEMMA NextCacheInv == CacheInv /\ [Next]_vars => CacheInv'
<1> SUFFICES ASSUME CacheInv, [Next]_vars PROVE CacheInv'
  OBVIOUS
<1>1. IInv'
  BY NextInv DEF CacheInv
<1>2. CountIsHandles'
  BY NextCount DEF CacheInv
<1>3. ASSUME NEW c \in Clients, Get(c) PROVE Shape' /\ Sums'
  BY <1>3, ReturnShape, TryLoadSharedShape, TryLoadBeginShape, EvictOneShape, StartLoadShape
     DEF Get, TryLoad
<1>4. ASSUME UNCHANGED vars PROVE Shape' /\ Sums'
  <2>1. UNCHANGED <<mu, items, lru, available, inLRU, inUse, status, hash, count,
            element, panicked, pc, ref, want, got>>
    BY <1>4 DEF vars, cacheVars, tokenVars, loadVars, clientVars
  <2>2. Sums'
    BY <2>1, SameSums DEF CacheInv
  <2>3. Shape'
    BY <2>1
       DEF CacheInv, Shape, MapOK, HandleOK, DataOK, ListOK, LockOK, LimitOK, Listed,
             HasRoom
  <2> QED
    BY <2>2, <2>3
<1>5. Shape' /\ Sums'
  BY <1>3, <1>4, AcquireShape, ReleaseShape, FinishOKShape, FinishErrorShape
     DEF Next, Finish
<1> QED
  BY <1>1, <1>2, <1>5 DEF CacheInv

-----------------------------------------------------------------------------
\* What the properties say follows from CacheInv.
LEMMA CacheInvImplies ==
  CacheInv => HeldBytes /\ InUseCovers /\ WithinCapacity
<1> SUFFICES ASSUME CacheInv PROVE HeldBytes /\ InUseCovers /\ WithinCapacity
  OBVIOUS
<1>1. HeldBytes
  BY DEF CacheInv, Shape, HandleOK, DataOK, HeldBytes
<1>2. TokensOf \in [Loads -> Nat] /\ inLRU \in Int /\ inUse \in Int
  BY Facts DEF CacheInv, IInv, TypeOK
<1>3. Active \in SUBSET Loads /\ Counted \in SUBSET Active /\ Counted \in SUBSET Loads
  BY DEF Active, Counted
<1>4. IsFiniteSet(Active) /\ inUse >= Total(TokensOf, Active)
  BY DEF CacheInv, Sums, UseTokens
<1>5. IsFiniteSet(Counted)
  BY <1>3, <1>4, FS_Subset
<1>6. SumSizes(Counted) = Total(TokensOf, Counted)
  BY <1>3, <1>5, SumIsTotal
<1>7. Total(TokensOf, Counted) =< Total(TokensOf, Active)
  BY <1>2, <1>3, <1>4, TotalLess
<1>8. Total(TokensOf, Counted) \in Nat /\ Total(TokensOf, Active) \in Nat
  BY <1>2, <1>3, <1>4, <1>5, TotalStep
<1>9. InUseCovers
  BY <1>2, <1>4, <1>6, <1>7, <1>8 DEF InUseCovers
<1>10. inUse >= 0
  BY <1>2, <1>4, <1>8
<1>11. inLRU >= 0 /\ (Limits = {FALSE} => available >= 0)
  BY DEF CacheInv, Sums, LRUTokens, AvailableOK
<1>12. WithinCapacity
  BY <1>10, <1>11 DEF WithinCapacity
<1> QED
  BY <1>1, <1>9, <1>12

\* The strengthened invariant holds of every run of the cache.
THEOREM CacheInvariant == Spec => []CacheInv
BY InitCacheInv, NextCacheInv, PTL DEF Spec

\* Whatever others release, evict, cancel or fail, the bytes a successful Get
\* returned stay the body of the hash asked for until the reader's Release.
THEOREM HeldBytesStay == Spec => []HeldBytes
BY CacheInvariant, CacheInvImplies, PTL

\* inUse never falls below what the clients hold or load, cancellations included.
THEOREM UseIsCovered == Spec => []InUseCovers
BY CacheInvariant, CacheInvImplies, PTL

\* When no caller ignores the limit, available never goes negative: the bodies in
\* memory fit in cache_size; inLRU and inUse are never negative at all.
THEOREM CapacityIsKept == Spec => []WithinCapacity
BY CacheInvariant, CacheInvImplies, PTL

-----------------------------------------------------------------------------
(***************************************************************************)
(* What patient callers add: a load in flight, a body that is held and a   *)
(* body on the LRU list are each what the map holds for their key; hence   *)
(* nobody waits for a cancelled load, nothing panics and inUse is exact.   *)
(***************************************************************************)
LoadingMapped ==
  \A l \in Loads : status[l] = "loading" =>
    count[l] > 0 /\ items[hash[l]] = Loading(l)
HeldMapped ==
  \A l \in Loads : status[l] = "ok" /\ count[l] > 0 => items[hash[l]] = EntryOf(l)
ListedMapped == \A l \in Listed : items[hash[l]] = EntryOf(l)
Waits ==
  \A c \in Clients :
    /\ pc[c] # "drain"
    /\ pc[c] = "ready" /\ ref[c].kind = "loading" => IsDone(ref[c].load)
UseExact == inUse = Total(TokensOf, Active)

PatientInv ==
  ~panicked /\ LoadingMapped /\ HeldMapped /\ ListedMapped /\ Waits /\ UseExact

\* A load that is in flight, held or listed is what the map holds for its key,
\* so that no two claim the same key.
Claims(l) == status[l] = "loading" \/ (status[l] = "ok" /\ count[l] > 0) \/ l \in Listed

LEMMA ClaimFound ==
  ASSUME CacheInv, PatientInv, NEW l \in Loads, Claims(l)
  PROVE  hash[l] \in Keys /\ items[hash[l]].load = l /\ items[hash[l]] # Absent
<1>1. Loading(l).load = l /\ EntryOf(l).load = l /\ Loading(l) # Absent
        /\ EntryOf(l) # Absent
  BY DEF Loading, EntryOf, Absent
<1>2. status[l] # "free"
  BY DEF Claims, CacheInv, Shape, ListOK
<1>3. hash[l] \in Keys
  BY <1>2 DEF CacheInv, IInv, Keyed
<1>4. items[hash[l]] = Loading(l) \/ items[hash[l]] = EntryOf(l)
  BY DEF Claims, PatientInv, LoadingMapped, HeldMapped, ListedMapped
<1> QED
  BY <1>1, <1>3, <1>4

LEMMA OneClaim ==
  ASSUME CacheInv, PatientInv, NEW x \in Loads, NEW y \in Loads, x # y, Claims(x), Claims(y)
  PROVE  hash[x] # hash[y]
BY ClaimFound

\* PatientInv holds initially and, as no context ends, each action keeps it.
LEMMA InitPatient == Init => PatientInv
<1> SUFFICES ASSUME Init PROVE PatientInv
  OBVIOUS
<1>1. Listed = {} /\ Active = {}
  BY DEF Init, Listed, Active
<1>2. Total(TokensOf, Active) = 0
  BY <1>1, TotalEmpty
<1> QED
  BY <1>1, <1>2
     DEF Init, PatientInv, LoadingMapped, HeldMapped, ListedMapped, Waits, UseExact

LEMMA SameUse ==
  ASSUME UseExact, UNCHANGED <<inUse, status, hash, count>>
  PROVE  UseExact'
BY DEF UseExact, TokensOf, Tokens, Active

LEMMA JoinP ==
  ASSUME CacheInv, PatientInv, Unlocked, NEW c \in Clients, NEW k \in Keys,
        items[k] # Absent,
         AcquireEntry(items[k].load),
         ref' = [ref EXCEPT ![c] = items[k]],
         pc' = [pc EXCEPT ![c] = "held"],
         UNCHANGED <<mu, items, available, status, hash, cancelled, got>>,
         panicked' = FALSE
  PROVE  PatientInv'
<1> DEFINE l == items[k].load
<1>1. IInv /\ CountIsHandles /\ MapOK /\ HandleOK /\ DataOK /\ ListOK /\ LockOK /\ LimitOK
  BY DEF CacheInv, Shape
<1>2. l \in Loads /\ items[k].kind \in {"loading", "entry"} /\ count[l] \in Nat
        /\ items[k] \in Handles
  BY <1>1, Facts DEF IInv, TypeOK
<1>3. hash[l] = k /\ (items[k].kind = "entry" => status[l] = "ok" /\ items[k] = EntryOf(l))
      /\ (items[k].kind = "loading" => status[l] = "loading" /\ count[l] > 0)
  <2>1. items[k].kind = "entry" => items[k] = EntryOf(l)
    BY <1>2 DEF Handles, EntryOf, Loading
  <2> QED
    BY <1>1, <1>2, <2>1 DEF MapOK
<1>4. count' = [count EXCEPT ![l] = @ + 1] /\ count \in [Loads -> Int]
  BY <1>1 DEF AcquireEntry, IInv, TypeOK
<1>5. lru \in Seq(Loads) /\ IsInjective(lru) /\ Listed \subseteq Loads
  BY <1>1, Facts DEF IInv, TypeOK, ListOK
<1>6. Listed' \subseteq Listed
  <2>1. CASE count[l] = 0
    <3>1. Range(Unlisted(l)) = Listed \ {l}
      BY <1>2, <1>5, UnlistedList
    <3>2. lru' = Unlisted(l)
      BY <2>1 DEF AcquireEntry
    <3> QED
      BY <3>1, <3>2 DEF Listed, Range
  <2>2. CASE count[l] # 0
    <3>1. lru' = lru
      BY <2>2 DEF AcquireEntry
    <3> QED
      BY <3>1 DEF Listed
  <2> QED
    BY <2>1, <2>2
<1>7. count'[l] = count[l] + 1 /\ \A x \in Loads : x # l => count'[x] = count[x]
  BY <1>2, <1>4
<1>8. /\ count[l] = 0 => inUse' = inUse + Tokens(l)
      /\ count[l] # 0 => inUse' = inUse
  BY DEF AcquireEntry
<1> HIDE DEF l
<1>9. LoadingMapped' /\ HeldMapped' /\ ListedMapped'
  <2>1. LoadingMapped'
    BY <1>2, <1>7 DEF PatientInv, LoadingMapped
  <2>2. HeldMapped'
    BY <1>2, <1>3, <1>7 DEF PatientInv, HeldMapped, l
  <2>3. ListedMapped'
    BY <1>6 DEF PatientInv, ListedMapped
  <2> QED
    BY <2>1, <2>2, <2>3
<1>10. Waits'
  BY <1>1 DEF PatientInv, Waits, IsDone, IInv, TypeOK
<1>11. UseExact'
  <2> DEFINE w == TokensOf
             A == Active
  <2>1. /\ TokensOf' = w /\ w \in [Loads -> Nat] /\ w[l] = Tokens(l)
          /\ A \in SUBSET Loads /\ IsFiniteSet(A)
        /\ Active' = A \cup {l} /\ (l \in A <=> count[l] # 0) /\ inUse = Total(w, A)
            /\ inUse \in Int /\ l \in Loads
    <3>1. Active' = Active \cup {l} /\ (l \in Active <=> count[l] # 0)
      BY <1>2, <1>3, <1>7 DEF Active, l
    <3>2. TokensOf' = TokensOf /\ TokensOf \in [Loads -> Nat]
            /\ TokensOf[l] = Tokens(l) /\ l \in Loads
      BY <1>1, <1>2, Facts DEF TokensOf, Tokens, l
    <3>3. inUse = Total(TokensOf, Active) /\ inUse \in Int /\ IsFiniteSet(Active)
            /\ Active \in SUBSET Loads
      BY <1>1 DEF PatientInv, UseExact, CacheInv, Sums, UseTokens, IInv, TypeOK, Active
    <3> QED
      BY <3>1, <3>2, <3>3
  <2>2. UseExact' <=> inUse' = Total(w, A \cup {l})
    BY <2>1 DEF UseExact
  <2> HIDE DEF w, A
  <2>3. CASE count[l] = 0
    BY <1>8, <2>1, <2>2, <2>3, TotalAdd
  <2>4. CASE count[l] # 0
    <3>1. A \cup {l} = A
      BY <2>1, <2>4
    <3> QED
      BY <1>8, <2>1, <2>2, <2>4, <3>1
  <2> QED
    BY <2>3, <2>4
<1> QED
  BY <1>9, <1>10, <1>11 DEF PatientInv

LEMMA AcquireP ==
  ASSUME CacheInv, PatientInv, NEW c \in Clients, Acquire(c)
  PROVE  PatientInv'
<1>1. PICK k \in Keys :
        /\ pc' = [pc EXCEPT ![c] = "held"]
        /\ \/ /\ items[k] = Absent
              /\ ref' = [ref EXCEPT ![c] = Prepare]
              /\ UNCHANGED <<lru, inLRU, inUse, count, element, panicked>>
           \/ /\ items[k] # Absent
              /\ ref' = [ref EXCEPT ![c] = items[k]]
              /\ AcquireEntry(items[k].load)
  BY DEF Acquire
<1>2. UNCHANGED <<mu, items, available, status, hash, cancelled, got>> /\ Unlocked
  BY DEF Acquire
<1>3. panicked' = FALSE
  BY AcquireShape
<1>4. CASE items[k] # Absent
  BY <1>1, <1>2, <1>3, <1>4, JoinP
<1>5. CASE items[k] = Absent
  <2>1. ref' = [ref EXCEPT ![c] = Prepare] /\ UNCHANGED <<lru, inUse, count>>
    BY <1>1, <1>5
  <2>2. UseExact'
    BY <1>2, <2>1, SameUse DEF PatientInv
  <2>3. Waits'
    BY <1>1, <1>2, <2>1 DEF PatientInv, Waits, IsDone, CacheInv, IInv, TypeOK
  <2>4. LoadingMapped' /\ HeldMapped' /\ ListedMapped'
    BY <1>2, <2>1 DEF PatientInv, LoadingMapped, HeldMapped, ListedMapped, Listed
  <2> QED
    BY <1>3, <2>2, <2>3, <2>4 DEF PatientInv
<1> QED
  BY <1>4, <1>5

LEMMA ReturnP ==
  ASSUME CacheInv, PatientInv, ~Cancellable, NEW c \in Clients,
         GetLoaded(c) \/ GetCancelled(c) \/ SizeFails(c) \/ TryLoadPressure(c)
  PROVE  PatientInv'
<1>1. PICK result : Returns(c, result)
  BY DEF GetLoaded, GetCancelled, SizeFails, TryLoadPressure
<1>2. UNCHANGED <<items, lru, inUse, status, hash, count, panicked, ref>>
  BY DEF GetLoaded, GetCancelled, SizeFails, TryLoadPressure, cacheVars, tokenVars, loadVars
<1>3. ref[c].kind = "loading" => IsDone(ref[c].load)
  BY DEF GetLoaded, GetCancelled, SizeFails, TryLoadPressure, Prepare
<1>4. UseExact'
  BY <1>2, SameUse DEF PatientInv
<1>5. Waits'
  BY <1>1, <1>2, <1>3 DEF Returns, PatientInv, Waits, IsDone, CacheInv, IInv, TypeOK
<1>6. LoadingMapped' /\ HeldMapped' /\ ListedMapped'
  BY <1>2 DEF PatientInv, LoadingMapped, HeldMapped, ListedMapped, Listed
<1> QED
  BY <1>2, <1>4, <1>5, <1>6 DEF PatientInv

LEMMA TryLoadP ==
  ASSUME CacheInv, PatientInv, NEW c \in Clients, TryLoadShared(c) \/ TryLoadBegin(c)
  PROVE  PatientInv'
<1>1. CASE TryLoadShared(c)
  <2>1. want[c].key \in Keys
    BY <1>1 DEF TryLoadShared, CacheInv, IInv, Keyed
  <2>2. pc' = [pc EXCEPT ![c] = "held"]
    BY <1>1 DEF TryLoadShared, CacheInv, IInv, TypeOK
  <2>3. panicked' = FALSE
    BY <1>1, TryLoadSharedShape
  <2> QED
    BY <1>1, <2>1, <2>2, <2>3, JoinP DEF TryLoadShared, Misses
<1>2. CASE TryLoadBegin(c)
  <2>1. UNCHANGED <<items, lru, inUse, status, hash, count, panicked, ref>>
          /\ pc' = [pc EXCEPT ![c] = "evict"]
    BY <1>2 DEF TryLoadBegin, tokenVars, loadVars
  <2>2. UseExact'
    BY <2>1, SameUse DEF PatientInv
  <2>3. Waits'
    BY <2>1 DEF PatientInv, Waits, IsDone, CacheInv, IInv, TypeOK
  <2>4. LoadingMapped' /\ HeldMapped' /\ ListedMapped'
    BY <2>1 DEF PatientInv, LoadingMapped, HeldMapped, ListedMapped, Listed
  <2> QED
    BY <2>1, <2>2, <2>3, <2>4 DEF PatientInv
<1> QED
  BY <1>1, <1>2

LEMMA EvictOneP ==
  ASSUME CacheInv, PatientInv, NEW c \in Clients, EvictOne(c)
  PROVE  PatientInv'
<1> DEFINE v == lru[Len(lru)]
<1>1. v \in Listed /\ hash[v] \in Keys /\ Listed' = Listed \ {v}
  BY EvictOneShape
<1>2. items[hash[v]] = EntryOf(v) /\ v \in Loads /\ Listed \subseteq Loads
  BY <1>1, Facts DEF PatientInv, ListedMapped, CacheInv
<1>3. items[hash[v]].kind = "entry"
  BY <1>2 DEF EntryOf
<1>4. items' = [items EXCEPT ![hash[v]] = Absent] /\ UNCHANGED <<panicked>>
  BY <1>3 DEF EvictOne
<1>5. UNCHANGED <<inUse, status, hash, count, pc, ref>>
  BY DEF EvictOne, loadVars, clientVars
<1> HIDE DEF v
<1>6. \A k \in Keys : k # hash[v] => items'[k] = items[k]
  BY <1>4 DEF CacheInv, IInv, TypeOK
<1>7. \A x \in Loads : x # v /\ Claims(x) => hash[x] \in Keys /\ hash[x] # hash[v]
  BY <1>1, <1>2, ClaimFound, OneClaim DEF Claims
<1>8. status[v] = "ok" /\ count[v] = 0
  BY <1>1 DEF CacheInv, Shape, ListOK
<1>9. LoadingMapped' /\ HeldMapped'
  BY <1>5, <1>6, <1>7, <1>8 DEF Claims, PatientInv, LoadingMapped, HeldMapped
<1>10. ListedMapped'
  BY <1>1, <1>2, <1>5, <1>6, <1>7 DEF Claims, PatientInv, ListedMapped
<1>11. Waits'
  BY <1>5 DEF PatientInv, Waits, IsDone
<1>12. UseExact'
  BY <1>5, SameUse DEF PatientInv
<1> QED
  BY <1>4, <1>9, <1>10, <1>11, <1>12 DEF PatientInv

LEMMA StartLoadP ==
  ASSUME CacheInv, PatientInv, NEW c \in Clients, StartLoad(c)
  PROVE  PatientInv'
<1>1. PICK l \in Loads :
        /\ Reusable(l)
        /\ status' = [status EXCEPT ![l] = "loading"]
        /\ hash' = [hash EXCEPT ![l] = want[c].key]
        /\ count' = [count EXCEPT ![l] = 1]
        /\ items' = [items EXCEPT ![want[c].key] = Loading(l)]
        /\ ref' = [ref EXCEPT ![c] = Loading(l)]
  BY DEF StartLoad
<1>2. /\ inUse' = inUse + Size[want[c].key] /\ pc' = [pc EXCEPT ![c] = "held"]
      /\ UNCHANGED <<lru, panicked>> /\ pc[c] = "evict"
  BY DEF StartLoad
<1>3. IInv /\ CountIsHandles /\ MapOK /\ HandleOK /\ DataOK /\ ListOK /\ LockOK /\ LimitOK
  BY DEF CacheInv, Shape
<1>4. want[c].key \in Keys /\ Size[want[c].key] \in Nat /\ items[want[c].key] = Absent
  BY <1>2, <1>3, CacheAssumption DEF IInv, Keyed, CacheAssumption, LockOK
<1>5. /\ l \notin Listed /\ count[l] = 0 /\ status[l] # "loading"
      /\ \A d \in Clients : ref[d].load # l
  BY <1>1, <1>3, ReusableFresh
<1>6. Listed' = Listed /\ Listed \subseteq Loads
  BY <1>2, <1>3, Facts DEF Listed
<1>7. /\ status'[l] = "loading" /\ hash'[l] = want[c].key /\ count'[l] = 1
      /\ \A x \in Loads : x # l => status'[x] = status[x] /\ hash'[x] = hash[x]
          /\ count'[x] = count[x]
      /\ \A k \in Keys : items'[k] = IF k = want[c].key THEN Loading(l) ELSE items[k]
      /\ \A d \in Clients : ref'[d] = IF d = c THEN Loading(l) ELSE ref[d]
      /\ \A d \in Clients : pc'[d] = IF d = c THEN "held" ELSE pc[d]
  BY <1>1, <1>2, <1>3 DEF IInv, TypeOK
<1>8. \A x \in Loads : Claims(x) => hash[x] \in Keys /\ hash[x] # want[c].key
  BY <1>4, ClaimFound
<1>9. LoadingMapped'
  BY <1>4, <1>7, <1>8 DEF Claims, PatientInv, LoadingMapped
<1>10. HeldMapped'
  BY <1>4, <1>7, <1>8 DEF Claims, PatientInv, HeldMapped
<1>11. ListedMapped'
  BY <1>5, <1>6, <1>7, <1>8 DEF Claims, PatientInv, ListedMapped
<1>12. Waits'
  <2>1. \A d \in Clients : ref[d].kind = "loading" => ref[d].load \in Loads
          /\ ref[d].load # l
    BY <1>3, <1>5, Facts
  <2>2. \A x \in Loads : x # l => (IsDone(x)' <=> IsDone(x))
    BY <1>7 DEF IsDone
  <2>3. \A d \in Clients : /\ pc'[d] # "drain"
                           /\ pc'[d] = "ready" => d # c /\ pc[d] = "ready"
                               /\ ref'[d] = ref[d]
    BY <1>7 DEF PatientInv, Waits
  <2> QED
    BY <2>1, <2>2, <2>3 DEF PatientInv, Waits, IsDone
<1>13. UseExact'
  <2> DEFINE w == TokensOf
             u == TokensOf'
             A == Active
             z == Size[want[c].key]
  <2>1. Active' = A \cup {l} /\ l \notin A /\ A \in SUBSET Loads /\ IsFiniteSet(A)
    BY <1>5, <1>7 DEF Active, CacheInv, Sums, UseTokens
  <2>2. w \in [Loads -> Nat] /\ u \in [Loads -> Nat] /\ u[l] = z /\ \A x \in A : u[x] = w[x]
    <3>1. TokensOf \in [Loads -> Nat]
      BY <1>3, Facts
    <3>2. \A x \in Loads : TokensOf'[x] = IF x = l THEN Size[want[c].key] ELSE TokensOf[x]
      BY <1>7 DEF TokensOf, Tokens
    <3>3. TokensOf' = [x \in Loads |-> TokensOf'[x]]
      BY DEF TokensOf
    <3> QED
      BY <1>4, <2>1, <3>1, <3>2, <3>3
  <2>3. UseExact' <=> inUse' = Total(u, A \cup {l})
    BY <2>1 DEF UseExact
  <2>4. inUse' = inUse + z /\ inUse = Total(w, A) /\ z \in Nat
    BY <1>2, <1>4 DEF PatientInv, UseExact
  <2> HIDE DEF w, u, A, z
  <2>5. Total(u, A) = Total(w, A) /\ Total(u, A \cup {l}) = Total(u, A) + u[l]
    BY <2>1, <2>2, TotalSame, TotalAdd
  <2> QED
    BY <2>2, <2>3, <2>4, <2>5
<1> QED
  BY <1>2, <1>9, <1>10, <1>11, <1>12, <1>13 DEF PatientInv

LEMMA FinishP ==
  ASSUME CacheInv, PatientInv, NEW l \in Loads, Finish(l)
  PROVE  PatientInv'
<1>1. IInv /\ CountIsHandles /\ MapOK /\ HandleOK /\ DataOK /\ ListOK /\ LockOK /\ LimitOK
  BY DEF CacheInv, Shape
<1>2. /\ status[l] = "loading"
      /\ UNCHANGED <<lru, hash, count, panicked, pc, ref>>
  BY DEF Finish, FinishOK, FinishError, clientVars
<1>3. /\ hash[l] \in Keys /\ count[l] > 0 /\ l \notin Listed /\ Listed' = Listed
        /\ Listed \subseteq Loads
  BY <1>1, <1>2, Facts DEF IInv, Keyed, ListOK, PatientInv, LoadingMapped, Listed
<1>4. /\ status'[l] \in {"ok", "err"} /\ \A x \in Loads : x # l => status'[x] = status[x]
      /\ \A k \in Keys : k # hash[l] => items'[k] = items[k]
      /\ status'[l] = "ok" => items'[hash[l]] = EntryOf(l)
  <2>1. CASE FinishOK(l)
    BY <1>1, <1>3, <2>1 DEF FinishOK, IInv, TypeOK
  <2>2. CASE FinishError(l)
    BY <1>1, <1>3, <2>2 DEF FinishError, IInv, TypeOK
  <2> QED
    BY <2>1, <2>2 DEF Finish
<1>5. \A x \in Loads : x # l /\ Claims(x) => hash[x] \in Keys /\ hash[x] # hash[l]
  BY <1>2, ClaimFound, OneClaim DEF Claims
<1>6. LoadingMapped'
  BY <1>2, <1>4, <1>5 DEF Claims, PatientInv, LoadingMapped
<1>7. HeldMapped'
  BY <1>2, <1>4, <1>5 DEF Claims, PatientInv, HeldMapped
<1>8. ListedMapped'
  BY <1>2, <1>3, <1>4, <1>5 DEF Claims, PatientInv, ListedMapped
<1>9. Waits'
  <2>1. \A d \in Clients : ref[d].kind = "loading" => ref[d].load \in Loads
    BY <1>1, Facts
  <2> QED
    BY <1>2, <1>4, <2>1 DEF PatientInv, Waits, IsDone
<1>10. Active' = Active /\ l \in Active /\ Active \in SUBSET Loads /\ IsFiniteSet(Active)
  BY <1>2, <1>3, <1>4 DEF Active, CacheInv, Sums, UseTokens
<1>11. UseExact'
  <2>1. CASE FinishOK(l)
    <3>1. status' = [status EXCEPT ![l] = "ok"] /\ UNCHANGED inUse
      BY <2>1 DEF FinishOK, tokenVars
    <3>2. \A x \in Loads : Tokens(x)' = Tokens(x)
      BY <1>1, <1>2, <3>1 DEF Tokens, IInv, TypeOK
    <3>3. TokensOf' = TokensOf
      BY <3>2 DEF TokensOf
    <3> QED
      BY <1>10, <3>1, <3>3 DEF PatientInv, UseExact
  <2>2. CASE FinishError(l)
    <3>1. status' = [status EXCEPT ![l] = "err"] /\ inUse' = inUse - Tokens(l)
      BY <2>2 DEF FinishError
    <3> DEFINE w == TokensOf
               u == TokensOf'
               A == Active
    <3>2. w \in [Loads -> Nat] /\ u \in [Loads -> Nat] /\ u[l] = 0 /\ w[l] = Tokens(l)
          /\ \A x \in Loads : x # l => u[x] = w[x]
      <4>1. TokensOf \in [Loads -> Nat]
        BY <1>1, Facts
      <4>2. \A x \in Loads : TokensOf'[x] = IF x = l THEN 0 ELSE TokensOf[x]
        BY <1>1, <1>2, <3>1 DEF TokensOf, Tokens, IInv, TypeOK
      <4>3. TokensOf' = [x \in Loads |-> TokensOf'[x]] /\ TokensOf[l] = Tokens(l)
        BY DEF TokensOf
      <4> QED
        BY <4>1, <4>2, <4>3
    <3>3. UseExact' <=> inUse' = Total(u, A)
      BY <1>10 DEF UseExact
    <3>4. inUse' = inUse - w[l] /\ inUse = Total(w, A) /\ A \in SUBSET Loads
            /\ IsFiniteSet(A) /\ l \in A
      BY <1>10, <3>1, <3>2 DEF PatientInv, UseExact
    <3> HIDE DEF w, u, A
    <3>5. Total(w, A) = Total(u, A) + w[l] /\ Total(u, A) \in Nat /\ w[l] \in Nat
      BY <3>2, <3>4, TotalDrop
    <3> QED
      BY <3>3, <3>4, <3>5
  <2> QED
    BY <2>1, <2>2 DEF Finish
<1> QED
  BY <1>2, <1>6, <1>7, <1>8, <1>9, <1>11 DEF PatientInv

LEMMA ReleaseP ==
  ASSUME CacheInv, PatientInv, NEW c \in Clients, Release(c) \/ Drain(c)
  PROVE  PatientInv'
<1> DEFINE l == ref[c].load
<1>1. IInv /\ CountIsHandles /\ MapOK /\ HandleOK /\ DataOK /\ ListOK /\ LockOK /\ LimitOK
  BY DEF CacheInv, Shape
<1>2. ~panicked'
  BY ReleaseShape DEF PatientInv
<1>3. ~Drain(c) /\ ~ReleasePending(c)
  BY DEF Drain, ReleasePending, PatientInv, Waits
<1>4. Forget(c) /\ UNCHANGED <<items, status, hash>>
  BY <1>3 DEF Release, ReleasePrepare, ReleaseShared, ReleaseLast, cacheVars, loadVars
<1>5. Waits'
  BY <1>1, <1>4 DEF Forget, PatientInv, Waits, IsDone, IInv, TypeOK, Absent
<1>6. CASE ReleasePrepare(c)
  <2>1. UNCHANGED <<lru, inUse, count>>
    BY <1>6 DEF ReleasePrepare, cacheVars, tokenVars, loadVars
  <2>2. UseExact'
    BY <1>4, <2>1, SameUse DEF PatientInv
  <2>3. LoadingMapped' /\ HeldMapped' /\ ListedMapped'
    BY <1>4, <2>1 DEF PatientInv, LoadingMapped, HeldMapped, ListedMapped, Listed
  <2> QED
    BY <1>2, <1>5, <2>2, <2>3 DEF PatientInv
<1>7. CASE ReleaseShared(c) \/ ReleaseLast(c)
  <2>1. l \in Loads /\ ref[c].kind \in {"loading", "entry"} /\ pc[c] = "ready"
          /\ count[l] \in Nat
    BY <1>1, <1>7, Facts DEF ReleaseShared, ReleaseLast
  <2>2. status[l] \in {"ok", "err"}
    BY <1>1, <2>1 DEF HandleOK, PatientInv, Waits, IsDone
  <2>3. c \in HoldersOf(l)
    BY <2>1 DEF HoldersOf
  <2>4. count[l] > 0
    BY <1>1, <2>1, <2>3, HoldersFinite, FS_EmptySet DEF CountIsHandles
  <2>5. /\ count' = [count EXCEPT ![l] = @ - 1]
        /\ \/ UNCHANGED <<lru, inUse>> /\ (count[l] > 1 \/ status[l] = "err")
           \/ status[l] = "ok" /\ count[l] = 1 /\ lru' = <<l>> \o lru
               /\ inUse' = inUse - Tokens(l)
    <3>1. CASE ReleaseShared(c)
      BY <2>1, <2>4, <3>1 DEF ReleaseShared, tokenVars
    <3>2. CASE ReleaseLast(c)
      <4>1. count[l] = 1
        BY <3>2 DEF ReleaseLast
      <4>2. CASE PushFront(l) /\ (ref[c].kind = "entry" \/ status[l] = "ok")
        <5>1. status[l] = "ok"
          BY <1>1, <4>2 DEF HandleOK
        <5> QED
          BY <4>1, <4>2, <5>1 DEF PushFront
      <4>3. CASE /\ ref[c].kind = "loading" /\ status[l] = "err"
                 /\ count' = [count EXCEPT ![l] = 0]
                 /\ UNCHANGED <<lru, inLRU, inUse, element>>
        <5>1. [count EXCEPT ![l] = 0] = [count EXCEPT ![l] = @ - 1]
          BY <4>1
        <5> QED
          BY <4>3, <5>1
      <4> QED
        BY <3>2, <4>2, <4>3 DEF ReleaseLast
    <3> QED
      BY <1>7, <3>1, <3>2
  <2>6. count'[l] = count[l] - 1 /\ \A x \in Loads : x # l => count'[x] = count[x]
    BY <1>1, <2>1, <2>5 DEF IInv, TypeOK
  <2> HIDE DEF l
  <2>7. Listed' = Listed \/ (Listed' = Listed \cup {l} /\ status[l] = "ok")
    <3>1. CASE lru' = lru
      BY <3>1 DEF Listed
    <3>2. CASE lru' = <<l>> \o lru /\ status[l] = "ok"
      <4>1. lru \in Seq(Loads) /\ Listed = Range(lru)
        BY <1>1, Facts DEF IInv, TypeOK
      <4>2. Range(lru') = Range(lru) \cup {l}
        BY <2>1, <3>2, <4>1, ConsList
      <4> QED
        BY <3>2, <4>1, <4>2 DEF Listed, Range
    <3> QED
      BY <2>5, <3>1, <3>2
  <2>8. LoadingMapped'
    BY <1>4, <2>2, <2>6 DEF PatientInv, LoadingMapped
  <2>9. HeldMapped'
    BY <1>4, <2>1, <2>4, <2>6 DEF PatientInv, HeldMapped
  <2>10. ListedMapped'
    BY <1>4, <2>1, <2>4, <2>7 DEF PatientInv, ListedMapped, HeldMapped
  <2>11. UseExact'
    <3> DEFINE w == TokensOf
               A == Active
    <3>1. TokensOf' = w /\ w \in [Loads -> Nat] /\ w[l] = Tokens(l)
      BY <1>1, <1>4, <2>1, Facts DEF TokensOf, Tokens
    <3>2. A \in SUBSET Loads /\ IsFiniteSet(A) /\ l \in A
            /\ Active' = (IF count[l] = 1 THEN A \ {l} ELSE A)
      BY <1>4, <2>1, <2>2, <2>4, <2>6 DEF Active, CacheInv, Sums, UseTokens
    <3>3. UseExact' <=> inUse' = Total(w, IF count[l] = 1 THEN A \ {l} ELSE A)
      BY <3>1, <3>2 DEF UseExact
    <3>4. inUse = Total(w, A)
      BY DEF PatientInv, UseExact
    <3>5. status[l] = "err" => w[l] = 0
      BY <3>1 DEF Tokens
    <3> HIDE DEF w, A
    <3>6. Total(w, A) = Total(w, A \ {l}) + w[l] /\ Total(w, A \ {l}) \in Nat
            /\ w[l] \in Nat
      <4>1. A \ {l} \in SUBSET Loads /\ IsFiniteSet(A \ {l})
        BY <3>2, FS_Subset
      <4> QED
        BY <3>1, <3>2, <4>1, TotalStep
    <3>7. CASE count[l] = 1
      BY <2>5, <3>1, <3>3, <3>4, <3>5, <3>6, <3>7
    <3>8. CASE count[l] # 1
      BY <2>5, <3>3, <3>4, <3>8
    <3> QED
      BY <3>7, <3>8
  <2> QED
    BY <1>2, <1>5, <2>8, <2>9, <2>10, <2>11 DEF PatientInv
<1> QED
  BY <1>3, <1>6, <1>7 DEF Release

LEMMA NextPatient == ~Cancellable /\ CacheInv /\ PatientInv /\ [Next]_vars => PatientInv'
<1> SUFFICES ASSUME ~Cancellable, CacheInv, PatientInv, [Next]_vars PROVE PatientInv'
  OBVIOUS
<1>1. ASSUME NEW c \in Clients, Get(c) PROVE PatientInv'
  BY <1>1, ReturnP, TryLoadP, EvictOneP, StartLoadP DEF Get, TryLoad
<1>2. ASSUME UNCHANGED vars PROVE PatientInv'
  <2>1. UNCHANGED <<items, lru, inUse, status, hash, count, panicked, pc, ref>>
    BY <1>2 DEF vars, cacheVars, tokenVars, loadVars, clientVars
  <2>2. UseExact'
    BY <2>1, SameUse DEF PatientInv
  <2> QED
    BY <2>1, <2>2
       DEF PatientInv, LoadingMapped, HeldMapped, ListedMapped, Listed, Waits, IsDone
<1> QED
  BY <1>1, <1>2, AcquireP, ReleaseP, FinishP DEF Next

\* What the properties of patient callers say follows from both invariants.
LEMMA PatientImplies ==
  CacheInv /\ PatientInv => TokensAccounted /\ HeldIsFound /\ LRUEvictable /\ NoPanic
<1> SUFFICES ASSUME CacheInv, PatientInv PROVE TokensAccounted /\ HeldIsFound
      /\ LRUEvictable /\ NoPanic
  OBVIOUS
<1>1. NoPanic
  BY DEF NoPanic, PatientInv
<1>2. HeldIsFound
  BY ClaimFound DEF HeldIsFound, Counted, Claims
<1>3. Listed = Range(lru) /\ lru \in Seq(Loads) /\ IsInjective(lru)
        /\ Listed \in SUBSET Loads /\ IsFiniteSet(Listed)
  BY Facts DEF CacheInv, IInv, TypeOK, Shape, ListOK
<1>4. Cardinality(Listed) = Len(lru)
  BY <1>3, DistinctCount
<1>5. LRUEvictable
  BY <1>4 DEF LRUEvictable, PatientInv, ListedMapped, CacheInv, Shape, ListOK
<1>6. Active = Counted /\ Active \in SUBSET Loads /\ IsFiniteSet(Active)
  BY DEF Active, Counted, PatientInv, LoadingMapped, CacheInv, Sums, UseTokens
<1>7. inUse = SumSizes(Counted)
  <2>1. Counted \in SUBSET Loads /\ IsFiniteSet(Counted) /\ inUse = Total(TokensOf, Counted)
    BY <1>6 DEF PatientInv, UseExact
  <2> QED
    BY <2>1, SumIsTotal
<1>8. inLRU = SumSizes(Listed)
  BY <1>3, SumIsTotal DEF PatientInv, CacheInv, Sums, LRUTokens
<1> QED
  BY <1>1, <1>2, <1>5, <1>7, <1>8 DEF TokensAccounted

\* The invariant of patient callers.
THEOREM PatientInvariant == ~Cancellable => (Spec => []PatientInv)
<1> SUFFICES ASSUME ~Cancellable PROVE Spec => []PatientInv
  OBVIOUS
<1>1. CacheInv /\ PatientInv /\ [Next]_vars => PatientInv'
  BY NextPatient
<1> QED
  BY <1>1, InitPatient, CacheInvariant, PTL DEF Spec

\* With patient callers inLRU is the sum of the bodies on the list and inUse the
\* sum of those that are held or on their way, each counted once.
THEOREM PatientTokens == ~Cancellable => (Spec => []TokensAccounted)
BY PatientInvariant, CacheInvariant, PatientImplies, PTL

\* With patient callers a key is neither loaded twice at a time nor kept twice.
THEOREM PatientFound == ~Cancellable => (Spec => []HeldIsFound)
BY PatientInvariant, CacheInvariant, PatientImplies, PTL

\* With patient callers whatever is on the LRU list is an idle body the map has,
\* listed once: the type assertion of tryLoad (cache.go:101) cannot fail.
THEOREM PatientEvictable == ~Cancellable => (Spec => []LRUEvictable)
BY PatientInvariant, CacheInvariant, PatientImplies, PTL

\* With patient callers no request takes the server down.
THEOREM PatientNoPanic == ~Cancellable => (Spec => []NoPanic)
BY PatientInvariant, CacheInvariant, PatientImplies, PTL
=============================================================================
