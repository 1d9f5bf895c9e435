----------------------------- MODULE ShardCache -----------------------------
(***************************************************************************)
(* The in-memory blob cache of cindex-serve (cmd/cindex-serve/cache).      *)
(*                                                                         *)
(* Request goroutines Acquire a handle for a content hash, call Get on it  *)
(* and Release it.  A miss starts one loader goroutine per key; loaded     *)
(* bodies nobody holds wait on an LRU list until their tokens are needed.  *)
(* Everything but the load itself, the wait in loading.Get and the wait at *)
(* the end of Release happens under the one mutex Cache.mu, so those are   *)
(* single steps; tryLoad, whose eviction loop is unbounded, is split into  *)
(* its iterations and holds the variable mu while it runs.                 *)
(***************************************************************************)
EXTENDS Integers, Sequences, FiniteSets, FiniteSetsExt

CONSTANTS
  Clients,           \* the goroutines; each holds at most one handle at a time
  Keys,              \* content hashes (index.SHA256)
  Loads,             \* loading objects; a collected one is allocated again
  Size,              \* Size[k]: the length of the content whose hash is k
  Capacity,          \* cache_size, the initial value of Cache.available
  Limits,            \* the values of LoadParams.IgnoreLimit callers use
  Cancellable,       \* may a caller's context end while a load is pending?
  LoaderObeysCancel, \* does a cancelled Load always return an error?
  NoLoad, NoKey, NoClient

ASSUME CacheAssumption ==
  /\ Size \in [Keys -> Nat]
  /\ Capacity \in Nat
  /\ Limits \subseteq BOOLEAN
  /\ Cancellable \in BOOLEAN
  /\ LoaderObeysCancel \in BOOLEAN
  /\ IsFiniteSet(Clients)
  /\ NoLoad \notin Loads
  /\ NoKey \notin Keys
  /\ NoClient \notin Clients

VARIABLES
  mu,        \* the client inside tryLoad's critical section, or NoClient
  items,     \* Cache.items: key -> *loading, *entry or nothing
  lru,       \* Cache.lru, front first; the loads whose body is listed
  available, inLRU, inUse,
  status,    \* of each loading object: done not closed, or closed with or
             \* without an error; "free" before it is first used
  hash,      \* the key of its entry
  count,     \* the count of its entry
  element,   \* the objects whose entry.element is not nil
  cancelled, \* the objects whose context has been cancelled
  pc,        \* where each client is
  ref,       \* the Entry each client holds
  want,      \* the key and IgnoreLimit each client asked for
  got,       \* what the client's Get returned
  panicked   \* a run-time panic has taken the server down

tokenVars == <<available, inLRU, inUse>>
loadVars == <<status, hash, count, element, cancelled>>
cacheVars == <<mu, items, lru, tokenVars, loadVars, panicked>>
clientVars == <<pc, ref, want, got>>
vars == <<cacheVars, clientVars>>

Absent == [kind |-> "none", load |-> NoLoad]
Prepare == [kind |-> "prepare", load |-> NoLoad]
Loading(l) == [kind |-> "loading", load |-> l]
EntryOf(l) == [kind |-> "entry", load |-> l]

\* allocatedSize(): the length of the body, which a failed load sets to nil.
Tokens(l) == IF status[l] \in {"loading", "ok"} THEN Size[hash[l]] ELSE 0

\* Mutant: done is closed only by a load that succeeds.
IsDoneIfOK(l) == status[l] = "ok"

\* e.done is closed.
IsDone(l) == status[l] \in {"ok", "err"}

\* Nothing points to the object any more: the Go allocator may reuse it.
Reusable(l) ==
  \/ status[l] = "free"
  \/ /\ IsDone(l)
     /\ \A c \in Clients : ref[c].load # l
     /\ \A k \in Keys : items[k].load # l
     /\ \A i \in DOMAIN lru : lru[i] # l

Init ==
  /\ mu = NoClient
  /\ items = [k \in Keys |-> Absent]
  /\ lru = <<>>
  /\ available = Capacity /\ inLRU = 0 /\ inUse = 0
  /\ status = [l \in Loads |-> "free"]
  /\ hash = [l \in Loads |-> NoKey]
  /\ count = [l \in Loads |-> 0]
  /\ element = {} /\ cancelled = {}
  /\ pc = [c \in Clients |-> "idle"]
  /\ ref = [c \in Clients |-> Absent]
  /\ want = [c \in Clients |-> [key |-> NoKey, ignoreLimit |-> FALSE]]
  /\ got = [c \in Clients |-> "none"]
  /\ panicked = FALSE

\* The server is up and nobody is inside a critical section.
Unlocked == ~panicked /\ mu = NoClient

\* list.Remove: the element of l leaves the list, if it is there.
Unlisted(l) ==
  LET i == CHOOSE i \in DOMAIN lru : lru[i] = l
  IN  IF \E j \in DOMAIN lru : lru[j] = l
      THEN SubSeq(lru, 1, i - 1) \o SubSeq(lru, i + 1, Len(lru))
      ELSE lru

\* Mutant: a body acquired from the LRU list stays on it.
AcquireListed(l) ==
  /\ count' = [count EXCEPT ![l] = @ + 1]
  /\ LET moved == IF count[l] = 0 THEN Tokens(l) ELSE 0
     IN inLRU' = inLRU - moved /\ inUse' = inUse + moved
  /\ element' = element \ {l}
  /\ UNCHANGED <<lru, panicked>>

\* Mutant: joining a load or entry that is already held is not counted.
AcquireUncounted(l) ==
  IF count[l] = 0
  THEN AcquireListed(l)
  ELSE UNCHANGED <<count, element, inLRU, inUse, lru, panicked>>

\* Mutant: the tokens of an idle body are not moved.
AcquireUnmoved(l) ==
  /\ count' = [count EXCEPT ![l] = @ + 1]
  /\ lru' = Unlisted(l)
  /\ element' = element \ {l}
  /\ UNCHANGED <<inLRU, inUse, panicked>>

(***************************************************************************)
(* entry.acquire: the first holder takes the body off the LRU list.        *)
(* list.Remove of a nil element is a nil dereference; of an element that   *)
(* has already left the list it does nothing.                              *)
(***************************************************************************)
AcquireEntry(l) ==
  /\ count' = [count EXCEPT ![l] = @ + 1]
  /\ IF count[l] = 0
     THEN /\ inLRU' = inLRU - Tokens(l)
          /\ inUse' = inUse + Tokens(l)
          /\ lru' = Unlisted(l)
          /\ element' = element \ {l}
          /\ panicked' = (l \notin element)
     ELSE UNCHANGED <<inLRU, inUse, lru, element, panicked>>

\* Mutant: the tokens stay in use.
PushFrontInUse(l) ==
  /\ count' = [count EXCEPT ![l] = @ - 1]
  /\ element' = element \cup {l}
  /\ lru' = <<l>> \o lru
  /\ inLRU' = inLRU + Tokens(l)
  /\ UNCHANGED inUse

(***************************************************************************)
(* The last holder of a loaded body returns it to the LRU list.            *)
(***************************************************************************)
PushFront(l) ==
  /\ count' = [count EXCEPT ![l] = @ - 1]
  /\ element' = element \cup {l}
  /\ lru' = <<l>> \o lru
  /\ inLRU' = inLRU + Tokens(l)
  /\ inUse' = inUse - Tokens(l)

\* Cache.Acquire: a handle on the item, or a prepare that will load it.
Acquire(c) ==
  /\ pc[c] = "idle" /\ Unlocked
  /\ \E k \in Keys, ignore \in Limits :
       /\ want' = [want EXCEPT ![c] = [key |-> k, ignoreLimit |-> ignore]]
       /\ pc' = [pc EXCEPT ![c] = "held"]
       /\ \/ /\ items[k] = Absent
             /\ ref' = [ref EXCEPT ![c] = Prepare]
             /\ UNCHANGED <<lru, inLRU, inUse, count, element, panicked>>
          \/ /\ items[k] # Absent
             /\ ref' = [ref EXCEPT ![c] = items[k]]
             /\ AcquireEntry(items[k].load)
  /\ UNCHANGED <<mu, items, available, status, hash, cancelled, got>>

\* Get returns to the caller, which goes on to Release.
Returns(c, result) ==
  /\ pc' = [pc EXCEPT ![c] = "ready"]
  /\ got' = [got EXCEPT ![c] = result]

\* Mutant: loading.Get does not look at l.err.
GetUnchecked(c) ==
  /\ pc[c] = "held" /\ ~panicked
  /\ ref[c].kind = "entry" \/ (ref[c].kind = "loading" /\ IsDone(ref[c].load))
  /\ Returns(c, "data")
  /\ UNCHANGED <<cacheVars, ref, want>>

\* entry.Get, or loading.Get once done is closed.
GetLoaded(c) ==
  /\ pc[c] = "held" /\ ~panicked
  /\ \/ /\ ref[c].kind = "entry"
        /\ Returns(c, "data")
     \/ /\ ref[c].kind = "loading"
        /\ IsDone(ref[c].load)
        /\ Returns(c, IF status[ref[c].load] = "ok" THEN "data" ELSE "error")
  /\ UNCHANGED <<cacheVars, ref, want>>

\* loading.Get gives up because the caller's context is done.
GetCancelled(c) ==
  /\ Cancellable
  /\ pc[c] = "held" /\ ref[c].kind = "loading" /\ ~panicked
  /\ Returns(c, "error")
  /\ UNCHANGED <<cacheVars, ref, want>>

\* prepare.Get: loader.Size fails, before tryLoad is called.
SizeFails(c) ==
  /\ pc[c] = "held" /\ ref[c] = Prepare /\ ~panicked
  /\ Returns(c, "error")
  /\ UNCHANGED <<cacheVars, ref, want>>

\* Mutant: a load in flight is taken for a miss.
MissesPending(c) == items[want[c].key].kind # "entry"

\* tryLoad's own innerAcquire, made because time has passed since Acquire,
\* finds nothing.
Misses(c) == items[want[c].key] = Absent

\* Mutant: off by one.
HasRoomAndOne(c) ==
  want[c].ignoreLimit \/ available + inLRU + 1 >= Size[want[c].key]

\* An empty LRU list would leave room for the content.
HasRoom(c) ==
  want[c].ignoreLimit \/ available + inLRU >= Size[want[c].key]

\* tryLoad finds that another client has loaded, or is loading, the key.
TryLoadShared(c) ==
  /\ pc[c] = "held" /\ ref[c] = Prepare /\ Unlocked
  /\ ~Misses(c)
  /\ ref' = [ref EXCEPT ![c] = items[want[c].key]]
  /\ AcquireEntry(items[want[c].key].load)
  /\ UNCHANGED <<mu, items, available, status, hash, cancelled, pc, want, got>>

\* tryLoad gives up: even an empty LRU would not leave room.
TryLoadPressure(c) ==
  /\ pc[c] = "held" /\ ref[c] = Prepare /\ Unlocked
  /\ Misses(c) /\ ~HasRoom(c)
  /\ Returns(c, "error")
  /\ UNCHANGED <<cacheVars, ref, want>>

\* tryLoad goes on to make room; it keeps mu until StartLoad.
TryLoadBegin(c) ==
  /\ pc[c] = "held" /\ ref[c] = Prepare /\ Unlocked
  /\ Misses(c) /\ HasRoom(c)
  /\ \E l \in Loads : Reusable(l)            \* the bound on live loads
  /\ mu' = c
  /\ pc' = [pc EXCEPT ![c] = "evict"]
  /\ UNCHANGED <<items, lru, tokenVars, loadVars, panicked, ref, want, got>>

MustEvict(c) == available < Size[want[c].key] /\ lru # <<>>

\* One iteration of the eviction loop.  The list holds keys: the entry whose
\* tokens are returned is the one the map holds for that key, and the type
\* assertion panics if the map holds no *entry there.
EvictOne(c) ==
  /\ pc[c] = "evict" /\ ~panicked /\ MustEvict(c)
  /\ LET k == hash[lru[Len(lru)]]
         victim == items[k]
     IN  \/ /\ victim.kind = "entry"
            /\ available' = available + Tokens(victim.load)
            /\ inLRU' = inLRU - Tokens(victim.load)
            /\ items' = [items EXCEPT ![k] = Absent]
            /\ UNCHANGED panicked
         \/ /\ victim.kind # "entry"
            /\ panicked' = TRUE
            /\ UNCHANGED <<available, inLRU, items>>
  /\ lru' = SubSeq(lru, 1, Len(lru) - 1)
  /\ UNCHANGED <<mu, inUse, loadVars, clientVars>>

\* The rest of tryLoad: take the tokens, start the goroutine, publish it.
StartLoad(c) ==
  /\ pc[c] = "evict" /\ ~panicked /\ ~MustEvict(c)
  /\ LET l == CHOOSE x \in Loads : Reusable(x) IN
       /\ l \in Loads /\ Reusable(l)
       /\ status' = [status EXCEPT ![l] = "loading"]
       /\ hash' = [hash EXCEPT ![l] = want[c].key]
       /\ count' = [count EXCEPT ![l] = 1]
       /\ items' = [items EXCEPT ![want[c].key] = Loading(l)]
       /\ ref' = [ref EXCEPT ![c] = Loading(l)]
       /\ element' = element \ {l} /\ cancelled' = cancelled \ {l}
  /\ available' = available - Size[want[c].key]
  /\ inUse' = inUse + Size[want[c].key]
  /\ mu' = NoClient
  /\ pc' = [pc EXCEPT ![c] = "held"]
  /\ UNCHANGED <<lru, inLRU, panicked, want, got>>

\* Cache.finish after a successful load whose hash matched.
FinishOK(l) ==
  /\ status[l] = "loading" /\ Unlocked
  /\ ~(l \in cancelled /\ LoaderObeysCancel)
  /\ status' = [status EXCEPT ![l] = "ok"]
  /\ items' = IF count[l] > 0
              THEN [items EXCEPT ![hash[l]] = EntryOf(l)]
              ELSE items
  /\ UNCHANGED <<mu, lru, tokenVars, hash, count, element, cancelled, panicked,
                 clientVars>>

\* Cache.finish after a failed, cancelled or corrupt load.
FinishError(l) ==
  /\ status[l] = "loading" /\ Unlocked
  /\ status' = [status EXCEPT ![l] = "err"]
  /\ items' = [items EXCEPT ![hash[l]] = Absent]
  /\ inUse' = inUse - Tokens(l)
  /\ available' = available + Tokens(l)
  /\ UNCHANGED <<mu, lru, inLRU, hash, count, element, cancelled, panicked,
                 clientVars>>

\* The client is done with its handle.
Forget(c) ==
  /\ pc' = [pc EXCEPT ![c] = "idle"]
  /\ ref' = [ref EXCEPT ![c] = Absent]
  /\ got' = [got EXCEPT ![c] = "none"]
  /\ want' = [want EXCEPT ![c] = [key |-> NoKey, ignoreLimit |-> FALSE]]

\* Release of a prepare that never obtained an entry.
ReleasePrepare(c) ==
  /\ pc[c] = "ready" /\ ref[c] = Prepare /\ ~panicked
  /\ Forget(c)
  /\ UNCHANGED cacheVars

\* Release of a *loading or *entry.
ReleaseShared(c) ==
  /\ pc[c] = "ready" /\ ref[c].kind \in {"loading", "entry"} /\ Unlocked
  /\ count[ref[c].load] # 1
  /\ count' = [count EXCEPT ![ref[c].load] = @ - 1]
  /\ Forget(c)
  /\ UNCHANGED <<mu, items, lru, tokenVars, status, hash, element, cancelled,
                 panicked>>

\* The last holder releases a finished load: a body goes to the LRU, a
\* failed load has nothing left to return.
ReleaseLast(c) ==
  LET l == ref[c].load IN
  /\ pc[c] = "ready" /\ ref[c].kind \in {"loading", "entry"} /\ Unlocked
  /\ count[l] = 1
  /\ \/ /\ ref[c].kind = "entry" \/ status[l] = "ok"
        /\ PushFront(l)
     \/ /\ ref[c].kind = "loading" /\ status[l] = "err"
        /\ count' = [count EXCEPT ![l] = 0]
        /\ UNCHANGED <<lru, inLRU, inUse, element>>
  /\ Forget(c)
  /\ UNCHANGED <<mu, items, available, status, hash, cancelled, panicked>>

\* The last holder releases a load still in flight: cancel it, drop the
\* key from the map, and wait for the goroutine to finish.
ReleasePending(c) ==
  LET l == ref[c].load IN
  /\ pc[c] = "ready" /\ ref[c].kind = "loading" /\ Unlocked
  /\ count[l] = 1 /\ ~IsDone(l)
  /\ count' = [count EXCEPT ![l] = 0]
  /\ cancelled' = cancelled \cup {l}
  /\ items' = [items EXCEPT ![hash[l]] = Absent]
  /\ pc' = [pc EXCEPT ![c] = "drain"]
  /\ UNCHANGED <<mu, lru, tokenVars, status, hash, element, panicked, ref, want, got>>

\* <-e.done at the end of Release.
Drain(c) ==
  /\ pc[c] = "drain" /\ ~panicked
  /\ IsDone(ref[c].load)
  /\ Forget(c)
  /\ UNCHANGED cacheVars

TryLoad(c) ==
  \/ TryLoadShared(c) \/ TryLoadPressure(c) \/ TryLoadBegin(c)
  \/ EvictOne(c) \/ StartLoad(c)

Get(c) == GetLoaded(c) \/ GetCancelled(c) \/ SizeFails(c) \/ TryLoad(c)

Release(c) ==
  ReleasePrepare(c) \/ ReleaseShared(c) \/ ReleaseLast(c) \/ ReleasePending(c)

Finish(l) == FinishOK(l) \/ FinishError(l)

Next ==
  \/ \E c \in Clients : Acquire(c) \/ Get(c) \/ Release(c) \/ Drain(c)
  \/ \E l \in Loads : Finish(l)

Spec == Init /\ [][Next]_vars

(***************************************************************************)
(* Fairness.  A caller that holds a handle goes on to call Get and, by     *)
(* defer, Release; the storage answers or, once cancelled, the loader      *)
(* returns an error.  What needs Cache.mu is strongly fair: Go's mutex     *)
(* hands itself over to a waiter that has starved for a millisecond.       *)
(* Nothing makes a client Acquire, or its context end.                     *)
(***************************************************************************)
Fairness ==
  /\ \A c \in Clients :
       /\ WF_vars(GetLoaded(c))
       /\ WF_vars(EvictOne(c) \/ StartLoad(c))
       /\ WF_vars(Drain(c) \/ ReleasePrepare(c))
       /\ SF_vars(TryLoad(c))
       /\ SF_vars(Release(c))
  /\ \A l \in Loads : SF_vars(Finish(l))

FairSpec == Spec /\ Fairness

-----------------------------------------------------------------------------
(***************************************************************************)
(* Properties of every configuration.                                      *)
(***************************************************************************)
Handles == {Loading(l) : l \in Loads} \cup {EntryOf(l) : l \in Loads}

\* What each variable holds.  The counts and the three token counters are
\* only integers here: the properties below say which ones.
TypeOK ==
  /\ mu \in Clients \cup {NoClient}
  /\ items \in [Keys -> Handles \cup {Absent}]
  /\ lru \in Seq(Loads)
  /\ available \in Int /\ inLRU \in Int /\ inUse \in Int
  /\ status \in [Loads -> {"free", "loading", "ok", "err"}]
  /\ hash \in [Loads -> Keys \cup {NoKey}]
  /\ count \in [Loads -> Int]
  /\ element \subseteq Loads /\ cancelled \subseteq Loads
  /\ pc \in [Clients -> {"idle", "held", "evict", "ready", "drain"}]
  /\ ref \in [Clients -> Handles \cup {Absent, Prepare}]
  /\ want \in [Clients -> [key : Keys \cup {NoKey}, ignoreLimit : BOOLEAN]]
  /\ got \in [Clients -> {"none", "data", "error"}]
  /\ panicked \in BOOLEAN

\* Tokens are moved, never made or lost: the sum TestRacingLoad checks
\* (cache_test.go:77) stays the configured cache size after every step,
\* the iterations of an eviction included.
TokensConserved == available + inLRU + inUse = Capacity

HoldersOf(l) == {c \in Clients : ref[c].load = l /\ pc[c] \in {"held", "ready"}}

\* entry.count is the number of handles given out and not yet returned, as
\* the comment on entry.count says, through errors, cancellations, sharing
\* of one load by several prepares, and a body that was evicted and reloaded.
CountIsHandles ==
  \A l \in Loads : count[l] = Cardinality(HoldersOf(l))

\* Bytes are never pulled from under a reader: what a successful Get handed
\* out is still the body of the hash asked for until the reader's Release,
\* whatever other clients release, evict, cancel or fail meanwhile.
HeldBytes ==
  \A c \in Clients :
    pc[c] = "ready" /\ got[c] = "data" =>
      /\ status[ref[c].load] = "ok"
      /\ hash[ref[c].load] = want[c].key

\* No caller is stuck: each one that took a handle gets through Get and
\* Release, the wait for a cancelled load at the end of Release included.
\* (A panic stops everybody; NoPanic says when there is none.)
Served == \A c \in Clients : pc[c] # "idle" ~> (pc[c] = "idle" \/ panicked)

-----------------------------------------------------------------------------
(***************************************************************************)
(* Properties of patient callers: nobody's context ends during a load.     *)
(***************************************************************************)
SumSizes(S) == FoldSet(LAMBDA l, sum : sum + Tokens(l), 0, S)

Listed == {lru[i] : i \in DOMAIN lru}
Counted == {l \in Loads : count[l] > 0}

\* The counters mean what the comments on Cache say: inLRU the bytes with
\* count = 0, inUse those with count > 0, each load counted exactly once.
TokensAccounted ==
  /\ inLRU = SumSizes(Listed)
  /\ inUse = SumSizes(Counted)

\* A body in memory or on its way is found by the next Acquire of its key:
\* so a key is never loaded twice at a time nor kept twice.
HeldIsFound ==
  \A l \in Counted :
    status[l] \in {"loading", "ok"} => items[hash[l]].load = l

\* Whatever waits on the LRU list is an idle, loaded entry the map still
\* has, listed once: what tryLoad's type assertion (cache.go:101) takes for
\* granted when it evicts by key.
LRUEvictable ==
  /\ Cardinality(Listed) = Len(lru)
  /\ \A l \in Listed :
       /\ items[hash[l]] = EntryOf(l)
       /\ status[l] = "ok" /\ count[l] = 0 /\ l \in element

\* No nil dereference in entry.acquire and no failure of tryLoad's type
\* assertion (cache.go:101): a request does not take the server down.  It is
\* also what a cancelled load, whose late error drops a newer mapping, breaks.
NoPanic == ~panicked

\* When no caller ignores the limit, the bodies fit in cache_size.
WithinCapacity == Limits = {FALSE} => available >= 0 /\ inLRU >= 0 /\ inUse >= 0

\* Cancelled loads can leave inUse too large: a load that succeeds after its
\* last handle was released stays counted for ever (cache.go:188), though
\* cache.go:42 comments inUse as "count>0".  It is never too small: what the
\* clients hold or load is covered by tokens in use.
InUseCovers == inUse >= SumSizes(Counted)
=============================================================================
