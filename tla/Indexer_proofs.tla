--------------------------- MODULE Indexer_proofs ---------------------------
(***************************************************************************)
(* Whatever jobs die where and whatever calls they leave behind: a shard   *)
(* that is complete in the manifest is complete in storage, and a ref      *)
(* serves the tree of its commit.                                          *)
(***************************************************************************)
EXTENDS Indexer, Manifest_proofs

Done(id) == manifest.state[id] \in {"UNREFERENCED", "REFERENCED"}

\* Storage holds both files of the shard, built from tree t.
Holds(id, t) ==
  file[id] = t /\ raw[id] = IF t \in NoFiles THEN "absent" ELSE t

\* An id that is not in the manifest has never been written to.
Fresh ==
  \A id \in ShardIDs :
    ~Exists(manifest, id) => file[id] = "absent" /\ raw[id] = "absent"

\* The manifest and storage agree.
StoresInv == Sound(manifest) /\ CompletedIsStored /\ Fresh /\ RefServesItsCommit

\* Where a job owns the shard it has allocated.
Owning == {"write", "writing", "raw", "raw writing", "complete"}

\* The shard of an owner is still being created, and its files are as far as
\* the job is.
Owns(j) ==
  /\ shard[j] \in ShardIDs /\ manifest.state[shard[j]] = "CREATING"
  /\ pc[j] \in {"write", "writing", "raw"} => raw[shard[j]] = "absent"
  /\ pc[j] \in {"raw", "raw writing"} => file[shard[j]] = Tree(j) /\ Tree(j) \notin NoFiles
  /\ pc[j] = "complete" => Holds(shard[j], Tree(j))

Owners == \A j \in Jobs : pc[j] \in Owning => Owns(j)

\* Nobody else writes to it, and no late call completes it.
Alone ==
  \A j, k \in Jobs :
    pc[j] \in Owning /\ pc[k] \in Owning /\ shard[j] = shard[k] => j = k

Completable(q) ==
  /\ q.id \in ShardIDs /\ Exists(manifest, q.id)
  /\ Holds(q.id, q.tree) /\ q.sum = SumOf[q.tree]
  /\ \A j \in Jobs : pc[j] \in Owning => shard[j] # q.id

LateCompletions == \A q \in sent : q.op = "complete" => Completable(q)

\* A ref is only ever set to a shard with the tree of the commit.
Updates ==
  \A j \in Jobs :
    pc[j] = "update" => shard[j] \in ShardIDs /\ manifest.tree[shard[j]] = Tree(j)

LateUpdates ==
  \A q \in sent :
    q.op = "update" => q.id \in ShardIDs /\ manifest.tree[q.id] = TreeOf[q.commit]

Heads == \A j \in Jobs : pc[j] # "idle" => head[j] \in Commits

\* Jobs never set a default ref.
Senders == \A q \in sent : q.op # "setDefault"

JobsInv ==
  Owners /\ Alone /\ LateCompletions /\ Updates /\ LateUpdates /\ Heads /\ Senders

IInv == TypeOK /\ StoresInv /\ JobsInv

-----------------------------------------------------------------------------
\* The tree a job builds is one.
LEMMA TreeOfJob ==
  ASSUME IInv, NEW j \in Jobs, pc[j] # "idle"
  PROVE  head[j] \in Commits /\ Tree(j) \in Trees /\ SumOf[Tree(j)] \in Sums
BY IndexerAssumption DEF IInv, JobsInv, Heads, Tree

\* A job is a place.
LEMMA JobPlace ==
  ASSUME NEW j \in Jobs
  PROVE  j \in Places /\ j[1] \in Repos /\ j[2] \in Refs /\ <<j[1], j[2]>> = j
BY IndexerAssumption DEF Places

\* The calls of the jobs, and what those that are accepted make of the manifest.
LEMMA AllocationAllocates ==
  ASSUME Sound(manifest), NEW d \in Drawn(Allocation, manifest),
         manifest' = Result(d, manifest)
  PROVE  d.id \in ShardIDs /\ ~Exists(manifest, d.id) /\ Allocated(manifest, manifest', d.id)
<1>1. PICK i \in ShardIDs : ~Exists(manifest, i) /\ d = [op |-> "allocate", id |-> i]
  BY DEF Drawn, Allocation
<1>2. manifest' = WithShard(manifest, i, "CREATING", NoTree, NoSum)
  BY <1>1 DEF Result
<1> QED
  BY <1>1, <1>2, AllocateEffect

LEMMA CompletionCompletes ==
  ASSUME Sound(manifest), NEW i \in ShardIDs, NEW t \in Trees, NEW x \in Sums,
         NEW d, d = [op |-> "complete", id |-> i, tree |-> t, sum |-> x],
         Accepts(d, manifest), manifest' = Result(d, manifest)
  PROVE  Completed(manifest, manifest', i, t, x)
<1>1. Can(manifest.state[i], "CREATED")
  BY DEF Accepts
<1>2. manifest' = WithShard(manifest, i, "UNREFERENCED", t, x)
  BY DEF Result
<1> QED
  BY <1>1, <1>2, CompleteEffect

LEMMA UpdateSets ==
  ASSUME Sound(manifest), NEW i \in ShardIDs, NEW r \in Repos, NEW f \in Refs,
         NEW c \in Commits,
         NEW d, d = [op |-> "update", id |-> i, repo |-> r, ref |-> f, commit |-> c],
         Accepts(d, manifest), manifest' = Result(d, manifest)
  PROVE  RefSet(manifest, manifest', <<r, f>>, i, c)
<1>1. Exists(manifest, i) /\ Reconciles(Repointed(manifest, d))
  BY DEF Accepts
<1>2. manifest' = Reconciled(Repointed(manifest, d))
  BY DEF Result
<1> QED
  BY <1>1, <1>2, UpdateEffect

-----------------------------------------------------------------------------
(***************************************************************************)
(* The manifest and storage go on agreeing.                                *)
(***************************************************************************)
LEMMA AllocateStores ==
  ASSUME StoresInv, NEW i \in ShardIDs, ~Exists(manifest, i),
         Allocated(manifest, manifest', i), UNCHANGED <<file, raw>>
  PROVE  StoresInv'
<1>1. CompletedIsStored'
  BY DEF StoresInv, CompletedIsStored, Allocated
<1>2. Fresh'
  BY DEF StoresInv, Fresh, Allocated, Exists
<1>3. RefServesItsCommit'
  <2>1. manifest.shard \in [Places -> ShardIDs \cup {NoShard}]
    BY DEF StoresInv, Sound, Manifests
  <2> QED
    BY <2>1 DEF StoresInv, RefServesItsCommit, Allocated
<1> QED
  BY <1>1, <1>2, <1>3 DEF StoresInv, Allocated

LEMMA CompleteStores ==
  ASSUME StoresInv, NEW i \in ShardIDs, NEW t,
         Completed(manifest, manifest', i, t, SumOf[t]), Holds(i, t), UNCHANGED <<file, raw>>
  PROVE  StoresInv'
<1>1. CompletedIsStored'
  BY DEF StoresInv, CompletedIsStored, Completed, Holds
<1>2. Fresh'
  BY DEF StoresInv, Fresh, Completed, Exists
<1>3. RefServesItsCommit'
  <2>1. ASSUME NEW p \in Places, manifest.shard[p] # NoShard
        PROVE  manifest.shard[p] \in ShardIDs \ {i}
    <3>1. manifest.shard[p] \in ShardIDs /\ manifest.shard[p] \in InUse(manifest)
      BY <2>1 DEF StoresInv, Sound, Manifests, InUse
    <3> QED
      BY <3>1 DEF StoresInv, Sound, Served, Completed
  <2> QED
    BY <2>1 DEF StoresInv, RefServesItsCommit, Completed
<1> QED
  BY <1>1, <1>2, <1>3 DEF StoresInv, Completed

LEMMA SetStores ==
  ASSUME StoresInv, NEW p \in Places, NEW i \in ShardIDs, NEW c \in Commits,
         RefSet(manifest, manifest', p, i, c), manifest.tree[i] = TreeOf[c], UNCHANGED <<file, raw>>
  PROVE  StoresInv'
<1>1. CompletedIsStored'
  BY DEF StoresInv, CompletedIsStored, RefSet
<1>2. Fresh'
  BY DEF StoresInv, Fresh, RefSet, Exists
<1>3. RefServesItsCommit'
  BY ManifestAssumption DEF StoresInv, RefServesItsCommit, RefSet
<1> QED
  BY <1>1, <1>2, <1>3 DEF StoresInv, RefSet

-----------------------------------------------------------------------------
(***************************************************************************)
(* The steps of a job.                                                     *)
(***************************************************************************)
LEMMA InitIInv == Init => IInv
<1> SUFFICES ASSUME Init PROVE IInv
  OBVIOUS
<1>1. Sound(manifest) /\ \A id \in ShardIDs : manifest.state[id] = ""
  BY EmptySound DEF Init, EmptyManifest
<1>2. \A p \in Places : manifest.shard[p] = NoShard
  BY DEF Init, EmptyManifest
<1>3. TypeOK
  <2>1. manifest \in Manifests /\ sent \subseteq Requests
    BY <1>1 DEF Init, Sound
  <2>2. file \in [ShardIDs -> Contents] /\ raw \in [ShardIDs -> Contents]
    BY DEF Init, Contents
  <2>3. remote \in [Jobs -> Commits] /\ pc \in [Jobs -> Where]
    BY DEF Init, Where
  <2>4. /\ head \in [Jobs -> Commits \cup {NoCommit}]
        /\ shard \in [Jobs -> ShardIDs \cup {NoShard}]
    BY DEF Init
  <2>5. trouble \in 0..MaxTrouble
    BY IndexerAssumption DEF Init
  <2> QED
    BY <2>1, <2>2, <2>3, <2>4, <2>5 DEF TypeOK
<1>4. StoresInv
  BY <1>1, <1>2 DEF Init, StoresInv, CompletedIsStored, Fresh, RefServesItsCommit
<1>5. JobsInv
  BY DEF Init, JobsInv, Owners, Owning, Alone, LateCompletions, Updates, LateUpdates,
         Heads, Senders
<1> QED
  BY <1>3, <1>4, <1>5 DEF IInv

\* One more trouble, within the bound.
LEMMA Bounded ==
  ASSUME trouble \in 0..MaxTrouble, trouble < MaxTrouble
  PROVE  trouble + 1 \in 0..MaxTrouble
BY IndexerAssumption

\* The jobs other than j stay where they are.
Others(j) ==
  \A k \in Jobs \ {j} : pc'[k] = pc[k] /\ head'[k] = head[k] /\ shard'[k] = shard[k]

\* A job that has no shard and no ref to set, before and after the step, or
\* that has found a shard.
LEMMA QuietStep ==
  ASSUME IInv, NEW j \in Jobs,
         Push(j) \/ Start(j) \/ StartForced(j) \/ CheckRef(j) \/ Search(j)
  PROVE  IInv'
<1>1. TypeOK'
  <2>1. CASE Push(j)
    BY <2>1 DEF IInv, TypeOK, Push, stores
  <2>2. CASE Start(j) \/ StartForced(j)
    <3>1. trouble' \in 0..MaxTrouble
      BY <2>2, Bounded DEF IInv, TypeOK, Start, StartForced, others
    <3>2. /\ head' \in [Jobs -> Commits \cup {NoCommit}] /\ pc' \in [Jobs -> Where]
          /\ UNCHANGED <<manifest, file, raw, remote, shard, sent>>
      BY <2>2 DEF IInv, TypeOK, Start, StartForced, stores, others, Go, Where
    <3> QED
      BY <3>1, <3>2 DEF IInv, TypeOK
  <2>3. CASE CheckRef(j)
    BY <2>3 DEF IInv, TypeOK, CheckRef, stores, others, Go, Where
  <2>4. CASE Search(j)
    BY <2>4 DEF IInv, TypeOK, Search, Found, stores, others, Go, Where
  <2> QED
    BY <2>1, <2>2, <2>3, <2>4
<1>2. UNCHANGED <<manifest, file, raw, sent>>
  BY DEF Push, Start, StartForced, CheckRef, Search, stores, others
<1>3. StoresInv'
  BY <1>2 DEF IInv, StoresInv, CompletedIsStored, Fresh, RefServesItsCommit
<1>4. /\ Others(j)
      /\ \/ pc'[j] = pc[j] /\ head'[j] = head[j] /\ shard'[j] = shard[j]
         \/ pc'[j] \in {"idle", "check", "search", "allocate"} /\ head'[j] \in Commits
         \/ /\ pc'[j] = "update" /\ shard'[j] \in Found(Tree(j))
            /\ head'[j] = head[j] /\ head[j] \in Commits
  <2>1. CASE Push(j)
    BY <2>1 DEF Push, Others
  <2>2. CASE Start(j) \/ StartForced(j)
    BY <2>2 DEF IInv, TypeOK, Start, StartForced, stores, others, Go, Others
  <2>3. CASE CheckRef(j)
    BY <2>3 DEF IInv, JobsInv, Heads, TypeOK, CheckRef, stores, others, Go, Others
  <2>4. CASE Search(j)
    BY <2>4 DEF IInv, JobsInv, Heads, TypeOK, Search, stores, others, Go, Others
  <2> QED
    BY <2>1, <2>2, <2>3, <2>4
<1>5. \A k \in Jobs :
        pc'[k] \in Owning => pc[k] = pc'[k] /\ head'[k] = head[k] /\ shard'[k] = shard[k]
  BY <1>4 DEF Others, Owning
<1>6. Owners' /\ Alone' /\ LateCompletions'
  <2>1. Owners'
    <3> SUFFICES ASSUME NEW k \in Jobs, (pc[k] \in Owning)' PROVE Owns(k)'
      BY DEF Owners
    <3>1. Owns(k) /\ pc[k] = pc'[k] /\ head'[k] = head[k] /\ shard'[k] = shard[k]
      BY <1>5 DEF IInv, JobsInv, Owners, Owning
    <3> QED
      BY <1>2, <3>1 DEF Owns, Holds, Tree
  <2>2. Alone'
    BY <1>5 DEF IInv, JobsInv, Alone
  <2>3. LateCompletions'
    <3> SUFFICES ASSUME NEW q \in sent, q.op = "complete" PROVE Completable(q)'
      BY <1>2 DEF LateCompletions
    <3>1. Completable(q)
      BY DEF IInv, JobsInv, LateCompletions
    <3> QED
      BY <1>2, <1>5, <3>1 DEF Completable, Holds, Exists, Owning
  <2> QED
    BY <2>1, <2>2, <2>3
<1>7. Updates'
  BY <1>2, <1>4 DEF IInv, JobsInv, Updates, Others, Tree, Found
<1>8. LateUpdates' /\ Heads' /\ Senders'
  BY <1>2, <1>4 DEF IInv, JobsInv, LateUpdates, Heads, Others, Senders
<1> QED
  BY <1>1, <1>3, <1>6, <1>7, <1>8 DEF IInv, JobsInv

\* A job that goes home without having done anything leaves things in order,
\* and so does a call that is lost.
LEMMA GivesUp ==
  ASSUME IInv, TypeOK', UNCHANGED <<manifest, file, raw, head, shard>>,
         \A k \in Jobs : pc'[k] = pc[k] \/ pc'[k] = "idle",
         sent' \subseteq sent
  PROVE  IInv'
<1>1. StoresInv'
  BY DEF IInv, StoresInv, CompletedIsStored, Fresh, RefServesItsCommit
<1>2. Owners'
  BY DEF IInv, JobsInv, Owners, Owns, Owning, Holds, Tree
<1>3. Alone'
  BY DEF IInv, JobsInv, Alone, Owning
<1>4. LateCompletions'
  <2> SUFFICES ASSUME NEW q \in sent, q.op = "complete" PROVE Completable(q)'
    BY DEF LateCompletions
  <2>1. Completable(q)
    BY DEF IInv, JobsInv, LateCompletions
  <2> QED
    BY <2>1 DEF Completable, Holds, Exists, Owning
<1>5. Updates' /\ LateUpdates' /\ Heads' /\ Senders'
  BY DEF IInv, JobsInv, Updates, LateUpdates, Heads, Senders, Tree
<1> QED
  BY <1>1, <1>2, <1>3, <1>4, <1>5 DEF IInv, JobsInv

\* A job takes a new shard into its possession.
LEMMA AllocateStep ==
  ASSUME IInv, NEW j \in Jobs, Allocate(j)
  PROVE  IInv'
<1>1. UNCHANGED <<file, raw, head, remote, sent, trouble>> /\ pc[j] = "allocate"
  BY DEF Allocate, others
<1>2. CASE Go(j, "idle") /\ UNCHANGED <<manifest, shard>>
  <2>1. TypeOK' /\ \A k \in Jobs : pc'[k] = pc[k] \/ pc'[k] = "idle"
    BY <1>1, <1>2 DEF IInv, TypeOK, Go, Where
  <2> QED
    BY <1>1, <1>2, <2>1, GivesUp
<1>3. ASSUME NEW d \in Drawn(Allocation, manifest), manifest' = Result(d, manifest),
             shard' = [shard EXCEPT ![j] = d.id], Go(j, "write")
      PROVE  IInv'
  <2>1. /\ d.id \in ShardIDs /\ ~Exists(manifest, d.id)
        /\ Allocated(manifest, manifest', d.id)
    BY <1>3, AllocationAllocates DEF IInv, StoresInv
  <2>2. Others(j) /\ pc'[j] = "write" /\ shard'[j] = d.id /\ head'[j] = head[j]
    BY <1>1, <1>3 DEF IInv, TypeOK, Go, Others
  <2>3. StoresInv'
    BY <1>1, <2>1, AllocateStores DEF IInv
  <2>4. TypeOK'
    BY <1>1, <1>3, <2>1 DEF IInv, TypeOK, Go, Where, Allocated, Sound
  <2>5. /\ \A k \in Jobs \ {j} : pc[k] \in Owning => shard[k] # d.id
        /\ \A q \in sent : q.op = "complete" => q.id # d.id
    BY <2>1 DEF IInv, JobsInv, Owners, Owns, LateCompletions, Completable, Exists
  <2>6. Owners'
    <3>1. Owns(j)'
      BY <1>1, <2>1, <2>2 DEF IInv, StoresInv, Fresh, Allocated, Owns
    <3>2. ASSUME NEW k \in Jobs \ {j}, (pc[k] \in Owning)'
          PROVE  Owns(k)'
      <4>1. Owns(k) /\ pc'[k] = pc[k] /\ head'[k] = head[k] /\ shard'[k] = shard[k]
        BY <2>2, <3>2 DEF IInv, JobsInv, Owners, Others, Owning
      <4>2. shard[k] \in ShardIDs \ {d.id}
        BY <2>5, <3>2, <4>1 DEF Owns, Owning
      <4> QED
        BY <1>1, <2>1, <4>1, <4>2 DEF Owns, Allocated, Holds, Tree
    <3> QED
      BY <3>1, <3>2 DEF Owners
  <2>7. Alone'
    <3> SUFFICES ASSUME NEW k \in Jobs, NEW l \in Jobs, k # l, (pc[k] \in Owning)',
                        (pc[l] \in Owning)'
                 PROVE  shard'[k] # shard'[l]
      BY DEF Alone
    <3>1. CASE k # j /\ l # j
      BY <2>2, <3>1 DEF IInv, JobsInv, Alone, Others, Owning
    <3>2. CASE k = j
      BY <2>2, <2>5, <3>2 DEF Others, Owning
    <3>3. CASE l = j
      BY <2>2, <2>5, <3>3 DEF Others, Owning
    <3> QED
      BY <3>1, <3>2, <3>3
  <2>8. LateCompletions'
    <3> SUFFICES ASSUME NEW q \in sent, q.op = "complete" PROVE Completable(q)'
      BY <1>1 DEF LateCompletions
    <3>1. Completable(q)
      BY DEF IInv, JobsInv, LateCompletions
    <3>2. Exists(manifest', q.id)
      BY <2>1, <3>1 DEF Completable, Allocated, Exists
    <3>3. \A k \in Jobs : (pc[k] \in Owning)' => shard'[k] # q.id
      BY <2>2, <2>5, <3>1 DEF Completable, Others, Owning
    <3> QED
      BY <1>1, <3>1, <3>2, <3>3 DEF Completable, Holds
  <2>9. Updates'
    BY <1>1, <2>1, <2>2 DEF IInv, JobsInv, Updates, Others, Allocated, Tree
  <2>10. LateUpdates' /\ Heads' /\ Senders'
    BY <1>1, <2>1, <2>2 DEF IInv, JobsInv, LateUpdates, Heads, Senders, Others, Allocated
  <2> QED
    BY <2>3, <2>4, <2>6, <2>7, <2>8, <2>9, <2>10 DEF IInv, JobsInv
<1> QED
  BY <1>2, <1>3 DEF Allocate

\* A job writes to the shard that is its own.
LEMMA WriteStep ==
  ASSUME IInv, NEW j \in Jobs,
         WriteOpens(j) \/ WriteEnds(j) \/ RawOpens(j) \/ RawEnds(j)
  PROVE  IInv'
<1>1. /\ UNCHANGED <<manifest, head, shard, remote, sent, trouble>>
      /\ pc[j] \in Owning
  BY DEF WriteOpens, WriteEnds, RawOpens, RawEnds, others, Owning
<1>2. Owns(j) /\ head[j] \in Commits /\ Tree(j) \in Trees
  BY <1>1, TreeOfJob DEF IInv, JobsInv, Owners, Owning
<1>3. pc' \in [Jobs -> Where] /\ Others(j) /\ pc'[j] \in Owning
  BY <1>1 DEF IInv, TypeOK, WriteOpens, WriteEnds, RawOpens, RawEnds, Go, Where, Others, Owning
<1>4. file' \in [ShardIDs -> Contents] /\ raw' \in [ShardIDs -> Contents]
  BY <1>2 DEF IInv, TypeOK, WriteOpens, WriteEnds, RawOpens, RawEnds, Contents
<1>5. \A y \in ShardIDs \ {shard[j]} : file'[y] = file[y] /\ raw'[y] = raw[y]
  BY DEF IInv, TypeOK, WriteOpens, WriteEnds, RawOpens, RawEnds
<1>6. TypeOK'
  BY <1>1, <1>3, <1>4 DEF IInv, TypeOK
<1>7. StoresInv'
  <2>1. shard[j] \in ShardIDs /\ manifest.state[shard[j]] = "CREATING"
    BY <1>2 DEF Owns
  <2>2. CompletedIsStored'
    BY <1>1, <1>5, <2>1 DEF IInv, StoresInv, CompletedIsStored
  <2>3. Fresh'
    BY <1>1, <1>5, <2>1 DEF IInv, StoresInv, Fresh, Exists
  <2> QED
    BY <1>1, <2>2, <2>3 DEF IInv, StoresInv, RefServesItsCommit
<1>8. Owns(j)'
  <2>1. CASE WriteOpens(j)
    BY <1>1, <1>2, <2>1 DEF IInv, TypeOK, WriteOpens, Go, Owns, Holds, Tree
  <2>2. CASE WriteEnds(j)
    BY <1>1, <1>2, <2>2 DEF IInv, TypeOK, WriteEnds, Go, Owns, Holds, Tree
  <2>3. CASE RawOpens(j)
    BY <1>1, <1>2, <2>3 DEF IInv, TypeOK, RawOpens, Go, Owns, Holds, Tree
  <2>4. CASE RawEnds(j)
    BY <1>1, <1>2, <2>4 DEF IInv, TypeOK, RawEnds, Go, Owns, Holds, Tree
  <2> QED
    BY <2>1, <2>2, <2>3, <2>4
<1>9. Owners'
  <2> SUFFICES ASSUME NEW k \in Jobs \ {j}, (pc[k] \in Owning)' PROVE Owns(k)'
    BY <1>8 DEF Owners
  <2>1. Owns(k) /\ pc'[k] = pc[k] /\ head'[k] = head[k] /\ shard'[k] = shard[k]
    BY <1>3 DEF IInv, JobsInv, Owners, Others, Owning
  <2>2. shard[k] \in ShardIDs \ {shard[j]}
    BY <1>1, <2>1 DEF IInv, JobsInv, Alone, Owns, Owning
  <2> QED
    BY <1>1, <1>5, <2>1, <2>2 DEF Owns, Holds, Tree
<1>10. Alone'
  BY <1>1, <1>3 DEF IInv, JobsInv, Alone, Others, Owning
<1>11. LateCompletions'
  <2> SUFFICES ASSUME NEW q \in sent, q.op = "complete" PROVE Completable(q)'
    BY <1>1 DEF LateCompletions
  <2>1. Completable(q) /\ q.id \in ShardIDs \ {shard[j]}
    BY <1>1 DEF IInv, JobsInv, LateCompletions, Completable
  <2>2. \A k \in Jobs : (pc[k] \in Owning)' => shard'[k] # q.id
    BY <1>1, <1>3, <2>1 DEF Completable, Others, Owning
  <2> QED
    BY <1>1, <1>5, <2>1, <2>2 DEF Completable, Holds, Exists
<1>12. Updates' /\ LateUpdates'
  BY <1>1, <1>3 DEF IInv, JobsInv, Updates, LateUpdates, Others, Owning, Tree
<1>13. Heads' /\ Senders'
  BY <1>1, <1>2, <1>3 DEF IInv, JobsInv, Heads, Senders, Others
<1> QED
  BY <1>6, <1>7, <1>9, <1>10, <1>11, <1>12, <1>13 DEF IInv, JobsInv

\* The shards of the other jobs when job j, or the late call of a dead one,
\* completes shard i.
LEMMA CompletedJobs ==
  ASSUME IInv, NEW i \in ShardIDs, NEW t \in Trees, NEW x,
         Completed(manifest, manifest', i, t, x), UNCHANGED <<file, raw, head, shard>>,
         \A k \in Jobs : pc'[k] = pc[k] \/ pc'[k] \in {"idle", "update"},
         \A k \in Jobs : pc'[k] \in Owning => shard[k] # i,
         sent' \subseteq sent
  PROVE  /\ Owners' /\ Alone' /\ LateCompletions' /\ LateUpdates' /\ Senders'
         /\ \A k \in Jobs : pc[k] = "update" => manifest'.tree[shard[k]] = Tree(k)
<1>1. \A k \in Jobs : (pc[k] \in Owning)' => pc'[k] = pc[k] /\ pc[k] \in Owning /\ shard[k] # i
  BY DEF Owning
<1>2. \A y \in ShardIDs : Exists(manifest, y) => Exists(manifest', y)
  BY DEF Completed, Exists
<1>3. Owners'
  <2> SUFFICES ASSUME NEW k \in Jobs, (pc[k] \in Owning)' PROVE Owns(k)'
    BY DEF Owners
  <2>1. Owns(k) /\ pc'[k] = pc[k] /\ shard[k] # i
    BY <1>1 DEF IInv, JobsInv, Owners
  <2> QED
    BY <2>1 DEF Owns, Completed, Holds, Tree
<1>4. Alone'
  BY <1>1 DEF IInv, JobsInv, Alone
<1>5. LateCompletions'
  <2> SUFFICES ASSUME NEW q \in sent, q.op = "complete" PROVE Completable(q)'
    BY DEF LateCompletions
  <2>1. Completable(q)
    BY DEF IInv, JobsInv, LateCompletions
  <2> QED
    BY <1>1, <1>2, <2>1 DEF Completable, Holds
<1>6. \A y \in ShardIDs \ {i} : manifest'.tree[y] = manifest.tree[y]
  BY DEF Completed
<1>7. manifest.tree[i] = NoTree
  BY DEF IInv, StoresInv, Sound, Described, Whole, Completed
<1>8. LateUpdates'
  <2> SUFFICES ASSUME NEW q \in sent, q.op = "update"
               PROVE  q.id \in ShardIDs /\ manifest'.tree[q.id] = TreeOf[q.commit]
    BY DEF LateUpdates
  <2>1. q.id \in ShardIDs /\ manifest.tree[q.id] = TreeOf[q.commit] /\ q.commit \in Commits
    BY DEF IInv, TypeOK, Requests, JobsInv, LateUpdates
  <2>2. q.id # i
    BY <1>7, <2>1, ManifestAssumption, IndexerAssumption
  <2> QED
    BY <1>6, <2>1, <2>2
<1>9. Senders'
  BY DEF IInv, JobsInv, Senders
<1>10. ASSUME NEW k \in Jobs, pc[k] = "update"
       PROVE  manifest'.tree[shard[k]] = Tree(k)
  <2>1. Tree(k) \in Trees
    BY <1>10, TreeOfJob
  <2>2. shard[k] \in ShardIDs /\ manifest.tree[shard[k]] = Tree(k)
    BY <1>10 DEF IInv, JobsInv, Updates
  <2> QED
    BY <1>6, <1>7, <2>1, <2>2, ManifestAssumption
<1> QED
  BY <1>3, <1>4, <1>5, <1>8, <1>9, <1>10

\* The same when a ref is set.
LEMMA RefSetJobs ==
  ASSUME IInv, NEW p \in Places, NEW i \in ShardIDs, NEW c \in Commits,
         RefSet(manifest, manifest', p, i, c), UNCHANGED <<file, raw, head, shard>>,
         \A k \in Jobs : pc'[k] = pc[k] \/ pc'[k] = "idle",
         sent' \subseteq sent
  PROVE  JobsInv'
<1>1. \A y \in ShardIDs :
        /\ manifest.state[y] = "CREATING" => manifest'.state[y] = "CREATING"
        /\ Exists(manifest, y) => Exists(manifest', y)
        /\ manifest'.tree[y] = manifest.tree[y]
  BY DEF RefSet, Exists
<1>2. Owners'
  <2> SUFFICES ASSUME NEW k \in Jobs, (pc[k] \in Owning)' PROVE Owns(k)'
    BY DEF Owners
  <2>1. Owns(k) /\ pc'[k] = pc[k]
    BY DEF IInv, JobsInv, Owners, Owning
  <2> QED
    BY <1>1, <2>1 DEF Owns, Holds, Tree
<1>3. Alone'
  BY DEF IInv, JobsInv, Alone, Owning
<1>4. LateCompletions'
  <2> SUFFICES ASSUME NEW q \in sent, q.op = "complete" PROVE Completable(q)'
    BY DEF LateCompletions
  <2>1. Completable(q)
    BY DEF IInv, JobsInv, LateCompletions
  <2> QED
    BY <1>1, <2>1 DEF Completable, Holds, Owning
<1>5. Updates' /\ LateUpdates'
  BY <1>1 DEF IInv, JobsInv, Updates, LateUpdates, Tree
<1>6. Heads' /\ Senders'
  BY DEF IInv, JobsInv, Heads, Senders
<1> QED
  BY <1>2, <1>3, <1>4, <1>5, <1>6 DEF JobsInv

\* CompleteShard describes the shard as it has been written.
LEMMA CompleteStep ==
  ASSUME IInv, NEW j \in Jobs, Complete(j)
  PROVE  IInv'
<1>1. UNCHANGED <<file, raw, head, shard, remote, sent, trouble>> /\ pc[j] = "complete"
  BY DEF Complete, others
<1>2. Owns(j) /\ head[j] \in Commits /\ Tree(j) \in Trees /\ SumOf[Tree(j)] \in Sums
  BY <1>1, TreeOfJob DEF IInv, JobsInv, Owners, Owning
<1>3. CASE UNCHANGED manifest /\ Go(j, "idle")
  <2>1. TypeOK' /\ \A k \in Jobs : pc'[k] = pc[k] \/ pc'[k] = "idle"
    BY <1>1, <1>3 DEF IInv, TypeOK, Go, Where
  <2> QED
    BY <1>1, <1>3, <2>1, GivesUp
<1>4. CASE /\ Accepts(Completion(j), manifest)
           /\ manifest' = Result(Completion(j), manifest)
           /\ Go(j, "update")
  <2> DEFINE t == Tree(j)
             i == shard[j]
  <2>1. i \in ShardIDs /\ Holds(i, t)
    BY <1>1, <1>2 DEF Owns
  <2>2. Completed(manifest, manifest', i, t, SumOf[t])
    BY <1>2, <1>4, <2>1, CompletionCompletes DEF Completion, IInv, StoresInv
  <2>3. pc' \in [Jobs -> Where] /\ Others(j) /\ pc'[j] = "update"
    BY <1>1, <1>4 DEF IInv, TypeOK, Go, Where, Others
  <2>4. \A k \in Jobs : pc'[k] \in Owning => shard[k] # i
    BY <1>1, <2>3 DEF IInv, JobsInv, Alone, Others, Owning
  <2>5. StoresInv'
    BY <1>1, <2>1, <2>2, CompleteStores DEF IInv
  <2>6. TypeOK'
    BY <1>1, <2>2, <2>3 DEF IInv, TypeOK, Completed, Sound
  <2>7. \A k \in Jobs : pc'[k] = pc[k] \/ pc'[k] \in {"idle", "update"}
    BY <2>3 DEF Others
  <2>8. /\ Owners' /\ Alone' /\ LateCompletions' /\ LateUpdates' /\ Senders'
        /\ \A k \in Jobs : pc[k] = "update" => manifest'.tree[shard[k]] = Tree(k)
    <3> HIDE DEF t, i
    <3>1. t \in Trees
      BY <1>2 DEF t
    <3> QED
      BY <1>1, <2>1, <2>2, <2>4, <2>7, <3>1, CompletedJobs
  <2>9. manifest'.tree[i] = t
    BY <2>2 DEF Completed
  <2>10. Updates'
    BY <1>1, <2>1, <2>3, <2>8, <2>9 DEF IInv, JobsInv, Updates, Others, Tree
  <2>11. Heads'
    BY <1>1, <1>2, <2>3 DEF IInv, JobsInv, Heads, Others
  <2> QED
    BY <2>5, <2>6, <2>8, <2>10, <2>11 DEF IInv, JobsInv
<1> QED
  BY <1>3, <1>4 DEF Complete

\* UpdateRepoShard points the ref to a shard with its tree.
LEMMA UpdateStep ==
  ASSUME IInv, NEW j \in Jobs, UpdateRef(j)
  PROVE  IInv'
<1>1. UNCHANGED <<file, raw, head, shard, remote, sent, trouble>> /\ pc[j] = "update"
  BY DEF UpdateRef, others
<1>2. pc' \in [Jobs -> Where] /\ \A k \in Jobs : pc'[k] = pc[k] \/ pc'[k] = "idle"
  BY DEF UpdateRef, IInv, TypeOK, Go, Where
<1>3. CASE UNCHANGED manifest
  <2>1. TypeOK'
    BY <1>1, <1>2, <1>3 DEF IInv, TypeOK
  <2> QED
    BY <1>1, <1>2, <1>3, <2>1, GivesUp
<1>4. CASE Accepts(Update(j), manifest) /\ manifest' = Result(Update(j), manifest)
  <2>1. /\ shard[j] \in ShardIDs /\ manifest.tree[shard[j]] = TreeOf[head[j]]
        /\ head[j] \in Commits
    BY <1>1 DEF IInv, JobsInv, Updates, Heads, Tree
  <2>2. RefSet(manifest, manifest', <<j[1], j[2]>>, shard[j], head[j])
    BY <1>4, <2>1, JobPlace, UpdateSets DEF Update, IInv, StoresInv
  <2>3. <<j[1], j[2]>> \in Places
    BY JobPlace
  <2>4. StoresInv'
    BY <1>1, <2>1, <2>2, <2>3, SetStores DEF IInv
  <2>5. TypeOK'
    BY <1>1, <1>2, <2>2 DEF IInv, TypeOK, RefSet, Sound
  <2>6. JobsInv'
    BY <1>1, <1>2, <2>1, <2>2, <2>3, RefSetJobs
  <2> QED
    BY <2>4, <2>5, <2>6 DEF IInv
<1> QED
  BY <1>3, <1>4 DEF UpdateRef

-----------------------------------------------------------------------------
(***************************************************************************)
(* Jobs that die and the calls they leave behind.                          *)
(***************************************************************************)
\* What a dead job has sent is as good as if it were alive.
LEMMA DieStep ==
  ASSUME IInv, NEW j \in Jobs, Die(j)
  PROVE  IInv'
<1>1. /\ UNCHANGED <<manifest, file, raw, remote, head, shard>>
      /\ pc[j] # "idle" /\ trouble' \in 0..MaxTrouble
  BY Bounded DEF Die, stores, IInv, TypeOK
<1>2. pc' \in [Jobs -> Where] /\ Others(j) /\ pc'[j] = "idle"
  BY <1>1 DEF Die, IInv, TypeOK, Go, Where, Others
<1>3. CASE UNCHANGED sent
  <2>1. TypeOK'
    BY <1>1, <1>2, <1>3 DEF IInv, TypeOK
  <2>2. \A k \in Jobs : pc'[k] = pc[k] \/ pc'[k] = "idle"
    BY <1>2 DEF Others
  <2> QED
    BY <1>1, <1>3, <2>1, <2>2, GivesUp
<1>4. ASSUME NEW q, sent' = sent \cup {q},
             \/ pc[j] = "allocate" /\ q = Allocation
             \/ pc[j] = "complete" /\ q = Completion(j)
             \/ pc[j] = "update" /\ q = Update(j)
      PROVE  IInv'
  <2>1. /\ head[j] \in Commits /\ Tree(j) \in Trees /\ SumOf[Tree(j)] \in Sums
        /\ j[1] \in Repos /\ j[2] \in Refs
    BY <1>1, TreeOfJob, JobPlace
  <2>2. pc[j] = "complete" => Owns(j)
    BY DEF IInv, JobsInv, Owners, Owning
  <2>3. pc[j] = "update" => shard[j] \in ShardIDs /\ manifest.tree[shard[j]] = Tree(j)
    BY DEF IInv, JobsInv, Updates
  <2>4. q \in Requests /\ q.op # "setDefault"
    <3>1. CASE pc[j] = "allocate" /\ q = Allocation
      BY <3>1 DEF Requests, Allocation
    <3>2. CASE pc[j] = "complete" /\ q = Completion(j)
      BY <2>1, <2>2, <3>2 DEF Requests, Completion, Owns
    <3>3. CASE pc[j] = "update" /\ q = Update(j)
      BY <2>1, <2>3, <3>3 DEF Requests, Update
    <3> QED
      BY <1>4, <3>1, <3>2, <3>3
  <2>5. TypeOK'
    BY <1>1, <1>2, <1>4, <2>4 DEF IInv, TypeOK
  <2>6. StoresInv'
    BY <1>1 DEF IInv, StoresInv, CompletedIsStored, Fresh, RefServesItsCommit
  <2>7. Owners' /\ Alone' /\ Updates' /\ Heads'
    <3>1. \A k \in Jobs : pc'[k] = pc[k] \/ pc'[k] = "idle"
      BY <1>2 DEF Others
    <3>2. Owners'
      BY <1>1, <3>1 DEF IInv, JobsInv, Owners, Owns, Owning, Holds, Tree
    <3>3. Alone'
      BY <1>1, <3>1 DEF IInv, JobsInv, Alone, Owning
    <3> QED
      BY <1>1, <3>1, <3>2, <3>3 DEF IInv, JobsInv, Updates, Heads, Tree
  <2>8. ASSUME NEW c \in sent, c.op = "complete"
        PROVE  Completable(c)'
    <3>1. Completable(c)
      BY <2>8 DEF IInv, JobsInv, LateCompletions
    <3>2. \A k \in Jobs : (pc[k] \in Owning)' => shard'[k] # c.id
      BY <1>1, <1>2, <3>1 DEF Completable, Others, Owning
    <3> QED
      BY <1>1, <3>1, <3>2 DEF Completable, Holds, Exists
  <2>9. ASSUME q.op = "complete"
        PROVE  Completable(q)'
    <3>1. pc[j] = "complete" /\ q = Completion(j)
      BY <1>4, <2>9 DEF Allocation, Update
    <3>2. q.id = shard[j] /\ q.tree = Tree(j) /\ q.sum = SumOf[Tree(j)]
      BY <3>1 DEF Completion
    <3>3. Owns(j) /\ pc[j] \in Owning
      BY <2>2, <3>1 DEF Owning
    <3>4. \A k \in Jobs : (pc[k] \in Owning)' => shard'[k] # shard[j]
      BY <1>1, <1>2, <3>3 DEF IInv, JobsInv, Alone, Others, Owning
    <3> QED
      BY <1>1, <3>1, <3>2, <3>3, <3>4 DEF Completable, Holds, Exists, Owns
  <2>10. LateCompletions'
    BY <1>4, <2>8, <2>9 DEF LateCompletions
  <2>11. q.op = "update" => q.id \in ShardIDs /\ manifest.tree[q.id] = TreeOf[q.commit]
    BY <1>4, <2>3 DEF Allocation, Completion, Update, Tree
  <2>12. LateUpdates' /\ Senders'
    BY <1>1, <1>4, <2>4, <2>11 DEF IInv, JobsInv, LateUpdates, Senders
  <2> QED
    BY <2>5, <2>6, <2>7, <2>10, <2>12 DEF IInv, JobsInv
<1>5. Pending(j) = {} \/ \E q : /\ Pending(j) = {q}
                                /\ \/ pc[j] = "allocate" /\ q = Allocation
                                   \/ pc[j] = "complete" /\ q = Completion(j)
                                   \/ pc[j] = "update" /\ q = Update(j)
  BY DEF Pending
<1> QED
  BY <1>3, <1>4, <1>5 DEF Die

\* The late calls of dead jobs do what they would have done in time.
LEMMA LateStep ==
  ASSUME IInv, NEW q \in sent, Late(q)
  PROVE  IInv'
<1>1. /\ UNCHANGED <<file, raw, remote, pc, head, shard, trouble>>
      /\ sent' \subseteq sent
  BY DEF Late
<1>2. q \in Requests /\ q.op # "setDefault"
  BY DEF IInv, TypeOK, JobsInv, Senders
<1>3. CASE UNCHANGED manifest
  <2>1. TypeOK'
    BY <1>1, <1>3 DEF IInv, TypeOK
  <2> QED
    BY <1>1, <1>3, <2>1, GivesUp
<1>4. ASSUME NEW d \in Drawn(q, manifest), Accepts(d, manifest),
             manifest' = Result(d, manifest)
      PROVE  IInv'
  <2>1. CASE q.op = "allocate"
    <3>1. d \in Drawn(Allocation, manifest)
      BY <1>2, <1>4, <2>1 DEF Drawn, Allocation
    <3>2. /\ d.id \in ShardIDs /\ ~Exists(manifest, d.id)
          /\ Allocated(manifest, manifest', d.id)
      BY <1>4, <3>1, AllocationAllocates DEF IInv, StoresInv
    <3>3. StoresInv'
      BY <1>1, <3>2, AllocateStores DEF IInv
    <3>4. TypeOK'
      BY <1>1, <3>2 DEF IInv, TypeOK, Allocated, Sound
    <3>5. \A y \in ShardIDs :
            /\ manifest.state[y] = "CREATING" => manifest'.state[y] = "CREATING"
            /\ Exists(manifest, y) => Exists(manifest', y)
            /\ manifest'.tree[y] = manifest.tree[y]
      BY <3>2 DEF Allocated, Exists
    <3>6. Owners'
      BY <1>1, <3>5 DEF IInv, JobsInv, Owners, Owns, Owning, Holds, Tree
    <3>7. LateCompletions'
      <4> SUFFICES ASSUME NEW c \in sent, c.op = "complete" PROVE Completable(c)'
        BY <1>1 DEF LateCompletions
      <4>1. Completable(c)
        BY DEF IInv, JobsInv, LateCompletions
      <4> QED
        BY <1>1, <3>5, <4>1 DEF Completable, Holds, Owning
    <3>8. Alone' /\ Updates' /\ LateUpdates' /\ Heads' /\ Senders'
      BY <1>1, <3>5 DEF IInv, JobsInv, Alone, Owning, Updates, LateUpdates, Heads, Senders, Tree
    <3> QED
      BY <3>3, <3>4, <3>6, <3>7, <3>8 DEF IInv, JobsInv
  <2>2. CASE q.op = "complete"
    <3>1. d = q
      BY <1>4, <2>2 DEF Drawn
    <3>2. PICK i \in ShardIDs, t \in Trees, x \in Sums :
            q = [op |-> "complete", id |-> i, tree |-> t, sum |-> x]
      BY <1>2, <2>2 DEF Requests
    <3>3. q.id = i /\ q.tree = t /\ q.sum = x
      BY <3>2
    <3>4. /\ Holds(i, t) /\ x = SumOf[t]
          /\ \A k \in Jobs : pc[k] \in Owning => shard[k] # i
      BY <2>2, <3>3 DEF IInv, JobsInv, LateCompletions, Completable
    <3>5. Completed(manifest, manifest', i, t, x)
      BY <1>4, <3>1, <3>2, CompletionCompletes DEF IInv, StoresInv
    <3>6. StoresInv'
      BY <1>1, <3>4, <3>5, CompleteStores DEF IInv
    <3>7. TypeOK'
      BY <1>1, <3>5 DEF IInv, TypeOK, Completed, Sound
    <3>8. /\ Owners' /\ Alone' /\ LateCompletions' /\ LateUpdates' /\ Senders'
          /\ \A k \in Jobs : pc[k] = "update" => manifest'.tree[shard[k]] = Tree(k)
      BY <1>1, <3>4, <3>5, CompletedJobs
    <3>9. Updates' /\ Heads'
      BY <1>1, <3>8 DEF IInv, JobsInv, Updates, Heads, Tree
    <3> QED
      BY <3>6, <3>7, <3>8, <3>9 DEF IInv, JobsInv
  <2>3. CASE q.op = "update"
    <3>1. d = q
      BY <1>4, <2>3 DEF Drawn
    <3>2. PICK i \in ShardIDs, r \in Repos, f \in Refs, c \in Commits :
            q = [op |-> "update", id |-> i, repo |-> r, ref |-> f, commit |-> c]
      BY <1>2, <2>3 DEF Requests
    <3>3. q.id = i /\ q.commit = c
      BY <3>2
    <3>4. manifest.tree[i] = TreeOf[c]
      BY <2>3, <3>3 DEF IInv, JobsInv, LateUpdates
    <3>5. RefSet(manifest, manifest', <<r, f>>, i, c)
      BY <1>4, <3>1, <3>2, UpdateSets DEF IInv, StoresInv
    <3>6. <<r, f>> \in Places
      BY DEF Places
    <3>7. StoresInv'
      BY <1>1, <3>4, <3>5, <3>6, SetStores DEF IInv
    <3>8. TypeOK'
      BY <1>1, <3>5 DEF IInv, TypeOK, RefSet, Sound
    <3>9. JobsInv'
      BY <1>1, <3>5, <3>6, RefSetJobs
    <3> QED
      BY <3>7, <3>8, <3>9 DEF IInv
  <2> QED
    BY <1>2, <2>1, <2>2, <2>3 DEF Requests
<1> QED
  BY <1>3, <1>4 DEF Late

-----------------------------------------------------------------------------
LEMMA StepIInv == IInv /\ [Next]_vars => IInv'
<1> SUFFICES ASSUME IInv, [Next]_vars PROVE IInv'
  OBVIOUS
<1>1. ASSUME NEW j \in Jobs, Push(j) \/ Start(j) \/ StartForced(j) PROVE IInv'
  BY <1>1, QuietStep
<1>2. ASSUME NEW j \in Jobs, Step(j) PROVE IInv'
  BY <1>2, QuietStep, AllocateStep, WriteStep, CompleteStep, UpdateStep DEF Step
<1>3. ASSUME NEW j \in Jobs, Die(j) PROVE IInv'
  BY <1>3, DieStep
<1>4. ASSUME NEW q \in sent, Late(q) PROVE IInv'
  BY <1>4, LateStep
<1>5. CASE UNCHANGED vars
  <2>1. TypeOK' /\ UNCHANGED <<manifest, file, raw, pc, head, shard, sent>>
    BY <1>5 DEF vars, stores, IInv, TypeOK
  <2> QED
    BY <2>1, GivesUp
<1> QED
  BY <1>1, <1>2, <1>3, <1>4, <1>5 DEF Next

\* The invariant the three theorems below rest on.
THEOREM Invariant == Spec => []IInv
BY InitIInv, StepIInv, PTL DEF Spec

\* Type correctness: the jobs of k8s/cron.yaml and the calls they leave
\* behind keep to the values the code gives its variables.
THEOREM TypeCorrect == Spec => []TypeOK
<1>1. IInv => TypeOK
  BY DEF IInv
<1> QED
  BY Invariant, <1>1, PTL

\* Whatever jobs die and whatever calls of theirs come late, a shard past
\* CREATING has both files of cmd/cindex-git's WriteShard streams, complete.
THEOREM CompleteShardsAreStored == Spec => []CompletedIsStored
<1>1. IInv => CompletedIsStored
  BY DEF IInv, StoresInv
<1> QED
  BY Invariant, <1>1, PTL

\* A ref that UpdateRepoShard has set points to a shard built from the tree of
\* the commit recorded with it.
THEOREM RefsServeTheirCommits == Spec => []RefServesItsCommit
<1>1. IInv => RefServesItsCommit
  BY DEF IInv, StoresInv
<1> QED
  BY Invariant, <1>1, PTL

-----------------------------------------------------------------------------
(***************************************************************************)
(* Commits go forward.  What is recorded of a ref, and what a call under   *)
(* way would record of it, is no newer than the ref at its origin, and no  *)
(* newer than the commit its job has fetched: the calls that are left      *)
(* behind are those of earlier jobs.                                       *)
(***************************************************************************)
Behind(j, c) == c <= remote[j] /\ (pc[j] # "idle" => c <= head[j])

HeadsBehind == \A j \in Jobs : pc[j] # "idle" => head[j] <= remote[j]

RefsBehind == \A j \in Jobs : manifest.shard[j] # NoShard => Behind(j, manifest.commit[j])

LateBehind ==
  \A q \in sent :
    q.op = "update" => <<q.repo, q.ref>> \in Jobs /\ Behind(<<q.repo, q.ref>>, q.commit)

OrderInv == HeadsBehind /\ RefsBehind /\ LateBehind

\* What is compared are numbers.
LEMMA Comparable ==
  ASSUME IInv
  PROVE  /\ \A j \in Jobs : remote[j] \in Nat /\ (pc[j] # "idle" => head[j] \in Nat)
         /\ \A j \in Jobs : manifest.shard[j] # NoShard => manifest.commit[j] \in Nat
         /\ \A q \in sent : q.op = "update" => q.commit \in Nat
<1>1. \A j \in Jobs : remote[j] \in Nat /\ (pc[j] # "idle" => head[j] \in Nat)
  BY IndexerAssumption DEF IInv, TypeOK, JobsInv, Heads
<1>2. ASSUME NEW j \in Jobs, manifest.shard[j] # NoShard PROVE manifest.commit[j] \in Nat
  <2>1. j \in Places
    BY JobPlace
  <2>2. manifest.commit[j] \in Commits \cup {NoCommit}
    BY <2>1 DEF IInv, TypeOK, Manifests
  <2>3. manifest.commit[j] # NoCommit
    BY <1>2, <2>1 DEF IInv, StoresInv, RefServesItsCommit
  <2> QED
    BY <2>2, <2>3, IndexerAssumption
<1>3. ASSUME NEW q \in sent, q.op = "update" PROVE q.commit \in Nat
  <2>1. q \in Requests
    BY DEF IInv, TypeOK
  <2>2. PICK i \in ShardIDs, r \in Repos, f \in Refs, c \in Commits :
          q = [op |-> "update", id |-> i, repo |-> r, ref |-> f, commit |-> c]
    BY <1>3, <2>1 DEF Requests
  <2> QED
    BY <2>2, IndexerAssumption
<1> QED
  BY <1>1, <1>2, <1>3

\* A number behind a ref stays behind it when the ref is pushed, and when its
\* job gets on, ends, or starts and fetches the ref.
Onward(j) ==
  /\ remote'[j] \in Nat /\ remote[j] <= remote'[j]
  /\ \/ pc'[j] = "idle"
     \/ pc[j] # "idle" /\ head'[j] = head[j]
     \/ head'[j] = remote[j]

LEMMA StaysBehind ==
  ASSUME IInv, NEW j \in Jobs, NEW c \in Nat, Behind(j, c), Onward(j)
  PROVE  Behind(j, c)'
<1>1. remote[j] \in Nat /\ (pc[j] # "idle" => head[j] \in Nat)
  BY Comparable
<1>2. c <= remote'[j]
  BY <1>1 DEF Behind, Onward
<1>3. pc'[j] # "idle" => c <= head'[j]
  BY <1>1 DEF Behind, Onward
<1> QED
  BY <1>2, <1>3 DEF Behind

\* Every step but a push leaves the origin alone.
LEMMA AllOnward ==
  ASSUME IInv, UNCHANGED <<remote, head>>,
         \A k \in Jobs : pc'[k] = pc[k] \/ pc'[k] = "idle" \/ pc[k] # "idle"
  PROVE  \A k \in Jobs : Onward(k)
BY Comparable DEF Onward

\* A step that leaves the refs and the calls alone keeps the order.
LEMMA OrderStays ==
  ASSUME IInv, OrderInv, \A k \in Jobs : Onward(k),
         manifest'.shard = manifest.shard, manifest'.commit = manifest.commit,
         sent' \subseteq sent
  PROVE  OrderInv'
<1>1. HeadsBehind'
  <2> SUFFICES ASSUME NEW k \in Jobs, pc'[k] # "idle" PROVE head'[k] <= remote'[k]
    BY DEF HeadsBehind
  <2>1. /\ remote[k] \in Nat /\ remote'[k] \in Nat /\ remote[k] <= remote'[k]
        /\ pc[k] # "idle" => head[k] \in Nat /\ head[k] <= remote[k]
    BY Comparable DEF Onward, OrderInv, HeadsBehind
  <2> QED
    BY <2>1 DEF Onward
<1>2. RefsBehind'
  BY StaysBehind, Comparable DEF OrderInv, RefsBehind
<1>3. LateBehind'
  BY StaysBehind, Comparable DEF OrderInv, LateBehind
<1> QED
  BY <1>1, <1>2, <1>3 DEF OrderInv

\* A ref that is set to a commit that is behind it.
LEMMA OrderSet ==
  ASSUME IInv, OrderInv, UNCHANGED <<remote, head>>,
         \A k \in Jobs : pc'[k] = pc[k] \/ pc'[k] = "idle",
         NEW p \in Jobs, NEW i \in ShardIDs, NEW c \in Nat, Behind(p, c),
         RefSet(manifest, manifest', p, i, c), sent' \subseteq sent
  PROVE  OrderInv'
<1>1. \A k \in Jobs : Onward(k)
  BY AllOnward
<1>2. HeadsBehind'
  BY DEF OrderInv, HeadsBehind
<1>3. RefsBehind'
  <2> SUFFICES ASSUME NEW k \in Jobs, manifest'.shard[k] # NoShard
               PROVE  Behind(k, manifest.commit[k])'
    BY DEF RefsBehind
  <2>1. CASE k = p
    <3>1. manifest'.commit[k] = c
      BY <2>1, JobPlace DEF RefSet
    <3>2. Behind(p, c)'
      BY <1>1, StaysBehind
    <3> QED
      BY <2>1, <3>1, <3>2 DEF Behind
  <2>2. CASE k # p
    <3>1. manifest'.commit[k] = manifest.commit[k] /\ manifest.shard[k] # NoShard
      BY <2>2, JobPlace DEF RefSet
    <3>2. Behind(k, manifest.commit[k])
      BY <3>1 DEF OrderInv, RefsBehind
    <3> QED
      BY <3>1, <3>2 DEF Behind
  <2> QED
    BY <2>1, <2>2
<1>4. LateBehind'
  BY <1>1, StaysBehind, Comparable DEF OrderInv, LateBehind
<1> QED
  BY <1>2, <1>3, <1>4 DEF OrderInv

\* What UpdateRef makes of the manifest, when the call is accepted.
LEMMA UpdateRefSets ==
  ASSUME IInv, NEW j \in Jobs, pc[j] = "update",
         Accepts(Update(j), manifest), manifest' = Result(Update(j), manifest)
  PROVE  RefSet(manifest, manifest', j, shard[j], head[j]) /\ shard[j] \in ShardIDs
<1>1. shard[j] \in ShardIDs /\ head[j] \in Commits
  BY DEF IInv, JobsInv, Updates, Heads
<1>2. RefSet(manifest, manifest', <<j[1], j[2]>>, shard[j], head[j])
  BY <1>1, JobPlace, UpdateSets DEF Update, IInv, StoresInv
<1> QED
  BY <1>1, <1>2, JobPlace

\* AllocateShard and CompleteShard leave the refs alone.
LEMMA RefsStay ==
  ASSUME IInv, NEW j \in Jobs, Step(j), pc[j] # "update"
  PROVE  manifest'.shard = manifest.shard /\ manifest'.commit = manifest.commit
<1>1. CASE Allocate(j)
  <2>1. ASSUME NEW d \in Drawn(Allocation, manifest), manifest' = Result(d, manifest)
        PROVE  Allocated(manifest, manifest', d.id)
    BY <2>1, AllocationAllocates DEF IInv, StoresInv
  <2> QED
    BY <1>1, <2>1 DEF Allocate, Allocated
<1>2. CASE Complete(j)
  <2>1. /\ shard[j] \in ShardIDs /\ Tree(j) \in Trees /\ SumOf[Tree(j)] \in Sums
    BY <1>2, TreeOfJob DEF Complete, IInv, JobsInv, Owners, Owns, Owning
  <2>2. ASSUME Accepts(Completion(j), manifest), manifest' = Result(Completion(j), manifest)
        PROVE  Completed(manifest, manifest', shard[j], Tree(j), SumOf[Tree(j)])
    BY <2>1, <2>2, CompletionCompletes DEF Completion, IInv, StoresInv
  <2> QED
    BY <1>2, <2>2 DEF Complete, Completed
<1>3. CASE CheckRef(j) \/ Search(j) \/ WriteOpens(j) \/ WriteEnds(j) \/ RawOpens(j) \/ RawEnds(j)
  BY <1>3 DEF CheckRef, Search, WriteOpens, WriteEnds, RawOpens, RawEnds, stores
<1> QED
  BY <1>1, <1>2, <1>3 DEF Step, UpdateRef

\* A job that is at a step goes on from there with the commit it has fetched.
LEMMA StepFrame ==
  ASSUME IInv, NEW j \in Jobs, Step(j)
  PROVE  /\ UNCHANGED <<remote, head, sent>> /\ pc[j] # "idle"
         /\ \A k \in Jobs \ {j} : pc'[k] = pc[k]
         /\ pc[j] = "update" => UpdateRef(j)
<1>1. UNCHANGED <<remote, head, sent>> /\ pc[j] # "idle" /\ (pc[j] = "update" => UpdateRef(j))
  BY DEF Step, CheckRef, Search, Allocate, WriteOpens, WriteEnds, RawOpens, RawEnds,
         Complete, UpdateRef, others
<1>2. \E w : Go(j, w)
  BY DEF Step, CheckRef, Search, Allocate, WriteOpens, WriteEnds, RawOpens, RawEnds,
         Complete, UpdateRef
<1> QED
  BY <1>1, <1>2 DEF Go, IInv, TypeOK

LEMMA InitOrder == Init => OrderInv
<1> SUFFICES ASSUME Init PROVE OrderInv
  OBVIOUS
<1>1. \A j \in Jobs : manifest.shard[j] = NoShard
  BY JobPlace DEF Init, EmptyManifest
<1> QED
  BY <1>1 DEF Init, OrderInv, HeadsBehind, RefsBehind, LateBehind

LEMMA StepOrder ==
  ASSUME IInv, OrderInv, NEW j \in Jobs, Step(j)
  PROVE  OrderInv'
<1>1. /\ UNCHANGED <<remote, head, sent>> /\ pc[j] # "idle"
      /\ \A k \in Jobs \ {j} : pc'[k] = pc[k]
      /\ pc[j] = "update" => UpdateRef(j)
  BY StepFrame
<1>2. \A k \in Jobs : Onward(k)
  BY <1>1, AllOnward
<1>3. CASE pc[j] # "update"
  BY <1>1, <1>2, <1>3, RefsStay, OrderStays
<1>4. CASE pc[j] = "update" /\ UNCHANGED manifest
  BY <1>1, <1>2, <1>4, OrderStays
<1>5. CASE /\ pc[j] = "update" /\ Accepts(Update(j), manifest)
           /\ manifest' = Result(Update(j), manifest)
  <2>1. RefSet(manifest, manifest', j, shard[j], head[j]) /\ shard[j] \in ShardIDs
    BY <1>5, UpdateRefSets
  <2>2. head[j] \in Nat /\ Behind(j, head[j])
    BY <1>5, Comparable DEF OrderInv, HeadsBehind, Behind
  <2>3. \A k \in Jobs : pc'[k] = pc[k] \/ pc'[k] = "idle"
    BY <1>1, <1>5 DEF UpdateRef, Go, IInv, TypeOK
  <2> QED
    BY <1>1, <2>1, <2>2, <2>3, OrderSet
<1> QED
  BY <1>1, <1>3, <1>4, <1>5 DEF UpdateRef

\* A job that starts has the newest commit there is: what is recorded, and
\* what the calls of its predecessors may record, is no newer.
LEMMA OutsideOrder ==
  ASSUME IInv, OrderInv, NEW j \in Jobs, Push(j) \/ Start(j) \/ StartForced(j)
  PROVE  OrderInv'
<1>1. UNCHANGED <<manifest, sent>>
  BY DEF Push, Start, StartForced, stores, others
<1>2. \A k \in Jobs : Onward(k)
  <2>1. CASE Push(j)
    BY <2>1, Comparable, IndexerAssumption DEF Push, Onward, IInv, TypeOK
  <2>2. CASE Start(j) \/ StartForced(j)
    BY <2>2, Comparable DEF Start, StartForced, Go, others, Onward, IInv, TypeOK
  <2> QED
    BY <2>1, <2>2
<1> QED
  BY <1>1, <1>2, OrderStays

\* The call a dying job leaves behind has the commit it has fetched.
LEMMA DieOrder ==
  ASSUME IInv, OrderInv, NEW j \in Jobs, Die(j)
  PROVE  OrderInv'
<1>1. UNCHANGED <<manifest, remote, head>> /\ pc[j] # "idle"
  BY DEF Die, stores
<1>2. pc'[j] = "idle" /\ \A k \in Jobs : pc'[k] = pc[k] \/ pc'[k] = "idle"
  BY DEF Die, Go, IInv, TypeOK
<1>3. \A k \in Jobs : Onward(k)
  BY <1>1, <1>2, AllOnward
<1>4. HeadsBehind' /\ RefsBehind'
  <2>1. HeadsBehind'
    BY <1>1, <1>2 DEF OrderInv, HeadsBehind
  <2>2. RefsBehind'
    BY <1>1, <1>3, StaysBehind, Comparable DEF OrderInv, RefsBehind
  <2> QED
    BY <2>1, <2>2
<1>5. ASSUME NEW q \in sent', q.op = "update"
      PROVE  <<q.repo, q.ref>> \in Jobs /\ Behind(<<q.repo, q.ref>>, q.commit)'
  <2>1. CASE q \in sent
    BY <1>3, <1>5, <2>1, StaysBehind, Comparable DEF OrderInv, LateBehind
  <2>2. CASE q \in Pending(j)
    <3>1. q = Update(j)
      BY <1>5, <2>2 DEF Pending, Allocation, Completion
    <3>2. <<q.repo, q.ref>> = j /\ q.commit = head[j]
      BY <3>1, JobPlace DEF Update
    <3>3. head[j] <= remote[j]
      BY <1>1 DEF OrderInv, HeadsBehind
    <3> QED
      BY <1>1, <1>2, <3>2, <3>3 DEF Behind
  <2> QED
    BY <1>5, <2>1, <2>2 DEF Die
<1>6. LateBehind'
  BY <1>5 DEF LateBehind
<1> QED
  BY <1>4, <1>6 DEF OrderInv

\* A late call sets a ref to a commit that is behind it.
LEMMA LateOrder ==
  ASSUME IInv, OrderInv, NEW q \in sent, Late(q)
  PROVE  OrderInv'
<1>1. UNCHANGED <<remote, pc, head>> /\ sent' \subseteq sent
  BY DEF Late
<1>2. q \in Requests /\ q.op # "setDefault"
  BY DEF IInv, TypeOK, JobsInv, Senders
<1>3. \A k \in Jobs : Onward(k)
  BY <1>1, AllOnward
<1>4. CASE UNCHANGED manifest
  BY <1>1, <1>3, <1>4, OrderStays
<1>5. ASSUME NEW d \in Drawn(q, manifest), Accepts(d, manifest),
             manifest' = Result(d, manifest)
      PROVE  OrderInv'
  <2>1. CASE q.op = "allocate"
    <3>1. d \in Drawn(Allocation, manifest)
      BY <1>2, <1>5, <2>1 DEF Drawn, Allocation
    <3>2. Allocated(manifest, manifest', d.id)
      BY <1>5, <3>1, AllocationAllocates DEF IInv, StoresInv
    <3> QED
      BY <1>1, <1>3, <3>2, OrderStays DEF Allocated
  <2>2. CASE q.op = "complete"
    <3>1. d = q
      BY <1>5, <2>2 DEF Drawn
    <3>2. PICK i \in ShardIDs, t \in Trees, x \in Sums :
            q = [op |-> "complete", id |-> i, tree |-> t, sum |-> x]
      BY <1>2, <2>2 DEF Requests
    <3>3. Completed(manifest, manifest', i, t, x)
      BY <1>5, <3>1, <3>2, CompletionCompletes DEF IInv, StoresInv
    <3> QED
      BY <1>1, <1>3, <3>3, OrderStays DEF Completed
  <2>3. CASE q.op = "update"
    <3>1. d = q
      BY <1>5, <2>3 DEF Drawn
    <3>2. PICK i \in ShardIDs, r \in Repos, f \in Refs, c \in Commits :
            q = [op |-> "update", id |-> i, repo |-> r, ref |-> f, commit |-> c]
      BY <1>2, <2>3 DEF Requests
    <3>3. RefSet(manifest, manifest', <<r, f>>, i, c)
      BY <1>5, <3>1, <3>2, UpdateSets DEF IInv, StoresInv
    <3>4. q.repo = r /\ q.ref = f /\ q.commit = c
      BY <3>2
    <3>5. <<r, f>> \in Jobs /\ Behind(<<r, f>>, c) /\ c \in Nat
      BY <2>3, <3>4, IndexerAssumption DEF OrderInv, LateBehind
    <3> QED
      BY <1>1, <3>3, <3>5, OrderSet
  <2> QED
    BY <1>2, <2>1, <2>2, <2>3 DEF Requests
<1> QED
  BY <1>4, <1>5 DEF Late

LEMMA NextOrder == IInv /\ OrderInv /\ [Next]_vars => OrderInv'
<1> SUFFICES ASSUME IInv, OrderInv, [Next]_vars PROVE OrderInv'
  OBVIOUS
<1>1. CASE UNCHANGED vars
  <2>1. UNCHANGED <<manifest, remote, pc, head, sent>>
    BY <1>1 DEF vars, stores
  <2> QED
    BY <2>1, AllOnward, OrderStays
<1> QED
  BY <1>1, OutsideOrder, StepOrder, DieOrder, LateOrder DEF Next

\* Nothing the server records of a ref, or may still record by the call of a
\* dead job, is newer than the commit syncRemote of the ref's running job has
\* fetched, nor than the ref at its origin.
THEOREM CommitsInOrder == Spec => []OrderInv
BY InitOrder, NextOrder, Invariant, PTL DEF Spec

\* UpdateRepoShard takes a ref to an older commit only when the call is that
\* of a dead job: the running job of a ref never does.
THEOREM BackOnlyByLateCalls == Spec => ForwardUnlessLate
<1>1. ASSUME IInv, OrderInv, [Next]_vars, NEW j \in Jobs, manifest.shard[j] # NoShard,
             manifest'.commit[j] < manifest.commit[j]
      PROVE  sent' # sent
  <2>1. manifest.commit[j] \in Nat
    BY <1>1, Comparable
  <2>2. manifest'.commit # manifest.commit
    BY <1>1, <2>1
  <2>3. CASE \E q \in sent : Late(q)
    BY <2>3 DEF Late
  <2>4. ASSUME NEW k \in Jobs, Push(k) \/ Start(k) \/ StartForced(k) \/ Die(k)
        PROVE  FALSE
    BY <2>2, <2>4 DEF Push, Start, StartForced, Die, stores
  <2>5. ASSUME NEW k \in Jobs, Step(k)
        PROVE  FALSE
    <3>1. pc[k] = "update" /\ UpdateRef(k)
      BY <1>1, <2>2, <2>5, RefsStay, StepFrame
    <3>2. RefSet(manifest, manifest', k, shard[k], head[k])
      BY <1>1, <2>2, <3>1, UpdateRefSets DEF UpdateRef
    <3>3. k = j /\ manifest'.commit[j] = head[j]
      BY <1>1, <2>1, <3>2, JobPlace DEF RefSet
    <3>4. head[j] \in Nat /\ manifest.commit[j] <= head[j]
      BY <1>1, <3>1, <3>3, Comparable DEF OrderInv, RefsBehind, Behind
    <3> QED
      BY <1>1, <2>1, <3>3, <3>4
  <2>6. ~UNCHANGED vars
    BY <2>2 DEF vars, stores
  <2> QED
    BY <1>1, <2>3, <2>4, <2>5, <2>6 DEF Next
<1>2. IInv /\ OrderInv /\ [Next]_vars =>
        [\A j \in Jobs :
           manifest.shard[j] # NoShard /\ manifest'.commit[j] < manifest.commit[j]
             => sent' # sent]_vars
  BY <1>1
<1> QED
  BY <1>2, Invariant, CommitsInOrder, PTL DEF Spec, ForwardUnlessLate
=============================================================================
