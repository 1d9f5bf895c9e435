--------------------------- MODULE Metadata_proofs ---------------------------
(***************************************************************************)
(* Every manifest IndexMetadataService can write is consistent, for any    *)
(* sets of shards, repositories, refs and calls.                           *)
(***************************************************************************)
EXTENDS Metadata, Manifest_proofs

-----------------------------------------------------------------------------
(***************************************************************************)
(* The inductive invariant: with the manifest sound, what an answered call *)
(* was told stays true, because no step takes it back.                     *)
(***************************************************************************)
Effective(c) == call[c].st \in {"committed", "ok"}

PendingIsRequest == \A c \in Calls : call[c].st = "pending" => call[c].q \in Requests

CompletionKept ==
  \A c \in Calls :
    Effective(c) /\ call[c].q.op = "complete" =>
      /\ call[c].q.id \in ShardIDs /\ call[c].q.tree \in Trees
      /\ manifest.tree[call[c].q.id] = call[c].q.tree
      /\ manifest.sum[call[c].q.id] = call[c].q.sum

AllocationKept ==
  \A c \in Calls :
    Effective(c) /\ call[c].q.op = "allocate" =>
      call[c].q.id \in ShardIDs /\ Exists(manifest, call[c].q.id)

AllocatedOnce ==
  \A c, d \in Calls :
    /\ Effective(c) /\ call[c].q.op = "allocate"
    /\ Effective(d) /\ call[d].q.op = "allocate"
    /\ call[c].q.id = call[d].q.id
    => c = d

Calling ==
  call \in [Calls -> [st : {"idle", "pending", "committed", "ok", "error", "lost"},
                      q : DrawnRequests \cup {NoRequest}]]

IInv ==
  /\ Sound(manifest) /\ Calling /\ PendingIsRequest
  /\ CompletionKept /\ AllocationKept /\ AllocatedOnce

\* The empty manifest is sound and no call has been answered.
LEMMA InitIInv == Init => IInv
<1> SUFFICES ASSUME Init PROVE IInv
  OBVIOUS
<1>1. Sound(manifest)
  BY EmptySound DEF Init
<1>2. Calling /\ PendingIsRequest /\ CompletionKept /\ AllocationKept /\ AllocatedOnce
  BY DEF Init, Calling, PendingIsRequest, CompletionKept, AllocationKept, AllocatedOnce,
         Effective
<1> QED
  BY <1>1, <1>2 DEF IInv

\* A commit: the one action that changes the manifest.
LEMMA CommitIInv ==
  ASSUME IInv, NEW c \in Calls, Commit(c)
  PROVE  IInv' /\ Keeps(manifest, manifest')
<1>1. PICK d \in Drawn(call[c].q, manifest) :
        /\ Accepts(d, manifest)
        /\ manifest' = Result(d, manifest)
        /\ call' = [call EXCEPT ![c] = [st |-> "committed", q |-> d]]
  BY DEF Commit
<1>2. call[c].q \in Requests /\ call[c].st = "pending"
  BY DEF Commit, IInv, PendingIsRequest
<1>3. Sound(manifest') /\ d \in DrawnRequests
  BY <1>1, <1>2, ResultSound DEF IInv
<1>4. Keeps(manifest, manifest')
  BY <1>1, <1>2, ResultKeeps DEF IInv
<1>5. \A e \in Calls :
        call'[e] = IF e = c THEN [st |-> "committed", q |-> d] ELSE call[e]
  BY <1>1 DEF IInv, Calling
<1>6. Calling'
  BY <1>1, <1>3 DEF IInv, Calling
<1>7. PendingIsRequest'
  BY <1>5 DEF IInv, PendingIsRequest
<1>8. CompletionKept'
  <2>1. \A e \in Calls \ {c} :
          Effective(e)' /\ call'[e].q.op = "complete" =>
            /\ call'[e].q.id \in ShardIDs /\ call'[e].q.tree \in Trees
            /\ manifest'.tree[call'[e].q.id] = call'[e].q.tree
            /\ manifest'.sum[call'[e].q.id] = call'[e].q.sum
    BY <1>4, <1>5, ManifestAssumption DEF IInv, CompletionKept, Effective, Keeps
  <2>2. d.op = "complete" =>
          /\ d.id \in ShardIDs /\ d.tree \in Trees
          /\ manifest'.tree[d.id] = d.tree /\ manifest'.sum[d.id] = d.sum
    <3> SUFFICES ASSUME d.op = "complete"
                 PROVE  /\ d.id \in ShardIDs /\ d.tree \in Trees
                        /\ manifest'.tree[d.id] = d.tree /\ manifest'.sum[d.id] = d.sum
      OBVIOUS
    <3>1. PICK i \in ShardIDs, t \in Trees, x \in Sums :
            d = [op |-> "complete", id |-> i, tree |-> t, sum |-> x]
      BY <1>3 DEF DrawnRequests, Requests
    <3>2. manifest' = WithShard(manifest, i, "UNREFERENCED", t, x)
      BY <1>1, <3>1 DEF Result
    <3> QED
      BY <3>1, <3>2 DEF IInv, Sound, WithShard, Manifests
  <2> QED
    BY <1>5, <2>1, <2>2 DEF CompletionKept
<1>9. d.op = "allocate" =>
        d.id \in ShardIDs /\ ~Exists(manifest, d.id) /\ Exists(manifest', d.id)
  <2> SUFFICES ASSUME d.op = "allocate"
               PROVE  d.id \in ShardIDs /\ ~Exists(manifest, d.id) /\ Exists(manifest', d.id)
    OBVIOUS
  <2>1. call[c].q.op = "allocate"
    BY DEF Drawn
  <2>2. PICK i \in ShardIDs : ~Exists(manifest, i) /\ d = [op |-> "allocate", id |-> i]
    BY <2>1 DEF Drawn
  <2>3. manifest' = WithShard(manifest, i, "CREATING", NoTree, NoSum)
    BY <1>1, <2>2 DEF Result
  <2>4. manifest'.state[i] = "CREATING"
    BY <2>3 DEF IInv, Sound, WithShard, Manifests
  <2> QED
    BY <2>2, <2>4 DEF Exists
<1>10. AllocationKept'
  BY <1>4, <1>5, <1>9 DEF IInv, AllocationKept, Effective, Keeps
<1>11. AllocatedOnce'
  BY <1>5, <1>9 DEF IInv, AllocationKept, AllocatedOnce, Effective
<1> QED
  BY <1>3, <1>4, <1>6, <1>7, <1>8, <1>10, <1>11 DEF IInv

\* The other actions leave the manifest and forget or advance one call.
LEMMA CallIInv ==
  ASSUME IInv, NEW c \in Calls, Request(c) \/ Answer(c) \/ Refuse(c) \/ Lose(c)
  PROVE  IInv' /\ manifest' = manifest
<1>1. manifest' = manifest
  BY DEF Request, Answer, Refuse, Lose
<1>2. PICK s, r :
        /\ call' = [call EXCEPT ![c] = [st |-> s, q |-> r]]
        /\ \/ s = "pending" /\ r \in Requests
           \/ s = "ok" /\ call[c].st = "committed" /\ r = call[c].q
           \/ s \in {"error", "lost"} /\ r = NoRequest
  <2>1. CASE Request(c)
    BY <2>1 DEF Request
  <2>2. CASE Answer(c)
    BY <2>2 DEF Answer
  <2>3. CASE Refuse(c)
    BY <2>3 DEF Refuse
  <2>4. CASE Lose(c)
    BY <2>4 DEF Lose
  <2> QED
    BY <2>1, <2>2, <2>3, <2>4
<1>3. \A e \in Calls : call'[e] = IF e = c THEN [st |-> s, q |-> r] ELSE call[e]
  BY <1>2 DEF IInv, Calling
<1>4. r \in DrawnRequests \cup {NoRequest}
  BY <1>2 DEF IInv, Calling, DrawnRequests
<1>5. Calling'
  BY <1>2, <1>4 DEF IInv, Calling
<1>6. PendingIsRequest'
  BY <1>2, <1>3 DEF IInv, PendingIsRequest
<1>7. \A e \in Calls :
        Effective(e)' => Effective(e) /\ call'[e].q = call[e].q
  BY <1>2, <1>3 DEF Effective
<1>8. CompletionKept'
  BY <1>1, <1>7 DEF IInv, CompletionKept
<1>9. AllocationKept'
  BY <1>1, <1>7 DEF IInv, AllocationKept
<1>10. AllocatedOnce'
  BY <1>7 DEF IInv, AllocatedOnce
<1> QED
  BY <1>1, <1>5, <1>6, <1>8, <1>9, <1>10 DEF IInv

\* No step breaks the invariant or takes anything back.
LEMMA StepIInv ==
  ASSUME IInv, [Next]_vars
  PROVE  IInv' /\ (manifest' = manifest \/ Keeps(manifest, manifest'))
<1>1. CASE UNCHANGED vars
  BY <1>1 DEF vars, IInv, Calling, PendingIsRequest, CompletionKept, AllocationKept,
              AllocatedOnce, Effective
<1>2. CASE \E c \in Calls : Commit(c)
  BY <1>2, CommitIInv
<1>3. CASE \E c \in Calls : Request(c) \/ Answer(c) \/ Refuse(c) \/ Lose(c)
  BY <1>3, CallIInv
<1> QED
  BY <1>1, <1>2, <1>3 DEF Next

\* The inductive invariant holds.
THEOREM Invariant == Spec => []IInv
BY InitIInv, StepIInv, PTL DEF Spec

\* Whatever calls are made, manifest and calls keep their types.
THEOREM TypeCorrect == Spec => []TypeOK
<1>1. IInv => TypeOK
  BY DEF IInv, Sound, Calling, TypeOK
<1> QED
  BY <1>1, Invariant, PTL

\* In every manifest that can be written the refs point to complete,
\* described, REFERENCED shards and the defaults resolve: the readers'
\* unchecked dereferences are safe.
THEOREM AlwaysConsistent == Spec => []Consistent
<1>1. IInv => Consistent
  BY DEF IInv, Sound, Consistent, RefsAreServed, Served, CompleteShardsAreDescribed,
         Described, DefaultResolves, Resolves
<1> QED
  BY <1>1, Invariant, PTL

\* What CompleteShard and AllocateShard told their clients stays true.
THEOREM AnswersHold == Spec => []Acknowledged
<1>1. IInv => Acknowledged
  BY DEF IInv, Acknowledged, CompletionKept, AllocatedOnce, Effective
<1> QED
  BY <1>1, Invariant, PTL

\* No step takes back the description of a completed shard, or a ref.
THEOREM NothingIsTakenBack == Spec => CompletedForever
<1>1. IInv /\ [Next]_vars =>
        [/\ \A id \in ShardIDs :
              manifest.tree[id] # NoTree =>
                /\ manifest'.tree[id] = manifest.tree[id]
                /\ manifest'.sum[id] = manifest.sum[id]
         /\ \A p \in Places :
              manifest.shard[p] # NoShard => manifest'.shard[p] # NoShard]_vars
  BY StepIInv DEF Keeps
<1> QED
  BY <1>1, Invariant, PTL DEF Spec, CompletedForever
=============================================================================
