------------------------------ MODULE Metadata ------------------------------
(***************************************************************************)
(* What IndexMetadataService promises: its four mutating calls act on one  *)
(* manifest as if one at a time.  An answered call took effect, a refused  *)
(* one did not and never will, and of a call whose server died the client  *)
(* cannot tell.  ManifestStore, the directory of revisions, implements it. *)
(***************************************************************************)
EXTENDS Manifest, FiniteSets

CONSTANTS Calls          \* the calls there can be at a time

VARIABLES
  manifest,              \* the current manifest
  call                   \* of each call: how far it is, and its request

vars == <<manifest, call>>

NoRequest == [op |-> "none"]

Init ==
  /\ manifest = EmptyManifest
  /\ call = [c \in Calls |-> [st |-> "idle", q |-> NoRequest]]

Open(c) == call[c].st \in {"pending", "committed"}

\* The bound on shards: there must be a fresh id for each open allocation.
IdsLeft ==
  Cardinality({c \in Calls : call[c].st = "pending" /\ call[c].q.op = "allocate"})
    < Cardinality({id \in ShardIDs : ~Exists(manifest, id)})

\* A client calls.
Request(c) ==
  /\ ~Open(c)
  /\ \E q \in Requests :
       /\ q.op = "allocate" => IdsLeft
       /\ call' = [call EXCEPT ![c] = [st |-> "pending", q |-> q]]
  /\ UNCHANGED manifest

\* manifestTxn: the handler's function is applied to the current manifest.
Commit(c) ==
  /\ call[c].st = "pending"
  /\ \E d \in Drawn(call[c].q, manifest) :
       /\ Accepts(d, manifest)
       /\ manifest' = Result(d, manifest)
       /\ call' = [call EXCEPT ![c] = [st |-> "committed", q |-> d]]

\* The client gets its response.
Answer(c) ==
  /\ call[c].st = "committed"
  /\ call' = [call EXCEPT ![c] = [st |-> "ok", q |-> call[c].q]]
  /\ UNCHANGED manifest

\* The client gets an error: the function's, or one of the storage.
Refuse(c) ==
  /\ call[c].st = "pending"
  /\ call' = [call EXCEPT ![c] = [st |-> "error", q |-> NoRequest]]
  /\ UNCHANGED manifest

\* The server dies before it has answered.
Lose(c) ==
  /\ Open(c)
  /\ call' = [call EXCEPT ![c] = [st |-> "lost", q |-> NoRequest]]
  /\ UNCHANGED manifest

Next ==
  \E c \in Calls : Request(c) \/ Commit(c) \/ Answer(c) \/ Refuse(c) \/ Lose(c)

Spec == Init /\ [][Next]_vars

-----------------------------------------------------------------------------
TypeOK ==
  /\ manifest \in Manifests
  /\ call \in [Calls -> [st : {"idle", "pending", "committed", "ok", "error", "lost"},
                         q : DrawnRequests \cup {NoRequest}]]

\* A ref points to a shard that is there, and complete: GetRepoRef, GetRepo
\* and ListRepoRefs dereference manifest.Shards[ref.ShardID] unchecked.
\* A shard is REFERENCED exactly while a ref points to it.
RefsAreServed ==
  \A id \in ShardIDs : manifest.state[id] = "REFERENCED" <=> id \in InUse(manifest)

\* A shard past CREATING has the tree and the sum its CompleteShard gave,
\* the ones SearchShards matches and the shard cache verifies.
CompleteShardsAreDescribed ==
  \A id \in ShardIDs :
    manifest.state[id] \in {"UNREFERENCED", "REFERENCED"}
      <=> manifest.tree[id] # NoTree /\ manifest.sum[id] # NoSum

\* The default of a repo that has refs is one of them: GetRepo and
\* ListRepoRefs dereference repo.Refs[repo.DefaultRef] unchecked.
DefaultResolves ==
  \A r \in Repos :
    (\E f \in Refs : manifest.shard[<<r, f>>] # NoShard)
      => manifest.shard[<<r, manifest.default[r]>>] # NoShard

\* What the handlers of the readers dereference is there, in every manifest.
Consistent == RefsAreServed /\ CompleteShardsAreDescribed /\ DefaultResolves

\* What a completed shard holds is never changed again, and no ref is ever
\* removed, whatever calls are made in whatever order.
CompletedForever ==
  [][/\ \A id \in ShardIDs :
          manifest.tree[id] # NoTree =>
            /\ manifest'.tree[id] = manifest.tree[id]
            /\ manifest'.sum[id] = manifest.sum[id]
     /\ \A p \in Places :
          manifest.shard[p] # NoShard => manifest'.shard[p] # NoShard]_vars

\* A client told that its shard is complete finds it described so; two
\* clients are never told the same new shard id.
Acknowledged ==
  /\ \A c \in Calls :
       call[c].st = "ok" /\ call[c].q.op = "complete" =>
         /\ manifest.tree[call[c].q.id] = call[c].q.tree
         /\ manifest.sum[call[c].q.id] = call[c].q.sum
  /\ \A c, d \in Calls :
       /\ call[c].st = "ok" /\ call[c].q.op = "allocate"
       /\ call[d].st = "ok" /\ call[d].q.op = "allocate"
       /\ call[c].q.id = call[d].q.id
       => c = d
=============================================================================
