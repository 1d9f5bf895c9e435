------------------------------ MODULE Manifest ------------------------------
(***************************************************************************)
(* The values of repo.Manifest and the changes repo/repo.go and the        *)
(* handlers of IndexMetadataService (cmd/cindex-serve/main.go) make to it. *)
(*                                                                         *)
(* The maps of the Go structures are total functions here: a shard that is *)
(* not in Manifest.Shards has the state "" (the one allocate starts from), *)
(* a ref not in Repo.Refs points to NoShard.  A Repo is in the map exactly *)
(* when one of its refs is, because GetOrCreateRepo and GetOrCreateRef are *)
(* only called together.  Of Size and the times nothing depends on them.   *)
(***************************************************************************)
EXTENDS Naturals

CONSTANTS
  ShardIDs, NoShard,     \* shard ids other than ZeroShardID, and none
  Repos,                 \* repository names
  Refs, EmptyRef,        \* ref names, among them the empty string
  Commits, NoCommit,     \* commit hashes
  Trees, NoTree,         \* tree hashes
  Sums, NoSum            \* SHA-256 sums of shard files

ASSUME ManifestAssumption ==
  /\ NoShard \notin ShardIDs
  /\ EmptyRef \in Refs
  /\ NoCommit \notin Commits
  /\ NoTree \notin Trees
  /\ NoSum \notin Sums

States == {"CREATING", "UNREFERENCED", "REFERENCED", "DELETING"}

\* The places a ref can be recorded at.
Places == Repos \X Refs

Manifests ==
  [state : [ShardIDs -> States \cup {""}],      \* Shard.State
   tree : [ShardIDs -> Trees \cup {NoTree}],    \* Shard.TreeHash
   sum : [ShardIDs -> Sums \cup {NoSum}],       \* Shard.SHA256
   default : [Repos -> Refs],                   \* Repo.DefaultRef
   shard : [Places -> ShardIDs \cup {NoShard}], \* RepoRef.ShardID
   commit : [Places -> Commits \cup {NoCommit}]]\* RepoRef.CommitHash

\* &Manifest{}: what LoadManifest returns when nothing has been written.
EmptyManifest ==
  [state |-> [id \in ShardIDs |-> ""],
   tree |-> [id \in ShardIDs |-> NoTree],
   sum |-> [id \in ShardIDs |-> NoSum],
   default |-> [r \in Repos |-> EmptyRef],
   shard |-> [p \in Places |-> NoShard],
   commit |-> [p \in Places |-> NoCommit]]

-----------------------------------------------------------------------------
(***************************************************************************)
(* The shard life cycle.                                                   *)
(***************************************************************************)
\* The table `allowed`: the transitions a shard may make, as triples.
Allowed ==
  {<<"", "ALLOCATE", "CREATING">>,
   <<"CREATING", "CREATED", "UNREFERENCED">>,
   <<"CREATING", "UNREFERENCED", "CREATING">>,
   <<"CREATING", "TOMBSTONE", "DELETING">>,
   <<"UNREFERENCED", "UNREFERENCED", "UNREFERENCED">>,
   <<"UNREFERENCED", "REFERENCED", "REFERENCED">>,
   <<"UNREFERENCED", "TOMBSTONE", "DELETING">>,
   <<"REFERENCED", "REFERENCED", "REFERENCED">>,
   <<"REFERENCED", "UNREFERENCED", "UNREFERENCED">>,
   <<"DELETING", "DELETED", "">>}

\* Shard.transition: does the table have an entry, and which state follows.
Can(s, action) == \E t \in States \cup {""} : <<s, action, t>> \in Allowed
After(s, action) == CHOOSE t \in States \cup {""} : <<s, action, t>> \in Allowed

Exists(m, id) == m.state[id] # ""

\* The shards some ref points to: ReconcileShardStates' inUse.
InUse(m) == {m.shard[p] : p \in Places}

\* Mutant: a shard in use is never taken back.
UseOnce(m, id) ==
  IF id \in InUse(m) \/ m.state[id] = "REFERENCED" THEN "REFERENCED" ELSE "UNREFERENCED"

\* What ReconcileShardStates asks of each shard of the map.
Use(m, id) == IF id \in InUse(m) THEN "REFERENCED" ELSE "UNREFERENCED"

\* ReconcileShardStates returns true: every shard of the map can follow.
Reconciles(m) ==
  \A id \in ShardIDs : Exists(m, id) => Can(m.state[id], Use(m, id))

-----------------------------------------------------------------------------
(***************************************************************************)
(* The functions the handlers pass to manifestTxn: Accepts(q, m) when the  *)
(* function returns nil for request q on the manifest m that was loaded,   *)
(* Result(q, m) the manifest it leaves to be written.                      *)
(***************************************************************************)
\* A shard of the map gets a new state and, once created, its description.
WithShard(m, id, state, tree, sum) ==
  [state |-> [m.state EXCEPT ![id] = state],
   tree |-> [m.tree EXCEPT ![id] = tree],
   sum |-> [m.sum EXCEPT ![id] = sum],
   default |-> m.default, shard |-> m.shard, commit |-> m.commit]

\* UpdateRepoShard before ReconcileShardStates: the repo and the ref are
\* created if need be, the first ref of a repo becomes its default.
Repointed(m, q) ==
  [state |-> m.state, tree |-> m.tree, sum |-> m.sum,
   default |-> [m.default EXCEPT ![q.repo] = IF @ = EmptyRef THEN q.ref ELSE @],
   shard |-> [m.shard EXCEPT ![<<q.repo, q.ref>>] = q.id],
   commit |-> [m.commit EXCEPT ![<<q.repo, q.ref>>] = q.commit]]

\* ReconcileShardStates on a manifest it returns true for.
Reconciled(m) ==
  [state |-> [id \in ShardIDs |->
                IF Exists(m, id) THEN After(m.state[id], Use(m, id)) ELSE ""],
   tree |-> m.tree, sum |-> m.sum, default |-> m.default,
   shard |-> m.shard, commit |-> m.commit]

\* CreateShard draws random ids until one is not in the map.
Drawn(q, m) ==
  IF q.op = "allocate"
  THEN {[op |-> "allocate", id |-> id] : id \in {i \in ShardIDs : ~Exists(m, i)}}
  ELSE {q}

\* Mutant: CompleteShard takes any shard of the map.
AcceptsCompleted(q, m) ==
  \/ q.op = "allocate"
  \/ q.op = "complete" /\ Exists(m, q.id)
  \/ q.op = "update" /\ Exists(m, q.id) /\ Reconciles(Repointed(m, q))
  \/ q.op = "setDefault" /\ m.shard[<<q.repo, q.ref>>] # NoShard

Accepts(q, m) ==
  \/ q.op = "allocate"
  \/ q.op = "complete" /\ Can(m.state[q.id], "CREATED")
  \/ q.op = "update" /\ Exists(m, q.id) /\ Reconciles(Repointed(m, q))
  \/ q.op = "setDefault" /\ m.shard[<<q.repo, q.ref>>] # NoShard

Result(q, m) ==
  CASE q.op = "allocate" -> WithShard(m, q.id, "CREATING", NoTree, NoSum)
    [] q.op = "complete" -> WithShard(m, q.id, "UNREFERENCED", q.tree, q.sum)
    [] q.op = "update" -> Reconciled(Repointed(m, q))
    [] q.op = "setDefault" ->
         [state |-> m.state, tree |-> m.tree, sum |-> m.sum,
          default |-> [m.default EXCEPT ![q.repo] = q.ref],
          shard |-> m.shard, commit |-> m.commit]

\* The requests clients send.
Requests ==
  [op : {"allocate"}, id : {NoShard}]
    \cup [op : {"complete"}, id : ShardIDs, tree : Trees, sum : Sums]
    \cup [op : {"update"}, id : ShardIDs, repo : Repos, ref : Refs, commit : Commits]
    \cup [op : {"setDefault"}, repo : Repos, ref : Refs]

\* The requests with the id CreateShard drew for an allocation.
DrawnRequests == Requests \cup [op : {"allocate"}, id : ShardIDs]
=============================================================================
