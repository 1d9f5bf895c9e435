------------------------------ MODULE Indexer ------------------------------
(***************************************************************************)
(* The nightly jobs of k8s/cron.yaml: cmd/cindex-git fetches a ref, and    *)
(* unless its commit is indexed already points the ref to a shard of the   *)
(* same tree, or builds one: AllocateShard, two WriteShard streams,        *)
(* CompleteShard, UpdateRepoShard.                                         *)
(*                                                                         *)
(* Each call to IndexMetadataService is one step, as module Metadata       *)
(* specifies and ManifestStore implements; a WriteShard stream truncates   *)
(* the file in one step and has filled it in a later one.  A job may die   *)
(* between any two steps: every error ends in log.Fatal, and               *)
(* concurrencyPolicy Replace kills a job that is still running when its    *)
(* successor starts, so that a ref has one job at a time.  A metadata call *)
(* that was sent is carried out even when its job is dead: manifestTxn     *)
(* looks at the context of the call only on the retry it never makes.      *)
(***************************************************************************)
EXTENDS Manifest

CONSTANTS
  Jobs,            \* the places that have a cron job
  TreeOf,          \* commit -> its tree
  SumOf,           \* tree -> SHA-256 of the shard file built from it
  NoFiles,         \* the trees without files: their shard has no raw file
  MaxTrouble       \* bounds the jobs that die and those run with -force

ASSUME IndexerAssumption ==
  /\ Jobs \subseteq Places
  /\ Commits \subseteq Nat     \* in the order of the remote's history
  /\ TreeOf \in [Commits -> Trees]
  /\ SumOf \in [Trees -> Sums]
  /\ NoFiles \subseteq Trees
  /\ MaxTrouble \in Nat

VARIABLES
  manifest,        \* the current manifest
  file, raw,       \* what storage holds under ID and ID.raw
  remote,          \* the commit each ref is at, at its origin
  pc,              \* where each job is
  head,            \* the commit it fetched
  shard,           \* the shard it allocated or found
  sent,            \* metadata calls under way whose job is dead
  trouble          \* counts towards MaxTrouble

stores == <<manifest, file, raw>>
others == <<remote, sent, trouble>>
vars == <<stores, remote, pc, head, shard, sent, trouble>>

Contents == {"absent", "partial"} \cup Trees

Init ==
  /\ manifest = EmptyManifest
  /\ file = [id \in ShardIDs |-> "absent"]
  /\ raw = [id \in ShardIDs |-> "absent"]
  /\ remote \in [Jobs -> Commits]
  /\ pc = [j \in Jobs |-> "idle"]
  /\ head = [j \in Jobs |-> NoCommit]
  /\ shard = [j \in Jobs |-> NoShard]
  /\ sent = {}
  /\ trouble = 0

Tree(j) == TreeOf[head[j]]

Go(j, where) == pc' = [pc EXCEPT ![j] = where]

\* The calls a job makes that change the manifest.
Allocation == [op |-> "allocate", id |-> NoShard]
Completion(j) ==
  [op |-> "complete", id |-> shard[j], tree |-> Tree(j), sum |-> SumOf[Tree(j)]]
Update(j) ==
  [op |-> "update", id |-> shard[j], repo |-> j[1], ref |-> j[2], commit |-> head[j]]

-----------------------------------------------------------------------------
\* Somebody pushes; syncRemote's refspec takes fast-forwards only.
Push(j) ==
  /\ \E c \in Commits : c > remote[j] /\ remote' = [remote EXCEPT ![j] = c]
  /\ UNCHANGED <<stores, pc, head, shard, sent, trouble>>

\* Mutant: a failed fetch is ignored, the commit is any the ref was at.
StartCached(j) ==
  /\ pc[j] = "idle"
  /\ \E c \in Commits : c <= remote[j] /\ head' = [head EXCEPT ![j] = c]
  /\ Go(j, "check")
  /\ UNCHANGED <<stores, shard, others>>

\* The job starts, fetches the ref and resolves its commit.
Start(j) ==
  /\ pc[j] = "idle"
  /\ head' = [head EXCEPT ![j] = remote[j]]
  /\ Go(j, "check")
  /\ UNCHANGED <<stores, shard, others>>

\* An operator runs it with -force: it builds whatever there is.
StartForced(j) ==
  /\ pc[j] = "idle" /\ trouble < MaxTrouble
  /\ head' = [head EXCEPT ![j] = remote[j]]
  /\ trouble' = trouble + 1
  /\ Go(j, "allocate")
  /\ UNCHANGED <<stores, shard, remote, sent>>

\* Mutant: a ref that is known is taken to be indexed.
CheckRefKnown(j) ==
  /\ pc[j] = "check"
  /\ Go(j, IF manifest.shard[j] # NoShard THEN "idle" ELSE "search")
  /\ UNCHANGED <<stores, head, shard, others>>

\* GetRepoRef: is the commit indexed already?
CheckRef(j) ==
  /\ pc[j] = "check"
  /\ Go(j, IF manifest.commit[j] = head[j] THEN "idle" ELSE "search")
  /\ UNCHANGED <<stores, head, shard, others>>

\* Mutant: the filter on the tree is lost.
FoundAny(t) ==
  {id \in ShardIDs : manifest.state[id] \in {"UNREFERENCED", "REFERENCED"}}

\* The shards SearchShards returns, in any order, for a tree.
Found(t) ==
  {id \in ShardIDs : manifest.tree[id] = t
                       /\ manifest.state[id] \in {"UNREFERENCED", "REFERENCED"}}

\* SearchShards: the first shard returned is used.
Search(j) ==
  /\ pc[j] = "search"
  /\ \/ /\ Found(Tree(j)) = {} /\ Go(j, "allocate")
        /\ UNCHANGED shard
     \/ \E id \in Found(Tree(j)) :
          shard' = [shard EXCEPT ![j] = id] /\ Go(j, "update")
  /\ UNCHANGED <<stores, head, others>>

\* indexRepo builds the index in memory; AllocateShard.  The bound on shards:
\* when no id is left the call fails.
Allocate(j) ==
  /\ pc[j] = "allocate"
  /\ \/ /\ \E d \in Drawn(Allocation, manifest) :
             /\ manifest' = Result(d, manifest)
             /\ shard' = [shard EXCEPT ![j] = d.id]
        /\ Go(j, "write")
     \/ /\ Drawn(Allocation, manifest) = {}
        /\ Go(j, "idle")
        /\ UNCHANGED <<manifest, shard>>
  /\ UNCHANGED <<file, raw, head, others>>

\* WriteShard opens the file with O_TRUNC.
WriteOpens(j) ==
  /\ pc[j] = "write"
  /\ file' = [file EXCEPT ![shard[j]] = "partial"]
  /\ Go(j, "writing")
  /\ UNCHANGED <<manifest, raw, head, shard, others>>

\* Mutant: the raw file is never written.
WriteEndsNoRaw(j) ==
  /\ pc[j] = "writing"
  /\ file' = [file EXCEPT ![shard[j]] = Tree(j)]
  /\ Go(j, "complete")
  /\ UNCHANGED <<manifest, raw, head, shard, others>>

\* The stream is written out, and answered with the sum of what was read.
WriteEnds(j) ==
  /\ pc[j] = "writing"
  /\ file' = [file EXCEPT ![shard[j]] = Tree(j)]
  /\ Go(j, IF Tree(j) \in NoFiles THEN "complete" ELSE "raw")
  /\ UNCHANGED <<manifest, raw, head, shard, others>>

\* The same with suffix "raw", for the documents themselves.
RawOpens(j) ==
  /\ pc[j] = "raw"
  /\ raw' = [raw EXCEPT ![shard[j]] = "partial"]
  /\ Go(j, "raw writing")
  /\ UNCHANGED <<manifest, file, head, shard, others>>

RawEnds(j) ==
  /\ pc[j] = "raw writing"
  /\ raw' = [raw EXCEPT ![shard[j]] = Tree(j)]
  /\ Go(j, "complete")
  /\ UNCHANGED <<manifest, file, head, shard, others>>

\* CompleteShard; the error of one that is not accepted is fatal.
Complete(j) ==
  /\ pc[j] = "complete"
  /\ \/ /\ Accepts(Completion(j), manifest)
        /\ manifest' = Result(Completion(j), manifest)
        /\ Go(j, "update")
     \/ /\ ~Accepts(Completion(j), manifest)
        /\ Go(j, "idle")
        /\ UNCHANGED manifest
  /\ UNCHANGED <<file, raw, head, shard, others>>

\* UpdateRepoShard, and the job is done.
UpdateRef(j) ==
  /\ pc[j] = "update"
  /\ \/ Accepts(Update(j), manifest) /\ manifest' = Result(Update(j), manifest)
     \/ ~Accepts(Update(j), manifest) /\ UNCHANGED manifest
  /\ Go(j, "idle")
  /\ UNCHANGED <<file, raw, head, shard, others>>

\* The call a job waits for, if it is one that changes the manifest.
Pending(j) ==
  CASE pc[j] = "allocate" -> {Allocation}
    [] pc[j] = "complete" -> {Completion(j)}
    [] pc[j] = "update" -> {Update(j)}
    [] OTHER -> {}

\* The job dies.  The call it was about to make may have been sent.
Die(j) ==
  /\ pc[j] # "idle" /\ trouble < MaxTrouble
  /\ trouble' = trouble + 1
  /\ Go(j, "idle")
  /\ \/ UNCHANGED sent
     \/ sent' = sent \cup Pending(j)
  /\ UNCHANGED <<stores, remote, head, shard>>

\* The server gets to a call whose job is dead, or never does.
Late(q) ==
  /\ sent' = sent \ {q}
  /\ \/ \E d \in Drawn(q, manifest) :
          Accepts(d, manifest) /\ manifest' = Result(d, manifest)
     \/ UNCHANGED manifest
  /\ UNCHANGED <<file, raw, remote, pc, head, shard, trouble>>

Step(j) ==
  \/ CheckRef(j) \/ Search(j) \/ Allocate(j) \/ WriteOpens(j) \/ WriteEnds(j)
  \/ RawOpens(j) \/ RawEnds(j) \/ Complete(j) \/ UpdateRef(j)

Next ==
  \/ \E j \in Jobs : Push(j) \/ Start(j) \/ StartForced(j) \/ Step(j) \/ Die(j)
  \/ \E q \in sent : Late(q)

Spec == Init /\ [][Next]_vars

\* The cron starts every job again and again, and one that is not killed
\* gets on; the server is done at some time with a call it has received.
FairSpec ==
  /\ Spec
  /\ \A j \in Jobs : WF_vars(Start(j)) /\ WF_vars(Step(j))
  /\ WF_vars(\E q \in sent : Late(q))

-----------------------------------------------------------------------------
Where == {"idle", "check", "search", "allocate", "write", "writing", "raw",
          "raw writing", "complete", "update"}

TypeOK ==
  /\ manifest \in Manifests
  /\ file \in [ShardIDs -> Contents]
  /\ raw \in [ShardIDs -> Contents]
  /\ remote \in [Jobs -> Commits]
  /\ pc \in [Jobs -> Where]
  /\ head \in [Jobs -> Commits \cup {NoCommit}]
  /\ shard \in [Jobs -> ShardIDs \cup {NoShard}]
  /\ sent \subseteq Requests
  /\ trouble \in 0..MaxTrouble

\* The shard a ref points to was built from the tree of the commit recorded
\* with it, though the two were put together by different calls, and the
\* shard perhaps built by the job of another repository.
RefServesItsCommit ==
  \A p \in Places :
    manifest.shard[p] # NoShard =>
      /\ manifest.commit[p] # NoCommit
      /\ manifest.tree[manifest.shard[p]] = TreeOf[manifest.commit[p]]

\* A shard past CREATING has both its files, complete, with the content of
\* the tree and the sum it is recorded with: a search that finds the shard
\* in the manifest can load it, whichever jobs died on the way.
CompletedIsStored ==
  \A id \in ShardIDs :
    manifest.state[id] \in {"UNREFERENCED", "REFERENCED"} =>
      /\ file[id] = manifest.tree[id]
      /\ manifest.sum[id] = SumOf[manifest.tree[id]]
      /\ raw[id] = IF manifest.tree[id] \in NoFiles THEN "absent" ELSE manifest.tree[id]

\* A ref goes back to an older commit only by the late call of a dead job.
ForwardUnlessLate ==
  [][\A j \in Jobs :
       manifest.shard[j] # NoShard /\ manifest'.commit[j] < manifest.commit[j]
         => sent' # sent]_vars

\* When pushes and troubles come to an end every ref is served at the commit
\* it has at its origin, and stays so.
CatchesUp == \A j \in Jobs : <>[](manifest.commit[j] = remote[j])
=============================================================================
