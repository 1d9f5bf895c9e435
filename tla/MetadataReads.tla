---------------------------- MODULE MetadataReads ----------------------------
(***************************************************************************)
(* The calls of IndexMetadataService that only read the manifest           *)
(* (cmd/cindex-serve/main.go): each loads the latest manifest and answers  *)
(* from it, and the client uses the answer while others go on changing     *)
(* the manifest.  A change is one step, as Metadata specifies it.          *)
(***************************************************************************)
EXTENDS Manifest, FiniteSets

VARIABLES
  manifest,
  answer           \* the answer a client is using: what was asked, and the value

readVars == <<manifest, answer>>

CONSTANTS
  NotFound,        \* status NotFound
  Panic            \* a nil pointer is dereferenced

\* The RepoRef messages: a ref, and the Shard it points to.
RepoRefs ==
  [repo : Repos, ref : Refs, commit : Commits \cup {NoCommit},
   shard : [id : ShardIDs, tree : Trees \cup {NoTree}, state : States \cup {""},
            sum : Sums \cup {NoSum}]]

ASSUME ReadsAssumption == Panic \notin RepoRefs

-----------------------------------------------------------------------------
(***************************************************************************)
(* The answers.                                                            *)
(***************************************************************************)
\* convertShard.
ConvertShard(m, id) ==
  [id |-> id, tree |-> m.tree[id], state |-> m.state[id], sum |-> m.sum[id]]

\* convertRepoRef, of the ref and the shard it looks up unchecked.
ConvertRepoRef(m, r, f) ==
  IF m.shard[<<r, f>>] = NoShard THEN Panic
  ELSE [repo |-> r, ref |-> f, commit |-> m.commit[<<r, f>>],
        shard |-> ConvertShard(m, m.shard[<<r, f>>])]

RefsOf(m, r) == {f \in Refs : m.shard[<<r, f>>] # NoShard}

GetShard(m, id) == IF Exists(m, id) THEN ConvertShard(m, id) ELSE NotFound

\* Mutant: without a tree the states are not looked at.
SearchShardsAny(m, tree, states) ==
  {id \in ShardIDs : /\ Exists(m, id)
                     /\ tree = NoTree \/ (m.tree[id] = tree
                                         /\ (states = {} \/ m.state[id] \in states))}

\* No tree and no states: every shard matches.
SearchShards(m, tree, states) ==
  {id \in ShardIDs : /\ Exists(m, id)
                     /\ tree = NoTree \/ m.tree[id] = tree
                     /\ states = {} \/ m.state[id] \in states}

GetRepo(m, r) ==
  IF RefsOf(m, r) = {} THEN NotFound
  ELSE [default |-> ConvertRepoRef(m, r, m.default[r]), refs |-> RefsOf(m, r)]

GetRepoRef(m, r, f) == IF f \notin RefsOf(m, r) THEN NotFound ELSE ConvertRepoRef(m, r, f)

\* The default refs of the repositories there are.
ListRepoRefs(m) ==
  {ConvertRepoRef(m, r, m.default[r]) : r \in {x \in Repos : RefsOf(m, x) # {}}}

-----------------------------------------------------------------------------
ReadInit ==
  /\ manifest = EmptyManifest
  /\ answer = [asked |-> "none"]

\* A mutating call of another client takes effect.
Change(q) ==
  /\ \E d \in Drawn(q, manifest) :
       /\ Accepts(d, manifest)
       /\ manifest' = Result(d, manifest)
  /\ UNCHANGED answer

Answered(asked, value) == answer' = [asked |-> asked, value |-> value] /\ UNCHANGED manifest

AskShard(id) == Answered("shard", GetShard(manifest, id))
AskSearch(tree, states) ==
  /\ answer' = [asked |-> "search", tree |-> tree, states |-> states,
                value |-> SearchShards(manifest, tree, states)]
  /\ UNCHANGED manifest
AskRepo(r) == Answered("repo", GetRepo(manifest, r))
AskRef(r, f) == Answered("ref", GetRepoRef(manifest, r, f))
AskList == Answered("list", ListRepoRefs(manifest))

\* What clients ask SearchShards for: any state, or the complete shards.
AskedStates == {{}, {"UNREFERENCED", "REFERENCED"}, {"CREATING"}}

Ask ==
  \/ \E id \in ShardIDs : AskShard(id)
  \/ \E t \in Trees \cup {NoTree}, s \in AskedStates : AskSearch(t, s)
  \/ \E r \in Repos : AskRepo(r)
  \/ \E r \in Repos, f \in Refs : AskRef(r, f)
  \/ AskList

-----------------------------------------------------------------------------
\* The refs an answer shows.
Shown ==
  CASE answer.asked = "repo" /\ answer.value # NotFound -> {answer.value.default}
    [] answer.asked = "ref" /\ answer.value # NotFound -> {answer.value}
    [] answer.asked = "list" -> answer.value
    [] OTHER -> {}

\* No read dereferences a nil ref or shard, whatever was written before it.
NoNilDereference == Panic \notin Shown

\* A ref that is shown has a complete shard, and the tree and sum shown are
\* still those of the shard when the client uses them, whatever happened.
ShownStaysTrue ==
  \A ref \in Shown \ {Panic} :
    /\ ref.shard.sum # NoSum
    /\ Exists(manifest, ref.shard.id)
    /\ manifest.sum[ref.shard.id] = ref.shard.sum
    /\ manifest.tree[ref.shard.id] = ref.shard.tree

\* A shard found by its tree among the complete ones is accepted by
\* UpdateRepoShard at any later time, and still has that tree: the indexer
\* searches for a shard first and points the ref to it in a later call.
FoundStaysUsable ==
  answer.asked = "search" /\ answer.states = {"UNREFERENCED", "REFERENCED"} =>
    \A id \in answer.value, r \in Repos, f \in Refs, c \in Commits :
      /\ Accepts([op |-> "update", id |-> id, repo |-> r, ref |-> f, commit |-> c], manifest)
      /\ answer.tree # NoTree => manifest.tree[id] = answer.tree

\* What a reader was told it may rely on in its next call.
ReadsStayTrue == NoNilDereference /\ ShownStaysTrue /\ FoundStaysUsable
=============================================================================
