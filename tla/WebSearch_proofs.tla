--------------------------- MODULE WebSearch_proofs ---------------------------
(***************************************************************************)
(* What readers of the manifest may rely on, that a page is complete and   *)
(* that its count is bounded by what it shows, for any sets of shards,     *)
(* repositories and refs and any results.                                  *)
(***************************************************************************)
EXTENDS WebSearch, Manifest_proofs, SequenceTheorems, FiniteSetTheorems, WellFoundedInduction

-----------------------------------------------------------------------------
(***************************************************************************)
(* What a reader was told stays true: a description is never taken back.   *)
(***************************************************************************)
\* No call tombstones a shard.
NoneDeleting(m) == \A id \in ShardIDs : m.state[id] # "DELETING"

\* What a RepoRef message says is so in the manifest m.
Told(m, x) ==
  /\ x.shard.id \in ShardIDs /\ x.shard.tree # NoTree /\ x.shard.sum \in Sums
  /\ m.tree[x.shard.id] = x.shard.tree /\ m.sum[x.shard.id] = x.shard.sum
  /\ Exists(m, x.shard.id)

\* A shard found among the complete ones.
Usable(m, tree, id) ==
  id \in ShardIDs /\ m.tree[id] # NoTree /\ (tree # NoTree => m.tree[id] = tree)

\* convertRepoRef of a ref that is there: a message that is true.
LEMMA ConvertTold ==
  ASSUME NEW m, Sound(m), NEW r \in Repos, NEW f \in Refs, m.shard[<<r, f>>] # NoShard
  PROVE  ConvertRepoRef(m, r, f) \in RepoRefs /\ Told(m, ConvertRepoRef(m, r, f))
<1> DEFINE p == <<r, f>>
           i == m.shard[p]
           x == ConvertRepoRef(m, r, f)
<1>1. m \in Manifests /\ p \in Places
  BY DEF Sound, Places
<1>2. i \in ShardIDs /\ m.commit[p] \in Commits \cup {NoCommit}
  BY <1>1 DEF Manifests
<1>3. m.state[i] = "REFERENCED"
  BY <1>1, <1>2 DEF Sound, Served, InUse
<1>4. m.tree[i] # NoTree /\ m.sum[i] # NoSum
  BY <1>2, <1>3 DEF Sound, Described
<1>5. m.tree[i] \in Trees \cup {NoTree} /\ m.sum[i] \in Sums \cup {NoSum}
        /\ m.state[i] \in States
  BY <1>1, <1>2, <1>3 DEF Manifests, States
<1>6. x = [repo |-> r, ref |-> f, commit |-> m.commit[p],
           shard |-> [id |-> i, tree |-> m.tree[i], state |-> m.state[i], sum |-> m.sum[i]]]
  BY DEF ConvertRepoRef, ConvertShard
<1>0. x = ConvertRepoRef(m, r, f)
  OBVIOUS
<1> HIDE DEF x, i, p
<1>7. x \in RepoRefs
  BY <1>2, <1>5, <1>6 DEF RepoRefs
<1>8. Told(m, x)
  BY <1>2, <1>3, <1>4, <1>5, <1>6 DEF Told, Exists
<1> QED
  BY <1>0, <1>7, <1>8

\* The refs of a list are those of repositories whose default resolves.
LEMMA ListTold ==
  ASSUME NEW m, Sound(m), NEW x \in ListRepoRefs(m)
  PROVE  x \in RepoRefs /\ Told(m, x)
<1>1. PICK r \in Repos : RefsOf(m, r) # {} /\ x = ConvertRepoRef(m, r, m.default[r])
  BY DEF ListRepoRefs
<1>2. m.default[r] \in Refs
  BY DEF Sound, Manifests
<1>3. m.shard[<<r, m.default[r]>>] # NoShard
  BY <1>1 DEF RefsOf, Sound, Resolves
<1> QED
  BY <1>1, <1>2, <1>3, ConvertTold

\* A later manifest does not contradict the message.
LEMMA ToldStays ==
  ASSUME NEW m, NEW n, NEW x, Told(m, x), Keeps(m, n)
  PROVE  Told(n, x)
BY DEF Told, Keeps

LEMMA UsableStays ==
  ASSUME NEW m, NEW n, NEW t, NEW id, Usable(m, t, id), Keeps(m, n)
  PROVE  Usable(n, t, id)
BY DEF Usable, Keeps

\* Nothing the handlers do leads to DELETING.
LEMMA ResultLive ==
  ASSUME NEW m, Sound(m), NoneDeleting(m), NEW q \in Requests, NEW d \in Drawn(q, m),
         Accepts(d, m)
  PROVE  NoneDeleting(Result(d, m))
<1>1. m \in Manifests
  BY DEF Sound
<1>2. CASE q.op = "allocate"
  <2>1. PICK i \in ShardIDs : d = [op |-> "allocate", id |-> i]
    BY <1>2 DEF Drawn
  <2> DEFINE n == Result(d, m)
  <2>2. n = WithShard(m, i, "CREATING", NoTree, NoSum)
    BY <2>1 DEF Result
  <2> HIDE DEF n
  <2>3. n.state[i] = "CREATING" /\ \A y \in ShardIDs \ {i} : n.state[y] = m.state[y]
    BY <1>1, <2>2, WithShardFields
  <2>4. NoneDeleting(n)
    BY <2>3 DEF NoneDeleting
  <2> QED
    BY <2>4 DEF n
<1>3. CASE q.op = "complete"
  <2>1. PICK i \in ShardIDs, t \in Trees, s \in Sums : d = [op |-> "complete", id |-> i,
            tree |-> t, sum |-> s]
    BY <1>3 DEF Drawn, Requests
  <2> DEFINE n == Result(d, m)
  <2>2. n = WithShard(m, i, "UNREFERENCED", t, s)
    BY <2>1 DEF Result
  <2> HIDE DEF n
  <2>3. n.state[i] = "UNREFERENCED" /\ \A y \in ShardIDs \ {i} : n.state[y] = m.state[y]
    BY <1>1, <2>2, WithShardFields
  <2>4. NoneDeleting(n)
    BY <2>3 DEF NoneDeleting
  <2> QED
    BY <2>4 DEF n
<1>4. CASE q.op = "update"
  <2>1. d = q /\ q.op = "update"
    BY <1>4 DEF Drawn
  <2> DEFINE p == Repointed(m, d)
  <2>2. Result(d, m) = Reconciled(p) /\ Reconciles(p)
    BY <2>1 DEF Result, Accepts
  <2> HIDE DEF p
  <2>3. ASSUME NEW id \in ShardIDs, Exists(p, id) PROVE After(p.state[id], Use(p,
            id)) # "DELETING"
    <3>1. Can(p.state[id], Use(p, id))
      BY <2>2, <2>3 DEF Reconciles
    <3> QED
      BY <3>1, AfterReferenced, AfterUnreferenced DEF Use
  <2>4. \A id \in ShardIDs : Reconciled(p).state[id] # "DELETING"
    BY <2>3 DEF Reconciled
  <2> QED
    BY <2>2, <2>4 DEF NoneDeleting
<1>5. CASE q.op = "setDefault"
  <2>1. d = q
    BY <1>5 DEF Drawn
  <2>2. Result(d, m).state = m.state
    BY <1>5, <2>1 DEF Result
  <2> QED
    BY <2>2 DEF NoneDeleting
<1> QED
  BY <1>2, <1>3, <1>4, <1>5 DEF Requests

\* UpdateRepoShard takes a shard that is complete, whatever else is in the map.
LEMMA UsableAccepted ==
  ASSUME NEW m, Sound(m), NoneDeleting(m), NEW id \in ShardIDs, m.tree[id] # NoTree,
         NEW r \in Repos, NEW f \in Refs, NEW c \in Commits
  PROVE  Accepts([op |-> "update", id |-> id, repo |-> r, ref |-> f, commit |-> c], m)
<1> DEFINE u == [op |-> "update", id |-> id, repo |-> r, ref |-> f, commit |-> c]
           p == Repointed(m, u)
<1>1. m \in Manifests
  BY DEF Sound
<1>2. m.state[id] \in {"UNREFERENCED", "REFERENCED"}
  BY DEF Sound, Described, Whole
<1>3. Exists(m, id)
  BY <1>2 DEF Exists
<1>4. p.state = m.state /\ p.shard = [m.shard EXCEPT ![<<r, f>>] = id]
        /\ <<r, f>> \in Places
  BY DEF Repointed, Places
<1>5. \A z \in Places : p.shard[z] \in InUse(m) \cup {id}
  BY <1>1, <1>4 DEF Manifests, InUse
<1>6. InUse(p) \subseteq InUse(m) \cup {id}
  BY <1>5 DEF InUse
<1> HIDE DEF p
<1>7. ASSUME NEW i \in ShardIDs, m.state[i] # "" PROVE Can(m.state[i], Use(p, i))
  <2>1. CASE i \in InUse(p)
    <3>1. m.state[i] \in {"UNREFERENCED", "REFERENCED"}
      BY <1>2, <1>6, <2>1 DEF Sound, Served
    <3>2. Can("UNREFERENCED", "REFERENCED") /\ Can("REFERENCED", "REFERENCED")
      BY DEF Can, Allowed, States
    <3> QED
      BY <2>1, <3>1, <3>2 DEF Use
  <2>2. CASE i \notin InUse(p)
    <3>1. m.state[i] \in {"CREATING", "UNREFERENCED", "REFERENCED"}
      BY <1>1, <1>7 DEF NoneDeleting, Manifests, States
    <3>2. /\ Can("CREATING", "UNREFERENCED") /\ Can("UNREFERENCED", "UNREFERENCED")
          /\ Can("REFERENCED", "UNREFERENCED")
      BY DEF Can, Allowed, States
    <3> QED
      BY <2>2, <3>1, <3>2 DEF Use
  <2> QED
    BY <2>1, <2>2
<1>8. Reconciles(p)
  BY <1>4, <1>7 DEF Reconciles, Exists
<1> QED
  BY <1>3, <1>8 DEF Accepts, p

-----------------------------------------------------------------------------
(***************************************************************************)
(* The inductive invariant.  Each goroutine has added what the documents   *)
(* of its response that are left leave out.                                *)
(***************************************************************************)
Complete == {"UNREFERENCED", "REFERENCED"}

AnswerOK == \A x \in Shown : x \in RepoRefs /\ Told(manifest, x)

FoundOK ==
  answer.asked = "search" /\ answer.states = Complete =>
    \A id \in answer.value : Usable(manifest, answer.tree, id)

ListedOK == \A x \in refs : Told(manifest, x)

Added(x) ==
  /\ resp[x] \in Seq(Nat) /\ Results[x] \in Seq(Nat)
  /\ go[x] = "call" => Results[x] = <<>>
  /\ go[x] = "doc" => Results[x] \o resp[x] = Found[x.shard.sum]
  /\ go[x] = "read" => resp[x] # <<>> /\ Results[x] \o Tail(resp[x]) = Found[x.shard.sum]
  /\ go[x] = "done" => Results[x] = Found[x.shard.sum]

SearchOK ==
  page = "search" =>
    /\ DOMAIN go = refs /\ DOMAIN resp = refs /\ DOMAIN Results = refs
        /\ DOMAIN local = refs
    /\ \A x \in refs : Added(x)

ShownOK == page = "shown" => \A x \in refs : Results[x] = Found[x.shard.sum]

IInv ==
  /\ Sound(manifest) /\ NoneDeleting(manifest)
  /\ AnswerOK /\ FoundOK /\ ListedOK /\ SearchOK /\ ShownOK

LEMMA InitIInv == WebInit => IInv
<1> SUFFICES ASSUME WebInit PROVE IInv
  OBVIOUS
<1>1. Sound(manifest) /\ manifest = EmptyManifest
  BY EmptySound DEF WebInit, ReadInit
<1>2. NoneDeleting(manifest)
  BY <1>1 DEF EmptyManifest, NoneDeleting
<1>3. answer = [asked |-> "none"]
  BY DEF WebInit, ReadInit
<1>4. Shown = {} /\ answer.asked # "search"
  BY <1>3 DEF Shown
<1>5. page \in {"none", "idle"} /\ refs = {}
  BY DEF WebInit
<1> QED
  BY <1>1, <1>2, <1>4, <1>5 DEF IInv, AnswerOK, FoundOK, ListedOK, SearchOK, ShownOK

\* Another client changes the manifest.
LEMMA ChangeIInv ==
  ASSUME IInv, NEW q \in Requests, Change(q), UNCHANGED webVars
  PROVE  IInv'
<1>1. PICK d \in Drawn(q, manifest) : Accepts(d, manifest)
        /\ manifest' = Result(d, manifest)
  BY DEF Change
<1>2. UNCHANGED <<answer, page, refs, go, resp, Results, local>>
  BY DEF Change, webVars
<1>3. Sound(manifest') /\ Keeps(manifest, manifest') /\ NoneDeleting(manifest')
  BY <1>1, ResultSound, ResultKeeps, ResultLive DEF IInv
<1>4. Shown' = Shown
  BY <1>2 DEF Shown
<1>5. AnswerOK'
  BY <1>3, <1>4, ToldStays DEF IInv, AnswerOK
<1>6. FoundOK'
  BY <1>2, <1>3, UsableStays DEF IInv, FoundOK
<1>7. ListedOK'
  BY <1>2, <1>3, ToldStays DEF IInv, ListedOK
<1>8. SearchOK' /\ ShownOK'
  BY <1>2 DEF IInv, SearchOK, ShownOK, Added
<1> QED
  BY <1>3, <1>5, <1>6, <1>7, <1>8 DEF IInv

\* A client asks.
LEMMA AskIInv ==
  ASSUME IInv, Ask, UNCHANGED webVars
  PROVE  IInv'
<1>1. UNCHANGED <<manifest, page, refs, go, resp, Results, local>>
  BY DEF Ask, AskShard, AskSearch, AskRepo, AskRef, AskList, Answered, webVars
<1>2. ListedOK' /\ SearchOK' /\ ShownOK' /\ Sound(manifest)' /\ NoneDeleting(manifest)'
  BY <1>1 DEF IInv, ListedOK, SearchOK, ShownOK, Added
<1>3. Sound(manifest)
  BY DEF IInv
<1>4. AnswerOK' /\ FoundOK'
  <2>1. CASE \E id \in ShardIDs : AskShard(id)
    <3>1. answer'.asked = "shard"
      BY <2>1 DEF AskShard, Answered
    <3>2. Shown' = {}
      BY <3>1 DEF Shown
    <3> QED
      BY <3>1, <3>2 DEF AnswerOK, FoundOK
  <2>2. CASE \E t \in Trees \cup {NoTree}, s \in AskedStates : AskSearch(t, s)
    <3>1. PICK t \in Trees \cup {NoTree}, s \in AskedStates : AskSearch(t, s)
      BY <2>2
    <3>2. /\ answer'.asked = "search" /\ answer'.tree = t /\ answer'.states = s
          /\ answer'.value = SearchShards(manifest, t, s)
      BY <3>1 DEF AskSearch
    <3>3. Shown' = {}
      BY <3>2 DEF Shown
    <3>4. ASSUME s = Complete, NEW id \in SearchShards(manifest, t, s)
          PROVE  Usable(manifest, t, id)
      <4>1. id \in ShardIDs /\ manifest.state[id] \in Complete
              /\ (t = NoTree \/ manifest.tree[id] = t)
        BY <3>4 DEF SearchShards, Complete
      <4>2. manifest.tree[id] # NoTree
        BY <1>3, <4>1 DEF Sound, Described, Complete
      <4> QED
        BY <4>1, <4>2 DEF Usable
    <3> QED
      BY <1>1, <3>2, <3>3, <3>4 DEF AnswerOK, FoundOK
  <2>3. CASE \E r \in Repos : AskRepo(r)
    <3>1. PICK r \in Repos : AskRepo(r)
      BY <2>3
    <3>2. answer'.asked = "repo" /\ answer'.value = GetRepo(manifest, r)
      BY <3>1 DEF AskRepo, Answered
    <3>3. Shown' = IF GetRepo(manifest, r) # NotFound THEN {GetRepo(manifest,
              r).default} ELSE {}
      BY <3>2 DEF Shown
    <3>4. ASSUME GetRepo(manifest, r) # NotFound
          PROVE  GetRepo(manifest, r).default \in ListRepoRefs(manifest)
      <4>1. RefsOf(manifest, r) # {}
        BY <3>4 DEF GetRepo
      <4>2. GetRepo(manifest, r).default = ConvertRepoRef(manifest, r, manifest.default[r])
        BY <4>1 DEF GetRepo
      <4> QED
        BY <4>1, <4>2 DEF ListRepoRefs
    <3> QED
      BY <1>1, <1>3, <3>2, <3>3, <3>4, ListTold DEF AnswerOK, FoundOK
  <2>4. CASE \E r \in Repos, f \in Refs : AskRef(r, f)
    <3>1. PICK r \in Repos, f \in Refs : AskRef(r, f)
      BY <2>4
    <3>2. answer'.asked = "ref" /\ answer'.value = GetRepoRef(manifest, r, f)
      BY <3>1 DEF AskRef, Answered
    <3>3. Shown' = IF GetRepoRef(manifest, r, f) # NotFound THEN {GetRepoRef(manifest, r,
              f)} ELSE {}
      BY <3>2 DEF Shown
    <3>4. ASSUME GetRepoRef(manifest, r, f) # NotFound
          PROVE  /\ GetRepoRef(manifest, r, f) \in RepoRefs
                 /\ Told(manifest, GetRepoRef(manifest, r, f))
      <4>1. f \in RefsOf(manifest, r)
              /\ GetRepoRef(manifest, r, f) = ConvertRepoRef(manifest, r, f)
        BY <3>4 DEF GetRepoRef
      <4> QED
        BY <1>3, <4>1, ConvertTold DEF RefsOf
    <3> QED
      BY <1>1, <3>2, <3>3, <3>4 DEF AnswerOK, FoundOK
  <2>5. CASE AskList
    <3>1. answer'.asked = "list" /\ answer'.value = ListRepoRefs(manifest)
      BY <2>5 DEF AskList, Answered
    <3>2. Shown' = ListRepoRefs(manifest)
      BY <3>1 DEF Shown
    <3> QED
      BY <1>1, <1>3, <3>1, <3>2, ListTold DEF AnswerOK, FoundOK
  <2> QED
    BY <2>1, <2>2, <2>3, <2>4, <2>5 DEF Ask
<1> QED
  BY <1>2, <1>4 DEF IInv

\* The steps of the page leave the manifest and the other answers alone.
LEMMA PageLeaves ==
  ASSUME IInv, UNCHANGED readVars
  PROVE  Sound(manifest)' /\ NoneDeleting(manifest)' /\ AnswerOK' /\ FoundOK'
BY DEF IInv, readVars, AnswerOK, FoundOK, Shown

LEMMA ListIInv ==
  ASSUME IInv, ListRefs \/ ListFails \/ Show
  PROVE  IInv'
<1>1. UNCHANGED <<manifest, answer>> /\ UNCHANGED readVars
  BY DEF ListRefs, ListFails, Show, readVars
<1>2. Sound(manifest)' /\ NoneDeleting(manifest)' /\ AnswerOK' /\ FoundOK'
  BY <1>1, PageLeaves
<1>3. CASE ListRefs
  <2>1. /\ page' = "search" /\ refs' = ListRepoRefs(manifest)
        /\ go' = [x \in refs' |-> "call"]
        /\ resp' = [x \in refs' |-> <<>>] /\ Results' = resp'
        /\ local' = [x \in refs' |-> 0]
    BY <1>3 DEF ListRefs
  <2>2. ListedOK'
    BY <1>1, <2>1, ListTold DEF IInv, ListedOK
  <2>3. SearchOK'
    <3>1. <<>> \in Seq(Nat)
      OBVIOUS
    <3> QED
      BY <2>1, <3>1 DEF SearchOK, Added
  <2>4. ShownOK'
    BY <2>1 DEF ShownOK
  <2> QED
    BY <1>2, <2>2, <2>3, <2>4 DEF IInv
<1>4. CASE ListFails
  <2>1. page' = "error" /\ UNCHANGED refs
    BY <1>4 DEF ListFails
  <2> QED
    BY <1>1, <1>2, <2>1 DEF IInv, ListedOK, SearchOK, ShownOK
<1>5. CASE Show
  <2>1. /\ page = "search" /\ Waited
        /\ page' = IF \E x \in refs : go[x] = "failed" THEN "error" ELSE "shown"
        /\ UNCHANGED <<refs, Results>>
    BY <1>5 DEF Show
  <2>2. ListedOK' /\ SearchOK'
    BY <1>1, <2>1 DEF IInv, ListedOK, SearchOK
  <2>3. ShownOK'
    <3> SUFFICES ASSUME page' = "shown",
            NEW x \in refs PROVE Results[x] = Found[x.shard.sum]
      BY <2>1 DEF ShownOK
    <3>1. go[x] = "done"
      BY <2>1 DEF Waited
    <3> QED
      BY <2>1, <3>1 DEF IInv, SearchOK, Added
  <2> QED
    BY <1>2, <2>2, <2>3 DEF IInv
<1> QED
  BY <1>3, <1>4, <1>5

\* Moving the head of what is left to the end of what is added.
LEMMA MoveHead ==
  ASSUME NEW a \in Seq(Nat), NEW b \in Seq(Nat), b # <<>>
  PROVE  /\ Append(a, Head(b)) \in Seq(Nat) /\ Tail(b) \in Seq(Nat)
         /\ Append(a, Head(b)) \o Tail(b) = a \o b
<1> DEFINE n == Len(a)
           k == Len(b)
           c == Append(a, Head(b))
           t == Tail(b)
<1>1. n \in Nat /\ k \in Nat \ {0} /\ Head(b) = b[1] /\ Head(b) \in Nat
  BY LenProperties, EmptySeq, HeadTailProperties
<1>2. /\ t \in Seq(Nat) /\ Len(t) = k - 1 /\ \A i \in 1..(k - 1) : t[i] = b[i + 1]
  BY HeadTailProperties
<1>3. /\ c \in Seq(Nat) /\ Len(c) = n + 1 /\ c[n + 1] = b[1]
      /\ \A i \in 1..n : c[i] = a[i]
  BY <1>1, AppendProperties
<1>4. /\ c \o t \in Seq(Nat) /\ Len(c \o t) = (n + 1) + (k - 1)
      /\ \A i \in 1..((n + 1) + (k - 1)) : (c \o t)[i] = IF i <= n + 1 THEN c[i] ELSE t[i - (n + 1)]
  BY <1>2, <1>3, ConcatProperties
<1>5. /\ a \o b \in Seq(Nat) /\ Len(a \o b) = n + k
      /\ \A i \in 1..(n + k) : (a \o b)[i] = IF i <= n THEN a[i] ELSE b[i - n]
  BY ConcatProperties
<1> HIDE DEF n, k, c, t
<1>6. (n + 1) + (k - 1) = n + k
  BY <1>1
<1>7. ASSUME NEW i \in 1..(n + k) PROVE (c \o t)[i] = (a \o b)[i]
  <2>0. i \in Nat /\ i >= 1 /\ i <= n + k
    BY <1>1
  <2>1. CASE i <= n
    <3>1. i \in 1..n /\ i <= n + 1
      BY <1>1, <2>0, <2>1
    <3> QED
      BY <1>3, <1>4, <1>5, <1>6, <2>1, <3>1
  <2>2. CASE i = n + 1
    <3>1. i - n = 1 /\ ~(i <= n) /\ i <= n + 1
      BY <1>1, <2>2
    <3> QED
      BY <1>3, <1>4, <1>5, <1>6, <2>2, <3>1
  <2>3. CASE i > n + 1
    <3>1. /\ i - (n + 1) \in 1..(k - 1) /\ (i - (n + 1)) + 1 = i - n
          /\ ~(i <= n) /\ ~(i <= n + 1)
      BY <1>1, <2>3
    <3> QED
      BY <1>2, <1>4, <1>5, <1>6, <3>1
  <2>4. i <= n \/ i = n + 1 \/ i > n + 1
    BY <1>1, <2>0
  <2> QED
    BY <2>1, <2>2, <2>3, <2>4
<1>8. c \o t = a \o b
  BY <1>4, <1>5, <1>6, <1>7, SeqEqual
<1> QED
  BY <1>2, <1>3, <1>8 DEF c, t

LEMMA SearchIInv ==
  ASSUME IInv, NEW x \in refs, Search(x)
  PROVE  IInv'
<1>1. UNCHANGED readVars /\ UNCHANGED <<page, refs>> /\ page = "search"
  BY DEF Search, SearchOk, SearchFails, AddDoc, AddCount, EndSearch
<1>2. Sound(manifest)' /\ NoneDeleting(manifest)' /\ AnswerOK' /\ FoundOK'
  BY <1>1, PageLeaves
<1>3. ListedOK' /\ ShownOK'
  BY <1>1 DEF IInv, ListedOK, ShownOK, readVars
<1>4. /\ DOMAIN go = refs /\ DOMAIN resp = refs /\ DOMAIN Results = refs
        /\ DOMAIN local = refs
      /\ \A y \in refs : Added(y)
  BY <1>1 DEF IInv, SearchOK
<1>5. Found[x.shard.sum] \in Seq(Nat)
  BY FoundAssumption DEF IInv, ListedOK, Told, FoundAssumption
<1>6. /\ DOMAIN go' = refs /\ DOMAIN resp' = refs /\ DOMAIN Results' = refs
        /\ DOMAIN local' = refs
      /\ \A y \in refs : y # x => go'[y] = go[y] /\ resp'[y] = resp[y]
          /\ Results'[y] = Results[y]
  BY <1>4 DEF Search, SearchOk, SearchFails, AddDoc, AddCount, EndSearch, Of
<1>7. Added(x)'
  <2>0. Added(x)
    BY <1>4
  <2>1. CASE SearchOk(x)
    <3>1. go'[x] = "doc" /\ resp'[x] = Found[x.shard.sum] /\ Results'[x] = <<>>
      BY <1>4, <2>0, <2>1 DEF SearchOk, Of, Added
    <3>2. <<>> \in Seq(Nat) /\ <<>> \o Found[x.shard.sum] = Found[x.shard.sum]
      BY <1>5, ConcatEmptySeq
    <3> QED
      BY <1>5, <3>1, <3>2 DEF Added
  <2>2. CASE SearchFails(x)
    <3>1. go'[x] = "failed" /\ resp'[x] = resp[x] /\ Results'[x] = Results[x]
      BY <1>4, <2>2 DEF SearchFails, Of
    <3> QED
      BY <2>0, <3>1 DEF Added
  <2>3. CASE AddDoc(x)
    <3>1. /\ go[x] = "doc" /\ resp[x] # <<>> /\ go'[x] = "read" /\ resp'[x] = resp[x]
          /\ Results'[x] = Append(Results[x], Head(resp[x]))
      BY <1>4, <2>3 DEF AddDoc, Of
    <3>2. /\ Results'[x] \in Seq(Nat)
          /\ Results'[x] \o Tail(resp[x]) = Results[x] \o resp[x]
      BY <2>0, <3>1, MoveHead DEF Added
    <3> QED
      BY <2>0, <3>1, <3>2 DEF Added
  <2>4. CASE AddCount(x)
    <3>1. go[x] = "read" /\ go'[x] = "doc" /\ resp'[x] = Tail(resp[x])
            /\ Results'[x] = Results[x]
      BY <1>4, <2>4 DEF AddCount, Of
    <3>2. Tail(resp[x]) \in Seq(Nat)
      BY <2>0, <3>1, HeadTailProperties DEF Added
    <3> QED
      BY <2>0, <3>1, <3>2 DEF Added
  <2>5. CASE EndSearch(x)
    <3>1. go[x] = "doc" /\ resp[x] = <<>> /\ go'[x] = "done" /\ resp'[x] = resp[x]
            /\ Results'[x] = Results[x]
      BY <1>4, <2>5 DEF EndSearch, Of
    <3>2. Results[x] \o <<>> = Results[x]
      BY <2>0, ConcatEmptySeq DEF Added
    <3> QED
      BY <2>0, <3>1, <3>2 DEF Added
  <2> QED
    BY <2>1, <2>2, <2>3, <2>4, <2>5 DEF Search
<1>8. \A y \in refs : Added(y)'
  BY <1>4, <1>6, <1>7 DEF Added
<1>9. SearchOK'
  BY <1>1, <1>6, <1>8 DEF SearchOK
<1> QED
  BY <1>2, <1>3, <1>9 DEF IInv

LEMMA NextIInv == IInv /\ [WebNext]_vars => IInv'
<1> SUFFICES ASSUME IInv, [WebNext]_vars PROVE IInv'
  OBVIOUS
<1>1. CASE UNCHANGED vars
  <2>1. UNCHANGED readVars /\ UNCHANGED <<manifest, page, refs, go, resp, Results, local>>
    BY <1>1 DEF vars, webVars, readVars
  <2>2. Sound(manifest)' /\ NoneDeleting(manifest)' /\ AnswerOK' /\ FoundOK'
    BY <2>1, PageLeaves
  <2> QED
    BY <2>1, <2>2 DEF IInv, ListedOK, SearchOK, ShownOK, Added
<1> QED
  BY <1>1, ChangeIInv, AskIInv, ListIInv, SearchIInv DEF WebNext

-----------------------------------------------------------------------------
\* The inductive invariant holds of every run of the page and of its readers.
THEOREM Invariant == WebSpec => []IInv
BY InitIInv, NextIInv, PTL DEF WebSpec

LEMMA IInvReads == IInv => ReadsStayTrue
<1> SUFFICES ASSUME IInv PROVE ReadsStayTrue
  OBVIOUS
<1>1. NoNilDereference
  BY ReadsAssumption DEF IInv, AnswerOK, NoNilDereference, ReadsAssumption
<1>2. ShownStaysTrue
  BY ManifestAssumption DEF IInv, AnswerOK, Told, ShownStaysTrue, ManifestAssumption
<1>3. FoundStaysUsable
  BY UsableAccepted DEF IInv, FoundOK, Usable, Complete, FoundStaysUsable
<1> QED
  BY <1>1, <1>2, <1>3 DEF ReadsStayTrue

\* What a reader of the manifest was told it may rely on in its next call: no
\* nil pointer is followed, a ref that was shown still has the shard it was
\* shown with, and UpdateRepoShard takes any complete shard SearchShards found.
THEOREM ReadersMayRely == WebSpec => []ReadsStayTrue
BY Invariant, IInvReads, PTL

\* A page that is shown has, for every ref that was listed, all the documents
\* of its shard and no others, in order, and the shard is still described so.
THEOREM PagesAreComplete == WebSpec => []PageComplete
<1>1. IInv => PageComplete
  BY DEF IInv, ShownOK, ListedOK, Told, PageComplete
<1> QED
  BY <1>1, Invariant, PTL

-----------------------------------------------------------------------------
(***************************************************************************)
(* Sums.  Total adds up a sequence, SnippetsOf the totals of a set; what   *)
(* the recursive functions in them are is shown by the least counterexample *)
(* among the indexes, or the subsets.  The sum over a set is the number of *)
(* cells of a column of each member's height, in whatever order the        *)
(* members are taken.                                                      *)
(***************************************************************************)
LEMMA LeastNat ==
  ASSUME NEW S \in SUBSET Nat, S # {}
  PROVE  \E x \in S : \A y \in S : x <= y
<1> DEFINE R == OpToRel(<, Nat)
<1>1. PICK x \in S : \A y \in S : ~(<<y, x>> \in R)
  BY NatLessThanWellFounded, WFMin
<1>2. \A y \in S : ~(y < x)
  BY <1>1 DEF OpToRel
<1> QED
  BY <1>2

\* Of the subsets of a finite set with some property one is minimal.
LEMMA MinimalSubset ==
  ASSUME NEW S, IsFiniteSet(S), NEW B \in SUBSET SUBSET S, B # {}
  PROVE  \E s \in B : \A t \in B : t \subseteq s => t = s
<1>1. IsWellFoundedOn(StrictSubsetOrdering(S), SUBSET S)
  BY FS_StrictSubsetOrderingWellFounded, FS_FiniteSubsetsOfFinite
<1>2. PICK s \in B : \A t \in B : ~(<<t, s>> \in StrictSubsetOrdering(S))
  BY <1>1, WFMin
<1> QED
  BY <1>2 DEF StrictSubsetOrdering

\* The partial sums of a sequence.
SumsUp(s, h) == h = [i \in 0..Len(s) |-> IF i = 0 THEN 0 ELSE h[i - 1] + s[i]]

LEMMA SumsAt ==
  ASSUME NEW s, NEW h, SumsUp(s, h), NEW i \in 0..Len(s)
  PROVE  h[i] = IF i = 0 THEN 0 ELSE h[i - 1] + s[i]
BY Zenon DEF SumsUp

LEMMA SumsExist ==
  ASSUME NEW s \in Seq(Nat)
  PROVE  \E h \in [0..Len(s) -> Nat] : SumsUp(s, h)
<1> DEFINE n == Len(s)
           Upto(m, h) == h[0] = 0 /\ \A i \in 1..m : h[i] = h[i - 1] + s[i]
           B == {m \in 0..n : ~\E h \in [0..m -> Nat] : Upto(m, h)}
<1>1. n \in Nat /\ \A i \in 1..n : s[i] \in Nat
  BY LenProperties, ElementOfSeq
<1> HIDE DEF n
<1>2. B = {}
  <2> SUFFICES ASSUME B # {} PROVE FALSE
    OBVIOUS
  <2>1. PICK m \in B : \A k \in B : m <= k
    <3>1. B \in SUBSET Nat
      BY <1>1
    <3> HIDE DEF B
    <3> QED
      BY <3>1, LeastNat
  <2>2. m \in 0..n /\ ~\E h \in [0..m -> Nat] : Upto(m, h)
    BY <2>1
  <2>3. m # 0
    <3> SUFFICES ASSUME m = 0 PROVE FALSE
      OBVIOUS
    <3> DEFINE h == [i \in 0..m |-> 0]
    <3>1. h \in [0..m -> Nat] /\ Upto(m, h)
      BY <1>1
    <3> QED
      BY <2>2, <3>1
  <2>4. m - 1 \in 0..n /\ ~(m <= m - 1) /\ m \in 1..n
    BY <1>1, <2>2, <2>3
  <2>5. PICK g \in [0..(m - 1) -> Nat] : Upto(m - 1, g)
    BY <2>1, <2>4
  <2> DEFINE h == [i \in 0..m |-> IF i = m THEN g[m - 1] + s[m] ELSE g[i]]
  <2>6. h \in [0..m -> Nat]
    BY <1>1, <2>4, <2>5
  <2>7. Upto(m, h)
    BY <1>1, <2>4, <2>5
  <2> QED
    BY <2>2, <2>6, <2>7
<1>3. PICK h \in [0..n -> Nat] : Upto(n, h)
  <2>1. n \in 0..n
    BY <1>1
  <2> QED
    BY <1>2, <2>1
<1>4. \A i \in 0..n : h[i] = IF i = 0 THEN 0 ELSE h[i - 1] + s[i]
  BY <1>1, <1>3
<1>5. h = [i \in 0..n |-> IF i = 0 THEN 0 ELSE h[i - 1] + s[i]]
  BY <1>3, <1>4
<1> QED
  BY <1>3, <1>5 DEF SumsUp, n

\* Sums are the same as far as the sequences are.
Agree(s, t, n) ==
  /\ n \in Nat /\ Len(s) \in Nat /\ Len(t) \in Nat
  /\ n <= Len(s) /\ n <= Len(t) /\ \A i \in 1..n : s[i] = t[i]

LEMMA SumsAgree ==
  ASSUME NEW s, NEW t, NEW n, Agree(s, t, n), NEW g, NEW h, SumsUp(s, g), SumsUp(t, h)
  PROVE  g[n] = h[n]
<1>0. /\ n \in Nat /\ Len(s) \in Nat /\ Len(t) \in Nat
      /\ n <= Len(s) /\ n <= Len(t) /\ \A i \in 1..n : s[i] = t[i]
  BY DEF Agree
<1> DEFINE B == {i \in 0..n : g[i] # h[i]}
<1> SUFFICES ASSUME B # {} PROVE FALSE
  BY <1>0
<1>1. PICK m \in B : \A k \in B : m <= k
  <2>1. B \in SUBSET Nat
    BY <1>0
  <2> HIDE DEF B
  <2> QED
    BY <2>1, LeastNat
<1>2. m \in 0..n /\ g[m] # h[m]
  BY <1>1
<1>3. m \in 0..Len(s) /\ m \in 0..Len(t)
  BY <1>0, <1>2
<1>4. /\ g[m] = IF m = 0 THEN 0 ELSE g[m - 1] + s[m]
      /\ h[m] = IF m = 0 THEN 0 ELSE h[m - 1] + t[m]
  BY <1>3, SumsAt
<1>5. CASE m = 0
  BY <1>2, <1>4, <1>5
<1>6. CASE m # 0
  <2>1. m - 1 \in 0..n /\ ~(m <= m - 1) /\ m \in 1..n
    BY <1>0, <1>2, <1>6
  <2>2. g[m - 1] = h[m - 1]
    BY <1>1, <2>1
  <2> QED
    BY <1>0, <1>2, <1>4, <1>6, <2>1, <2>2
<1> QED
  BY <1>5, <1>6

\* A total is the last of the partial sums.
LEMMA TotalIs ==
  ASSUME NEW s \in Seq(Nat)
  PROVE  \E h \in [0..Len(s) -> Nat] : SumsUp(s, h) /\ Total(s) = h[Len(s)]
<1>1. PICK h \in [0..Len(s) -> Nat] : SumsUp(s, h)
  BY SumsExist
<1> DEFINE g == CHOOSE f : SumsUp(s, f)
<1>2. SumsUp(s, g)
  BY <1>1
<1>3. Total(s) = g[Len(s)]
  BY DEF Total, SumsUp
<1>4. Len(s) \in Nat
  BY LenProperties
<1> HIDE DEF g
<1>5. g[Len(s)] = h[Len(s)]
  <2>1. Agree(s, s, Len(s))
    BY <1>4 DEF Agree
  <2> QED
    BY <1>1, <1>2, <2>1, SumsAgree
<1> QED
  BY <1>1, <1>3, <1>5

LEMMA TotalEmpty == Total(<<>>) = 0
<1>1. <<>> \in Seq(Nat) /\ Len(<<>>) = 0
  OBVIOUS
<1>2. PICK h : SumsUp(<<>>, h) /\ Total(<<>>) = h[Len(<<>>)]
  BY <1>1, TotalIs
<1>3. h[0] = 0
  BY <1>1, <1>2, SumsAt
<1> QED
  BY <1>1, <1>2, <1>3

LEMMA TotalAppend ==
  ASSUME NEW s \in Seq(Nat), NEW e \in Nat
  PROVE  Total(s) \in Nat /\ Total(Append(s, e)) = Total(s) + e
<1> DEFINE u == Append(s, e)
           k == Len(s)
<1>1. /\ k \in Nat /\ u \in Seq(Nat) /\ Len(u) = k + 1 /\ u[k + 1] = e
      /\ \A i \in 1..k : u[i] = s[i]
  BY LenProperties, AppendProperties
<1>2. PICK g \in [0..k -> Nat] : SumsUp(s, g) /\ Total(s) = g[k]
  BY TotalIs
<1> HIDE DEF u
<1>3. PICK h : SumsUp(u, h) /\ Total(u) = h[k + 1]
  BY <1>1, TotalIs
<1> HIDE DEF k
<1>4. k + 1 \in 0..(k + 1) /\ k + 1 # 0 /\ (k + 1) - 1 = k /\ k \in 0..k
        /\ k <= k /\ k <= k + 1
  BY <1>1
<1>5. h[k + 1] = h[k] + e
  <2>1. h[k + 1] = IF k + 1 = 0 THEN 0 ELSE h[(k + 1) - 1] + u[k + 1]
    <3>1. SumsUp(u, h) /\ k + 1 \in 0..Len(u)
      BY <1>1, <1>3, <1>4
    <3> QED
      BY <3>1, SumsAt, Zenon
  <2> QED
    BY <1>1, <1>4, <2>1
<1>6. g[k] = h[k]
  <2>1. Len(s) = k
    BY DEF k
  <2>2. Agree(s, u, k)
    BY <1>1, <1>4, <2>1 DEF Agree
  <2>3. SumsUp(s, g) /\ SumsUp(u, h)
    BY <1>2, <1>3
  <2> QED
    BY <2>2, <2>3, SumsAgree
<1> QED
  BY <1>2, <1>3, <1>4, <1>5, <1>6 DEF u

\* A column of w[x] cells for each x in S, and how many there are.
Cells(w, S) == {c \in S \X Nat : c[2] < w[c[1]]}
Weight(w, S) == Cardinality(Cells(w, S))

LEMMA CellsAdd ==
  ASSUME NEW w, NEW S, NEW x, x \notin S, w[x] \in Nat, IsFiniteSet(Cells(w, S))
  PROVE  /\ IsFiniteSet(Cells(w, S \cup {x}))
         /\ Weight(w, S \cup {x}) = Weight(w, S) + w[x]
<1> DEFINE k == w[x]
           C == Cells(w, S)
           I == 0..(k - 1)
           D == {x} \X I
<1>1. /\ IsFiniteSet(I) /\ Cardinality(I) = k
  <2>1. /\ IsFiniteSet(0..(k - 1))
        /\ Cardinality(0..(k - 1)) = IF 0 > k - 1 THEN 0 ELSE (k - 1) - 0 + 1
    <3>1. 0 \in Int /\ k - 1 \in Int
      OBVIOUS
    <3> HIDE DEF k
    <3> QED
      BY <3>1, FS_Interval
  <2> QED
    BY <2>1
<1>2. IsFiniteSet(D) /\ Cardinality(D) = k
  <2>1. IsFiniteSet({x}) /\ Cardinality({x}) = 1
    BY FS_Singleton
  <2>2. IsFiniteSet(D) /\ Cardinality(D) = 1 * k
    <3> HIDE DEF I
    <3> QED
      BY <1>1, <2>1, FS_Product
  <2> QED
    BY <2>2
<1>3. Cells(w, S \cup {x}) = C \cup D
  <2>1. ASSUME NEW y, NEW i
        PROVE  <<y, i>> \in Cells(w, S \cup {x}) <=> <<y, i>> \in C \cup D
    <3>1. <<y, i>> \in Cells(w, S \cup {x}) <=> y \in S \cup {x} /\ i \in Nat /\ i < w[y]
      BY DEF Cells
    <3>2. <<y, i>> \in C <=> y \in S /\ i \in Nat /\ i < w[y]
      BY DEF Cells
    <3>3. <<y, i>> \in D <=> y = x /\ i \in 0..(k - 1)
      OBVIOUS
    <3>4. i \in 0..(k - 1) <=> i \in Nat /\ i < k
      OBVIOUS
    <3> QED
      BY <3>1, <3>2, <3>3, <3>4
  <2>2. \A c \in Cells(w, S \cup {x}) : c = <<c[1], c[2]>>
    BY DEF Cells
  <2>3. \A c \in C \cup D : c = <<c[1], c[2]>>
    BY DEF Cells
  <2> HIDE DEF C, D
  <2> QED
    BY <2>1, <2>2, <2>3
<1>4. C \cap D = {}
  BY DEF Cells
<1>5. IsFiniteSet(C) /\ Cardinality(C) \in Nat
  BY FS_CardinalityType
<1> HIDE DEF C, D, k, I
<1>6. /\ IsFiniteSet(C \cup D)
      /\ Cardinality(C \cup D) = Cardinality(C) + Cardinality(D) - Cardinality(C \cap D)
  BY <1>2, <1>5, FS_Union
<1>7. Cardinality(C \cap D) = 0
  BY <1>4, FS_EmptySet
<1>8. k \in Nat
  BY DEF k
<1>9. Cardinality(C \cup D) = Cardinality(C) + k
  BY <1>2, <1>5, <1>6, <1>7, <1>8
<1> QED
  BY <1>3, <1>6, <1>9 DEF C, k, Weight

LEMMA CellsFinite ==
  ASSUME NEW w, NEW S, IsFiniteSet(S), \A x \in S : w[x] \in Nat
  PROVE  IsFiniteSet(Cells(w, S)) /\ Weight(w, S) \in Nat
<1> DEFINE B == {s \in SUBSET S : ~IsFiniteSet(Cells(w, s))}
<1>1. B = {}
  <2> SUFFICES ASSUME B # {} PROVE FALSE
    OBVIOUS
  <2>1. PICK s \in B : \A t \in B : t \subseteq s => t = s
    <3>1. B \in SUBSET SUBSET S
      OBVIOUS
    <3> HIDE DEF B
    <3> QED
      BY <3>1, MinimalSubset
  <2>2. s \in SUBSET S /\ ~IsFiniteSet(Cells(w, s))
    BY <2>1
  <2>3. s # {}
    <3>1. Cells(w, {}) = {}
      BY DEF Cells
    <3> QED
      BY <2>2, <3>1, FS_EmptySet
  <2>4. PICK x \in s : TRUE
    BY <2>3
  <2> DEFINE t == s \ {x}
  <2>5. t \in SUBSET S /\ t \subseteq s /\ t # s /\ x \notin t /\ t \cup {x} = s
    BY <2>2, <2>4
  <2>6. IsFiniteSet(Cells(w, t))
    BY <2>1, <2>5
  <2>7. w[x] \in Nat
    BY <2>2, <2>4
  <2> HIDE DEF t, B
  <2>8. IsFiniteSet(Cells(w, t \cup {x}))
    BY <2>5, <2>6, <2>7, CellsAdd
  <2> QED
    BY <2>2, <2>5, <2>8
<1>2. IsFiniteSet(Cells(w, S))
  BY <1>1
<1> QED
  BY <1>2, FS_CardinalityType DEF Weight

\* One column becomes d cells higher.
LEMMA WeightGrows ==
  ASSUME NEW w, NEW v, NEW S, IsFiniteSet(S), \A y \in S : w[y] \in Nat, NEW x \in S,
         NEW d \in Nat, v[x] = w[x] + d, \A y \in S : y # x => v[y] = w[y]
  PROVE  Weight(v, S) = Weight(w, S) + d
<1> DEFINE T == S \ {x}
<1>1. T \cup {x} = S /\ x \notin T /\ T \subseteq S
  OBVIOUS
<1>2. IsFiniteSet(T)
  BY <1>1, FS_Subset
<1>3. Cells(v, T) = Cells(w, T)
  BY DEF Cells
<1>4. \A y \in T : w[y] \in Nat
  OBVIOUS
<1>5. w[x] \in Nat /\ v[x] \in Nat
  OBVIOUS
<1> HIDE DEF T
<1>6. IsFiniteSet(Cells(w, T)) /\ Weight(w, T) \in Nat
  BY <1>2, <1>4, CellsFinite
<1>7. Weight(w, S) = Weight(w, T) + w[x]
  BY <1>1, <1>5, <1>6, CellsAdd
<1>8. Weight(v, S) = Weight(v, T) + v[x]
  BY <1>1, <1>3, <1>5, <1>6, CellsAdd
<1>9. Weight(v, T) = Weight(w, T)
  BY <1>3 DEF Weight
<1> QED
  BY <1>5, <1>6, <1>7, <1>8, <1>9

\* SnippetsOf adds the members up in the order of CHOOSE.
Pick(s) == CHOOSE x \in s : TRUE
Adds(w, h, S) ==
  h = [s \in SUBSET S |-> IF s = {} THEN 0 ELSE w[Pick(s)] + h[s \ {Pick(s)}]]

LEMMA PickIn == ASSUME NEW s, s # {} PROVE Pick(s) \in s
BY DEF Pick

\* The weights of the subsets do add up so, and nothing else does.
LEMMA WeightAdds ==
  ASSUME NEW w, NEW S, IsFiniteSet(S), \A x \in S : w[x] \in Nat
  PROVE  Adds(w, [s \in SUBSET S |-> Weight(w, s)], S)
<1> SUFFICES ASSUME NEW s \in SUBSET S
             PROVE  Weight(w, s) = IF s = {} THEN 0 ELSE w[Pick(s)] + Weight(w, s \ {Pick(s)})
  <2> DEFINE h == [s \in SUBSET S |-> Weight(w, s)]
  <2>1. \A s \in SUBSET S : s \ {Pick(s)} \in SUBSET S
    OBVIOUS
  <2>2. h = [s \in SUBSET S |-> IF s = {} THEN 0 ELSE w[Pick(s)] + h[s \ {Pick(s)}]]
    BY <2>1
  <2> QED
    BY <2>2 DEF Adds
<1>1. CASE s = {}
  <2>1. Cells(w, {}) = {}
    BY DEF Cells
  <2> QED
    BY <1>1, <2>1, FS_EmptySet DEF Weight
<1>2. CASE s # {}
  <2> DEFINE x == Pick(s)
             t == s \ {x}
  <2>1. x \in s
    BY <1>2, PickIn
  <2>2. t \cup {x} = s /\ x \notin t /\ t \in SUBSET S /\ w[x] \in Nat
    BY <2>1
  <2>3. IsFiniteSet(t) /\ \A y \in t : w[y] \in Nat
    BY <2>2, FS_Subset
  <2> HIDE DEF x, t
  <2>4. IsFiniteSet(Cells(w, t)) /\ Weight(w, t) \in Nat
    BY <2>3, CellsFinite
  <2>5. Weight(w, s) = Weight(w, t) + w[x]
    BY <2>2, <2>4, CellsAdd
  <2>6. Weight(w, s) = w[x] + Weight(w, t)
    BY <2>2, <2>4, <2>5
  <2> QED
    BY <1>2, <2>6 DEF t, x
<1> QED
  BY <1>1, <1>2

LEMMA AddsAt ==
  ASSUME NEW w, NEW h, NEW S, Adds(w, h, S), NEW s \in SUBSET S
  PROVE  /\ s = {} => h[s] = 0
         /\ s # {} => h[s] = w[Pick(s)] + h[s \ {Pick(s)}]
<1>1. h[s] = IF s = {} THEN 0 ELSE w[Pick(s)] + h[s \ {Pick(s)}]
  BY Zenon DEF Adds
<1> QED
  BY <1>1

LEMMA AddsUnique ==
  ASSUME NEW w, NEW g, NEW h, NEW S, IsFiniteSet(S), Adds(w, g, S), Adds(w, h, S)
  PROVE  g[S] = h[S]
<1> DEFINE B == {s \in SUBSET S : g[s] # h[s]}
<1> SUFFICES ASSUME B # {} PROVE FALSE
  OBVIOUS
<1>1. PICK s \in B : \A t \in B : t \subseteq s => t = s
  <2>1. B \in SUBSET SUBSET S
    OBVIOUS
  <2> HIDE DEF B
  <2> QED
    BY <2>1, MinimalSubset
<1>2. s \in SUBSET S /\ g[s] # h[s]
  BY <1>1
<1>3. s # {}
  <2> SUFFICES ASSUME s = {} PROVE FALSE
    OBVIOUS
  <2>1. g[s] = 0
    BY <1>2, AddsAt
  <2>2. h[s] = 0
    BY <1>2, AddsAt
  <2> QED
    BY <1>2, <2>1, <2>2
<1> DEFINE x == Pick(s)
<1>4. x \in s
  BY <1>3, PickIn
<1>5. g[s \ {x}] = h[s \ {x}]
  BY <1>1, <1>4
<1> HIDE DEF B
<1>6. g[s] = w[x] + g[s \ {x}]
  BY <1>2, <1>3, AddsAt
<1>7. h[s] = w[x] + h[s \ {x}]
  BY <1>2, <1>3, AddsAt
<1> QED
  BY <1>2, <1>5, <1>6, <1>7

\* What the property adds up is the number of snippets shown for the refs.
Totals == [x \in refs |-> Total(Results[x])]

LEMMA SnippetsWeight ==
  ASSUME IsFiniteSet(refs), \A x \in refs : Total(Results[x]) \in Nat
  PROVE  SnippetsOf(refs) = Weight(Totals, refs)
<1> DEFINE It(h) == h = [s \in SUBSET refs |->
                          IF s = {} THEN 0 ELSE Total(Results[Pick(s)]) + h[s \ {Pick(s)}]]
           sum == CHOOSE h : It(h)
           g == [s \in SUBSET refs |-> Weight(Totals, s)]
<1>1. SnippetsOf(refs) = sum[refs]
  BY DEF SnippetsOf, Pick
<1>2. Adds(Totals, g, refs)
  <2>1. \A x \in refs : Totals[x] \in Nat
    BY DEF Totals
  <2> QED
    BY <2>1, WeightAdds
<1>3. \A h : Adds(Totals, h, refs) <=> It(h)
  BY PickIn DEF Adds, Totals
<1> HIDE DEF g
<1>4. Adds(Totals, sum, refs)
  BY <1>2, <1>3
<1> HIDE DEF sum
<1>5. sum[refs] = g[refs]
  BY <1>2, <1>4, AddsUnique
<1> QED
  BY <1>1, <1>5 DEF g

-----------------------------------------------------------------------------
(***************************************************************************)
(* The count of a page.  Finitely many refs are recorded, so a page lists  *)
(* finitely many.  What a goroutine has read of ResultCount is no more     *)
(* than what has been added up by now, since sums of others only grow.     *)
(***************************************************************************)
FiniteOK == IsFiniteSet({p \in Places : manifest.shard[p] # NoShard})

\* What the goroutine of each ref has added to the count, lost or not.
Counted ==
  [x \in refs |-> Total(Results[x]) - (IF go[x] = "read" THEN Head(resp[x]) ELSE 0)]

Bounded(n) == n \in Nat /\ n <= Weight(Counted, refs)

InStep ==
  /\ IsFiniteSet(refs) /\ \A x \in refs : Counted[x] \in Nat
  /\ Bounded(ResultCount)
  /\ \A x \in refs : go[x] = "read" => Bounded(local[x])
  /\ \A x : refs = {x} => /\ ResultCount = Weight(Counted, refs)
                          /\ go[x] = "read" => local[x] = Weight(Counted, refs)

CountOK ==
  /\ page = "idle" => ResultCount = 0
  /\ page \in {"search", "shown"} => InStep
  /\ page = "shown" => \A x \in refs : go[x] = "done"

CountInv == FiniteOK /\ CountOK

LEMMA InitCount == WebInit => CountInv
<1> SUFFICES ASSUME WebInit PROVE CountInv
  OBVIOUS
<1>1. {p \in Places : manifest.shard[p] # NoShard} = {}
  BY DEF WebInit, ReadInit, EmptyManifest
<1>2. FiniteOK
  BY <1>1, FS_EmptySet DEF FiniteOK
<1>3. CountOK
  BY DEF WebInit, CountOK
<1> QED
  BY <1>2, <1>3 DEF CountInv

\* A call records one more ref at most.
LEMMA ChangeFinite ==
  ASSUME Sound(manifest), FiniteOK, NEW q \in Requests, Change(q)
  PROVE  FiniteOK'
<1> DEFINE Set(m) == {p \in Places : m.shard[p] # NoShard}
<1>1. PICK d \in Drawn(q, manifest) : Accepts(d, manifest)
        /\ manifest' = Result(d, manifest)
  BY DEF Change
<1>2. manifest.shard \in [Places -> ShardIDs \cup {NoShard}]
  BY DEF Sound, Manifests
<1>3. \E p : Set(manifest') \subseteq Set(manifest) \cup {p}
  <2>1. CASE q.op = "allocate"
    <3>1. PICK i \in ShardIDs : d = [op |-> "allocate", id |-> i]
      BY <1>1, <2>1 DEF Drawn
    <3>2. Result(d, manifest).shard = manifest.shard
      BY <3>1 DEF Result, WithShard
    <3> QED
      BY <1>1, <3>2
  <2>2. CASE q.op = "complete"
    <3>1. d = q
      BY <1>1, <2>2 DEF Drawn
    <3>2. Result(d, manifest).shard = manifest.shard
      BY <2>2, <3>1 DEF Result, WithShard
    <3> QED
      BY <1>1, <3>2
  <2>3. CASE q.op = "update"
    <3>1. d = q
      BY <1>1, <2>3 DEF Drawn
    <3>2. Result(d, manifest).shard = [manifest.shard EXCEPT ![<<q.repo, q.ref>>] = q.id]
      BY <2>3, <3>1 DEF Result, Reconciled, Repointed
    <3> QED
      BY <1>1, <1>2, <3>2
  <2>4. CASE q.op = "setDefault"
    <3>1. d = q
      BY <1>1, <2>4 DEF Drawn
    <3>2. Result(d, manifest).shard = manifest.shard
      BY <2>4, <3>1 DEF Result
    <3> QED
      BY <1>1, <3>2
  <2> QED
    BY <2>1, <2>2, <2>3, <2>4 DEF Requests
<1>4. PICK p : Set(manifest') \subseteq Set(manifest) \cup {p}
  BY <1>3
<1>5. IsFiniteSet(Set(manifest))
  BY DEF FiniteOK
<1> HIDE DEF Set
<1>6. IsFiniteSet(Set(manifest) \cup {p})
  BY <1>5, FS_AddElement
<1>7. IsFiniteSet(Set(manifest'))
  BY <1>4, <1>6, FS_Subset
<1> QED
  BY <1>7 DEF FiniteOK, Set

\* So ListRepoRefs answers with finitely many refs.
LEMMA ListFinite ==
  ASSUME FiniteOK
  PROVE  IsFiniteSet(ListRepoRefs(manifest))
<1> DEFINE P == {p \in Places : manifest.shard[p] # NoShard}
           R == {r \in Repos : RefsOf(manifest, r) # {}}
           f == [p \in P |-> p[1]]
           g == [r \in R |-> ConvertRepoRef(manifest, r, manifest.default[r])]
           L == ListRepoRefs(manifest)
<1>1. f \in Surjection(P, R)
  <2>1. ASSUME NEW p \in P PROVE f[p] \in R
    BY DEF Places, RefsOf
  <2>2. ASSUME NEW r \in R PROVE \E p \in P : f[p] = r
    <3>1. PICK x \in Refs : manifest.shard[<<r, x>>] # NoShard
      BY DEF RefsOf
    <3>2. <<r, x>> \in P /\ f[<<r, x>>] = r
      BY <3>1 DEF Places
    <3> QED
      BY <3>2
  <2>3. f \in [P -> R]
    BY <2>1
  <2> HIDE DEF f, P, R
  <2> QED
    BY <2>2, <2>3 DEF Surjection
<1>2. g \in Surjection(R, L)
  <2>1. L = {ConvertRepoRef(manifest, r, manifest.default[r]) : r \in R}
    BY DEF ListRepoRefs
  <2>2. g \in [R -> L] /\ \A x \in L : \E r \in R : g[r] = x
    BY <2>1
  <2> HIDE DEF g, L, R
  <2> QED
    BY <2>2 DEF Surjection
<1>3. IsFiniteSet(P)
  BY DEF FiniteOK
<1> HIDE DEF f, g, P, R, L
<1>4. IsFiniteSet(R)
  BY <1>1, <1>3, FS_Surjection
<1>5. IsFiniteSet(L)
  BY <1>2, <1>4, FS_Surjection
<1> QED
  BY <1>5 DEF L

LEMMA StartCount ==
  ASSUME IInv, CountInv, ListRefs
  PROVE  CountOK'
<1>1. /\ page = "idle" /\ page' = "search" /\ refs' = ListRepoRefs(manifest)
      /\ go' = [x \in refs' |-> "call"] /\ Results' = [x \in refs' |-> <<>>]
      /\ UNCHANGED ResultCount
  BY DEF ListRefs
<1>2. ResultCount' = 0 /\ IsFiniteSet(refs')
  BY <1>1, ListFinite DEF CountInv, CountOK
<1>3. \A x \in refs' : Counted'[x] = 0
  BY <1>1, TotalEmpty DEF Counted
<1>4. Weight(Counted, refs)' = 0
  <2>1. Cells(Counted', refs') = {}
    BY <1>3 DEF Cells
  <2> QED
    BY <2>1, FS_EmptySet DEF Weight
<1>5. InStep'
  BY <1>1, <1>2, <1>3, <1>4 DEF InStep, Bounded
<1> QED
  BY <1>1, <1>5 DEF CountOK

LEMMA StepCount ==
  ASSUME IInv, CountInv, NEW x \in refs, Search(x)
  PROVE  CountOK'
<1>1. UNCHANGED refs /\ page = "search" /\ page' = "search"
  BY DEF Search, SearchOk, SearchFails, AddDoc, AddCount, EndSearch
<1>2. /\ DOMAIN go = refs /\ DOMAIN resp = refs /\ DOMAIN Results = refs
        /\ DOMAIN local = refs
      /\ \A y \in refs : Added(y)
      /\ InStep
  BY <1>1 DEF IInv, SearchOK, CountInv, CountOK
<1>3. \A y \in refs : y # x => /\ go'[y] = go[y] /\ resp'[y] = resp[y]
                               /\ Results'[y] = Results[y] /\ local'[y] = local[y]
  BY <1>2 DEF Search, SearchOk, SearchFails, AddDoc, AddCount, EndSearch, Of
<1>4. \A y \in refs : y # x => Counted'[y] = Counted[y]
  BY <1>1, <1>3 DEF Counted
<1>5. Counted[x] = Total(Results[x]) - (IF go[x] = "read" THEN Head(resp[x]) ELSE 0)
  BY DEF Counted
<1>6. Counted'[x] = Total(Results'[x]) - (IF go'[x] = "read" THEN Head(resp'[x]) ELSE 0)
  BY <1>1 DEF Counted
<1>7. Total(Results[x]) \in Nat
  <2>1. Results[x] \in Seq(Nat)
    BY <1>2 DEF Added
  <2> QED
    BY <2>1, TotalAppend
<1>8. ASSUME Counted'[x] = Counted[x], UNCHANGED ResultCount,
             go'[x] = "read" => local'[x] = ResultCount \/ (go[x] = "read" /\ local'[x] = local[x])
      PROVE  InStep'
  <2>1. \A y \in refs : Counted'[y] = Counted[y]
    BY <1>4, <1>8
  <2>2. Weight(Counted, refs)' = Weight(Counted, refs)
    <3>1. Cells(Counted', refs') = Cells(Counted, refs)
      BY <1>1, <2>1 DEF Cells
    <3> QED
      BY <3>1 DEF Weight
  <2>3. \A y \in refs : go'[y] = "read" => Bounded(local[y])' 
    BY <1>2, <1>3, <1>8, <2>2 DEF InStep, Bounded
  <2>4. \A y : refs = {y} => y = x
    OBVIOUS
  <2> QED
    BY <1>1, <1>2, <1>8, <2>1, <2>2, <2>3, <2>4 DEF InStep, Bounded
<1>9. CASE SearchOk(x) \/ SearchFails(x) \/ EndSearch(x)
  <2>1. /\ go[x] # "read" /\ go'[x] # "read" /\ Results'[x] = Results[x]
        /\ UNCHANGED ResultCount
    BY <1>2, <1>9 DEF SearchOk, SearchFails, EndSearch, Of
  <2> QED
    BY <1>1, <1>5, <1>6, <1>8, <2>1 DEF CountOK
<1>10. CASE AddDoc(x)
  <2>1. /\ go[x] = "doc" /\ resp[x] # <<>> /\ go'[x] = "read" /\ resp'[x] = resp[x]
        /\ Results'[x] = Append(Results[x], Head(resp[x]))
        /\ local'[x] = ResultCount /\ UNCHANGED ResultCount
    BY <1>2, <1>10 DEF AddDoc, Of
  <2>2. Results[x] \in Seq(Nat) /\ Head(resp[x]) \in Nat
    BY <1>2, <2>1, HeadTailProperties DEF Added
  <2>3. Total(Results'[x]) = Total(Results[x]) + Head(resp[x])
    BY <2>1, <2>2, TotalAppend
  <2>4. Counted'[x] = Counted[x]
    BY <1>5, <1>6, <1>7, <2>1, <2>2, <2>3
  <2> QED
    BY <1>1, <1>8, <2>1, <2>4 DEF CountOK
<1>11. CASE AddCount(x)
  <2> DEFINE e == Head(resp[x])
             n == Weight(Counted, refs)
             k == Weight(Counted', refs)
  <2>1. /\ go[x] = "read" /\ go'[x] = "doc" /\ Results'[x] = Results[x]
        /\ ResultCount' = local[x] + e
    BY <1>2, <1>11 DEF AddCount, Of
  <2>2. e \in Nat
    BY <1>2, <2>1, HeadTailProperties DEF Added
  <2>3. Counted[x] \in Nat /\ Counted'[x] = Counted[x] + e
    <3>1. Counted[x] \in Nat
      BY <1>2 DEF InStep
    <3> QED
      BY <1>5, <1>6, <1>7, <2>1, <2>2, <3>1
  <2>4. IsFiniteSet(refs) /\ \A y \in refs : Counted[y] \in Nat
    BY <1>2 DEF InStep
  <2>5. n \in Nat
    BY <2>4, CellsFinite
  <2> HIDE DEF e
  <2>6. k = n + e
    BY <1>4, <2>2, <2>3, <2>4, WeightGrows
  <2>7. Weight(Counted, refs)' = k
    BY <1>1
  <2>8. /\ local[x] \in Nat /\ local[x] <= n /\ ResultCount <= n
        /\ \A y \in refs : go[y] = "read" => local[y] \in Nat /\ local[y] <= n
        /\ \A y : refs = {y} => local[x] = n
    BY <1>2, <2>1 DEF InStep, Bounded
  <2> HIDE DEF n, k
  <2>9. ResultCount' \in Nat /\ ResultCount' <= k
    BY <2>1, <2>2, <2>5, <2>6, <2>8
  <2>10. \A y \in refs : go'[y] = "read" => local'[y] \in Nat /\ local'[y] <= k
    <3> SUFFICES ASSUME NEW y \in refs, go'[y] = "read"
                 PROVE  local'[y] \in Nat /\ local'[y] <= k
      OBVIOUS
    <3>1. y # x /\ local'[y] = local[y] /\ go[y] = "read"
      BY <1>3, <2>1
    <3> QED
      BY <2>2, <2>5, <2>6, <2>8, <3>1
  <2>11. \A y : refs = {y} => ResultCount' = k /\ go'[y] # "read"
    BY <2>1, <2>6, <2>8
  <2>12. \A y \in refs : Counted'[y] \in Nat
    BY <1>4, <2>2, <2>3, <2>4
  <2>13. InStep'
    BY <1>1, <2>4, <2>7, <2>9, <2>10, <2>11, <2>12 DEF InStep, Bounded
  <2> QED
    BY <1>1, <2>13 DEF CountOK
<1> QED
  BY <1>9, <1>10, <1>11 DEF Search

LEMMA CountSame ==
  ASSUME CountOK, UNCHANGED webVars
  PROVE  CountOK'
BY DEF CountOK, InStep, Bounded, Counted, webVars

LEMMA NextCount == IInv /\ CountInv /\ [WebNext]_vars => CountInv'
<1> SUFFICES ASSUME IInv, CountInv, [WebNext]_vars PROVE CountInv'
  OBVIOUS
<1>1. FiniteOK'
  <2>1. CASE UNCHANGED manifest
    BY <2>1 DEF CountInv, FiniteOK
  <2>2. CASE \E q \in Requests : Change(q)
    BY <2>2, ChangeFinite DEF IInv, CountInv
  <2>3. UNCHANGED manifest \/ \E q \in Requests : Change(q)
    BY DEF WebNext, vars, readVars, Ask, AskShard, AskSearch, AskRepo, AskRef, AskList, Answered,
           ListRefs, ListFails, Show, Search, SearchOk, SearchFails, AddDoc, AddCount, EndSearch
  <2> QED
    BY <2>1, <2>2, <2>3
<1>2. CountOK'
  <2>1. CASE UNCHANGED webVars
    BY <2>1, CountSame DEF CountInv
  <2>2. CASE ListRefs
    BY <2>2, StartCount
  <2>3. CASE ListFails
    BY <2>3 DEF ListFails, CountOK
  <2>4. CASE Show
    <3>1. /\ page = "search" /\ Waited /\ UNCHANGED <<refs, go, resp, Results, local, ResultCount>>
          /\ page' = IF \E x \in refs : go[x] = "failed" THEN "error" ELSE "shown"
      BY <2>4 DEF Show
    <3>2. InStep'
      BY <3>1 DEF CountInv, CountOK, InStep, Bounded, Counted
    <3> QED
      BY <3>1, <3>2 DEF CountOK, Waited
  <2>5. CASE \E x \in refs : Search(x)
    BY <2>5, StepCount
  <2> QED
    BY <2>1, <2>2, <2>3, <2>4, <2>5 DEF WebNext, vars
<1> QED
  BY <1>1, <1>2 DEF CountInv

LEMMA CountBounds == IInv /\ CountInv => CountBounded
<1> SUFFICES ASSUME IInv, CountInv, page = "shown"
             PROVE  /\ ResultCount <= SnippetsOf(refs)
                    /\ Cardinality(refs) = 1 => ResultCount = SnippetsOf(refs)
  BY DEF CountBounded
<1>1. InStep /\ \A x \in refs : go[x] = "done"
  BY DEF CountInv, CountOK
<1>2. \A x \in refs : Total(Results[x]) \in Nat
  <2>1. \A x \in refs : Counted[x] = Total(Results[x]) - 0
    BY <1>1 DEF Counted
  <2>2. \A x \in refs : Results[x] \in Seq(Nat)
    BY FoundAssumption DEF IInv, ShownOK, ListedOK, Told, FoundAssumption
  <2> QED
    BY <2>2, TotalAppend
<1>3. Weight(Counted, refs) = Weight(Totals, refs)
  <2>1. \A x \in refs : Counted[x] = Totals[x]
    BY <1>1, <1>2 DEF Counted, Totals
  <2>2. Cells(Counted, refs) = Cells(Totals, refs)
    BY <2>1 DEF Cells
  <2> QED
    BY <2>2 DEF Weight
<1>4. IsFiniteSet(refs)
  BY <1>1 DEF InStep
<1>5. SnippetsOf(refs) = Weight(Counted, refs)
  BY <1>2, <1>3, <1>4, SnippetsWeight
<1>6. Cardinality(refs) = 1 => \E x : refs = {x}
  BY <1>4, FS_Singleton
<1> QED
  BY <1>1, <1>5, <1>6 DEF InStep, Bounded

\* The number of results a page shows is never above that of the snippets on
\* it, whatever additions the goroutines lose to each other, and is exact for
\* a page of one repository.
THEOREM CountsAreBounded == WebSpec => []CountBounded
<1>1. WebSpec => []CountInv
  BY InitCount, NextCount, Invariant, PTL DEF WebSpec
<1> QED
  BY <1>1, CountBounds, Invariant, PTL
===============================================================================
