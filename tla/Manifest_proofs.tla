--------------------------- MODULE Manifest_proofs ---------------------------
(***************************************************************************)
(* The functions the handlers of IndexMetadataService apply to a manifest  *)
(* keep it sound and take nothing back.                                    *)
(***************************************************************************)
EXTENDS Manifest, TLAPS

\* A manifest is sound: its refs point to REFERENCED shards, shards that are
\* complete are described, and defaults resolve.
Served(m) ==
  \A id \in ShardIDs : m.state[id] = "REFERENCED" <=> id \in InUse(m)
Described(m) ==
  \A id \in ShardIDs :
    m.state[id] \in {"UNREFERENCED", "REFERENCED"} <=> m.tree[id] # NoTree /\ m.sum[id] # NoSum
Resolves(m) ==
  \A r \in Repos :
    (\E f \in Refs : m.shard[<<r, f>>] # NoShard) => m.shard[<<r, m.default[r]>>] # NoShard

\* What Resolves needs to be inductive: a default that is set is a ref of the
\* repo, so that a repo without refs has none.
DefaultIsRef(m) ==
  \A r \in Repos : m.default[r] # EmptyRef => m.shard[<<r, m.default[r]>>] # NoShard

\* The two halves of a description come together.
Whole(m) == \A id \in ShardIDs : m.tree[id] # NoTree <=> m.sum[id] # NoSum

Sound(m) ==
  m \in Manifests /\ Served(m) /\ Described(m) /\ Resolves(m) /\ DefaultIsRef(m) /\ Whole(m)

-----------------------------------------------------------------------------
\* The state the table leads to, for the two actions of a reconciliation.
LEMMA AfterReferenced ==
  ASSUME NEW s, Can(s, "REFERENCED")
  PROVE  After(s, "REFERENCED") = "REFERENCED" /\ s \in {"UNREFERENCED", "REFERENCED"}
<1>1. <<s, "REFERENCED", After(s, "REFERENCED")>> \in Allowed
  BY Zenon DEF Can, After
<1> QED
  BY <1>1 DEF Allowed

LEMMA AfterUnreferenced ==
  ASSUME NEW s, Can(s, "UNREFERENCED")
  PROVE  \/ s = "CREATING" /\ After(s, "UNREFERENCED") = "CREATING"
         \/ /\ s \in {"UNREFERENCED", "REFERENCED"}
            /\ After(s, "UNREFERENCED") = "UNREFERENCED"
<1>1. <<s, "UNREFERENCED", After(s, "UNREFERENCED")>> \in Allowed
  BY Zenon DEF Can, After
<1> QED
  BY <1>1 DEF Allowed

\* Only a shard that is being created can be completed.
LEMMA OnlyCreating ==
  ASSUME NEW s, Can(s, "CREATED")
  PROVE  s = "CREATING"
BY DEF Can, Allowed

-----------------------------------------------------------------------------
\* The manifest before anything was written is sound.
LEMMA EmptySound == Sound(EmptyManifest)
<1>1. EmptyManifest \in Manifests
  BY ManifestAssumption DEF EmptyManifest, Manifests
<1>2. \A id \in ShardIDs : id \notin InUse(EmptyManifest)
  BY ManifestAssumption DEF EmptyManifest, InUse
<1>3. Served(EmptyManifest) /\ Described(EmptyManifest) /\ Whole(EmptyManifest)
  BY <1>2, ManifestAssumption DEF EmptyManifest, Served, Described, Whole
<1>4. Resolves(EmptyManifest) /\ DefaultIsRef(EmptyManifest)
  BY DEF EmptyManifest, Resolves, DefaultIsRef, Places
<1> QED
  BY <1>1, <1>3, <1>4 DEF Sound

\* AllocateShard keeps a manifest sound.
LEMMA AllocateSound ==
  ASSUME NEW m, Sound(m), NEW id \in ShardIDs, ~Exists(m, id)
  PROVE  Sound(WithShard(m, id, "CREATING", NoTree, NoSum))
<1> DEFINE n == WithShard(m, id, "CREATING", NoTree, NoSum)
<1>1. n \in Manifests
  BY DEF Sound, Manifests, WithShard, States
<1>2. InUse(n) = InUse(m)
  BY DEF InUse, WithShard
<1>3. \A i \in ShardIDs : n.state[i] = IF i = id THEN "CREATING" ELSE m.state[i]
  BY DEF Sound, Manifests, WithShard
<1>4. \A i \in ShardIDs : n.tree[i] = IF i = id THEN NoTree ELSE m.tree[i]
  BY DEF Sound, Manifests, WithShard
<1>5. \A i \in ShardIDs : n.sum[i] = IF i = id THEN NoSum ELSE m.sum[i]
  BY DEF Sound, Manifests, WithShard
<1>6. n.shard = m.shard /\ n.default = m.default
  BY DEF WithShard
<1> HIDE DEF n
<1>7. Served(n)
  BY <1>2, <1>3 DEF Sound, Served, Exists
<1>8. Described(n)
  BY <1>3, <1>4, <1>5 DEF Sound, Described, Exists
<1>9. Resolves(n) /\ DefaultIsRef(n)
  BY <1>6 DEF Sound, Resolves, DefaultIsRef
<1>10. Whole(n)
  BY <1>4, <1>5 DEF Sound, Whole
<1> QED
  BY <1>1, <1>7, <1>8, <1>9, <1>10 DEF Sound, n

\* CompleteShard keeps a manifest sound.
LEMMA CompleteSound ==
  ASSUME NEW m, Sound(m), NEW id \in ShardIDs, NEW t \in Trees, NEW x \in Sums,
         Can(m.state[id], "CREATED")
  PROVE  Sound(WithShard(m, id, "UNREFERENCED", t, x))
<1> DEFINE n == WithShard(m, id, "UNREFERENCED", t, x)
<1>1. n \in Manifests
  BY DEF Sound, Manifests, WithShard, States
<1>2. InUse(n) = InUse(m)
  BY DEF InUse, WithShard
<1>3. \A i \in ShardIDs : n.state[i] = IF i = id THEN "UNREFERENCED" ELSE m.state[i]
  BY DEF Sound, Manifests, WithShard
<1>4. \A i \in ShardIDs : n.tree[i] = IF i = id THEN t ELSE m.tree[i]
  BY DEF Sound, Manifests, WithShard
<1>5. \A i \in ShardIDs : n.sum[i] = IF i = id THEN x ELSE m.sum[i]
  BY DEF Sound, Manifests, WithShard
<1>6. n.shard = m.shard /\ n.default = m.default
  BY DEF WithShard
<1>7. m.state[id] = "CREATING"
  BY OnlyCreating
<1>8. t # NoTree /\ x # NoSum
  BY ManifestAssumption
<1> HIDE DEF n
<1>9. Served(n)
  BY <1>2, <1>3, <1>7 DEF Sound, Served
<1>10. Described(n)
  BY <1>3, <1>4, <1>5, <1>8 DEF Sound, Described
<1>11. Resolves(n) /\ DefaultIsRef(n)
  BY <1>6 DEF Sound, Resolves, DefaultIsRef
<1>12. Whole(n)
  BY <1>4, <1>5, <1>8 DEF Sound, Whole
<1> QED
  BY <1>1, <1>9, <1>10, <1>11, <1>12 DEF Sound, n

\* UpdateRepoShard keeps a manifest sound: the ref it sets points to a shard of
\* the map, and reconciling makes the states agree with the refs again.
LEMMA UpdateSound ==
  ASSUME NEW m, Sound(m), NEW id \in ShardIDs, NEW r \in Repos, NEW f \in Refs,
         NEW c \in Commits, Exists(m, id),
         NEW u, u = [op |-> "update", id |-> id, repo |-> r, ref |-> f, commit |-> c],
         Reconciles(Repointed(m, u))
  PROVE  Sound(Reconciled(Repointed(m, u)))
<1> DEFINE p == Repointed(m, u)
           n == Reconciled(p)
<1>1. p.state = m.state /\ p.tree = m.tree /\ p.sum = m.sum
  BY DEF Repointed
<1>2. p.shard = [m.shard EXCEPT ![<<r, f>>] = id]
  BY DEF Repointed
<1>3. p.default = [m.default EXCEPT ![r] = IF @ = EmptyRef THEN f ELSE @]
  BY DEF Repointed
<1>4. p.commit = [m.commit EXCEPT ![<<r, f>>] = c]
  BY DEF Repointed
<1>5. n.tree = m.tree /\ n.sum = m.sum /\ n.shard = p.shard /\ n.default = p.default
        /\ n.commit = p.commit
  BY <1>1 DEF Reconciled
<1>6. m \in Manifests
  BY DEF Sound
<1>7. \A i \in ShardIDs :
        n.state[i] = IF m.state[i] # "" THEN After(m.state[i], Use(p, i)) ELSE ""
  BY <1>1 DEF Reconciled, Exists
<1>8. \A i \in ShardIDs : m.state[i] # "" => Can(m.state[i], Use(p, i))
  BY <1>1 DEF Reconciles, Exists
<1>9. InUse(n) = InUse(p)
  BY <1>5 DEF InUse
<1>10. \A i \in InUse(p) : m.state[i] # "" \/ i = NoShard
  <2> SUFFICES ASSUME NEW i \in InUse(p), i # NoShard
               PROVE  m.state[i] # ""
    OBVIOUS
  <2>1. PICK x \in Places : i = p.shard[x]
    BY DEF InUse
  <2>2. CASE x = <<r, f>>
    BY <1>2, <1>6, <2>1, <2>2 DEF Manifests, Exists
  <2>3. CASE x # <<r, f>>
    <3>1. i = m.shard[x]
      BY <1>2, <1>6, <2>1, <2>3 DEF Manifests
    <3>2. i \in InUse(m) /\ i \in ShardIDs
      BY <1>6, <3>1 DEF InUse, Manifests
    <3> QED
      BY <3>2 DEF Sound, Served
  <2> QED
    BY <2>2, <2>3
<1>11. \A i \in ShardIDs :
         \/ n.state[i] = "" /\ m.state[i] = "" /\ i \notin InUse(p)
         \/ n.state[i] = "CREATING" /\ m.state[i] = "CREATING" /\ i \notin InUse(p)
         \/ /\ n.state[i] = "UNREFERENCED" /\ i \notin InUse(p)
            /\ m.state[i] \in {"UNREFERENCED", "REFERENCED"}
         \/ /\ n.state[i] = "REFERENCED" /\ i \in InUse(p)
            /\ m.state[i] \in {"UNREFERENCED", "REFERENCED"}
  <2> SUFFICES ASSUME NEW i \in ShardIDs
               PROVE  <1>11!(i)
    OBVIOUS
  <2>1. CASE m.state[i] = ""
    BY <1>7, <1>10, <2>1, ManifestAssumption
  <2>2. CASE m.state[i] # "" /\ i \in InUse(p)
    <3>1. Use(p, i) = "REFERENCED"
      BY <2>2 DEF Use
    <3>2. Can(m.state[i], "REFERENCED") /\ n.state[i] = After(m.state[i], "REFERENCED")
      BY <1>7, <1>8, <2>2, <3>1
    <3> QED
      BY <2>2, <3>2, AfterReferenced
  <2>3. CASE m.state[i] # "" /\ i \notin InUse(p)
    <3>1. Use(p, i) = "UNREFERENCED"
      BY <2>3 DEF Use
    <3>2. Can(m.state[i], "UNREFERENCED") /\ n.state[i] = After(m.state[i], "UNREFERENCED")
      BY <1>7, <1>8, <2>3, <3>1
    <3> QED
      BY <2>3, <3>2, AfterUnreferenced
  <2> QED
    BY <2>1, <2>2, <2>3
<1>12. n.state \in [ShardIDs -> States \cup {""}]
  <2>1. n.state = [i \in ShardIDs |-> n.state[i]]
    BY DEF Reconciled
  <2>2. \A i \in ShardIDs : n.state[i] \in States \cup {""}
    BY <1>11 DEF States
  <2> QED
    BY <2>1, <2>2
<1>13. n \in Manifests
  <2>1. /\ p.shard \in [Places -> ShardIDs \cup {NoShard}]
        /\ p.commit \in [Places -> Commits \cup {NoCommit}]
        /\ p.default \in [Repos -> Refs]
    <3>1. p.shard \in [Places -> ShardIDs \cup {NoShard}]
      BY <1>2, <1>6 DEF Manifests
    <3>2. p.commit \in [Places -> Commits \cup {NoCommit}]
      BY <1>4, <1>6 DEF Manifests
    <3>3. p.default \in [Repos -> Refs]
      BY <1>3, <1>6 DEF Manifests
    <3> QED
      BY <3>1, <3>2, <3>3
  <2>2. n = [state |-> n.state, tree |-> n.tree, sum |-> n.sum, default |-> n.default,
             shard |-> n.shard, commit |-> n.commit]
    BY DEF Reconciled
  <2> QED
    BY <1>5, <1>6, <1>12, <2>1, <2>2 DEF Manifests
<1> HIDE DEF n, p
<1>14. Served(n)
  BY <1>9, <1>11 DEF Served
<1>15. Described(n) /\ Whole(n)
  BY <1>5, <1>11 DEF Sound, Described, Whole
<1>16. \A x \in Places : n.shard[x] = IF x = <<r, f>> THEN id ELSE m.shard[x]
  BY <1>2, <1>5, <1>6 DEF Manifests
<1>17. \A y \in Repos :
         n.default[y] = IF y = r /\ m.default[y] = EmptyRef THEN f ELSE m.default[y]
  BY <1>3, <1>5, <1>6 DEF Manifests
<1>18. id # NoShard
  BY ManifestAssumption
<1>19. \A y \in Repos, g \in Refs :
         m.shard[<<y, g>>] # NoShard => n.shard[<<y, g>>] # NoShard
  BY <1>16, <1>18 DEF Places
<1>20. n.shard[<<r, f>>] # NoShard
  BY <1>16, <1>18 DEF Places
<1>21. m.default \in [Repos -> Refs]
  BY <1>6 DEF Manifests
<1>22. DefaultIsRef(n)
  BY <1>17, <1>19, <1>20, <1>21 DEF Sound, DefaultIsRef
<1>23. Resolves(n)
  <2> SUFFICES ASSUME NEW y \in Repos, NEW g \in Refs, n.shard[<<y, g>>] # NoShard
               PROVE  n.shard[<<y, n.default[y]>>] # NoShard
    BY DEF Resolves
  <2>1. CASE y = r /\ m.default[y] = EmptyRef
    BY <1>17, <1>20, <2>1
  <2>2. CASE y = r /\ m.default[y] # EmptyRef
    BY <1>17, <1>19, <1>21, <2>2 DEF Sound, DefaultIsRef
  <2>3. CASE y # r
    <3>1. <<y, g>> # <<r, f>> /\ <<y, g>> \in Places
      BY <2>3 DEF Places
    <3>2. m.shard[<<y, g>>] # NoShard
      BY <1>16, <3>1
    <3> QED
      BY <1>17, <1>19, <1>21, <2>3, <3>2 DEF Sound, Resolves
  <2> QED
    BY <2>1, <2>2, <2>3
<1> QED
  BY <1>13, <1>14, <1>15, <1>22, <1>23 DEF Sound, n, p

\* SetDefaultRepoRef keeps a manifest sound.
LEMMA SetDefaultSound ==
  ASSUME NEW m, Sound(m), NEW r \in Repos, NEW f \in Refs, m.shard[<<r, f>>] # NoShard,
         NEW n, n = [state |-> m.state, tree |-> m.tree, sum |-> m.sum,
                     default |-> [m.default EXCEPT ![r] = f],
                     shard |-> m.shard, commit |-> m.commit]
  PROVE  Sound(n)
<1>1. n \in Manifests
  BY DEF Sound, Manifests
<1>2. Served(n)
  BY DEF Sound, Served, InUse
<1>3. Described(n) /\ Whole(n)
  BY DEF Sound, Described, Whole
<1>4. \A y \in Repos : n.default[y] = IF y = r THEN f ELSE m.default[y]
  BY DEF Sound, Manifests
<1>5. Resolves(n) /\ DefaultIsRef(n)
  BY <1>4 DEF Sound, Resolves, DefaultIsRef
<1> QED
  BY <1>1, <1>2, <1>3, <1>5 DEF Sound

-----------------------------------------------------------------------------
\* A function that manifestTxn lets through keeps a manifest sound.
LEMMA ResultSound ==
  ASSUME NEW m, Sound(m), NEW q \in Requests, NEW d \in Drawn(q, m), Accepts(d, m)
  PROVE  Sound(Result(d, m)) /\ d \in DrawnRequests
<1>1. CASE q.op = "allocate"
  <2>1. PICK i \in ShardIDs : ~Exists(m, i) /\ d = [op |-> "allocate", id |-> i]
    BY <1>1 DEF Drawn
  <2>2. Result(d, m) = WithShard(m, i, "CREATING", NoTree, NoSum)
    BY <2>1 DEF Result
  <2> QED
    BY <2>1, <2>2, AllocateSound DEF DrawnRequests
<1>2. CASE q.op = "complete"
  <2>1. PICK i \in ShardIDs, t \in Trees, x \in Sums :
          q = [op |-> "complete", id |-> i, tree |-> t, sum |-> x]
    BY <1>2 DEF Requests
  <2>2. d = q
    BY <1>2 DEF Drawn
  <2>3. Can(m.state[i], "CREATED")
    BY <2>1, <2>2 DEF Accepts
  <2>4. Result(d, m) = WithShard(m, i, "UNREFERENCED", t, x)
    BY <2>1, <2>2 DEF Result
  <2> QED
    BY <2>2, <2>3, <2>4, CompleteSound DEF DrawnRequests
<1>3. CASE q.op = "update"
  <2>1. PICK i \in ShardIDs, r \in Repos, f \in Refs, c \in Commits :
          q = [op |-> "update", id |-> i, repo |-> r, ref |-> f, commit |-> c]
    BY <1>3 DEF Requests
  <2>2. d = q
    BY <1>3 DEF Drawn
  <2>3. Exists(m, i) /\ Reconciles(Repointed(m, d))
    BY <2>1, <2>2 DEF Accepts
  <2>4. Result(d, m) = Reconciled(Repointed(m, d))
    BY <2>1, <2>2 DEF Result
  <2> QED
    BY <2>1, <2>2, <2>3, <2>4, UpdateSound DEF DrawnRequests
<1>4. CASE q.op = "setDefault"
  <2>1. PICK r \in Repos, f \in Refs : q = [op |-> "setDefault", repo |-> r, ref |-> f]
    BY <1>4 DEF Requests
  <2>2. d = q
    BY <1>4 DEF Drawn
  <2>3. m.shard[<<r, f>>] # NoShard
    BY <2>1, <2>2 DEF Accepts
  <2>4. Result(d, m) = [state |-> m.state, tree |-> m.tree, sum |-> m.sum,
                        default |-> [m.default EXCEPT ![r] = f],
                        shard |-> m.shard, commit |-> m.commit]
    BY <2>1, <2>2 DEF Result
  <2> QED
    BY <2>2, <2>3, <2>4, SetDefaultSound DEF DrawnRequests
<1> QED
  BY <1>1, <1>2, <1>3, <1>4 DEF Requests

\* What a step may never take back: the description of a completed shard, a
\* shard of the map, a ref.
Keeps(m, n) ==
  /\ \A id \in ShardIDs :
       m.tree[id] # NoTree => n.tree[id] = m.tree[id] /\ n.sum[id] = m.sum[id]
  /\ \A p \in Places : m.shard[p] # NoShard => n.shard[p] # NoShard
  /\ \A id \in ShardIDs : Exists(m, id) => Exists(n, id)

\* What WithShard changes, field by field.
LEMMA WithShardFields ==
  ASSUME NEW m, m \in Manifests, NEW i \in ShardIDs, NEW s, NEW t, NEW x,
         NEW n, n = WithShard(m, i, s, t, x)
  PROVE  /\ n.shard = m.shard /\ n.commit = m.commit
         /\ n.state[i] = s /\ n.tree[i] = t /\ n.sum[i] = x
         /\ \A y \in ShardIDs \ {i} :
              n.state[y] = m.state[y] /\ n.tree[y] = m.tree[y] /\ n.sum[y] = m.sum[y]
<1>1. /\ n.shard = m.shard /\ n.commit = m.commit
      /\ n.state = [m.state EXCEPT ![i] = s]
      /\ n.tree = [m.tree EXCEPT ![i] = t]
      /\ n.sum = [m.sum EXCEPT ![i] = x]
  BY DEF WithShard
<1>2. DOMAIN m.state = ShardIDs /\ DOMAIN m.tree = ShardIDs /\ DOMAIN m.sum = ShardIDs
  BY DEF Manifests
<1> QED
  BY <1>1, <1>2

\* A function that manifestTxn lets through takes nothing back.
LEMMA ResultKeeps ==
  ASSUME NEW m, Sound(m), NEW q \in Requests, NEW d \in Drawn(q, m), Accepts(d, m)
  PROVE  Keeps(m, Result(d, m))
<1>1. CASE q.op = "allocate"
  <2>1. PICK i \in ShardIDs : ~Exists(m, i) /\ d = [op |-> "allocate", id |-> i]
    BY <1>1 DEF Drawn
  <2>2. Result(d, m) = WithShard(m, i, "CREATING", NoTree, NoSum)
    BY <2>1 DEF Result
  <2>3. m.tree[i] = NoTree
    BY <2>1 DEF Sound, Described, Whole, Exists
  <2>4. /\ Result(d, m).shard = m.shard
        /\ \A y \in ShardIDs \ {i} :
             /\ Result(d, m).state[y] = m.state[y]
             /\ Result(d, m).tree[y] = m.tree[y] /\ Result(d, m).sum[y] = m.sum[y]
        /\ Result(d, m).state[i] = "CREATING"
    BY <2>2, WithShardFields DEF Sound
  <2> QED
    BY <2>3, <2>4 DEF Keeps, Exists
<1>2. CASE q.op = "complete"
  <2>1. PICK i \in ShardIDs, t \in Trees, x \in Sums :
          q = [op |-> "complete", id |-> i, tree |-> t, sum |-> x]
    BY <1>2 DEF Requests
  <2>2. d = q
    BY <1>2 DEF Drawn
  <2>3. m.state[i] = "CREATING"
    BY <2>1, <2>2, OnlyCreating DEF Accepts
  <2>4. Result(d, m) = WithShard(m, i, "UNREFERENCED", t, x)
    BY <2>1, <2>2 DEF Result
  <2>5. m.tree[i] = NoTree
    BY <2>3 DEF Sound, Described, Whole
  <2>6. /\ Result(d, m).shard = m.shard
        /\ \A y \in ShardIDs \ {i} :
             /\ Result(d, m).state[y] = m.state[y]
             /\ Result(d, m).tree[y] = m.tree[y] /\ Result(d, m).sum[y] = m.sum[y]
        /\ Result(d, m).state[i] = "UNREFERENCED"
    BY <2>4, WithShardFields DEF Sound
  <2> QED
    BY <2>5, <2>6 DEF Keeps, Exists
<1>3. CASE q.op = "update"
  <2>1. PICK i \in ShardIDs, r \in Repos, f \in Refs, c \in Commits :
          q = [op |-> "update", id |-> i, repo |-> r, ref |-> f, commit |-> c]
    BY <1>3 DEF Requests
  <2>2. d = q
    BY <1>3 DEF Drawn
  <2> DEFINE p == Repointed(m, q)
             n == Reconciled(p)
  <2>3. Reconciles(p)
    BY <2>1, <2>2 DEF Accepts
  <2>4. Result(d, m) = n
    BY <2>1, <2>2 DEF Result
  <2>5. n.tree = m.tree /\ n.sum = m.sum /\ p.state = m.state
          /\ n.shard = [m.shard EXCEPT ![<<r, f>>] = i]
    BY <2>1 DEF Repointed, Reconciled
  <2>6. \A x \in Places : m.shard[x] # NoShard => n.shard[x] # NoShard
    BY <2>5, ManifestAssumption DEF Sound, Manifests
  <2>7. \A y \in ShardIDs : Exists(m, y) => Exists(n, y)
    <3> SUFFICES ASSUME NEW y \in ShardIDs, Exists(m, y)
                 PROVE  n.state[y] # ""
      BY DEF Exists
    <3>1. Can(m.state[y], Use(p, y)) /\ n.state[y] = After(m.state[y], Use(p, y))
      BY <2>3, <2>5 DEF Reconciles, Reconciled, Exists
    <3>2. Use(p, y) = "REFERENCED" \/ Use(p, y) = "UNREFERENCED"
      BY DEF Use
    <3>3. CASE Use(p, y) = "REFERENCED"
      BY <3>1, <3>3, AfterReferenced
    <3>4. CASE Use(p, y) = "UNREFERENCED"
      BY <3>1, <3>4, AfterUnreferenced
    <3> QED
      BY <3>2, <3>3, <3>4
  <2> HIDE DEF n
  <2> QED
    BY <2>4, <2>5, <2>6, <2>7 DEF Keeps
<1>4. CASE q.op = "setDefault"
  <2>1. PICK r \in Repos, f \in Refs : q = [op |-> "setDefault", repo |-> r, ref |-> f]
    BY <1>4 DEF Requests
  <2>2. d = q
    BY <1>4 DEF Drawn
  <2> QED
    BY <2>1, <2>2 DEF Result, Keeps, Exists
<1> QED
  BY <1>1, <1>2, <1>3, <1>4 DEF Requests

-----------------------------------------------------------------------------
(***************************************************************************)
(* What each function makes of manifest m: n, shard by shard.              *)
(***************************************************************************)
\* AllocateShard adds shard i, which has no description.
Allocated(m, n, i) ==
  /\ Sound(n)
  /\ n.shard = m.shard /\ n.commit = m.commit
  /\ n.state[i] = "CREATING"
  /\ \A y \in ShardIDs \ {i} : n.state[y] = m.state[y]
  /\ \A y \in ShardIDs : n.tree[y] = m.tree[y] /\ n.sum[y] = m.sum[y]

\* CompleteShard describes shard i, that was being created.
Completed(m, n, i, t, x) ==
  /\ Sound(n)
  /\ n.shard = m.shard /\ n.commit = m.commit
  /\ m.state[i] = "CREATING"
  /\ n.state[i] = "UNREFERENCED" /\ n.tree[i] = t /\ n.sum[i] = x
  /\ \A y \in ShardIDs \ {i} :
       n.state[y] = m.state[y] /\ n.tree[y] = m.tree[y] /\ n.sum[y] = m.sum[y]

\* UpdateRepoShard sets one ref, and moves complete shards between
\* UNREFERENCED and REFERENCED.
RefSet(m, n, p, i, c) ==
  /\ Sound(n)
  /\ n.tree = m.tree /\ n.sum = m.sum
  /\ \A z \in Places :
       /\ n.shard[z] = IF z = p THEN i ELSE m.shard[z]
       /\ n.commit[z] = IF z = p THEN c ELSE m.commit[z]
  /\ \A y \in ShardIDs :
       \/ n.state[y] = m.state[y]
       \/ /\ n.state[y] \in {"UNREFERENCED", "REFERENCED"}
          /\ m.state[y] \in {"UNREFERENCED", "REFERENCED"}

LEMMA AllocateEffect ==
  ASSUME NEW m, Sound(m), NEW i \in ShardIDs, ~Exists(m, i)
  PROVE  Allocated(m, WithShard(m, i, "CREATING", NoTree, NoSum), i)
<1> DEFINE n == WithShard(m, i, "CREATING", NoTree, NoSum)
<1>1. m \in Manifests /\ m.tree[i] = NoTree /\ m.sum[i] = NoSum
  BY DEF Sound, Described, Whole, Exists
<1>2. /\ n.shard = m.shard /\ n.commit = m.commit
      /\ n.state[i] = "CREATING" /\ n.tree[i] = NoTree /\ n.sum[i] = NoSum
      /\ \A y \in ShardIDs \ {i} :
           n.state[y] = m.state[y] /\ n.tree[y] = m.tree[y] /\ n.sum[y] = m.sum[y]
  BY <1>1, WithShardFields
<1>3. Sound(n)
  BY AllocateSound
<1> QED
  BY <1>1, <1>2, <1>3 DEF Allocated

LEMMA CompleteEffect ==
  ASSUME NEW m, Sound(m), NEW i \in ShardIDs, NEW t \in Trees, NEW x \in Sums,
         Can(m.state[i], "CREATED")
  PROVE  Completed(m, WithShard(m, i, "UNREFERENCED", t, x), i, t, x)
<1> DEFINE n == WithShard(m, i, "UNREFERENCED", t, x)
<1>1. m \in Manifests /\ m.state[i] = "CREATING"
  BY OnlyCreating DEF Sound
<1>2. /\ n.shard = m.shard /\ n.commit = m.commit
      /\ n.state[i] = "UNREFERENCED" /\ n.tree[i] = t /\ n.sum[i] = x
      /\ \A y \in ShardIDs \ {i} :
           n.state[y] = m.state[y] /\ n.tree[y] = m.tree[y] /\ n.sum[y] = m.sum[y]
  BY <1>1, WithShardFields
<1>3. Sound(n)
  BY CompleteSound
<1> QED
  BY <1>1, <1>2, <1>3 DEF Completed

LEMMA UpdateEffect ==
  ASSUME NEW m, Sound(m), NEW i \in ShardIDs, NEW r \in Repos, NEW f \in Refs,
         NEW c \in Commits, Exists(m, i),
         NEW d, d = [op |-> "update", id |-> i, repo |-> r, ref |-> f, commit |-> c],
         Reconciles(Repointed(m, d))
  PROVE  RefSet(m, Reconciled(Repointed(m, d)), <<r, f>>, i, c)
<1> DEFINE p == Repointed(m, d)
           n == Reconciled(p)
<1>1. /\ p.state = m.state /\ p.tree = m.tree /\ p.sum = m.sum
      /\ p.shard = [m.shard EXCEPT ![<<r, f>>] = i]
      /\ p.commit = [m.commit EXCEPT ![<<r, f>>] = c]
  BY DEF Repointed
<1>2. /\ n.tree = m.tree /\ n.sum = m.sum
      /\ n.shard = [m.shard EXCEPT ![<<r, f>>] = i]
      /\ n.commit = [m.commit EXCEPT ![<<r, f>>] = c]
  BY <1>1 DEF Reconciled
<1>3. \A y \in ShardIDs :
        n.state[y] = IF p.state[y] # "" THEN After(p.state[y], Use(p, y)) ELSE ""
  BY DEF Reconciled, Exists
<1>4. \A y \in ShardIDs : p.state[y] # "" => Can(p.state[y], Use(p, y))
  BY DEF Reconciles, Exists
<1>5. DOMAIN m.shard = Places /\ DOMAIN m.commit = Places
  BY DEF Sound, Manifests
<1>6. ASSUME NEW y \in ShardIDs
      PROVE  \/ n.state[y] = m.state[y]
             \/ /\ n.state[y] \in {"UNREFERENCED", "REFERENCED"}
                /\ m.state[y] \in {"UNREFERENCED", "REFERENCED"}
  <2>1. CASE m.state[y] = ""
    BY <1>1, <1>3, <2>1
  <2>2. CASE m.state[y] # ""
    <3>1. Can(m.state[y], Use(p, y)) /\ n.state[y] = After(m.state[y], Use(p, y))
      BY <1>1, <1>3, <1>4, <2>2
    <3>2. CASE Use(p, y) = "REFERENCED"
      BY <3>1, <3>2, AfterReferenced
    <3>3. CASE Use(p, y) = "UNREFERENCED"
      BY <3>1, <3>3, AfterUnreferenced
    <3> QED
      BY <3>2, <3>3 DEF Use
  <2> QED
    BY <2>1, <2>2
<1>7. Sound(n)
  BY UpdateSound
<1> QED
  BY <1>5, <1>6, <1>2, <1>7 DEF RefSet
=============================================================================
