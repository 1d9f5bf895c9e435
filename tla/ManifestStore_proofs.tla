------------------------ MODULE ManifestStore_proofs ------------------------
(***************************************************************************)
(* The directory of revisions behaves like the atomic service, for any     *)
(* number of concurrent handlers, with servers and CleanupManifests dying  *)
(* at any point: manifestTxn's optimistic write loses no update and serves *)
(* no revision that was not written whole.                                 *)
(***************************************************************************)
EXTENDS ManifestStore, Manifest_proofs, WellFoundedInduction

\* The handlers that have listed the directory and not yet tried to publish.
Listed(c) == pc[c] \in {"open", "stat", "rename"}
Writing(c) == pc[c] \in {"stat", "rename"}

Typed ==
  /\ published \in [Revs -> Manifests \cup {NoDir}]
  /\ pc \in [Calls -> {"idle", "load", "open", "stat", "rename", "renamed",
                       "ok", "error", "lost"}]
  /\ q \in [Calls -> DrawnRequests \cup {NoRequest}]
  /\ base \in [Calls -> 0..MaxRev]
  /\ work \in [Calls -> [q : DrawnRequests \cup {NoRequest}, m : Manifests]]

\* Whatever revision a reader finds and opens, it reads a sound manifest.
DirSound == \A r \in Present : Sound(published[r])

\* CleanupManifests removes what is old, and never the latest.
Swept ==
  /\ old \subseteq Present
  /\ sweep \subseteq old
  /\ \A r \in sweep : r < Latest

\* Until its rename a handler has the request of its client, and what it is
\* about to write is sound.
Asked(c) == (pc[c] = "load" \/ Listed(c)) => q[c] \in Requests
Prepared(c) == Writing(c) => Sound(work[c].m)

\* The bound on revisions leaves room for the one it is about to publish.
Room(c) == pc[c] = "rename" => base[c] + 1 \in Revs

\* No revision a handler has not seen is old.
SeenOld(c) == Listed(c) => \A r \in old : r <= base[c]

\* A handler whose revision is no longer the latest finds its successor: it
\* cannot have been removed, so the name it would publish under is taken.
Succeeded(c) ==
  Listed(c) => base[c] <= Latest /\ (base[c] < Latest => base[c] + 1 \in Present)

\* A handler that is still up to date is about to write what its function
\* makes of the current manifest.
UpToDate(c) ==
  Writing(c) /\ base[c] = Latest =>
    /\ work[c].q \in Drawn(q[c], Current)
    /\ Accepts(work[c].q, Current)
    /\ work[c].m = Result(work[c].q, Current)

Handler(c) ==
  Asked(c) /\ Prepared(c) /\ Room(c) /\ SeenOld(c) /\ Succeeded(c) /\ UpToDate(c)

\* The inductive invariant.
IInv == Typed /\ DirSound /\ Swept /\ \A c \in Calls : Handler(c)

-----------------------------------------------------------------------------
(***************************************************************************)
(* The latest revision.                                                    *)
(***************************************************************************)
\* A set of revisions that is not empty has a greatest one: below the bound
\* the distances to it are natural numbers, of which one is the least.
LEMMA GreatestExists ==
  ASSUME NEW S \in SUBSET Revs, S # {}
  PROVE  \E x \in S : \A y \in S : x >= y
<1> DEFINE R == OpToRel(<, Nat)
           D == {n \in Nat : \E x \in S : n = MaxRev - x}
<1>1. S \subseteq 1..MaxRev /\ MaxRev \in Nat
  BY StoreAssumption DEF Revs
<1>2. D \subseteq Nat /\ D # {}
  <2>1. PICK x \in S : TRUE
    OBVIOUS
  <2>2. MaxRev - x \in Nat
    BY <1>1
  <2>3. MaxRev - x \in D
    BY <2>2
  <2> QED
    BY <2>3
<1>3. \E n \in D : \A k \in D : ~(<<k, n>> \in R)
  <2> HIDE DEF D
  <2> QED
    BY <1>2, NatLessThanWellFounded, WFMin
<1>4. PICK n \in D : \A k \in D : ~(k < n)
  BY <1>2, <1>3 DEF OpToRel
<1>5. PICK x \in S : n = MaxRev - x
  OBVIOUS
<1>6. \A y \in S : x >= y
  BY <1>1, <1>4, <1>5
<1> QED
  BY <1>6

\* Latest is the greatest revision that is there.
LEMMA LatestIsGreatest ==
  /\ Present # {} => Latest \in Present /\ \A x \in Present : x <= Latest
  /\ Present = {} => Latest = 0
<1>1. ASSUME Present # {} PROVE Latest \in Present /\ \A x \in Present : x <= Latest
  <2>1. Present \in SUBSET Revs
    BY DEF Present
  <2>2. PICK x \in Present : \A y \in Present : x >= y
    BY <1>1, <2>1, GreatestExists
  <2>3. Latest \in Present /\ \A y \in Present : Latest >= y
    BY <1>1, <2>2 DEF Latest, Max
  <2> QED
    BY <2>1, <2>3, StoreAssumption DEF Revs
<1> QED
  BY <1>1 DEF Latest

\* So it is in the next state.
LEMMA LatestIsGreatestNext ==
  (Present # {} => Latest \in Present /\ \A x \in Present : x <= Latest)'
BY LatestIsGreatest, PTL

LEMMA LatestType == Latest \in 0..MaxRev /\ (Latest = 0 <=> Present = {})
<1>1. Present \subseteq 1..MaxRev /\ MaxRev \in Nat
  BY StoreAssumption DEF Present, Revs
<1>2. CASE Present = {}
  BY <1>1, <1>2, LatestIsGreatest
<1>3. CASE Present # {}
  <2>1. Latest \in 1..MaxRev
    BY <1>1, <1>3, LatestIsGreatest
  <2> QED
    BY <1>3, <2>1
<1> QED
  BY <1>2, <1>3

\* What LoadManifest finds is sound.
LEMMA CurrentSound ==
  ASSUME DirSound
  PROVE  Sound(Current)
<1>1. CASE Latest = 0
  BY <1>1, EmptySound DEF Current
<1>2. CASE Latest # 0
  BY <1>2, LatestIsGreatest DEF DirSound, Current
<1> QED
  BY <1>1, <1>2

-----------------------------------------------------------------------------
(***************************************************************************)
(* The steps of a handler that leave the directory alone.                  *)
(***************************************************************************)
\* What is read of the directory follows the directory.
LEMMA DirKept ==
  ASSUME published' = published
  PROVE  Present' = Present /\ Latest' = Latest /\ Current' = Current
<1>1. Present' = Present
  BY DEF Present
<1>2. Latest' = Latest
  BY <1>1 DEF Latest
<1> QED
  BY <1>1, <1>2 DEF Current

\* Of the handlers only c moves.
Moves(c) ==
  \A e \in Calls \ {c} :
    pc'[e] = pc[e] /\ q'[e] = q[e] /\ base'[e] = base[e] /\ work'[e] = work[e]

\* A handler's own step has only its own part of the invariant to restore.
LEMMA HandlerStep ==
  ASSUME IInv, NEW c \in Calls, UNCHANGED dirVars, Typed', Moves(c), Handler(c)'
  PROVE  IInv'
<1>1. /\ Present' = Present /\ Latest' = Latest /\ Current' = Current
      /\ published' = published /\ old' = old /\ sweep' = sweep
  BY DirKept DEF dirVars
<1>2. DirSound' /\ Swept'
  BY <1>1 DEF IInv, DirSound, Swept
<1>3. \A e \in Calls \ {c} : Handler(e)'
  BY <1>1 DEF IInv, Moves, Handler, Asked, Prepared, Room, SeenOld, Succeeded, UpToDate,
              Listed, Writing
<1> QED
  BY <1>2, <1>3 DEF IInv

\* The handler gives up, or its server dies.
LEMMA FailsInv ==
  ASSUME IInv, NEW c \in Calls, NEW how \in {"error", "lost"}, Fails(c, how),
         UNCHANGED dirVars
  PROVE  IInv'
<1>1. EmptyManifest \in Manifests
  BY EmptySound DEF Sound
<1>2. Typed'
  BY <1>1, StoreAssumption DEF IInv, Typed, Fails, NoWork, dirVars
<1>3. Moves(c) /\ pc'[c] = how
  BY DEF IInv, Typed, Fails, Moves
<1>4. Handler(c)'
  BY <1>3 DEF Handler, Asked, Prepared, Room, SeenOld, Succeeded, UpToDate, Listed, Writing
<1> QED
  BY <1>2, <1>3, <1>4, HandlerStep

\* The handler's function runs on the manifest m of revision r.
LEMMA ApplyInv ==
  ASSUME IInv, NEW c \in Calls, q[c] \in Requests, UNCHANGED dirVars,
         NEW r \in 0..MaxRev, NEW m, Sound(m), Apply(c, m, r),
         r = Latest => m = Current,
         r <= Latest, r < Latest => r + 1 \in Present,
         \A o \in old : o <= r
  PROVE  IInv'
<1>1. PICK d \in Drawn(q[c], m) :
        \/ /\ Accepts(d, m)
           /\ base' = [base EXCEPT ![c] = r]
           /\ work' = [work EXCEPT ![c] = [q |-> d, m |-> Result(d, m)]]
           /\ pc' = [pc EXCEPT ![c] = "stat"]
           /\ UNCHANGED q
        \/ /\ ~Accepts(d, m)
           /\ Fails(c, "error")
  BY DEF Apply
<1>2. CASE ~Accepts(d, m)
  BY <1>1, <1>2, FailsInv
<1>3. CASE Accepts(d, m)
  <2>1. Sound(Result(d, m)) /\ d \in DrawnRequests
    BY <1>3, ResultSound
  <2>2. /\ base' = [base EXCEPT ![c] = r]
        /\ work' = [work EXCEPT ![c] = [q |-> d, m |-> Result(d, m)]]
        /\ pc' = [pc EXCEPT ![c] = "stat"]
        /\ q' = q
    BY <1>1, <1>3
  <2>3. Typed'
    BY <2>1, <2>2 DEF IInv, Typed, Sound, dirVars
  <2>4. Moves(c)
    BY <2>2 DEF IInv, Typed, Moves
  <2>5. /\ pc'[c] = "stat" /\ q'[c] = q[c] /\ base'[c] = r
        /\ work'[c].q = d /\ work'[c].m = Result(d, m)
    BY <2>2 DEF IInv, Typed
  <2>6. Present' = Present /\ Latest' = Latest /\ Current' = Current /\ old' = old
    BY DirKept DEF dirVars
  <2>7. Asked(c)' /\ Prepared(c)' /\ Room(c)' /\ SeenOld(c)' /\ Succeeded(c)'
    BY <2>1, <2>5, <2>6 DEF Asked, Prepared, Room, SeenOld, Succeeded
  <2>8. UpToDate(c)'
    BY <1>3, <2>5, <2>6 DEF UpToDate
  <2> QED
    BY <2>3, <2>4, <2>7, <2>8, HandlerStep DEF Handler
<1> QED
  BY <1>2, <1>3

\* A handler is called.
LEMMA RequestInv ==
  ASSUME IInv, NEW c \in Calls, Request(c)
  PROVE  IInv'
<1>1. PICK req \in Requests : q' = [q EXCEPT ![c] = req]
  BY DEF Request
<1>2. pc' = [pc EXCEPT ![c] = "load"] /\ UNCHANGED <<dirVars, base, work>>
  BY DEF Request
<1>3. Typed'
  BY <1>1, <1>2 DEF IInv, Typed, dirVars, DrawnRequests
<1>4. Moves(c) /\ pc'[c] = "load" /\ q'[c] = req
  BY <1>1, <1>2 DEF IInv, Typed, Moves
<1>5. Handler(c)'
  BY <1>4 DEF Handler, Asked, Prepared, Room, SeenOld, Succeeded, UpToDate, Listed, Writing
<1> QED
  BY <1>2, <1>3, <1>4, <1>5, HandlerStep

\* LoadManifest lists the directory.
LEMMA ReadDirInv ==
  ASSUME IInv, NEW c \in Calls, ReadDir(c)
  PROVE  IInv'
<1>1. UNCHANGED dirVars /\ pc[c] = "load" /\ q[c] \in Requests
  BY DEF ReadDir, IInv, Handler, Asked
<1>2. \A o \in old : o <= Latest
  BY LatestIsGreatest DEF IInv, Swept
<1>3. CASE Latest = 0 /\ Apply(c, EmptyManifest, 0)
  <2>1. EmptyManifest = Current /\ 0 \in 0..MaxRev /\ 0 <= Latest /\ ~(0 < Latest)
    BY <1>3, StoreAssumption DEF Current
  <2>2. \A o \in old : o <= 0
    BY <1>2, <1>3
  <2> QED
    BY <1>1, <1>3, <2>1, <2>2, EmptySound, ApplyInv
<1>4. CASE /\ Latest # 0
           /\ base' = [base EXCEPT ![c] = Latest]
           /\ pc' = [pc EXCEPT ![c] = "open"]
           /\ UNCHANGED <<q, work>>
  <2>1. Typed'
    BY <1>1, <1>4, LatestType DEF IInv, Typed, dirVars
  <2>2. Moves(c) /\ pc'[c] = "open" /\ q'[c] = q[c] /\ base'[c] = Latest
    BY <1>4 DEF IInv, Typed, Moves
  <2>3. Present' = Present /\ Latest' = Latest /\ old' = old
    BY <1>1, DirKept DEF dirVars
  <2>4. Latest \in Int
    BY LatestType, StoreAssumption
  <2>5. Handler(c)'
    BY <1>1, <1>2, <2>2, <2>3, <2>4
       DEF Handler, Asked, Prepared, Room, SeenOld, Succeeded, UpToDate, Listed, Writing
  <2> QED
    BY <1>1, <2>1, <2>2, <2>5, HandlerStep
<1> QED
  BY <1>3, <1>4 DEF ReadDir

\* LoadManifest opens the revision it chose.
LEMMA OpenInv ==
  ASSUME IInv, NEW c \in Calls, Open(c)
  PROVE  IInv'
<1>1. UNCHANGED dirVars /\ Listed(c) /\ q[c] \in Requests
  BY DEF Open, IInv, Handler, Asked, Listed
<1>2. CASE base[c] \in Present /\ Apply(c, published[base[c]], base[c])
  <2>1. base[c] \in 0..MaxRev
    BY DEF IInv, Typed
  <2>2. /\ base[c] <= Latest
        /\ base[c] < Latest => base[c] + 1 \in Present
        /\ \A o \in old : o <= base[c]
    BY <1>1 DEF IInv, Handler, Succeeded, SeenOld
  <2>3. base[c] = Latest => published[base[c]] = Current
    BY <1>2, LatestType DEF Current
  <2>4. Sound(published[base[c]])
    BY <1>2 DEF IInv, DirSound
  <2> QED
    BY <1>1, <1>2, <2>1, <2>2, <2>3, <2>4, ApplyInv
<1>3. CASE Fails(c, "error")
  BY <1>1, <1>3, FailsInv
<1> QED
  BY <1>2, <1>3 DEF Open

\* WriteManifest looks for the next revision.
LEMMA StatInv ==
  ASSUME IInv, NEW c \in Calls, Stat(c)
  PROVE  IInv'
<1>1. UNCHANGED dirVars /\ pc[c] = "stat"
  BY DEF Stat
<1>2. CASE Fails(c, "error")
  BY <1>1, <1>2, FailsInv
<1>3. CASE /\ pc' = [pc EXCEPT ![c] = "load"]
           /\ base' = [base EXCEPT ![c] = 0]
           /\ work' = [work EXCEPT ![c] = NoWork]
           /\ UNCHANGED q
  <2>1. EmptyManifest \in Manifests
    BY EmptySound DEF Sound
  <2>2. Typed'
    BY <1>1, <1>3, <2>1, StoreAssumption DEF IInv, Typed, NoWork, dirVars
  <2>3. Moves(c) /\ pc'[c] = "load" /\ q'[c] = q[c]
    BY <1>3 DEF IInv, Typed, Moves
  <2>4. Handler(c)'
    BY <1>1, <2>3 DEF IInv, Handler, Asked, Prepared, Room, SeenOld, Succeeded, UpToDate,
                      Listed, Writing
  <2> QED
    BY <1>1, <2>2, <2>3, <2>4, HandlerStep
<1>4. CASE /\ base[c] + 1 \in Revs
           /\ pc' = [pc EXCEPT ![c] = "rename"]
           /\ UNCHANGED <<q, base, work>>
  <2>1. Typed'
    BY <1>1, <1>4 DEF IInv, Typed, dirVars
  <2>2. /\ Moves(c) /\ pc'[c] = "rename" /\ q'[c] = q[c] /\ base'[c] = base[c]
        /\ work'[c] = work[c]
    BY <1>4 DEF IInv, Typed, Moves
  <2>3. Present' = Present /\ Latest' = Latest /\ Current' = Current /\ old' = old
    BY <1>1, DirKept DEF dirVars
  <2>4. Handler(c)'
    BY <1>1, <1>4, <2>2, <2>3
       DEF IInv, Handler, Asked, Prepared, Room, SeenOld, Succeeded, UpToDate, Listed, Writing
  <2> QED
    BY <1>1, <2>1, <2>2, <2>4, HandlerStep
<1> QED
  BY <1>2, <1>3, <1>4 DEF Stat

\* The response is sent.
LEMMA ReplyInv ==
  ASSUME IInv, NEW c \in Calls, Reply(c)
  PROVE  IInv'
<1>1. pc' = [pc EXCEPT ![c] = "ok"] /\ UNCHANGED <<dirVars, q, base, work>>
  BY DEF Reply
<1>2. Typed'
  BY <1>1 DEF IInv, Typed, dirVars
<1>3. Moves(c) /\ pc'[c] = "ok"
  BY <1>1 DEF IInv, Typed, Moves
<1>4. Handler(c)'
  BY <1>3 DEF Handler, Asked, Prepared, Room, SeenOld, Succeeded, UpToDate, Listed, Writing
<1> QED
  BY <1>1, <1>2, <1>3, <1>4, HandlerStep

-----------------------------------------------------------------------------
(***************************************************************************)
(* The steps that change the directory.                                    *)
(***************************************************************************)
\* The rename succeeds.
Publishes(c) ==
  /\ pc[c] = "rename"
  /\ base[c] + 1 \notin Present
  /\ published' = [published EXCEPT ![base[c] + 1] = work[c].m]
  /\ q' = [q EXCEPT ![c] = work[c].q]
  /\ pc' = [pc EXCEPT ![c] = "renamed"]
  /\ base' = [base EXCEPT ![c] = 0]
  /\ work' = [work EXCEPT ![c] = NoWork]
  /\ UNCHANGED <<old, sweep>>

\* A handler whose rename succeeds had loaded the latest revision: no update
\* came in between.  It publishes the one after it.
LEMMA PublishesNext ==
  ASSUME IInv, NEW c \in Calls, Publishes(c)
  PROVE  /\ base[c] = Latest
         /\ work[c].q \in Drawn(q[c], Current) /\ Accepts(work[c].q, Current)
         /\ Sound(work[c].m) /\ work[c].m = Result(work[c].q, Current)
         /\ Latest' = Latest + 1
         /\ Present' = Present \cup {Latest + 1}
         /\ \A r \in Present : published'[r] = published[r]
         /\ published'[Latest'] = work[c].m /\ Current' = work[c].m
<1>1. Listed(c) /\ Writing(c) /\ base[c] + 1 \in Revs
  BY DEF Publishes, Listed, Writing, IInv, Handler, Room
<1>2. base[c] \in Int /\ Latest \in Int
  BY LatestType, StoreAssumption DEF IInv, Typed
<1>3. base[c] = Latest
  BY <1>1, <1>2 DEF IInv, Handler, Succeeded, Publishes
<1>4. /\ work[c].q \in Drawn(q[c], Current) /\ Accepts(work[c].q, Current)
      /\ Sound(work[c].m) /\ work[c].m = Result(work[c].q, Current)
  BY <1>1, <1>3 DEF IInv, Handler, Prepared, UpToDate
<1>5. work[c].m # NoDir
  BY <1>4, StoreAssumption DEF Sound
<1>6. \A r \in Revs : published'[r] = IF r = Latest + 1 THEN work[c].m ELSE published[r]
  BY <1>3 DEF Publishes, IInv, Typed
<1>7. Present' = Present \cup {Latest + 1}
  BY <1>1, <1>3, <1>5, <1>6 DEF Present
<1>8. \A r \in Present' : r <= Latest + 1
  <2>1. Present \subseteq Int
    BY StoreAssumption DEF Present, Revs
  <2> QED
    BY <1>2, <1>7, <2>1, LatestIsGreatest
<1>9. Latest' = Latest + 1
  <2>1. Latest' \in Present' /\ Latest + 1 <= Latest'
    BY <1>7, LatestIsGreatestNext
  <2>2. Latest' <= Latest + 1 /\ Latest' \in Int
    BY <1>8, <2>1, StoreAssumption DEF Present, Revs
  <2> QED
    BY <1>2, <2>1, <2>2
<1>10. \A r \in Present : published'[r] = published[r]
  BY <1>3, <1>6 DEF Publishes, Present
<1>11. published'[Latest'] = work[c].m
  BY <1>1, <1>3, <1>6, <1>9
<1>12. Current' = work[c].m
  BY <1>2, <1>9, <1>11, LatestType DEF Current
<1> QED
  BY <1>3, <1>4, <1>7, <1>9, <1>10, <1>11, <1>12

LEMMA PublishesInv ==
  ASSUME IInv, NEW c \in Calls, Publishes(c)
  PROVE  IInv'
<1>1. /\ base[c] = Latest
      /\ work[c].q \in Drawn(q[c], Current) /\ Accepts(work[c].q, Current)
      /\ Sound(work[c].m)
      /\ Latest' = Latest + 1
      /\ Present' = Present \cup {Latest + 1}
      /\ \A r \in Present : published'[r] = published[r]
      /\ published'[Latest'] = work[c].m
  BY PublishesNext
<1>2. Latest \in Nat /\ base \in [Calls -> Int] /\ Present \subseteq Int
  BY LatestType, StoreAssumption DEF IInv, Typed, Present, Revs
<1>3. Moves(c) /\ pc'[c] = "renamed" /\ old' = old /\ sweep' = sweep
  BY DEF IInv, Typed, Moves, Publishes
<1>4. Typed'
  <2>1. EmptyManifest \in Manifests
    BY EmptySound DEF Sound
  <2>2. base[c] + 1 \in Revs /\ work[c].q \in DrawnRequests \cup {NoRequest}
    BY DEF IInv, Handler, Room, Publishes, Typed
  <2>3. published' \in [Revs -> Manifests \cup {NoDir}]
    BY <1>1, <2>2 DEF IInv, Typed, Publishes, Sound
  <2> QED
    BY <2>1, <2>2, <2>3, StoreAssumption DEF IInv, Typed, Publishes, NoWork
<1>5. DirSound'
  BY <1>1 DEF IInv, DirSound
<1>6. Swept'
  BY <1>1, <1>2, <1>3 DEF IInv, Swept
<1>7. ASSUME NEW e \in Calls \ {c}
      PROVE  Handler(e)'
  <2>1. pc'[e] = pc[e] /\ q'[e] = q[e] /\ base'[e] = base[e] /\ work'[e] = work[e]
    BY <1>3 DEF Moves
  <2>2. Asked(e)' /\ Prepared(e)' /\ Room(e)' /\ SeenOld(e)'
    BY <1>3, <2>1 DEF IInv, Handler, Asked, Prepared, Room, SeenOld, Listed, Writing
  <2>3. Listed(e) => base[e] <= Latest /\ (base[e] < Latest => base[e] + 1 \in Present)
    BY DEF IInv, Handler, Succeeded
  <2>4. base[e] \in Int /\ Latest \in Int
    BY <1>2
  <2>5. Succeeded(e)'
    BY <1>1, <2>1, <2>3, <2>4 DEF Succeeded, Listed
  <2>6. UpToDate(e)'
    BY <1>1, <2>1, <2>3, <2>4 DEF UpToDate, Writing, Listed
  <2> QED
    BY <2>2, <2>5, <2>6 DEF Handler
<1>8. Handler(c)'
  BY <1>3 DEF Handler, Asked, Prepared, Room, SeenOld, Succeeded, UpToDate, Listed, Writing
<1> QED
  BY <1>4, <1>5, <1>6, <1>7, <1>8 DEF IInv

LEMMA RenameInv ==
  ASSUME IInv, NEW c \in Calls, Rename(c)
  PROVE  IInv'
<1>1. CASE Publishes(c)
  BY <1>1, PublishesInv
<1>2. CASE Fails(c, "error") /\ UNCHANGED dirVars
  BY <1>2, FailsInv
<1> QED
  BY <1>1, <1>2 DEF Rename, Publishes, dirVars

\* A directory gets old.
LEMMA AgeInv ==
  ASSUME IInv, NEW r \in Revs, Age(r)
  PROVE  IInv'
<1>1. /\ r \in Present /\ old' = old \cup {r}
      /\ UNCHANGED <<published, sweep, pc, q, base, work>>
      /\ \A c \in Calls : Listed(c) => base[c] >= r
  BY DEF Age, Listed
<1>2. Present' = Present /\ Latest' = Latest /\ Current' = Current
  BY <1>1, DirKept
<1>3. Typed' /\ DirSound' /\ Swept'
  BY <1>1, <1>2 DEF IInv, Typed, DirSound, Swept
<1>4. r \in Int /\ base \in [Calls -> Int]
  BY StoreAssumption DEF Revs, IInv, Typed
<1>5. \A c \in Calls : SeenOld(c)'
  BY <1>1, <1>4 DEF IInv, Handler, SeenOld, Listed
<1>6. \A c \in Calls :
        Asked(c)' /\ Prepared(c)' /\ Room(c)' /\ Succeeded(c)' /\ UpToDate(c)'
  BY <1>1, <1>2 DEF IInv, Handler, Asked, Prepared, Room, Succeeded, UpToDate, Listed,
                    Writing
<1> QED
  BY <1>3, <1>5, <1>6 DEF IInv, Handler

\* CleanupManifests lists the directory, or dies.
LEMMA SweepListInv ==
  ASSUME IInv, SweepList \/ SweepCrash
  PROVE  IInv'
<1>1. /\ sweep' \subseteq old /\ \A r \in sweep' : r < Latest
      /\ UNCHANGED <<published, old, pc, q, base, work>>
  BY DEF SweepList, SweepCrash
<1>2. Present' = Present /\ Latest' = Latest /\ Current' = Current
  BY <1>1, DirKept
<1>3. Typed' /\ DirSound' /\ Swept'
  BY <1>1, <1>2 DEF IInv, Typed, DirSound, Swept
<1>4. \A c \in Calls : Handler(c)'
  BY <1>1, <1>2 DEF IInv, Handler, Asked, Prepared, Room, SeenOld, Succeeded, UpToDate,
                    Listed, Writing
<1> QED
  BY <1>3, <1>4 DEF IInv

\* What CleanupManifests removes is not what LoadManifest finds.
LEMMA RemovesNotCurrent ==
  ASSUME IInv, NEW r \in Revs, SweepRemove(r)
  PROVE  /\ Present' = Present \ {r} /\ Latest' = Latest /\ Current' = Current
         /\ \A x \in Revs \ {r} : published'[x] = published[x]
         /\ r \in old /\ r < Latest
<1>1. r \in old /\ r < Latest /\ r \in Present
  BY DEF SweepRemove, IInv, Swept
<1>2. \A x \in Revs : published'[x] = IF x = r THEN NoDir ELSE published[x]
  BY DEF SweepRemove, IInv, Typed
<1>3. Present' = Present \ {r}
  BY <1>2 DEF Present
<1>4. Latest \in Present /\ Latest \in Int /\ Present \subseteq Int
  BY <1>1, LatestIsGreatest, StoreAssumption DEF Present, Revs
<1>5. Latest \in Present' /\ \A x \in Present' : x <= Latest
  BY <1>1, <1>3, <1>4, LatestIsGreatest
<1>6. Latest' = Latest
  <2>1. Latest' \in Present' /\ Latest <= Latest'
    BY <1>5, LatestIsGreatestNext
  <2> QED
    BY <1>3, <1>4, <1>5, <2>1
<1>7. Current' = Current
  BY <1>1, <1>2, <1>4, <1>6 DEF Current, Present
<1> QED
  BY <1>1, <1>2, <1>3, <1>6, <1>7

LEMMA SweepRemoveInv ==
  ASSUME IInv, NEW r \in Revs, SweepRemove(r)
  PROVE  IInv'
<1>1. /\ Present' = Present \ {r} /\ Latest' = Latest /\ Current' = Current
      /\ \A x \in Revs \ {r} : published'[x] = published[x]
      /\ r \in old /\ r < Latest
  BY RemovesNotCurrent
<1>2. /\ sweep' = sweep \ {r} /\ old' = old \ {r}
      /\ UNCHANGED <<pc, q, base, work>>
  BY DEF SweepRemove
<1>3. Typed'
  BY <1>2 DEF SweepRemove, IInv, Typed
<1>4. DirSound'
  BY <1>1 DEF IInv, DirSound, Present
<1>5. Swept'
  BY <1>1, <1>2 DEF IInv, Swept
<1>6. \A c \in Calls : Asked(c)' /\ Prepared(c)' /\ Room(c)' /\ SeenOld(c)' /\ UpToDate(c)'
  BY <1>1, <1>2 DEF IInv, Handler, Asked, Prepared, Room, SeenOld, UpToDate, Listed, Writing
<1>7. ASSUME NEW c \in Calls
      PROVE  Succeeded(c)'
  <2>1. base[c] \in Int /\ r \in Int
    BY StoreAssumption DEF Revs, IInv, Typed
  <2>2. Listed(c) => r <= base[c]
    BY <1>1 DEF IInv, Handler, SeenOld
  <2>3. Listed(c) => base[c] + 1 # r
    BY <2>1, <2>2
  <2> QED
    BY <1>1, <1>2, <2>3 DEF IInv, Handler, Succeeded, Listed
<1> QED
  BY <1>3, <1>4, <1>5, <1>6, <1>7 DEF IInv, Handler

-----------------------------------------------------------------------------
LEMMA InitInv == Init => IInv
<1> SUFFICES ASSUME Init PROVE IInv
  OBVIOUS
<1>1. Present = {}
  BY DEF Init, Present
<1>2. EmptyManifest \in Manifests
  BY EmptySound DEF Sound
<1>3. Typed
  BY <1>2, StoreAssumption DEF Init, Typed, NoWork
<1>4. DirSound /\ Swept
  BY <1>1 DEF Init, DirSound, Swept
<1>5. \A c \in Calls : Handler(c)
  BY DEF Init, Handler, Asked, Prepared, Room, SeenOld, Succeeded, UpToDate, Listed, Writing
<1> QED
  BY <1>3, <1>4, <1>5 DEF IInv

LEMMA NextInv ==
  ASSUME IInv, [Next]_vars
  PROVE  IInv'
<1>1. ASSUME NEW c \in Calls, Request(c) PROVE IInv'
  BY <1>1, RequestInv
<1>2. ASSUME NEW c \in Calls, Txn(c) PROVE IInv'
  BY <1>2, ReadDirInv, OpenInv, StatInv, RenameInv, ReplyInv DEF Txn
<1>3. ASSUME NEW c \in Calls, IOError(c) \/ Crash(c) PROVE IInv'
  BY <1>3, FailsInv DEF IOError, Crash
<1>4. ASSUME NEW r \in Revs, Age(r) \/ SweepRemove(r) PROVE IInv'
  BY <1>4, AgeInv, SweepRemoveInv
<1>5. CASE SweepList \/ SweepCrash
  BY <1>5, SweepListInv
<1>6. CASE UNCHANGED vars
  <2>1. Present' = Present /\ Latest' = Latest /\ Current' = Current
    BY <1>6, DirKept DEF vars, dirVars
  <2> QED
    BY <1>6, <2>1 DEF vars, dirVars, IInv, Typed, DirSound, Swept, Handler, Asked, Prepared,
                      Room, SeenOld, Succeeded, UpToDate, Listed, Writing
<1> QED
  BY <1>1, <1>2, <1>3, <1>4, <1>5, <1>6 DEF Next

\* The inductive invariant holds.
THEOREM Invariant == Spec => []IInv
BY InitInv, NextInv, PTL DEF Spec

\* Only a rename that succeeds and CleanupManifests change the directory.
LEMMA DirectoryStep ==
  ASSUME [Next]_vars
  PROVE  \/ published' = published
         \/ \E c \in Calls : Publishes(c)
         \/ \E x \in Revs : SweepRemove(x)
<1>1. CASE \E c \in Calls : Rename(c)
  BY <1>1 DEF Rename, Publishes
<1>2. CASE \E x \in Revs : SweepRemove(x)
  BY <1>2
<1>3. CASE \E c \in Calls : Request(c) \/ ReadDir(c) \/ Open(c) \/ Stat(c) \/ Reply(c)
                           \/ IOError(c) \/ Crash(c)
  BY <1>3 DEF Request, ReadDir, Open, Stat, Reply, IOError, Crash, dirVars
<1>4. CASE (\E x \in Revs : Age(x)) \/ SweepList \/ SweepCrash \/ UNCHANGED vars
  BY <1>4 DEF Age, SweepList, SweepCrash, vars, dirVars
<1> QED
  BY <1>1, <1>2, <1>3, <1>4 DEF Next, Txn

\* A revision once published is not written again: Stat and rename(2) see to
\* it together, whatever handlers, crashes and CleanupManifests do in between.
THEOREM RevisionsNeverRewritten == Spec => RevisionsAreImmutable
<1>1. ASSUME IInv, [Next]_vars,
             NEW r \in Revs, published[r] # NoDir, published'[r] # NoDir
      PROVE  published'[r] = published[r]
  <2>1. ASSUME NEW c \in Calls, Publishes(c) PROVE published'[r] = published[r]
    BY <1>1, <2>1 DEF Publishes, IInv, Typed, Present
  <2>2. ASSUME NEW x \in Revs, SweepRemove(x) PROVE published'[r] = published[r]
    BY <1>1, <2>2 DEF SweepRemove, IInv, Typed
  <2> QED
    BY <1>1, <2>1, <2>2, DirectoryStep
<1>2. IInv /\ [Next]_vars =>
        [\A r \in Revs : published[r] # NoDir /\ published'[r] # NoDir
                           => published'[r] = published[r]]_vars
  BY <1>1
<1> QED
  BY <1>2, Invariant, PTL DEF Spec, RevisionsAreImmutable

-----------------------------------------------------------------------------
(***************************************************************************)
(* The refinement, step by step.                                           *)
(***************************************************************************)
\* What the atomic service sees of the handlers.
AbsCall == [c \in Calls |-> [st |-> AbstractStatus(c), q |-> q[c]]]

\* The status of a handler, place by place.
LEMMA StatusOf ==
  ASSUME Typed, NEW c \in Calls
  PROVE  /\ pc[c] \in {"idle", "ok", "error", "lost"} => AbstractStatus(c) = pc[c]
         /\ pc[c] = "renamed" => AbstractStatus(c) = "committed"
         /\ pc[c] \in {"load", "open", "stat", "rename"} => AbstractStatus(c) = "pending"
         /\ pc[c] \in {"idle", "ok", "error", "lost", "renamed", "load", "open", "stat",
                      "rename"}
BY DEF Typed, AbstractStatus

LEMMA StatusOfNext ==
  ASSUME Typed', NEW c \in Calls
  PROVE  /\ pc'[c] \in {"idle", "ok", "error", "lost"} => AbstractStatus(c)' = pc'[c]
         /\ pc'[c] = "renamed" => AbstractStatus(c)' = "committed"
         /\ pc'[c] \in {"load", "open", "stat", "rename"} => AbstractStatus(c)' = "pending"
BY DEF Typed, AbstractStatus

\* A handler's step changes its own call only.
LEMMA OneCall ==
  ASSUME NEW c \in Calls, Moves(c)
  PROVE  AbsCall' = [AbsCall EXCEPT ![c] = [st |-> AbstractStatus(c)', q |-> q'[c]]]
<1>1. \A e \in Calls \ {c} : AbstractStatus(e)' = AbstractStatus(e) /\ q'[e] = q[e]
  BY DEF Moves, AbstractStatus
<1> QED
  BY <1>1 DEF AbsCall

\* A handler that goes on to its next system call is seen to stutter.
LEMMA StutterStep ==
  ASSUME NEW c \in Calls, Moves(c), AbstractStatus(c)' = AbstractStatus(c), q'[c] = q[c],
         Current' = Current
  PROVE  UNCHANGED Service!vars
<1>1. AbsCall' = [AbsCall EXCEPT ![c] = [st |-> AbstractStatus(c), q |-> q[c]]]
  BY OneCall
<1>2. AbsCall' = AbsCall
  BY <1>1 DEF AbsCall
<1> QED
  BY <1>2 DEF Service!vars, AbsCall

\* A handler that gives up is seen as a refused call, a dead one as lost.
LEMMA FailsStep ==
  ASSUME IInv, NEW c \in Calls, UNCHANGED dirVars,
         \/ Fails(c, "error") /\ pc[c] \in {"load", "open", "stat", "rename"}
         \/ Fails(c, "lost") /\ Running(c)
  PROVE  Service!Refuse(c) \/ Service!Lose(c)
<1>1. Current' = Current
  BY DirKept DEF dirVars
<1>2. PICK how \in {"error", "lost"} :
        /\ Fails(c, how)
        /\ how = "error" => pc[c] \in {"load", "open", "stat", "rename"}
        /\ Running(c)
  BY DEF Running
<1>3. Moves(c) /\ pc'[c] = how /\ q'[c] = NoRequest
  BY <1>2 DEF IInv, Typed, Fails, Moves
<1>4. AbstractStatus(c)' = how
  BY <1>3 DEF AbstractStatus
<1>5. AbsCall' = [AbsCall EXCEPT ![c] = [st |-> how, q |-> NoRequest]]
  BY <1>3, <1>4, OneCall
<1>6. AbsCall[c].st = AbstractStatus(c)
  BY DEF AbsCall
<1>7. how = "error" => AbsCall[c].st = "pending"
  BY <1>2, <1>6, StatusOf DEF IInv
<1>8. AbsCall[c].st \in {"pending", "committed"}
  BY <1>2, <1>6, StatusOf DEF IInv, Running
<1>9. CASE how = "error"
  BY <1>1, <1>5, <1>7, <1>9 DEF Service!Refuse, Service!NoRequest, NoRequest, AbsCall
<1>10. CASE how = "lost"
  BY <1>1, <1>5, <1>8, <1>10 DEF Service!Lose, Service!Open, Service!NoRequest, NoRequest, AbsCall
<1> QED
  BY <1>9, <1>10

\* The bound on shards is the same.
LEMMA SameIdsLeft ==
  ASSUME IInv, IdsLeft
  PROVE  Service!IdsLeft
<1>1. \A c \in Calls :
        (Pending(c) /\ q[c].op = "allocate") <=>
          (AbsCall[c].st = "pending" /\ AbsCall[c].q.op = "allocate")
  <2> SUFFICES ASSUME NEW c \in Calls
               PROVE  Pending(c) <=> AbsCall[c].st = "pending"
    BY DEF AbsCall
  <2>1. AbsCall[c].st = AbstractStatus(c)
    BY DEF AbsCall
  <2> QED
    BY <2>1, StatusOf DEF IInv, Running, Pending
<1>2. {c \in Calls : Pending(c) /\ q[c].op = "allocate"}
        = {c \in Calls : AbsCall[c].st = "pending" /\ AbsCall[c].q.op = "allocate"}
  BY <1>1
<1>3. \A S : Service!Cardinality(S) = Cardinality(S)
  BY DEF Cardinality, Service!Cardinality
<1> QED
  BY <1>2, <1>3, Zenon DEF IdsLeft, Service!IdsLeft, Service!Exists, Exists, AbsCall

LEMMA RequestStep ==
  ASSUME IInv, NEW c \in Calls, Request(c)
  PROVE  Service!Request(c)
<1>1. PICK req \in Requests :
        /\ req.op = "allocate" => IdsLeft
        /\ q' = [q EXCEPT ![c] = req]
  BY DEF Request
<1>2. /\ ~Running(c) /\ pc' = [pc EXCEPT ![c] = "load"]
      /\ UNCHANGED <<dirVars, base, work>>
  BY DEF Request
<1>3. Moves(c) /\ pc'[c] = "load" /\ q'[c] = req
  BY <1>1, <1>2 DEF IInv, Typed, Moves
<1>4. AbstractStatus(c)' = "pending"
  BY <1>3 DEF AbstractStatus
<1>5. AbsCall' = [AbsCall EXCEPT ![c] = [st |-> "pending", q |-> req]]
  BY <1>3, <1>4, OneCall
<1>6. Current' = Current
  BY <1>2, DirKept DEF dirVars
<1>7. AbsCall[c].st \notin {"pending", "committed"}
  <2>1. AbsCall[c].st = AbstractStatus(c)
    BY DEF AbsCall
  <2> QED
    BY <1>2, <2>1, StatusOf DEF IInv, Running
<1>8. req.op = "allocate" => Service!IdsLeft
  BY <1>1, SameIdsLeft
<1> QED
  BY <1>5, <1>6, <1>7, <1>8 DEF Service!Request, Service!Open, AbsCall, Service!Requests, Requests

\* The service's copies of the handlers' functions are these functions.
LEMMA SameFunctions ==
  ASSUME NEW d, NEW m
  PROVE  /\ Service!Drawn(d, m) = Drawn(d, m)
         /\ Service!Accepts(d, m) <=> Accepts(d, m)
         /\ Service!Result(d, m) = Result(d, m)
<1>1. \A n, id : Service!Exists(n, id) <=> Exists(n, id)
  BY DEF Service!Exists, Exists
<1>2. \A x, a : (Service!Can(x, a) <=> Can(x, a)) /\ Service!After(x, a) = After(x, a)
  BY DEF Service!Can, Can, Service!After, After, Service!Allowed, Allowed, Service!States,
         States
<1>3. \A n, id : Service!Use(n, id) = Use(n, id)
  BY DEF Service!Use, Use, Service!InUse, InUse, Service!Places, Places
<1>4. Service!Repointed(m, d) = Repointed(m, d)
  BY DEF Service!Repointed, Repointed
<1>5. \A n : Service!Reconciles(n) <=> Reconciles(n)
  BY <1>1, <1>2, <1>3 DEF Service!Reconciles, Reconciles
<1>6. \A n : Service!Reconciled(n) = Reconciled(n)
  BY <1>1, <1>2, <1>3 DEF Service!Reconciled, Reconciled
<1>7. Service!Drawn(d, m) = Drawn(d, m)
  BY <1>1 DEF Service!Drawn, Drawn
<1>8. Service!Accepts(d, m) <=> Accepts(d, m)
  BY <1>1, <1>2, <1>4, <1>5 DEF Service!Accepts, Accepts
<1>9. \A n, id, x, t, y : Service!WithShard(n, id, x, t, y) = WithShard(n, id, x, t, y)
  BY DEF Service!WithShard, WithShard
<1>10. Service!Result(d, m) = Result(d, m)
  BY <1>4, <1>6, <1>9 DEF Service!Result, Result
<1> QED
  BY <1>7, <1>8, <1>10

\* The rename that succeeds is the commit.
LEMMA PublishesStep ==
  ASSUME IInv, NEW c \in Calls, Publishes(c)
  PROVE  Service!Commit(c)
<1>1. /\ work[c].q \in Drawn(q[c], Current) /\ Accepts(work[c].q, Current)
      /\ Current' = Result(work[c].q, Current)
  BY PublishesNext
<1>2. Moves(c) /\ pc'[c] = "renamed" /\ q'[c] = work[c].q /\ pc[c] = "rename"
  BY DEF IInv, Typed, Moves, Publishes
<1>3. AbstractStatus(c)' = "committed"
  BY <1>2 DEF AbstractStatus
<1>4. AbsCall' = [AbsCall EXCEPT ![c] = [st |-> "committed", q |-> work[c].q]]
  BY <1>2, <1>3, OneCall
<1>5. AbsCall[c].st = "pending" /\ AbsCall[c].q = q[c]
  <2>1. AbsCall[c].st = AbstractStatus(c) /\ AbsCall[c].q = q[c]
    BY DEF AbsCall
  <2> QED
    BY <1>2, <2>1, StatusOf DEF IInv
<1>6. /\ work[c].q \in Service!Drawn(AbsCall[c].q, Current)
      /\ Service!Accepts(work[c].q, Current)
      /\ Current' = Service!Result(work[c].q, Current)
  BY <1>1, <1>5, SameFunctions
<1> QED
  BY <1>4, <1>5, <1>6 DEF Service!Commit, AbsCall

\* The system calls before the rename.
LEMMA TxnStep ==
  ASSUME IInv, NEW c \in Calls, Txn(c)
  PROVE  [Service!Next]_(Service!vars)
<1> DEFINE GivesUp == /\ Fails(c, "error") /\ UNCHANGED dirVars
                      /\ pc[c] \in {"load", "open", "stat", "rename"}
           GoesOn == /\ UNCHANGED dirVars /\ Moves(c) /\ q'[c] = q[c]
                     /\ pc[c] \in {"load", "open", "stat"}
                     /\ pc'[c] \in {"load", "open", "stat", "rename"}
<1>1. Typed' /\ Typed
  BY NextInv DEF IInv, Next
<1>2. CASE Publishes(c)
  BY <1>2, PublishesStep DEF Service!Next
<1>3. CASE GivesUp
  BY <1>3, FailsStep DEF Service!Next
<1>4. CASE GoesOn
  <2>1. AbstractStatus(c)' = AbstractStatus(c)
    BY <1>1, <1>4, StatusOf, StatusOfNext
  <2>2. Current' = Current
    BY <1>4, DirKept DEF dirVars
  <2> QED
    BY <1>4, <2>1, <2>2, StutterStep
<1>5. CASE Reply(c)
  <2>1. Moves(c) /\ pc'[c] = "ok" /\ q'[c] = q[c] /\ pc[c] = "renamed"
    BY <1>5 DEF Reply, IInv, Typed, Moves
  <2>2. AbstractStatus(c)' = "ok"
    BY <2>1 DEF AbstractStatus
  <2>3. AbsCall' = [AbsCall EXCEPT ![c] = [st |-> "ok", q |-> q[c]]]
    BY <2>1, <2>2, OneCall
  <2>4. AbsCall[c].st = AbstractStatus(c) /\ AbsCall[c].q = q[c]
    BY DEF AbsCall
  <2>5. AbsCall[c].st = "committed"
    BY <1>1, <2>1, <2>4, StatusOf
  <2>6. Current' = Current
    BY <1>5, DirKept DEF Reply, dirVars
  <2>7. Service!Answer(c)
    BY <2>3, <2>4, <2>5, <2>6 DEF Service!Answer, AbsCall
  <2> QED
    BY <2>7 DEF Service!Next
<1>6. ASSUME NEW m, NEW r, Apply(c, m, r), UNCHANGED dirVars, pc[c] \in {"load", "open"}
      PROVE  GivesUp \/ GoesOn
  BY <1>6 DEF Apply, IInv, Typed, Moves
<1>7. CASE ReadDir(c)
  <2>1. CASE Latest = 0
    BY <1>3, <1>4, <1>6, <1>7, <2>1 DEF ReadDir
  <2>2. CASE Latest # 0
    BY <1>4, <1>7, <2>2 DEF ReadDir, IInv, Typed, Moves
  <2> QED
    BY <2>1, <2>2
<1>8. CASE Open(c)
  BY <1>3, <1>4, <1>6, <1>8 DEF Open
<1>9. CASE Stat(c)
  <2>1. CASE Fails(c, "error")
    BY <1>3, <1>9, <2>1 DEF Stat
  <2>2. CASE ~Fails(c, "error")
    BY <1>4, <1>9, <2>2 DEF Stat, IInv, Typed, Moves
  <2> QED
    BY <2>1, <2>2
<1>10. CASE Rename(c)
  BY <1>2, <1>3, <1>10 DEF Rename, Publishes, dirVars
<1> QED
  BY <1>5, <1>7, <1>8, <1>9, <1>10 DEF Txn

\* Every step of the directory is one of the service, or none.
LEMMA StepRefines ==
  ASSUME IInv, [Next]_vars
  PROVE  [Service!Next]_(Service!vars)
<1>1. ASSUME NEW c \in Calls, Request(c) PROVE [Service!Next]_(Service!vars)
  BY <1>1, RequestStep DEF Service!Next
<1>2. ASSUME NEW c \in Calls, Txn(c) PROVE [Service!Next]_(Service!vars)
  BY <1>2, TxnStep
<1>3. ASSUME NEW c \in Calls, IOError(c) \/ Crash(c) PROVE [Service!Next]_(Service!vars)
  <2>1. Service!Refuse(c) \/ Service!Lose(c)
    BY <1>3, FailsStep DEF IOError, Crash, Running
  <2> QED
    BY <2>1 DEF Service!Next
<1>4. ASSUME Current' = Current, pc' = pc, q' = q PROVE [Service!Next]_(Service!vars)
  <2>1. AbsCall' = AbsCall
    BY <1>4 DEF AbsCall, AbstractStatus
  <2> QED
    BY <1>4, <2>1 DEF Service!vars, AbsCall
<1>5. ASSUME NEW r \in Revs, Age(r) PROVE [Service!Next]_(Service!vars)
  BY <1>4, <1>5, DirKept DEF Age
<1>6. ASSUME NEW r \in Revs, SweepRemove(r) PROVE [Service!Next]_(Service!vars)
  BY <1>4, <1>6, RemovesNotCurrent DEF SweepRemove
<1>7. CASE SweepList \/ SweepCrash \/ UNCHANGED vars
  BY <1>4, <1>7, DirKept DEF SweepList, SweepCrash, vars, dirVars
<1> QED
  BY <1>1, <1>2, <1>3, <1>5, <1>6, <1>7 DEF Next

\* The directory of revisions implements the atomic service: manifestTxn's
\* load, write and rename take effect as one step at the rename, with no
\* update lost, however handlers, crashes, retries and CleanupManifests
\* interleave.
THEOREM DirectoryImplements == Spec => Implements
<1>1. Init => Service!Init
  <2> SUFFICES ASSUME Init PROVE Service!Init
    OBVIOUS
  <2>1. Present = {}
    BY DEF Init, Present
  <2>2. Current = EmptyManifest
    BY <2>1 DEF Current, Latest
  <2>3. AbsCall = [c \in Calls |-> [st |-> "idle", q |-> NoRequest]]
    BY DEF Init, AbsCall, AbstractStatus
  <2> QED
    BY <2>2, <2>3 DEF Service!Init, AbsCall, Service!EmptyManifest, EmptyManifest,
                      Service!NoRequest, NoRequest, Service!Places, Places
<1>2. IInv /\ [Next]_vars => [Service!Next]_(Service!vars)
  BY StepRefines
<1> QED
  BY <1>1, <1>2, Invariant, PTL DEF Spec, Implements, Service!Spec

\* Every revision that is there is sound, not only the latest: a reader that
\* opens one late still finds complete shards behind its refs.
THEOREM EveryRevisionSound == Spec => []DirSound
<1>1. IInv => DirSound
  BY DEF IInv
<1> QED
  BY <1>1, Invariant, PTL

\* LoadManifest never finds an earlier revision than it found before, though
\* CleanupManifests removes directories while handlers publish.
THEOREM LatestNeverGoesBack == Spec => [][Latest' >= Latest]_vars
<1>1. ASSUME IInv, [Next]_vars
      PROVE  Latest' >= Latest
  <2>1. Latest \in Int
    BY LatestType, StoreAssumption
  <2>2. ASSUME NEW c \in Calls, Publishes(c) PROVE Latest' >= Latest
    BY <1>1, <2>1, <2>2, PublishesNext
  <2>3. ASSUME NEW x \in Revs, SweepRemove(x) PROVE Latest' >= Latest
    BY <1>1, <2>1, <2>3, RemovesNotCurrent
  <2>4. CASE published' = published
    BY <2>1, <2>4, DirKept
  <2> QED
    BY <1>1, <2>2, <2>3, <2>4, DirectoryStep
<1>2. IInv /\ [Next]_vars => [Latest' >= Latest]_vars
  BY <1>1
<1> QED
  BY <1>2, Invariant, PTL DEF Spec
=============================================================================
