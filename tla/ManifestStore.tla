--------------------------- MODULE ManifestStore ---------------------------
(***************************************************************************)
(* How IndexMetadataService keeps the manifest: a directory with one       *)
(* subdirectory per revision, written by manifestTxn (main.go), that is by *)
(* LoadManifest and WriteManifest of package repo, and thinned out by      *)
(* CleanupManifests.  Handlers run concurrently, in one server or several, *)
(* and share nothing but that directory: each of their system calls is a   *)
(* step.  A server may die between any two of them.                        *)
(*                                                                         *)
(* A temporary directory REV.RANDOM is seen by its own handler only, since *)
(* LoadManifest skips names with a dot; what a dead handler leaves of it   *)
(* is not modelled.                                                        *)
(***************************************************************************)
EXTENDS Manifest, FiniteSets, FiniteSetsExt

CONSTANTS
  Calls,        \* the handlers that can run at a time
  MaxRev,       \* bounds the revisions, see RevsLeft
  NoDir         \* no directory of that revision

ASSUME StoreAssumption ==
  /\ MaxRev \in Nat
  /\ NoDir \notin Manifests

Revs == 1..MaxRev

VARIABLES
  published,    \* revision -> the manifest in its directory, or NoDir
  old,          \* the revisions whose directory is older than 24 hours
  sweep,        \* the directories a running CleanupManifests goes on to remove
  pc,           \* where each handler is
  q,            \* its request; once renamed, with the id CreateShard drew
  base,         \* the revision it loaded, 0 for none
  work          \* the request and the manifest WriteManifest is to write

dirVars == <<published, old, sweep>>
vars == <<dirVars, pc, q, base, work>>

NoRequest == [op |-> "none"]
NoWork == [q |-> NoRequest, m |-> EmptyManifest]

Present == {r \in Revs : published[r] # NoDir}

\* The name LoadManifest and CleanupManifests find to be greatest; the
\* order-preserving encoding of the revision in hex makes it the latest.
Latest == IF Present = {} THEN 0 ELSE Max(Present)

Current == IF Latest = 0 THEN EmptyManifest ELSE published[Latest]

Running(c) == pc[c] \in {"load", "open", "stat", "rename", "renamed"}
Pending(c) == Running(c) /\ pc[c] # "renamed"

Init ==
  /\ published = [r \in Revs |-> NoDir]
  /\ old = {} /\ sweep = {}
  /\ pc = [c \in Calls |-> "idle"]
  /\ q = [c \in Calls |-> NoRequest]
  /\ base = [c \in Calls |-> 0]
  /\ work = [c \in Calls |-> NoWork]

\* The bound on shards: there is a fresh id for each allocation under way.
IdsLeft ==
  Cardinality({c \in Calls : Pending(c) /\ q[c].op = "allocate"})
    < Cardinality({id \in ShardIDs : ~Exists(Current, id)})

\* The bound on revisions: there is one left for each call under way, so the
\* bound keeps calls from being made and none that was made from going on.
RevsLeft == Latest + Cardinality({c \in Calls : Pending(c)}) < MaxRev

\* The handler is over without an answer.
Fails(c, how) ==
  /\ pc' = [pc EXCEPT ![c] = how]
  /\ q' = [q EXCEPT ![c] = NoRequest]
  /\ base' = [base EXCEPT ![c] = 0]
  /\ work' = [work EXCEPT ![c] = NoWork]

\* A handler is called.
Request(c) ==
  /\ ~Running(c) /\ RevsLeft
  /\ \E req \in Requests :
       /\ req.op = "allocate" => IdsLeft
       /\ q' = [q EXCEPT ![c] = req]
  /\ pc' = [pc EXCEPT ![c] = "load"]
  /\ UNCHANGED <<dirVars, base, work>>

\* The handler's function runs on the manifest m of revision r, just loaded.
Apply(c, m, r) ==
  \E d \in Drawn(q[c], m) :
    \/ /\ Accepts(d, m)
       /\ base' = [base EXCEPT ![c] = r]
       /\ work' = [work EXCEPT ![c] = [q |-> d, m |-> Result(d, m)]]
       /\ pc' = [pc EXCEPT ![c] = "stat"]
       /\ UNCHANGED q
    \/ /\ ~Accepts(d, m)
       /\ Fails(c, "error")

\* LoadManifest lists the directory; with no revision there it is done.
ReadDir(c) ==
  /\ pc[c] = "load"
  /\ \/ /\ Latest = 0
        /\ Apply(c, EmptyManifest, 0)
     \/ /\ Latest # 0
        /\ base' = [base EXCEPT ![c] = Latest]
        /\ pc' = [pc EXCEPT ![c] = "open"]
        /\ UNCHANGED <<q, work>>
  /\ UNCHANGED dirVars

\* LoadManifest opens the file it chose, which may have been removed since.
Open(c) ==
  /\ pc[c] = "open"
  /\ \/ /\ base[c] \in Present
        /\ Apply(c, published[base[c]], base[c])
     \/ /\ base[c] \notin Present
        /\ Fails(c, "error")
  /\ UNCHANGED dirVars

\* Mutant: on a conflict the write is tried again, without loading.
StatRetries(c) ==
  /\ pc[c] = "stat"
  /\ pc' = [pc EXCEPT ![c] = IF base[c] + 1 \in Present THEN "stat" ELSE "rename"]
  /\ UNCHANGED <<dirVars, q, base, work>>

\* WriteManifest looks for the next revision.  If it is taken, manifestTxn
\* starts again, unless the caller's context is done; if not, the manifest is
\* written to a temporary directory, which only this handler sees.  Nothing
\* limits how often a handler starts again.
Stat(c) ==
  /\ pc[c] = "stat"
  /\ \/ /\ base[c] + 1 \in Present
        /\ \/ Fails(c, "error")
           \/ /\ pc' = [pc EXCEPT ![c] = "load"]
              /\ base' = [base EXCEPT ![c] = 0]
              /\ work' = [work EXCEPT ![c] = NoWork]
              /\ UNCHANGED q
     \/ /\ base[c] + 1 \in Revs \ Present
        /\ pc' = [pc EXCEPT ![c] = "rename"]
        /\ UNCHANGED <<q, base, work>>
  /\ UNCHANGED dirVars

\* Mutant: the rename replaces a directory that is there.
RenameOver(c) ==
  /\ pc[c] = "rename"
  /\ published' = [published EXCEPT ![base[c] + 1] = work[c].m]
  /\ q' = [q EXCEPT ![c] = work[c].q]
  /\ pc' = [pc EXCEPT ![c] = "renamed"]
  /\ base' = [base EXCEPT ![c] = 0]
  /\ work' = [work EXCEPT ![c] = NoWork]
  /\ UNCHANGED <<old, sweep>>

\* rename(2) publishes the directory, or fails since another one has the
\* name by now.  That error is an *os.LinkError, not os.ErrExist itself, so
\* manifestTxn returns it instead of starting again.
Rename(c) ==
  /\ pc[c] = "rename"
  /\ \/ /\ base[c] + 1 \notin Present
        /\ published' = [published EXCEPT ![base[c] + 1] = work[c].m]
        /\ q' = [q EXCEPT ![c] = work[c].q]
        /\ pc' = [pc EXCEPT ![c] = "renamed"]
        /\ base' = [base EXCEPT ![c] = 0]
        /\ work' = [work EXCEPT ![c] = NoWork]
     \/ /\ base[c] + 1 \in Present
        /\ Fails(c, "error")
        /\ UNCHANGED published
  /\ UNCHANGED <<old, sweep>>

\* The response is sent.
Reply(c) ==
  /\ pc[c] = "renamed"
  /\ pc' = [pc EXCEPT ![c] = "ok"]
  /\ UNCHANGED <<dirVars, q, base, work>>

\* One of the handler's system calls fails.
IOError(c) ==
  /\ Running(c) /\ pc[c] # "renamed"
  /\ Fails(c, "error")
  /\ UNCHANGED dirVars

\* The server dies with the handler in it.
Crash(c) ==
  /\ Running(c)
  /\ Fails(c, "lost")
  /\ UNCHANGED dirVars

\* A directory gets 24 hours old.  From listing the directory to the rename a
\* handler is taken to need less than that: none that listed it before r was
\* there is still on its way to that rename.
Age(r) ==
  /\ r \in Present \ old
  /\ \A c \in Calls : pc[c] \in {"open", "stat", "rename"} => base[c] >= r
  /\ old' = old \cup {r}
  /\ UNCHANGED <<published, sweep, pc, q, base, work>>

\* Mutant: age does not matter.
SweepListAll ==
  /\ sweep = {}
  /\ sweep' = {r \in Present : r < Latest}
  /\ UNCHANGED <<published, old, pc, q, base, work>>

\* CleanupManifests lists the old revisions but the latest ...
SweepList ==
  /\ sweep = {}
  /\ sweep' = {r \in Present \cap old : r < Latest}
  /\ UNCHANGED <<published, old, pc, q, base, work>>

\* ... and removes them one after the other.
SweepRemove(r) ==
  /\ r \in sweep
  /\ sweep' = sweep \ {r}
  /\ published' = [published EXCEPT ![r] = NoDir]
  /\ old' = old \ {r}
  /\ UNCHANGED <<pc, q, base, work>>

\* CleanupManifests dies half way.
SweepCrash ==
  /\ sweep # {}
  /\ sweep' = {}
  /\ UNCHANGED <<published, old, pc, q, base, work>>

Txn(c) ==
  ReadDir(c) \/ Open(c) \/ Stat(c) \/ Rename(c) \/ Reply(c)

Next ==
  \/ \E c \in Calls : Request(c) \/ Txn(c) \/ IOError(c) \/ Crash(c)
  \/ \E r \in Revs : Age(r) \/ SweepRemove(r)
  \/ SweepList \/ SweepCrash

\* A handler that can go on does.
Fairness == \A c \in Calls : WF_vars(Txn(c))

Spec == Init /\ [][Next]_vars

-----------------------------------------------------------------------------
\* A revision that has been published keeps its content for as long as it is
\* there: a reader that opens it late reads what it would have read at once.
RevisionsAreImmutable ==
  [][\A r \in Revs : published[r] # NoDir /\ published'[r] # NoDir
                       => published'[r] = published[r]]_vars

\* A call ends, with an answer, an error or its server, unless others for ever
\* go on to take the revision it wanted: manifestTxn lets it lose as often as
\* they are faster, but never makes it wait for nobody.
Answered ==
  \A c \in Calls :
    \/ Running(c) ~> ~Running(c)
    \/ []<>(\E d \in Calls \ {c} : pc[d] = "renamed")

-----------------------------------------------------------------------------
(***************************************************************************)
(* The directory implements the atomic service: a call takes effect when   *)
(* its rename succeeds.                                                    *)
(***************************************************************************)
AbstractStatus(c) ==
  CASE pc[c] \in {"idle", "ok", "error", "lost"} -> pc[c]
    [] pc[c] = "renamed" -> "committed"
    [] OTHER -> "pending"

Service == INSTANCE Metadata WITH
  manifest <- Current,
  call <- [c \in Calls |-> [st |-> AbstractStatus(c), q |-> q[c]]]

Implements == Service!Spec
=============================================================================
