-------------------------- MODULE MCManifestStore --------------------------
(* An instance of ManifestStore for TLC, in which revisions never run out.  *)
EXTENDS ManifestStore, TLC

Symmetry == Permutations(Calls) \cup Permutations(ShardIDs)

\* Revisions are compared and counted on from, no more: once the directory
\* has the latest one only and no handler remembers another, it may as well be
\* the first.  Calls, and the races for the next revision, go on for ever.
Renumber ==
  /\ Latest > 1 /\ Present = {Latest} /\ sweep = {}
  /\ \A c \in Calls : pc[c] \in {"open", "stat", "rename"} => base[c] = Latest
  /\ published' = [r \in Revs |-> IF r = 1 THEN Current ELSE NoDir]
  /\ old' = {r \in {1} : Latest \in old}
  /\ base' = [c \in Calls |-> IF base[c] = Latest THEN 1 ELSE base[c]]
  /\ UNCHANGED <<sweep, pc, q, work>>

EndlessSpec == Init /\ [][Next \/ Renumber]_vars /\ Fairness
=============================================================================
