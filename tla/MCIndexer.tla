----------------------------- MODULE MCIndexer -----------------------------
(* Instances of Indexer for TLC. Commit 3 has the tree of commit 1 again,   *)
(* as after a revert; the tree of commit 2 has no files.                    *)
EXTENDS Indexer, TLC

CONSTANTS r1, r2, main, t1, t2, x1, x2

\* Two repositories, forks of each other.
BothJobs == {<<r1, main>>, <<r2, main>>}
OneJob == {<<r1, main>>}

TreeOfCommit == <<t1, t2, t1>>
TreeOfTwo == <<t1, t2>>
SumOfTree == (t1 :> x1) @@ (t2 :> x2)

ThreeCommits == 1..3
TwoCommits == 1..2

\* Shards are interchangeable, and so are the two forks.
Symmetry == Permutations(ShardIDs) \cup Permutations({r1, r2})
=============================================================================
