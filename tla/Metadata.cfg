SPECIFICATION Spec
CONSTANTS
  ShardIDs = {s1, s2}
  NoShard = NoShard
  Repos = {r1}
  Refs = {none, main, dev}
  EmptyRef = none
  Commits = {h1}
  NoCommit = NoCommit
  Trees = {t1}
  NoTree = NoTree
  Sums = {x1, x2}
  NoSum = NoSum
  Calls = {a1, a2}
SYMMETRY Symmetry
INVARIANTS
  Consistent
  Acknowledged
PROPERTY CompletedForever
