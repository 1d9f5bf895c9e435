SPECIFICATION WebSpec
CONSTANTS
  ShardIDs = {s1, s2}
  NoShard = NoShard
  Repos = {r1, r2}
  Refs = {none, main}
  EmptyRef = none
  Commits = {h1}
  NoCommit = NoCommit
  Trees = {t1}
  NoTree = NoTree
  x1 = x1
  x2 = x2
  Sums = {x1, x2}
  NoSum = NoSum
  NotFound = NotFound
  Panic = Panic
  Found <- SomeFound
CHECK_DEADLOCK FALSE
INVARIANTS
  PageComplete
  CountBounded
  ReadsStayTrue
