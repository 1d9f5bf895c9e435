SPECIFICATION Spec
CONSTANTS
  r1 = r1
  r2 = r2
  main = main
  t1 = t1
  t2 = t2
  x1 = x1
  x2 = x2
  ShardIDs = {s1, s2, s3}
  NoShard = NoShard
  Repos = {r1, r2}
  Refs = {none, main}
  EmptyRef = none
  Commits <- ThreeCommits
  NoCommit = 0
  Trees = {t1, t2}
  NoTree = NoTree
  Sums = {x1, x2}
  NoSum = NoSum
  Jobs <- BothJobs
  TreeOf <- TreeOfCommit
  SumOf <- SumOfTree
  NoFiles = {t2}
  MaxTrouble = 2
SYMMETRY Symmetry
INVARIANTS
  RefServesItsCommit
  CompletedIsStored
PROPERTY ForwardUnlessLate
