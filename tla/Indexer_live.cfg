SPECIFICATION FairSpec
CONSTANTS
  r1 = r1
  r2 = r2
  main = main
  t1 = t1
  t2 = t2
  x1 = x1
  x2 = x2
  ShardIDs = {s1, s2, s3, s4}
  NoShard = NoShard
  Repos = {r1}
  Refs = {none, main}
  EmptyRef = none
  Commits <- TwoCommits
  NoCommit = 0
  Trees = {t1, t2}
  NoTree = NoTree
  Sums = {x1, x2}
  NoSum = NoSum
  Jobs <- OneJob
  TreeOf <- TreeOfTwo
  SumOf <- SumOfTree
  NoFiles = {}
  MaxTrouble = 2
PROPERTY CatchesUp
