SPECIFICATION EndlessSpec
CONSTANTS
  ShardIDs = {s1, s2}
  NoShard = NoShard
  Repos = {r1}
  Refs = {none}
  EmptyRef = none
  Commits = {h1}
  NoCommit = NoCommit
  Trees = {t1}
  NoTree = NoTree
  Sums = {x1}
  NoSum = NoSum
  Calls = {a1, a2}
  MaxRev = 3
  NoDir = NoDir
PROPERTIES
  Implements
  Answered
  RevisionsAreImmutable
