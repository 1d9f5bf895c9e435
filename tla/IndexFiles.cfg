SPECIFICATION Spec
CONSTANTS
  Base = 4
  NL = 1
  Bad = 3
  Contents <- FormatContents
  MaxLine = 5
  MaxFiles = 3
  MaxInlineRaw = 12
  Queries <- FormatQueries
  Bytes <- SomeBytes
  Before <- SomeBefore
  Sent <- SomeSent
  blockSize = 2
  maxBlockSize = 3
  MaxInt32 = 6
  Ranges <- SomeRanges
  Nil = Nil
  Absent = Absent
CHECK_DEADLOCK FALSE
INVARIANTS
  LocalExact
  MergeExact
  MergedConsistent
  ShardExact
  LoadExact
PROPERTY WorkEnds
