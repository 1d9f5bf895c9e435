SPECIFICATION Spec
CONSTANTS
  Letters = {"a", "b", "h", "x", "y", "0"}
  Shards <- SomeShards
  Requests <- AllRequests
  Bad = Bad
  Edge = Edge
  Header <- SomeHeader
  Align = 2
  Zero = "0"
  MaxDocs = 2
  MaxRanges = 6
  Nil = Nil
CHECK_DEADLOCK FALSE
INVARIANTS
  AnswerComplete
  MatchesHonest
  MatchesCover
  AllReleased
  PanicsOnPathsOnly
PROPERTY SearchAnswers
