\* The skip list under every sequence of commands.
SPECIFICATION Spec
CONSTANTS
  Member = {1, 2, 3}
  Score <- Scores
  NaN = nan
  MaxLevel = 3
  HeadNode = head
  NULL = null
INVARIANTS TypeOK LevelsNest CountsExact TopLevelUsed AnswersExact
PROPERTIES RankingSpec
