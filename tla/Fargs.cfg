SPECIFICATION FairSpec
CONSTANTS
  Path <- MCPath
  Files <- MCFiles
  Null = Null
  MaxText = 5
  Digits = {0, 1, 7, 8, 15}
  Buffers = {1, 2, 3}
INVARIANTS
  TypeOK
  FollowsLines
  ParsedExactly
PROPERTIES LinesInTurn EvaluationEnds
