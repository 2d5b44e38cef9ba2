SPECIFICATION Spec
CONSTANTS
  r = r
  a = a
  b = b
  c = c
  d = d
  Text = Text
  Page = {r, a, b, c, d}
  Root = r
  Database = {d}
  Trees <- SomeTrees
  Limit = 2
  MaxRetries = 2
  MaxMoves = 2
  MaxErrors = 1
CHECK_DEADLOCK FALSE
INVARIANT TypeOK
INVARIANT MissedPagesHaveAReason
INVARIANT RepeatedPagesHaveAReason
INVARIANT FailuresAreContained
PROPERTY WalkEnds
