SPECIFICATION Spec
CONSTANTS
  REPLAY_TURNS = 3
  REPLAY_CHARS = 6
  BlockLength = {2, 3, 4, 7}
  MaxHistory = 5
  Word <- SmallWord
  Dashed <- SmallDashed
  MaxTokens = 4
  Report = {p1, p2, p3, p4}
  Incident = {i1, i2}
  IdOf <- SameSecond
  p1 = p1
  p2 = p2
  p3 = p3
  p4 = p4
  i1 = i1
  i2 = i2
INVARIANTS
  NewestThatFitAreShown
  NothingForgottenSilently
  SurfaceIsSound
  SurfaceIsComplete
  CommandIsAdmitted
  ReportIsKept
\* When every report was made, nothing is left to do.
CHECK_DEADLOCK FALSE
