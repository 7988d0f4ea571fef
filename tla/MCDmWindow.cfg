SPECIFICATION FairSpec
CONSTANTS
  Dm = {m1, m2}
  RequestId = {r1, r2}
  None = None
  MaxFaults = 2
  MaxKills = 1
INVARIANTS
  NeverSilent
  AnswerIsOfTheTurn
  OneTurnPerMessage
PROPERTY OneAnswerPerMessage
CHECK_DEADLOCK FALSE
