SPECIFICATION Spec
CONSTANTS
  OriginName = {general}
  Limit <- Rough
  MaxTrouble = 2
INVARIANTS
  TypeOK
  RequestsNeverMerge
  LinkedRecordIsComplete
  RegisteringAgainDoesNotFork
  HandoffsAreOfThisRun
  HandoffsAreAllReported
PROPERTY RecordKeepsItsIdentity
\* Nothing is left to do once nobody speaks any more.
CHECK_DEADLOCK FALSE
