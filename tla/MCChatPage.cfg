SPECIFICATION FairSpec
CONSTANTS
  RequestId = {r1, r2}
  None = None
  MaxActs = 2
  MaxLogins = 1
  MaxFaults = 1
INVARIANTS
  TypeOK
  TranscriptIsTheSession
PROPERTIES
  SendComesBack
  EndIsShown
