SPECIFICATION FairSpec
CONSTANTS
  RequestId = {r1, r2}
  SessionId = {s1, s2}
  Thread = {t1}
  Uuid = {u1, u2}
  CertSerial = {c1, c2}
  u1 = u1
  u2 = u2
  c1 = c1
  c2 = c2
  None = None
  Callers <- OneCaller
  MaxFaults = 0
  MaxCrashes = 2
  KillsMidWrite = FALSE
PROPERTY EventuallySettled
