SPECIFICATION Spec
CONSTANTS
  RequestId = {r1, r2}
  SessionId = {s1}
  Thread = {t1, t2}
  Uuid = {u1, u2}
  CertSerial = {c1, c2}
  u1 = u1
  u2 = u2
  c1 = c1
  c2 = c2
  None = None
  Callers <- OneCaller
  MaxFaults = 0
  MaxCrashes = 1
  KillsMidWrite = TRUE
INVARIANT RestartSucceeds
