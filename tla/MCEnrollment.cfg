SPECIFICATION Spec
CONSTANTS
  Serial <- Serials
  Cli = {c1}
  MaxEvents = 2
  Operator = {o1, o2}
  Number <- Numbers
  MaxKeys = 3
SYMMETRY Symmetry
INVARIANTS
  NoCertificateIsOrphaned
  RegisteredIsRecognised
\* Operators may run out of keys, and of events.
CHECK_DEADLOCK FALSE
