SPECIFICATION Spec
CONSTANTS
  Serial = {s1, s2}
  Cli = {c1, c2}
  Uuid = {n1}
  Handler = {h1}
  s1 = s1
  s2 = s2
  n1 = n1
  NodeOf <- Renewed
  MaxEvents = 3
  MaxChanges = 1
SYMMETRY Symmetry
INVARIANTS
  RevocationIsImmediate
  PruneIsRevocation
  NothingFallsOnNothing
  EntryIsLastEvent
