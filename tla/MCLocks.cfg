CONSTANTS
  Conns = {c1, c2}
  Lockers = {l1, l2, l3}
  Nil = Nil
  MaxCalls = 2
  MaxTasks = 2

SPECIFICATION Spec
INVARIANT TypeOK
INVARIANT LockersConsistent
PROPERTY DisconnectReleasesLocks
