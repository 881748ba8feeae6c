CONSTANTS
  Conns = {c1, c2}
  Lockers = {l1, l2, l3}
  Nil = Nil
  MaxCalls = 3
  MaxTasks = 1

SPECIFICATION Spec
INVARIANT ExclusiveClients
