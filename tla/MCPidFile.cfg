CONSTANTS
  Nil = Nil
  Servers = {s1, s2}
  Pids = {p1, p2, p3}
  MaxStarts = 2
  Foreign = TRUE
SYMMETRY Symmetry
SPECIFICATION Spec
INVARIANT TypeOK
