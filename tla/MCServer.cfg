CONSTANTS
  Nil = Nil
  Conns = {c1, c2}
  Methods <- MCMethods
  ServiceMethods = {"list_dbs"}
  Service = Service
  AcceptMayFail = TRUE
SPECIFICATION Spec
INVARIANT TypeOK
PROPERTY EveryClosedConnectionCleanedUp
