CONSTANTS
  Nil = Nil
  Conns = {c1, c2}
  Methods <- MCMethods
  ServiceMethods = {"list_dbs"}
  Service = Service
  AcceptMayFail = FALSE
SPECIFICATION Spec
INVARIANT RequestsServedByOwnHandler
