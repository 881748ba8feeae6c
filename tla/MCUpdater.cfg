CONSTANTS
  Nil = Nil
  RowUuid = U1
  Columns = {"x", "s", "m"}
  ColType <- MCColType
  Scalars = {0, 1}
  SetElems = {1, 2}
  MapKeys = {"a", "b"}
  MapVals = {0, 1}
  Requests <- MCRequests
  MaxBatch = 1

SPECIFICATION Spec
INVARIANT TypeOK
INVARIANT ReplicaMatches
