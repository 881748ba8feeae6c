CONSTANTS
  Nil = Nil
  RowUuid = U1
  Columns = {"x", "s", "m"}
  ColType <- MCColType
  Scalars = {0, 1}
  SetElems = {1}
  MapKeys = {"a"}
  MapVals = {0, 1}
  Requests <- MCRequests
  MaxBatch = 2

SPECIFICATION Spec
INVARIANT ReplicaGoneWithRow
