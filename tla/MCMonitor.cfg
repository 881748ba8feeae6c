CONSTANTS
  Nil = Nil
  JsonValues <- MCJsonValues
  Tables = {t1}
  Uuids = {u1}
  Vals = {v1, v2}
  NotificationTypes = {"update2"}
  MaxRev = 2
  MaxCalls = 3
  MaxRedeliver = 1
  WatchMayCancel = TRUE
  GetDataMayFail = FALSE
  ClientMayClose = FALSE
SYMMETRY Symmetry
SPECIFICATION Spec
INVARIANT TypeOK
INVARIANT RevisionOrder
INVARIANT NoUpdateAfterCancel
