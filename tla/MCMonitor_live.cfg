CONSTANTS
  Nil = Nil
  JsonValues <- MCJsonValues
  Tables = {t1}
  Uuids = {u1}
  Vals = {v1}
  NotificationTypes = {"update2"}
  MaxRev = 2
  MaxCalls = 2
  MaxRedeliver = 1
  WatchMayCancel = FALSE
  GetDataMayFail = TRUE
  ClientMayClose = TRUE
SPECIFICATION Spec
PROPERTY EventuallyNotified
PROPERTY UpdatersReleased
