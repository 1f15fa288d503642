CONSTANTS
  IoObjs = {m1, a1}
  RmpEps = {m1}
  Acceptors = {a1}
  IoTasks = {"OT", "IT"}
  NoObj = NoObj
  RmpMayFail = TRUE
  AccMayFail = TRUE
  InsertMayFail = TRUE
SPECIFICATION FairSpec
INVARIANT TasksAgree
PROPERTIES ImplementsConnection CloseCompletes
CHECK_DEADLOCK FALSE
