CONSTANTS
  IoObjs = {c1}
  IoTasks = {"OT"}
  NoObj = NoObj
  Timers = {c1}
  NoTimer = NoTimer
  MaxIdle = 2
  MayFail = TRUE
SPECIFICATION FairSpec
INVARIANTS TasksAgree HandlersFindExpected
PROPERTIES ImplementsConnection CloseCompletes RetriesGoOn
CHECK_DEADLOCK FALSE
