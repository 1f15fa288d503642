CONSTANTS
  IoObjs = {e1, e2}
  IoTasks = {"OT", "IT"}
  NoObj = NoObj
SPECIFICATION FairSpec
INVARIANT IndInv
PROPERTIES CloseCompletes OpenCompletes
CHECK_DEADLOCK FALSE
