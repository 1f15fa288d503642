CONSTANTS
  IoObjs = {e1}
  IoTasks = {"OT", "IT"}
  NoObj = NoObj
SPECIFICATION Spec
INVARIANT CloseFindsIdleEndpoint
CHECK_DEADLOCK FALSE
