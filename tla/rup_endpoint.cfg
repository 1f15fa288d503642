CONSTANTS
  IoObjs = {e1, e2}
  IoTasks = {"OT", "IT"}
  NoObj = NoObj
SYMMETRY Sym
SPECIFICATION Spec
INVARIANTS TypeOK NoEraseMiss NoNullSock EventsPinned EventsOfThisConnection IoKeepsEndpoint IdleExact NoErrPendingInOt
PROPERTY ImplementsConnection
CHECK_DEADLOCK FALSE
