CONSTANTS
  IoObjs = {a, b}
  Acceptors = {b}
  NoObj = NoObj
  IoTasks = {1, 2, 3}
  Misc = 0
  InputThreadCnt = 2
  OutputThreadCnt = 1
SPECIFICATION FairSpec
INVARIANTS HeldWhereIdSays CountNeverWraps
PROPERTY AddedIsNotified
CHECK_DEADLOCK FALSE
