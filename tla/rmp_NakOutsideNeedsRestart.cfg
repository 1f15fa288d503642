CONSTANTS
  Recvers = {r1, r2}
  N = 3
  SenderWinSize = 4
  Flight = 1
  UnvalidPkgsSize = 2
  SendAckCnt = 1
  U64 = 16
  MaxInFlight = 1
  MaxRestarts = 1
SYMMETRY Symmetry
SPECIFICATION Spec
CHECK_DEADLOCK FALSE
INVARIANT NakOutsideNeedsRestart
