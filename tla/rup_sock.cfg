CONSTANTS
  Senders = {s1, s2}
  MaxSends = 2
  MsgLen = 2
  MemSize = 3
SPECIFICATION SockFairSpec
INVARIANTS SockTypeOK EachByteOnce QueuesKeepOrder WholeOrNothing MessageInOrder
PROPERTY QueuedIsSent
