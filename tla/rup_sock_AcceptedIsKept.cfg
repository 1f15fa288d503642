CONSTANTS
  Senders = {s1}
  MaxSends = 2
  MsgLen = 2
  MemSize = 3
SPECIFICATION SockSpec
INVARIANT AcceptedIsKept
