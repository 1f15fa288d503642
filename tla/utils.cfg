SPECIFICATION Spec
CONSTANTS
  PtrThreads = {t1, t2}
  Ptrs = {p1, p2, p3}
  Objs = {o1, o2}
  Null = Null
  Events = {e1, e2, e3, e4}
  NoEvent = NoEvent
  Users = {u1, u2, u3, u4}
  NoUser = NoUser
  uiMaxReaders = 3
  BlockCnt = 3
  MaxIdx = 8
  Logs = {l1, l2}
  Tracers = {t1, t2}
  Interval = 1
  MaxTime = 3
  Fds = {0, 1, 2, 3, 4}
  None = None
CHECK_DEADLOCK FALSE
INVARIANTS
  DisposedWhenUnreferenced
  EventsOnceInOrder
  ExclusionHolds
  RingKeepsUnread
  TraceHitsItsLog
