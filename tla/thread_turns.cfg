CONSTANTS
  t1 = t1
  t2 = t2
  t3 = t3
  t4 = t4
  t5 = t5
  thA = thA
  thB = thB
  w1 = w1
  w2 = w2
  Turn = {t1, t2, t3, t4, t5}
  Thread = {thA, thB}
  Worker = {w1, w2}
  ThreadOf <- MCThreadOf
  WorkerOf <- MCWorkerOf
  NoTurn = NoTurn
  LeaseTicks = 3
  RefreshTicks = 2
  SyncDoor = {t2}
  QueueDepth = 2
  GateLimit = 1
SPECIFICATION MCFairSpec
INVARIANTS TypeOK OverlapOnlyWhenStale StaleTurnStops NoLostWakeup ReservationsCover
PROPERTY EveryTurnEnds
CHECK_DEADLOCK FALSE
