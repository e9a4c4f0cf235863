SPECIFICATION FairSpec
CONSTANTS
  w1 = w1  w2 = w2  c1 = c1  c2 = c2
  t1 = t1  t2 = t2  t3 = t3  t4 = t4
  NoTask = NoTask  NoThread = NoThread
  Worker = {w1, w2}
  Client = {c1, c2}
  Task = {t1, t2, t3, t4}
  Submitter <- PairsSubmitter
  Throws = {t4}
  Awaits = {t1, t3}
  Collects = {c1}
  MaxSpurious = 1
INVARIANTS TypeOK InOnePlace NothingStranded NoSleeperAfterNotifyAll NoLostWakeup HangsOnlyWhenAllAwait PoolInv
PROPERTIES KeepsPromise EveryFutureReady DestructorReturns
CHECK_DEADLOCK FALSE
