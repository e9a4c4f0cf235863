SPECIFICATION FairSpec
CONSTANTS
  w1 = w1  w2 = w2  c1 = c1  c2 = c2
  t1 = t1  t2 = t2  t3 = t3  t4 = t4
  NoTask = NoTask  NoThread = NoThread
  Worker = {}
  Client = {c1, c2}
  Task = {t1, t2, t3, t4}
  Submitter <- ChainSubmitter
  Throws = {t3}
  Awaits = {}
  Collects = {}
  MaxSpurious = 0
INVARIANTS EverySubmitYieldsFuture
