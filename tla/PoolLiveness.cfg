SPECIFICATION FairSpec
CONSTANTS
  t1 = t1
  t3 = t3
  Workers = {w1, w2}
  Clients = {a, b}
  Owner = a
  Waiters = {b}
  Tasks = {t1, t2, t3}
  Child <- MCChild
  NoTask = NoTask
  CreateMayFail = FALSE
PROPERTY AcceptedRuns
PROPERTY WaitReturns
PROPERTY DisposeReturns
\* The owner may dispose of the pool, and then nothing moves any more.
CHECK_DEADLOCK FALSE
