SPECIFICATION Spec
CONSTANTS
  t1 = t1
  t3 = t3
  Workers = {w1, w2, w3}
  Clients = {a, b}
  Owner = a
  Waiters = {a, b}
  Tasks = {t1, t2, t3, t4}
  Child <- MCChild
  NoTask = NoTask
  CreateMayFail = TRUE
SYMMETRY WorkerSymmetry
INVARIANT TypeOK
INVARIANT WorkConserving
INVARIANT NoTaskDropped
INVARIANT NoUseAfterFree
PROPERTY WaitMeansIdle
PROPERTY ImplementsService
\* The owner may dispose of the pool, and then nothing moves any more.
CHECK_DEADLOCK FALSE
