\* Four transactions that keep the order of locks, four that do not all, three builds that start.
CONSTANTS
  t1 = t1
  t2 = t2
  t3 = t3
  t4 = t4
  s1 = s1
  s2 = s2
  s3 = s3
  Txn = {t1, t2, t3, t4}
  Workloads <- MCWorkloads
  Starter = {s1, s2, s3}
  Build <- MCBuilds
  Initial <- MCInitial
  MaxWrites = 4

SPECIFICATION MCSpec

INVARIANTS
  NobodyWaitsForAWaiter
  LocksInv
  MigrationsInv

PROPERTIES
  SchemaOnlyMovesForward

\* The transactions end; processes that serve or were refused take no further step.
CHECK_DEADLOCK FALSE
