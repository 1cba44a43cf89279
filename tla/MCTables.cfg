\* A table with or without a deletion column, pushes of up to two mutations, direct SQL before and after registration.
CONSTANTS
  tasks = tasks
  r1 = r1
  r2 = r2
  p = p
  q = q
  NoData = NoData
  Table <- MCTable
  SoftDelete <- MCTable
  Record <- MCRecord
  Data <- MCData
  Merge <- MCMerge
  Request <- MCRequest
  WrittenBy <- MCWrittenBy
  DirectData <- MCDirectData
  MaxMutations = 2
  MaxDirect = 2

SPECIFICATION MCSpec

INVARIANTS
  HandlersInv
  AnswersMatchEffects
  RevisionsNeverRestart

\* Mutations and direct writes are bounded: the clients may have nothing left to do.
CHECK_DEADLOCK FALSE
