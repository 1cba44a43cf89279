\* Three calls on three documents, one of which does not exist, and an e-mail.
CONSTANTS
  a = a
  b = b
  c = c
  mail = mail
  q1 = q1
  q2 = q2
  q3 = q3
  Call <- MCCall
  Doc <- MCDoc
  Seed <- MCSeed
  Email <- MCEmail
  Request <- MCRequest
  RustRequest <- OnRust
  MaxFailures = 1
  MaxAttempts = 2
  MaxTime = 3
  MaxLost = 1
  MaxResets = 1

SPECIFICATION MCFairSpec

INVARIANTS
  DocsInv

PROPERTIES
  EachCallIsAtomic
  EveryCallAnswered
  NotFoundIsTrue

\* The calls are bounded: when all are answered nothing is left to do.
CHECK_DEADLOCK FALSE
