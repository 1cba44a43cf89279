\* An interrupted snapshot replacement leaves mixed records behind.
CONSTANTS
  t1 = t1
  t2 = t2
  s1 = s1
  c1 = c1
  r1 = r1
  r2 = r2
  n1 = n1
  d = d
  NoData = NoData
  Nobody = Nobody
  Tenant <- MCTenant
  Subject <- MCSubject
  ClientId <- MCClientId
  RecordId <- MCRecordId
  Data <- MCData
  Merge <- MCMerge
  Identity <- MCIdentity
  Batch <- MCBatch
  ExternalData <- MCData
  MaxExternal = 2
  MaxCompact = 2
  Reader <- MCReader
  ReaderTenant <- MCReaderTenant
  PageLimit = 1
  MaxSnapshotRecords = 2

SPECIFICATION ReplicaSpec

INVARIANTS
  NoMixedState
