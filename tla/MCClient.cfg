\* Two clients that write and delete one record: retries, duplicates, late and lost responses.
CONSTANTS
  t1 = t1
  s1 = s1
  s2 = s2
  c1 = c1
  c2 = c2
  r1 = r1
  p = p
  NoData = NoData
  Nobody = Nobody
  Tenant <- MCTenant
  Subject <- MCSubject
  ClientId <- MCClientId
  RecordId <- MCRecordId
  Data <- MCData
  Merge <- MCMerge
  Identity <- MCIdentity
  Batch = {}
  ExternalData <- MCData
  MaxExternal = 0
  MaxCompact = 0
  Principal <- MCPrincipal
  Intent <- MCIntent
  MaxQueued <- MCMaxQueued
  PushLimit = 2

SPECIFICATION MCSpec

INVARIANTS
  NoProtocolError
  NoWriteIsLost
  ClientInv

PROPERTIES
  EveryMutationSettles
