\* One record, two clients, two principals, every branch of the push loop.
CONSTANTS
  t1 = t1
  s1 = s1
  s2 = s2
  c1 = c1
  c2 = c2
  r1 = r1
  p = p
  q = q
  NoData = NoData
  Nobody = Nobody
  Tenant <- MCTenant
  Subject <- MCSubject
  ClientId <- MCClientId
  RecordId <- MCRecordId
  Data <- MCData
  Merge <- MCMerge
  Identity <- MCIdentity
  Batch <- MCBatch
  ExternalData <- MCExternalData
  MaxExternal = 2
  MaxCompact = 1

SPECIFICATION Spec

INVARIANTS
  TypeOK
  FeedIsContiguous
  MirrorAgrees
  LedgerMatchesWatermark
  EffectsMatchOutcomes
  AppliedOnItsTerms
  RevisionsFollowFeed

PROPERTIES
  NothingDurableIsLost
  ImplementsAtomicSync
