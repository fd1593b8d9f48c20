\* Two tasks and a request under fairness, one failure.
CONSTANTS
  t1 = t1
  t2 = t2
  r1 = r1
  root = root
  a = a
  b = b
  ip = ip
  source = source
  note = note
  NoParent = NoParent
  del = del
  Deletion = del
  DomainAsset = {root}
  Ingest <- TasksAndApi
  Retried <- TwoTasks
  Asset <- MCAsset
  MetaKey <- MCMetaKey
  Plans <- TaskPlans
  Requests <- UserLink
  Stored <- MCStored
  Deletes = TRUE
  MaxRetries = 1
  MaxFaults = 1
SPECIFICATION FairSpec
INVARIANTS
  TypeOK
  IngestExact
  LinksNeverConflict
  SomeoneWins
PROPERTIES
  EveryoneEnds
  ImplementsGraphStore
