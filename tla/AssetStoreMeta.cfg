\* A task and the metadata another ingest brings.
CONSTANTS
  t1 = t1
  t2 = t2
  r1 = r1
  root = root
  a = a
  b = b
  ip = ip
  source = source
  note = note
  NoParent = NoParent
  del = del
  Deletion = del
  DomainAsset = {root}
  Ingest <- TasksAndApi
  Retried <- TwoTasks
  Asset <- MCAsset
  MetaKey <- MCMetaKey
  Plans <- Discoveries
  Requests <- UserAsset
  Stored <- MCStored
  Deletes = FALSE
  MaxRetries = 1
  MaxFaults = 0
SPECIFICATION Spec
SYMMETRY Symmetry
INVARIANTS
  MetadataMerged
