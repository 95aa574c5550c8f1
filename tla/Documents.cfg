SPECIFICATION FairSpec
CONSTANTS
  d1 = d1
  d2 = d2
  q1 = q1
  q2 = q2
  q3 = q3
  f1 = f1
  f2 = f2
  f4 = f4
  f5 = f5
  s1 = s1
  s2 = s2
  Kept = Kept
  Expiring = Expiring
  Upload = Upload
  Delete = Delete
  Update = Update
  Retention = Retention
  NoDoc = NoDoc
  Stored = {d1, d2}
  Requests = {q1, q2, q3}
  Files = {f1, f2, f4, f5}
  Subjects = {s1, s2}
  Types = {Kept, Expiring}
  StoredRow <- OldRows
  Calls <- MixedCalls
  BATCH_SIZE = 2
  RETENTION_DAYS = 1
  Start = 1
  MaxNow = 2
INVARIANTS
  VersionsFormChains
  EveryDocumentHasItsFile
PROPERTY EveryRequestAnswered
