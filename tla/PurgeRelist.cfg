CONSTANTS
  c1 = c1
  c2 = c2
  a = a
  Collections = {c1}
  Ids = {i1, i2}
  Keys = {}
  Sizes = {1}
  MaxDocuments = 2
  MaxDocumentBytes = 1
  MaxNamespaceBytes = 4
  MaxIdempotencyRecords = 1
  IdempotencyRetention = 1
  ChangeRetentionEntries = 2
  ChangeRetentionAge = 1
  Skew = 0
  Absent = Absent
  MaxSequence = 4
  MaxRevision = 3
  MaxClock = 0
  Handlers = {h1}
  Clients = {a}
  Interest <- MCInterest
  ListLimit = 1
  QueueSize = 1
  MaxFaults = 2
  MaxPurges = 1
SPECIFICATION FairSpec
PROPERTY Converges
CHECK_DEADLOCK FALSE
