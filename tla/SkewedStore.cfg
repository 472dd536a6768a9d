\* A request may carry a clock reading one tick old.
CONSTANTS
  Collections = {c1, c2}
  Ids = {i1, i2}
  Keys = {k1, k2}
  Sizes = {1, 2}
  MaxDocuments = 2
  MaxDocumentBytes = 2
  MaxNamespaceBytes = 3
  MaxIdempotencyRecords = 1
  IdempotencyRetention = 1
  ChangeRetentionEntries = 2
  ChangeRetentionAge = 1
  Skew = 1
  Absent = Absent
  MaxSequence = 5
  MaxRevision = 3
  MaxClock = 2
SPECIFICATION StoreSpec
SYMMETRY Symmetry
INVARIANT Resumable
