\* Two collections share the namespace's bytes; each may hold two documents, so
\* a clear deletes several.  The clock runs past both retention periods, the
\* log past its entry bound, and creates past every limit.
CONSTANTS
  Collections = {c1, c2}
  Ids = {i1, i2}
  Keys = {k1, k2}
  Sizes = {1, 2}
  MaxDocuments = 2
  MaxDocumentBytes = 2
  MaxNamespaceBytes = 3
  MaxIdempotencyRecords = 1
  IdempotencyRetention = 1
  ChangeRetentionEntries = 2
  ChangeRetentionAge = 1
  Skew = 0
  Absent = Absent
  MaxSequence = 5
  MaxRevision = 3
  MaxClock = 2
SPECIFICATION StoreSpec
SYMMETRY Symmetry
INVARIANTS Resumable WithinLimits RetriesAnswerTheSame ListStable
