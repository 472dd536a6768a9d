CONSTANTS
  s1 = s1
  s2 = s2
  h1 = h1
  h2 = h2
  Sites = {s1, s2}
  Previews = {p1}
  Requests = {q1}
  Erasers = {h1, h2}
  Sizes = {1}
  MaxReleasesPerSite = 2
  MaxStorageBytesPerUser = 2
  MaxChanges = 4
  Absent = Absent
SPECIFICATION Spec
SYMMETRY Alike
INVARIANTS SelectedStored WithinSiteLimits VersionsNew PreviewsEnd ErasedWhenReported
PROPERTIES LiveFromPublic
