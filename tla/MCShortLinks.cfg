CONSTANTS
  u1 = u1
  u2 = u2
  n1 = n1
  n2 = n2
  l1 = l1
  l2 = l2
  l3 = l3
  s1 = s1
  s2 = s2
  Users = {u1, u2}
  Names = {n1, n2}
  LinkIds = {l1, l2, l3}
  SiteIds = {s1, s2}
  MaxLinksPerUser = 1
  MaxSitesPerUser = 1
  Absent = Absent
  Requests = {q1}
  MaxBuckets = 2
  MaxVisits = 3
SPECIFICATION Spec
SYMMETRY Alike
INVARIANTS OneMeaning WithinQuota VisitsAccounted ListedIsReal
PROPERTIES NamesPermanent LossExplained
