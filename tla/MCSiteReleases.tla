--------------------------- MODULE MCSiteReleases ---------------------------
EXTENDS SiteReleases, TLC

\* Sites and handlers are alike.
Alike == Permutations(Sites) \cup Permutations(Erasers)
=============================================================================
