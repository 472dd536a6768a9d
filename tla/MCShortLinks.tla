---------------------------- MODULE MCShortLinks ----------------------------
EXTENDS ShortLinks, TLC

\* Owners, names, links and sites are alike.
Alike == Permutations(Users) \cup Permutations(Names) \cup Permutations(LinkIds)
           \cup Permutations(SiteIds)
=============================================================================
