--------------------------- MODULE ShortLinksProof ---------------------------
(***************************************************************************)
(* Proofs about PublicNames and ShortLinks, for any owners, names, links,  *)
(* requests, limits and bounds.  First the names: they mean one thing,     *)
(* stay with their owners and within the limits.  Then the links: their    *)
(* steps are steps of PublicNames or leave the names alone, and every      *)
(* visit is accounted for, through failing flushes, shutdowns and crashes. *)
(***************************************************************************)
EXTENDS ShortLinks, FiniteSetTheorems, TLAPS

NamesInv == NamesTypeOK /\ OneMeaning

LEMMA InitNames == NamesInit => NamesInv
  BY DEF NamesInit, NamesInv, NamesTypeOK, OneMeaning, LinkNamed, SiteNamed, NameStands, Live

-----------------------------------------------------------------------------
\* Rows of the tables, field by field.
LEMMA LinkNameRow ==
  ASSUME NEW u \in Users, NEW l \in LinkIds, NEW gone \in BOOLEAN
  PROVE  /\ [owner |-> u, kind |-> "link", resource |-> l, retired |-> gone] \in NameRow
         /\ [owner |-> u, kind |-> "link", resource |-> l, retired |-> gone] # Absent
  <1>1. [owner |-> u, kind |-> "link", resource |-> l, retired |-> gone] \in NameRow
    BY DEF NameRow
  <1> QED BY <1>1, AbsentAssumption

LEMMA SiteNameRow ==
  ASSUME NEW u \in Users, NEW s \in SiteIds
  PROVE  /\ [owner |-> u, kind |-> "site", resource |-> s, retired |-> FALSE] \in NameRow
         /\ [owner |-> u, kind |-> "site", resource |-> s, retired |-> FALSE] # Absent
  <1>1. [owner |-> u, kind |-> "site", resource |-> s, retired |-> FALSE] \in NameRow
    BY DEF NameRow
  <1> QED BY <1>1, AbsentAssumption

LEMMA LinkFields ==
  ASSUME NEW r \in LinkRow
  PROVE  /\ r # Absent /\ r.owner \in Users /\ r.slug \in Names
         /\ r.enabled \in BOOLEAN /\ r.retired \in BOOLEAN
  BY AbsentAssumption DEF LinkRow

\* The name of a live link, and that of a site, in the table of names.
LEMMA NameOfLink ==
  ASSUME NamesInv, NEW l \in LinkIds, Live(l)
  PROVE  /\ links[l].slug \in Names
         /\ names[links[l].slug] # Absent
         /\ names[links[l].slug].kind = "link" /\ names[links[l].slug].resource = l
         /\ names[links[l].slug].retired = FALSE
  <1>1. links[l] \in LinkRow
    BY DEF NamesInv, NamesTypeOK, Live
  <1>2. links[l].owner \in Users /\ links[l].slug \in Names
    BY <1>1, LinkFields
  <1>3. names[links[l].slug] =
          [owner |-> links[l].owner, kind |-> "link", resource |-> l, retired |-> FALSE]
    BY DEF NamesInv, OneMeaning, LinkNamed
  <1>4. names[links[l].slug] # Absent
    BY <1>2, <1>3, LinkNameRow
  <1> QED BY <1>2, <1>3, <1>4

LEMMA NameOfSite ==
  ASSUME NamesInv, NEW s \in SiteIds, sites[s] # Absent
  PROVE  /\ sites[s].name \in Names
         /\ names[sites[s].name] # Absent
         /\ names[sites[s].name].kind = "site" /\ names[sites[s].name].resource = s
         /\ names[sites[s].name].retired = FALSE
  <1>1. sites[s].owner \in Users /\ sites[s].name \in Names
    BY DEF NamesInv, NamesTypeOK, SiteRow
  <1>2. names[sites[s].name] =
          [owner |-> sites[s].owner, kind |-> "site", resource |-> s, retired |-> FALSE]
    BY DEF NamesInv, OneMeaning, SiteNamed
  <1>3. names[sites[s].name] # Absent
    BY <1>1, <1>2, SiteNameRow
  <1> QED BY <1>1, <1>2, <1>3

-----------------------------------------------------------------------------
\* A claim: the name had no row, or it stood for a link of the same owner that
\* has been retired; either way nothing that is live had it.
LEMMA ClaimFree ==
  ASSUME NamesInv, NEW n \in Names, NEW u \in Users, NEW kind, NEW id, NEW confirmed,
         Claim(n, u, kind, id, confirmed)
  PROVE  /\ \A l \in LinkIds : Live(l) => links[l].slug # n
         /\ \A s \in SiteIds : sites[s] # Absent => sites[s].name # n
         /\ names[n] # Absent => names[n].owner = u /\ names[n].kind = "link" /\ names[n].retired
  <1>1. names[n] # Absent => names[n].owner = u /\ names[n].kind = "link" /\ names[n].retired
    BY DEF Claim, Reclaimable
  <1>2. ASSUME NEW l \in LinkIds, Live(l), links[l].slug = n
        PROVE  FALSE
    BY <1>1, <1>2, NameOfLink
  <1>3. ASSUME NEW s \in SiteIds, sites[s] # Absent, sites[s].name = n
        PROVE  FALSE
    BY <1>1, <1>3, NameOfSite
  <1> QED BY <1>1, <1>2, <1>3

LEMMA CreateLinkNames ==
  ASSUME NamesInv, NEW u \in Users, NEW n \in Names, NEW l \in LinkIds, NEW confirmed \in BOOLEAN,
         CreateLink(u, n, l, confirmed)
  PROVE  NamesInv'
  <1> DEFINE row == [owner |-> u, kind |-> "link", resource |-> l, retired |-> FALSE]
             link == [owner |-> u, slug |-> n, enabled |-> TRUE, retired |-> FALSE]
  <1>1. names' = [names EXCEPT ![n] = row] /\ links' = [links EXCEPT ![l] = link] /\ sites' = sites
    BY DEF CreateLink, Claim
  <1>2. row \in NameRow /\ link \in LinkRow
    BY DEF NameRow, LinkRow
  <1>3. NamesTypeOK'
    BY <1>1, <1>2 DEF NamesInv, NamesTypeOK
  <1>4. /\ \A k \in LinkIds : Live(k) => links[k].slug # n
        /\ \A s \in SiteIds : sites[s] # Absent => sites[s].name # n
    BY ClaimFree DEF CreateLink
  <1>5. links[l] = Absent
    BY DEF CreateLink
  <1>6. ASSUME NEW k \in LinkIds PROVE LinkNamed(k)'
    <2>1. CASE k = l
      BY <1>1, <2>1 DEF NamesInv, NamesTypeOK, LinkNamed, Live
    <2>2. CASE k # l
      <3>1. links'[k] = links[k]
        BY <1>1, <2>2 DEF NamesInv, NamesTypeOK
      <3>2. ASSUME Live(k) PROVE names'[links[k].slug] = names[links[k].slug]
        BY <1>1, <1>4, <3>2 DEF NamesInv, NamesTypeOK, LinkRow, Live
      <3> QED BY <3>1, <3>2 DEF NamesInv, OneMeaning, LinkNamed, Live
    <2> QED BY <2>1, <2>2
  <1>7. ASSUME NEW s \in SiteIds PROVE SiteNamed(s)'
    <2>1. ASSUME sites[s] # Absent PROVE names'[sites[s].name] = names[sites[s].name]
      BY <1>1, <1>4, <2>1 DEF NamesInv, NamesTypeOK, SiteRow
    <2> QED BY <1>1, <2>1 DEF NamesInv, OneMeaning, SiteNamed
  <1>8. ASSUME NEW m \in Names PROVE NameStands(m)'
    <2>1. CASE m = n
      <3>1. names'[n] = row /\ links'[l] = link
        BY <1>1 DEF NamesInv, NamesTypeOK
      <3>2. /\ row.kind = "link" /\ row.resource = l /\ row.owner = u /\ row.retired = FALSE
            /\ link # Absent /\ link.slug = n /\ link.owner = u /\ link.retired = FALSE
        BY <1>2, AbsentAssumption
      <3> HIDE DEF row, link
      <3> QED BY <2>1, <3>1, <3>2 DEF NameStands
    <2>2. CASE m # n
      <3>1. names'[m] = names[m]
        BY <1>1, <2>2 DEF NamesInv, NamesTypeOK
      <3>2. NameStands(m)
        BY DEF NamesInv, OneMeaning
      <3>3. CASE names[m] # Absent /\ names[m].kind = "link"
        <4>1. names[m].resource \in LinkIds
          BY <3>3 DEF NamesInv, NamesTypeOK, NameRow
        <4>2. links[names[m].resource] # Absent
          BY <3>2, <3>3 DEF NameStands
        <4>3. links'[names[m].resource] = links[names[m].resource]
          BY <1>1, <1>5, <4>1, <4>2 DEF NamesInv, NamesTypeOK
        <4> QED BY <3>1, <3>2, <3>3, <4>3 DEF NameStands
      <3>4. CASE names[m] = Absent \/ names[m].kind # "link"
        BY <1>1, <3>1, <3>2, <3>4 DEF NameStands
      <3> QED BY <3>3, <3>4
    <2> QED BY <2>1, <2>2
  <1> QED BY <1>3, <1>6, <1>7, <1>8 DEF NamesInv, OneMeaning

LEMMA CreateSiteNames ==
  ASSUME NamesInv, NEW u \in Users, NEW n \in Names, NEW s \in SiteIds, NEW confirmed \in BOOLEAN,
         CreateSite(u, n, s, confirmed)
  PROVE  NamesInv'
  <1> DEFINE row == [owner |-> u, kind |-> "site", resource |-> s, retired |-> FALSE]
             site == [owner |-> u, name |-> n]
  <1>1. names' = [names EXCEPT ![n] = row] /\ sites' = [sites EXCEPT ![s] = site] /\ links' = links
    BY DEF CreateSite, Claim
  <1>2. row \in NameRow /\ site \in SiteRow
    BY DEF NameRow, SiteRow
  <1>3. NamesTypeOK'
    BY <1>1, <1>2 DEF NamesInv, NamesTypeOK
  <1>4. /\ \A k \in LinkIds : Live(k) => links[k].slug # n
        /\ \A t \in SiteIds : sites[t] # Absent => sites[t].name # n
    BY ClaimFree DEF CreateSite
  <1>5. sites[s] = Absent
    BY DEF CreateSite
  <1>6. ASSUME NEW k \in LinkIds PROVE LinkNamed(k)'
    <2>1. ASSUME Live(k) PROVE names'[links[k].slug] = names[links[k].slug]
      BY <1>1, <1>4, <2>1 DEF NamesInv, NamesTypeOK, LinkRow, Live
    <2> QED BY <1>1, <2>1 DEF NamesInv, OneMeaning, LinkNamed, Live
  <1>7. ASSUME NEW t \in SiteIds PROVE SiteNamed(t)'
    <2>1. CASE t = s
      BY <1>1, <2>1 DEF NamesInv, NamesTypeOK, SiteNamed
    <2>2. CASE t # s
      <3>1. sites'[t] = sites[t]
        BY <1>1, <2>2 DEF NamesInv, NamesTypeOK
      <3>2. ASSUME sites[t] # Absent PROVE names'[sites[t].name] = names[sites[t].name]
        BY <1>1, <1>4, <3>2 DEF NamesInv, NamesTypeOK, SiteRow
      <3> QED BY <3>1, <3>2 DEF NamesInv, OneMeaning, SiteNamed
    <2> QED BY <2>1, <2>2
  <1>8. ASSUME NEW m \in Names PROVE NameStands(m)'
    <2>1. CASE m = n
      <3>1. names'[n] = row /\ sites'[s] = site
        BY <1>1 DEF NamesInv, NamesTypeOK
      <3> QED BY <2>1, <3>1 DEF NameStands
    <2>2. CASE m # n
      <3>1. names'[m] = names[m]
        BY <1>1, <2>2 DEF NamesInv, NamesTypeOK
      <3>2. NameStands(m)
        BY DEF NamesInv, OneMeaning
      <3>3. CASE names[m] # Absent /\ names[m].kind = "site"
        <4>1. names[m].resource \in SiteIds /\ names[m].owner \in Users
          BY <3>3 DEF NamesInv, NamesTypeOK, NameRow
        <4>2. sites[names[m].resource] = [owner |-> names[m].owner, name |-> m]
          BY <3>2, <3>3 DEF NameStands
        <4>3. sites[names[m].resource] # Absent
          BY <4>1, <4>2, AbsentAssumption DEF SiteRow
        <4>4. sites'[names[m].resource] = sites[names[m].resource]
          BY <1>1, <1>5, <4>1, <4>3 DEF NamesInv, NamesTypeOK
        <4> QED BY <3>1, <3>3, <4>2, <4>4 DEF NameStands
      <3>4. CASE names[m] = Absent \/ names[m].kind # "site"
        BY <1>1, <3>1, <3>2, <3>4 DEF NameStands
      <3> QED BY <3>3, <3>4
    <2> QED BY <2>1, <2>2
  <1> QED BY <1>3, <1>6, <1>7, <1>8 DEF NamesInv, OneMeaning

LEMMA SetLinkEnabledNames ==
  ASSUME NamesInv, NEW l \in LinkIds, NEW enabled \in BOOLEAN, SetLinkEnabled(l, enabled)
  PROVE  NamesInv'
  <1>1. links' = [links EXCEPT ![l].enabled = enabled] /\ names' = names /\ sites' = sites
    BY DEF SetLinkEnabled
  <1>2. links[l] \in LinkRow /\ ~links[l].retired /\ links[l] # Absent
    BY DEF SetLinkEnabled, Live, NamesInv, NamesTypeOK
  <1>3. /\ links'[l] \in LinkRow /\ links'[l].slug = links[l].slug
        /\ links'[l].owner = links[l].owner /\ links'[l].retired = links[l].retired
    BY <1>1, <1>2 DEF NamesInv, NamesTypeOK, LinkRow
  <1>4. NamesTypeOK'
    BY <1>1, <1>2, <1>3 DEF NamesInv, NamesTypeOK
  <1>5. \A k \in LinkIds : k # l => links'[k] = links[k]
    BY <1>1 DEF NamesInv, NamesTypeOK
  <1>6. links'[l] # Absent
    BY <1>3, AbsentAssumption
  <1>7. ASSUME NEW k \in LinkIds PROVE LinkNamed(k)'
    BY <1>1, <1>2, <1>3, <1>5, <1>6 DEF NamesInv, OneMeaning, LinkNamed, Live
  <1>8. ASSUME NEW t \in SiteIds PROVE SiteNamed(t)'
    BY <1>1 DEF NamesInv, OneMeaning, SiteNamed
  <1>9. ASSUME NEW m \in Names PROVE NameStands(m)'
    <2>1. NameStands(m) /\ names'[m] = names[m]
      BY <1>1 DEF NamesInv, OneMeaning
    <2>2. CASE names[m] # Absent /\ names[m].kind = "link"
      <3>1. names[m].resource \in LinkIds
        BY <2>2 DEF NamesInv, NamesTypeOK, NameRow
      <3> QED BY <2>1, <2>2, <3>1, <1>3, <1>5, <1>6 DEF NameStands
    <2>3. CASE names[m] = Absent \/ names[m].kind # "link"
      BY <1>1, <2>1, <2>3 DEF NameStands
    <2> QED BY <2>2, <2>3
  <1> QED BY <1>4, <1>7, <1>8, <1>9 DEF NamesInv, OneMeaning

LEMMA RetireLinkNames ==
  ASSUME NamesInv, NEW l \in LinkIds, RetireLink(l)
  PROVE  NamesInv'
  <1>1. PICK n \in Names :
          /\ names[n] # Absent
          /\ names[n].kind = "link" /\ names[n].resource = l /\ ~names[n].retired
          /\ names' = [names EXCEPT ![n].retired = TRUE]
    BY DEF RetireLink
  <1>2. /\ links' = [links EXCEPT ![l].enabled = FALSE, ![l].retired = TRUE]
        /\ sites' = sites /\ Live(l)
    BY DEF RetireLink
  <1>3. links[l] \in LinkRow /\ links[l] # Absent /\ links[l].slug = n /\ links[l].owner = names[n].owner
    <2>1. NameStands(n)
      BY DEF NamesInv, OneMeaning
    <2>2. links[l].slug = n /\ links[l].owner = names[n].owner
      BY <1>1, <2>1 DEF NameStands
    <2> QED BY <1>2, <2>2 DEF NamesInv, NamesTypeOK, Live
  <1>4. names[n] \in NameRow
    BY <1>1 DEF NamesInv, NamesTypeOK
  <1>5. /\ links'[l] \in LinkRow /\ links'[l].slug = n /\ links'[l].owner = names[n].owner
        /\ links'[l].retired = TRUE /\ links'[l].enabled = FALSE
    BY <1>2, <1>3 DEF NamesInv, NamesTypeOK, LinkRow
  <1>6. names'[n] = [owner |-> names[n].owner, kind |-> "link", resource |-> l, retired |-> TRUE]
    BY <1>1, <1>4 DEF NamesInv, NamesTypeOK, NameRow
  <1>7. /\ names'[n] \in NameRow /\ names'[n].owner = names[n].owner
        /\ names'[n].kind = "link" /\ names'[n].resource = l /\ names'[n].retired = TRUE
    <2>1. names[n].owner \in Users
      BY <1>4 DEF NameRow
    <2>2. names'[n] \in NameRow
      BY <1>6, <2>1, LinkNameRow
    <2> QED BY <1>6, <2>2
  <1>8. /\ \A k \in LinkIds : k # l => links'[k] = links[k]
        /\ \A m \in Names : m # n => names'[m] = names[m]
    BY <1>1, <1>2 DEF NamesInv, NamesTypeOK
  <1>9. links' \in [LinkIds -> LinkRow \cup {Absent}] /\ names' \in [Names -> NameRow \cup {Absent}]
    BY <1>1, <1>2, <1>5, <1>7 DEF NamesInv, NamesTypeOK
  <1>10. NamesTypeOK'
    BY <1>2, <1>5, <1>8, <1>9 DEF NamesInv, NamesTypeOK
  <1>11. ASSUME NEW k \in LinkIds PROVE LinkNamed(k)'
    <2>1. CASE k = l
      BY <2>1, <1>5 DEF LinkNamed, Live
    <2>2. CASE k # l
      <3>1. ASSUME Live(k) PROVE links[k].slug # n
        BY <1>1, <2>2, <3>1, NameOfLink
      <3> QED BY <1>8, <2>2, <3>1 DEF NamesInv, NamesTypeOK, OneMeaning, LinkNamed, Live, LinkRow
    <2> QED BY <2>1, <2>2
  <1>12. ASSUME NEW t \in SiteIds PROVE SiteNamed(t)'
    <2>1. ASSUME sites[t] # Absent PROVE sites[t].name # n /\ sites[t].name \in Names
      BY <1>1, <2>1, NameOfSite
    <2> QED BY <1>2, <1>8, <2>1 DEF NamesInv, OneMeaning, SiteNamed
  <1>13. ASSUME NEW m \in Names PROVE NameStands(m)'
    <2>1. CASE m = n
      <3>1. links'[l] # Absent
        BY <1>5, AbsentAssumption
      <3> QED BY <2>1, <3>1, <1>5, <1>7 DEF NameStands
    <2>2. CASE m # n
      <3>1. names'[m] = names[m] /\ NameStands(m)
        BY <1>8, <2>2 DEF NamesInv, OneMeaning
      <3>2. CASE names[m] # Absent /\ names[m].kind = "link"
        <4>1. names[m].resource \in LinkIds
          BY <3>2 DEF NamesInv, NamesTypeOK, NameRow
        <4>2. names[m].resource # l
          BY <3>1, <3>2, <1>3, <2>2 DEF NameStands
        <4> QED BY <3>1, <3>2, <4>1, <4>2, <1>8 DEF NameStands
      <3>3. CASE names[m] = Absent \/ names[m].kind # "link"
        BY <1>2, <3>1, <3>3 DEF NameStands
      <3> QED BY <3>2, <3>3
    <2> QED BY <2>1, <2>2
  <1> QED BY <1>10, <1>11, <1>12, <1>13 DEF NamesInv, OneMeaning

LEMMA NextNames == NamesInv /\ [NamesNext]_nameVars => NamesInv'
  <1> SUFFICES ASSUME NamesInv, [NamesNext]_nameVars PROVE NamesInv'
    OBVIOUS
  <1>1. ASSUME NEW u \in Users, NEW n \in Names, NEW confirmed \in BOOLEAN,
               NEW l \in LinkIds, CreateLink(u, n, l, confirmed)
        PROVE  NamesInv'
    BY <1>1, CreateLinkNames
  <1>2. ASSUME NEW u \in Users, NEW n \in Names, NEW confirmed \in BOOLEAN,
               NEW s \in SiteIds, CreateSite(u, n, s, confirmed)
        PROVE  NamesInv'
    BY <1>2, CreateSiteNames
  <1>3. ASSUME NEW l \in LinkIds, NEW enabled \in BOOLEAN, SetLinkEnabled(l, enabled)
        PROVE  NamesInv'
    BY <1>3, SetLinkEnabledNames
  <1>4. ASSUME NEW l \in LinkIds, RetireLink(l)
        PROVE  NamesInv'
    BY <1>4, RetireLinkNames
  <1>5. CASE UNCHANGED nameVars
    BY <1>5 DEF nameVars, NamesInv, NamesTypeOK, OneMeaning, LinkNamed, SiteNamed, NameStands, Live
  <1> QED BY <1>1, <1>2, <1>3, <1>4, <1>5 DEF NamesNext

\* A name stands for one live thing, of its owner, at every time.
THEOREM NamesMeanOne == NamesSpec => []OneMeaning
  <1>1. NamesInv => OneMeaning
    BY DEF NamesInv
  <1> QED BY <1>1, InitNames, NextNames, PTL DEF NamesSpec

-----------------------------------------------------------------------------
\* A step changes the row of a name by a claim, or by the retirement of its link.
LEMMA StepKeepsNames ==
  ASSUME NamesInv, [NamesNext]_nameVars, NEW m \in Names
  PROVE  NameKept(m)
  <1> SUFFICES ASSUME names[m] # Absent PROVE NameKept(m)
    BY DEF NameKept
  <1>1. names[m] \in NameRow
    BY DEF NamesInv, NamesTypeOK
  <1>2. ASSUME NEW u \in Users, NEW n \in Names, NEW confirmed \in BOOLEAN, NEW kind, NEW id,
               Claim(n, u, kind, id, confirmed), names' # names,
               [owner |-> u, kind |-> kind, resource |-> id, retired |-> FALSE] # Absent
        PROVE  NameKept(m)
    <2>1. names' = [names EXCEPT ![n] =
                      [owner |-> u, kind |-> kind, resource |-> id, retired |-> FALSE]]
      BY <1>2 DEF Claim
    <2>2. CASE m = n
      <3>1. names[n].owner = u /\ names[n].kind = "link" /\ names[n].retired
        BY <1>2, <2>2, ClaimFree
      <3>2. names'[n] = [owner |-> u, kind |-> kind, resource |-> id, retired |-> FALSE]
        BY <2>1 DEF NamesInv, NamesTypeOK
      <3> QED BY <1>2, <2>2, <3>1, <3>2 DEF NameKept
    <2>3. CASE m # n
      BY <2>1, <2>3 DEF NameKept, NamesInv, NamesTypeOK
    <2> QED BY <2>2, <2>3
  <1>3. ASSUME NEW u \in Users, NEW n \in Names, NEW confirmed \in BOOLEAN,
               NEW l \in LinkIds, CreateLink(u, n, l, confirmed)
        PROVE  NameKept(m)
    <2>1. Claim(n, u, "link", l, confirmed)
      BY <1>3 DEF CreateLink
    <2>2. [owner |-> u, kind |-> "link", resource |-> l, retired |-> FALSE] # Absent
      BY LinkNameRow
    <2>3. CASE names' = names
      BY <2>3 DEF NameKept
    <2> QED BY <1>2, <2>1, <2>2, <2>3
  <1>4. ASSUME NEW u \in Users, NEW n \in Names, NEW confirmed \in BOOLEAN,
               NEW s \in SiteIds, CreateSite(u, n, s, confirmed)
        PROVE  NameKept(m)
    <2>1. Claim(n, u, "site", s, confirmed)
      BY <1>4 DEF CreateSite
    <2>2. [owner |-> u, kind |-> "site", resource |-> s, retired |-> FALSE] # Absent
      BY SiteNameRow
    <2>3. CASE names' = names
      BY <2>3 DEF NameKept
    <2> QED BY <1>2, <2>1, <2>2, <2>3
  <1>5. ASSUME NEW l \in LinkIds, RetireLink(l)
        PROVE  NameKept(m)
    <2>1. PICK n \in Names :
            /\ names[n] # Absent /\ names[n].kind = "link" /\ names[n].resource = l
            /\ names' = [names EXCEPT ![n].retired = TRUE]
      BY <1>5 DEF RetireLink
    <2>2. CASE m = n
      <3>1. names'[n] = [owner |-> names[n].owner, kind |-> "link", resource |-> l, retired |-> TRUE]
        BY <1>1, <2>1, <2>2 DEF NamesInv, NamesTypeOK, NameRow
      <3>2. names[n].owner \in Users
        BY <1>1, <2>2 DEF NameRow
      <3>3. names'[n] # Absent
        BY <3>1, <3>2, LinkNameRow
      <3> QED BY <2>1, <2>2, <3>1, <3>3 DEF NameKept
    <2>3. CASE m # n
      BY <2>1, <2>3 DEF NameKept, NamesInv, NamesTypeOK
    <2> QED BY <2>2, <2>3
  <1>6. ASSUME names' = names
        PROVE  NameKept(m)
    BY <1>6 DEF NameKept
  <1> QED BY <1>3, <1>4, <1>5, <1>6 DEF NamesNext, SetLinkEnabled, nameVars

\* A name stays with its owner for ever, and is given to something else only
\* after the link it stood for has been retired.
THEOREM NamesStay == NamesSpec => NamesPermanent
  <1>1. NamesInv /\ [NamesNext]_nameVars => [\A n \in Names : NameKept(n)]_nameVars
    BY StepKeepsNames
  <1> QED BY <1>1, InitNames, NextNames, PTL DEF NamesSpec, NamesPermanent

-----------------------------------------------------------------------------
\* The quotas.  A step adds to the names of at most one user, and asks then.
LEMMA SmallerTable ==
  ASSUME NEW t1, NEW t2, NEW u \in Users,
         NamesOfLinks(t2, u) \subseteq NamesOfLinks(t1, u),
         Cardinality(NamesOfLinks(t1, u)) <= MaxLinksPerUser
  PROVE  Cardinality(NamesOfLinks(t2, u)) <= MaxLinksPerUser
  <1>1. IsFiniteSet(NamesOfLinks(t1, u))
    BY NamesAssumption, FS_Subset DEF NamesOfLinks
  <1>2. IsFiniteSet(NamesOfLinks(t2, u))
    BY <1>1, FS_Subset
  <1>3. Cardinality(NamesOfLinks(t1, u)) \in Nat /\ Cardinality(NamesOfLinks(t2, u)) \in Nat
    BY <1>1, <1>2, FS_CardinalityType
  <1>4. Cardinality(NamesOfLinks(t2, u)) <= Cardinality(NamesOfLinks(t1, u))
    BY <1>1, FS_Subset
  <1> QED BY <1>3, <1>4, NamesAssumption

LEMMA CreateLinkQuota ==
  ASSUME NamesInv, WithinQuota, NEW u \in Users, NEW n \in Names, NEW l \in LinkIds,
         NEW confirmed \in BOOLEAN, CreateLink(u, n, l, confirmed)
  PROVE  WithinQuota'
  <1>1. /\ names' = [names EXCEPT ![n] =
                       [owner |-> u, kind |-> "link", resource |-> l, retired |-> FALSE]]
        /\ sites' = sites
    BY DEF CreateLink, Claim
  <1>2. \A m \in Names : m # n => names'[m] = names[m]
    BY <1>1 DEF NamesInv, NamesTypeOK
  <1>3. names'[n] = [owner |-> u, kind |-> "link", resource |-> l, retired |-> FALSE]
    BY <1>1 DEF NamesInv, NamesTypeOK
  <1>4. ASSUME NEW v \in Users
        PROVE  Cardinality(NamesOfLinks(names', v)) <= MaxLinksPerUser
    <2>1. CASE v = u /\ names[n] = Absent
      BY <2>1 DEF CreateLink
    <2>2. CASE v # u \/ names[n] # Absent
      <3>1. names[n] # Absent => names[n].owner = u /\ names[n].kind = "link"
        BY ClaimFree DEF CreateLink
      <3>2. NamesOfLinks(names', v) \subseteq NamesOfLinks(names, v)
        BY <1>2, <1>3, <2>2, <3>1 DEF NamesOfLinks
      <3> QED BY <3>2, SmallerTable DEF WithinQuota
    <2> QED BY <2>1, <2>2
  <1> QED BY <1>1, <1>4 DEF WithinQuota, SitesOf

LEMMA CreateSiteQuota ==
  ASSUME NamesInv, WithinQuota, NEW u \in Users, NEW n \in Names, NEW s \in SiteIds,
         NEW confirmed \in BOOLEAN, CreateSite(u, n, s, confirmed)
  PROVE  WithinQuota'
  <1>1. /\ names' = [names EXCEPT ![n] =
                       [owner |-> u, kind |-> "site", resource |-> s, retired |-> FALSE]]
        /\ sites' = [sites EXCEPT ![s] = [owner |-> u, name |-> n]]
    BY DEF CreateSite, Claim
  <1>2. ASSUME NEW v \in Users
        PROVE  Cardinality(NamesOfLinks(names', v)) <= MaxLinksPerUser
    <2>1. NamesOfLinks(names', v) \subseteq NamesOfLinks(names, v)
      BY <1>1 DEF NamesOfLinks, NamesInv, NamesTypeOK
    <2> QED BY <2>1, SmallerTable DEF WithinQuota
  <1>3. ASSUME NEW v \in Users
        PROVE  Cardinality(SitesOf(sites', v)) <= MaxSitesPerUser
    <2>1. IsFiniteSet(SitesOf(sites, v)) /\ IsFiniteSet(SitesOf(sites', v))
      BY NamesAssumption, FS_Subset DEF SitesOf
    <2>2. Cardinality(SitesOf(sites, v)) \in Nat /\ Cardinality(SitesOf(sites', v)) \in Nat
      BY <2>1, FS_CardinalityType
    <2>3. CASE v = u
      <3>1. SitesOf(sites', u) \subseteq SitesOf(sites, u) \cup {s}
        BY <1>1 DEF SitesOf, NamesInv, NamesTypeOK
      <3>2. /\ IsFiniteSet(SitesOf(sites, u) \cup {s})
            /\ Cardinality(SitesOf(sites, u) \cup {s}) \in
                 {Cardinality(SitesOf(sites, u)), Cardinality(SitesOf(sites, u)) + 1}
        BY <2>1, <2>3, FS_AddElement
      <3>3. Cardinality(SitesOf(sites', u)) <= Cardinality(SitesOf(sites, u) \cup {s})
        BY <3>1, <3>2, FS_Subset
      <3>4. Cardinality(SitesOf(sites, u)) < MaxSitesPerUser
        BY DEF CreateSite
      <3> QED BY <2>2, <2>3, <3>2, <3>3, <3>4, NamesAssumption
    <2>4. CASE v # u
      <3>1. SitesOf(sites', v) \subseteq SitesOf(sites, v)
        BY <1>1, <2>4 DEF SitesOf, NamesInv, NamesTypeOK
      <3>2. Cardinality(SitesOf(sites', v)) <= Cardinality(SitesOf(sites, v))
        BY <2>1, <3>1, FS_Subset
      <3> QED BY <2>2, <3>2, NamesAssumption DEF WithinQuota
    <2> QED BY <2>3, <2>4
  <1> QED BY <1>2, <1>3 DEF WithinQuota

LEMMA NextQuota == NamesInv /\ WithinQuota /\ [NamesNext]_nameVars => WithinQuota'
  <1> SUFFICES ASSUME NamesInv, WithinQuota, [NamesNext]_nameVars PROVE WithinQuota'
    OBVIOUS
  <1>1. ASSUME NEW l \in LinkIds, RetireLink(l)
        PROVE  WithinQuota'
    <2>1. PICK n \in Names :
            /\ names[n] # Absent /\ names[n].kind = "link"
            /\ names' = [names EXCEPT ![n].retired = TRUE]
      BY <1>1 DEF RetireLink
    <2>2. names[n] \in NameRow /\ names[n] = [owner |-> names[n].owner, kind |-> "link",
            resource |-> names[n].resource, retired |-> names[n].retired]
      BY <2>1 DEF NamesInv, NamesTypeOK, NameRow
    <2>3. /\ names'[n].owner = names[n].owner /\ names'[n].kind = "link"
          /\ \A m \in Names : m # n => names'[m] = names[m]
      BY <2>1, <2>2 DEF NamesInv, NamesTypeOK
    <2>4. \A v \in Users : NamesOfLinks(names', v) \subseteq NamesOfLinks(names, v)
      BY <2>1, <2>3 DEF NamesOfLinks
    <2>5. \A v \in Users : Cardinality(NamesOfLinks(names', v)) <= MaxLinksPerUser
      BY <2>4, SmallerTable DEF WithinQuota
    <2> QED BY <1>1, <2>5 DEF WithinQuota, RetireLink, SitesOf
  <1>2. ASSUME names' = names, sites' = sites
        PROVE  WithinQuota'
    BY <1>2 DEF WithinQuota
  <1> QED BY <1>1, <1>2, CreateLinkQuota, CreateSiteQuota
          DEF NamesNext, SetLinkEnabled, nameVars

LEMMA InitQuota == NamesInit => WithinQuota
  <1> SUFFICES ASSUME NamesInit, NEW u \in Users
      PROVE  /\ Cardinality(NamesOfLinks(names, u)) <= MaxLinksPerUser
             /\ Cardinality(SitesOf(sites, u)) <= MaxSitesPerUser
    BY DEF WithinQuota
  <1>1. NamesOfLinks(names, u) = {} /\ SitesOf(sites, u) = {}
    BY DEF NamesInit, NamesOfLinks, SitesOf
  <1> QED BY <1>1, FS_EmptySet, NamesAssumption

\* No owner ever has more names of links, or more sites, than the limits.
THEOREM QuotaHolds == NamesSpec => []WithinQuota
  BY InitNames, NextNames, InitQuota, NextQuota, PTL DEF NamesSpec

-----------------------------------------------------------------------------
\* The types of LinksTypeOK that are about visits.
VisitsTyped ==
  /\ stats \in [LinkIds -> Nat] /\ pending \in [LinkIds -> Nat] /\ drained \in [LinkIds -> Nat]
  /\ visited \in [LinkIds -> Nat] /\ dropped \in [LinkIds -> Nat]
  /\ flushing \in BOOLEAN /\ phase \in Phases
  /\ request \in [Requests -> LinkIds \cup {Absent}]
  /\ list \in [link : LinkIds, total : Nat, answered : BOOLEAN] \cup {Absent}

\* The end of the process: no request once the last flush is due, and nothing in
\* memory once it has succeeded.
EndOrdered ==
  /\ ~flushing => drained = None
  /\ phase \in {"flushed", "failed", "exited", "crashed"} => ~flushing
  /\ phase \in {"last", "flushed", "failed"} => \A q \in Requests : request[q] = Absent
  /\ phase = "flushed" => pending = None

\* Before a flush that runs can end the process, nothing is left to be counted.
LastEmpty == phase = "last" /\ flushing => pending = None

\* A list in progress has read no more than is stored.
ListBounded ==
  list # Absent =>
    IF list.answered THEN list.total <= visited[list.link] ELSE list.total <= stats[list.link]

VisitInv == VisitsTyped /\ EndOrdered /\ LastEmpty /\ VisitsAccounted /\ ListBounded

LEMMA NoVisits == None \in [LinkIds -> Nat] /\ \A l \in LinkIds : None[l] = 0
  BY DEF None

LEMMA InitVisits == Init => VisitInv
  <1> SUFFICES ASSUME Init PROVE VisitInv
    OBVIOUS
  <1>1. VisitsTyped
    BY NoVisits DEF Init, VisitsTyped, Phases
  <1>2. EndOrdered /\ LastEmpty
    BY DEF Init, EndOrdered, LastEmpty
  <1>3. VisitsAccounted
    BY NoVisits DEF Init, VisitsAccounted
  <1>4. ListBounded
    BY DEF Init, ListBounded
  <1> QED BY <1>1, <1>2, <1>3, <1>4 DEF VisitInv

-----------------------------------------------------------------------------
\* Each step keeps VisitInv.

LEMMA ResolveVisits == ASSUME VisitInv, NEW q \in Requests, Resolve(q) PROVE VisitInv'
  <1>1. VisitsTyped'
    BY DEF VisitInv, VisitsTyped, Resolve, counter
  <1>2. EndOrdered' /\ LastEmpty'
    BY DEF VisitInv, EndOrdered, LastEmpty, Resolve, counter
  <1>3. VisitsAccounted' /\ ListBounded'
    BY DEF VisitInv, VisitsAccounted, ListBounded, Resolve, counter
  <1> QED BY <1>1, <1>2, <1>3 DEF VisitInv

LEMMA RecordVisits == ASSUME VisitInv, NEW q \in Requests, Record(q) PROVE VisitInv'
  <1> DEFINE l == request[q]
  <1>1. l \in LinkIds
    BY DEF Record, VisitInv, VisitsTyped
  <1>2. /\ visited' = [visited EXCEPT ![l] = @ + 1]
        /\ request' = [request EXCEPT ![q] = Absent]
        /\ UNCHANGED <<stats, drained, flushing, phase, list>>
        /\ \/ pending' = [pending EXCEPT ![l] = @ + 1] /\ dropped' = dropped
           \/ dropped' = [dropped EXCEPT ![l] = @ + 1] /\ pending' = pending
    BY DEF Record
  <1>3. phase \notin {"last", "flushed", "failed", "exited", "crashed"}
    BY DEF Record, Running, VisitInv, EndOrdered
  <1> HIDE DEF l
  <1>4. VisitsTyped'
    BY <1>1, <1>2 DEF VisitInv, VisitsTyped
  <1>5. EndOrdered' /\ LastEmpty'
    BY <1>2, <1>3 DEF VisitInv, EndOrdered, LastEmpty
  <1>6. VisitsAccounted'
    BY <1>1, <1>2 DEF VisitInv, VisitsTyped, VisitsAccounted
  <1>7. ListBounded'
    BY <1>1, <1>2 DEF VisitInv, VisitsTyped, ListBounded
  <1> QED BY <1>4, <1>5, <1>6, <1>7 DEF VisitInv

LEMMA DrainVisits == ASSUME VisitInv, Drain PROVE VisitInv'
  <1>1. VisitsTyped'
    BY NoVisits DEF VisitInv, VisitsTyped, Drain
  <1>2. EndOrdered' /\ LastEmpty'
    BY DEF VisitInv, EndOrdered, LastEmpty, Drain
  <1>3. VisitsAccounted'
    BY NoVisits DEF VisitInv, VisitsTyped, EndOrdered, VisitsAccounted, Drain
  <1>4. ListBounded'
    BY DEF VisitInv, ListBounded, Drain
  <1> QED BY <1>1, <1>2, <1>3, <1>4 DEF VisitInv

LEMMA FlushDoneVisits == ASSUME VisitInv, FlushDone PROVE VisitInv'
  <1>1. \A l \in LinkIds : stats'[l] = stats[l] + drained[l]
    BY DEF FlushDone, Plus
  <1>2. VisitsTyped'
    <2>1. stats' \in [LinkIds -> Nat]
      BY DEF VisitInv, VisitsTyped, FlushDone, Plus
    <2>2. phase' \in Phases
      BY DEF VisitInv, VisitsTyped, FlushDone, Phases
    <2>3. /\ drained' = None /\ flushing' = FALSE
          /\ UNCHANGED <<pending, request, list, visited, dropped>>
      BY DEF FlushDone
    <2> QED BY <2>1, <2>2, <2>3, NoVisits DEF VisitInv, VisitsTyped
  <1>3. EndOrdered' /\ LastEmpty'
    <2>1. flushing /\ phase \notin {"flushed", "failed", "exited", "crashed"}
      BY DEF VisitInv, EndOrdered, FlushDone
    <2>2. drained' = None /\ flushing' = FALSE /\ request' = request
      BY DEF FlushDone
    <2>3. CASE phase = "last"
      BY <2>1, <2>2, <2>3 DEF VisitInv, EndOrdered, LastEmpty, FlushDone
    <2>4. CASE phase # "last"
      BY <2>1, <2>2, <2>4 DEF VisitInv, EndOrdered, LastEmpty, FlushDone
    <2> QED BY <2>3, <2>4
  <1>4. VisitsAccounted'
    BY <1>1, NoVisits DEF VisitInv, VisitsTyped, VisitsAccounted, FlushDone
  <1>5. ListBounded'
    <2>1. \A l \in LinkIds : stats[l] <= stats'[l]
      BY <1>1 DEF VisitInv, VisitsTyped
    <2>2. list # Absent => list.link \in LinkIds /\ list.total \in Nat
      BY DEF VisitInv, VisitsTyped
    <2> QED BY <1>2, <2>1, <2>2 DEF VisitInv, VisitsTyped, ListBounded, FlushDone
  <1> QED BY <1>2, <1>3, <1>4, <1>5 DEF VisitInv

LEMMA FlushFailedVisits == ASSUME VisitInv, FlushFailed PROVE VisitInv'
  <1>1. PICK kept \in SUBSET LinkIds :
          /\ pending' = Restored(kept)
          /\ dropped' = [l \in LinkIds |-> dropped[l] + (IF l \in kept THEN 0 ELSE drained[l])]
    BY DEF FlushFailed
  <1>2. VisitsTyped'
    <2>1. pending' \in [LinkIds -> Nat] /\ dropped' \in [LinkIds -> Nat]
      BY <1>1 DEF VisitInv, VisitsTyped, Restored
    <2>2. phase' \in Phases
      BY DEF VisitInv, VisitsTyped, FlushFailed, Phases
    <2>3. /\ drained' = None /\ flushing' = FALSE
          /\ UNCHANGED <<stats, request, list, visited>>
      BY DEF FlushFailed
    <2> QED BY <2>1, <2>2, <2>3, NoVisits DEF VisitInv, VisitsTyped
  <1>3. EndOrdered' /\ LastEmpty'
    <2>1. flushing /\ phase \notin {"flushed", "failed", "exited", "crashed"}
      BY DEF VisitInv, EndOrdered, FlushFailed
    <2>2. drained' = None /\ flushing' = FALSE /\ request' = request
      BY DEF FlushFailed
    <2>3. CASE phase = "last"
      BY <2>1, <2>2, <2>3 DEF VisitInv, EndOrdered, LastEmpty, FlushFailed
    <2>4. CASE phase # "last"
      BY <2>1, <2>2, <2>4 DEF VisitInv, EndOrdered, LastEmpty, FlushFailed
    <2> QED BY <2>3, <2>4
  <1>4. VisitsAccounted'
    BY <1>1, NoVisits DEF VisitInv, VisitsTyped, VisitsAccounted, FlushFailed, Restored
  <1>5. ListBounded'
    BY DEF VisitInv, ListBounded, FlushFailed
  <1> QED BY <1>2, <1>3, <1>4, <1>5 DEF VisitInv

LEMMA ListVisits ==
  ASSUME VisitInv, ListPending \/ \E l \in LinkIds : ListTotals(l)
  PROVE  VisitInv'
  <1>1. UNCHANGED <<stats, pending, drained, flushing, phase, request, visited, dropped>>
    BY DEF ListPending, ListTotals, counter
  <1>2. EndOrdered' /\ LastEmpty' /\ VisitsAccounted'
    BY <1>1 DEF VisitInv, EndOrdered, LastEmpty, VisitsAccounted
  <1>3. CASE \E l \in LinkIds : ListTotals(l)
    <2>1. PICK l \in LinkIds : list' = [link |-> l, total |-> stats[l], answered |-> FALSE]
      BY <1>3 DEF ListTotals
    <2>2. VisitsTyped'
      BY <1>1, <2>1 DEF VisitInv, VisitsTyped
    <2>3. ListBounded'
      BY <1>1, <2>1 DEF VisitInv, VisitsTyped, ListBounded
    <2> QED BY <1>2, <2>2, <2>3 DEF VisitInv
  <1>4. CASE ListPending
    <2>1. /\ list.link \in LinkIds /\ list.total \in Nat /\ ~list.answered
          /\ list' = [link |-> list.link, total |-> list.total + pending[list.link],
                      answered |-> TRUE]
      BY <1>4 DEF ListPending, VisitInv, VisitsTyped
    <2>2. list.total <= stats[list.link]
      BY <1>4, <2>1 DEF ListPending, VisitInv, ListBounded
    <2>3. list.total + pending[list.link] <= visited[list.link]
      BY <2>1, <2>2 DEF VisitInv, VisitsTyped, VisitsAccounted
    <2>4. VisitsTyped'
      BY <1>1, <2>1 DEF VisitInv, VisitsTyped
    <2>5. ListBounded'
      BY <1>1, <2>1, <2>3 DEF ListBounded
    <2> QED BY <1>2, <2>4, <2>5 DEF VisitInv
  <1> QED BY <1>3, <1>4

LEMMA ProcessVisits ==
  ASSUME VisitInv, Shutdown \/ StopFlusher \/ Start
  PROVE  VisitInv'
  <1>1. UNCHANGED <<stats, pending, drained, flushing, request, list, visited, dropped>>
    BY DEF Shutdown, StopFlusher, Start, counter
  <1>2. VisitsTyped'
    BY <1>1 DEF VisitInv, VisitsTyped, Shutdown, StopFlusher, Start, Phases
  <1>3. EndOrdered' /\ LastEmpty'
    BY <1>1 DEF VisitInv, EndOrdered, LastEmpty, Shutdown, StopFlusher, Start
  <1>4. VisitsAccounted' /\ ListBounded'
    BY <1>1 DEF VisitInv, VisitsAccounted, ListBounded
  <1> QED BY <1>2, <1>3, <1>4 DEF VisitInv

LEMMA ForgetVisits ==
  ASSUME VisitInv, Exit \/ Crash
  PROVE  VisitInv'
  <1>1. Forget /\ phase' \in {"exited", "crashed"}
    BY DEF Exit, Crash
  <1>2. \A l \in LinkIds : dropped'[l] = dropped[l] + (pending[l] + drained[l])
    BY <1>1 DEF Forget, Plus
  <1>3. VisitsTyped'
    <2>1. dropped' \in [LinkIds -> Nat]
      BY <1>1 DEF VisitInv, VisitsTyped, Forget, Plus
    <2>2. /\ phase' \in Phases /\ request' \in [Requests -> LinkIds \cup {Absent}]
          /\ pending' = None /\ drained' = None /\ flushing' = FALSE /\ list' = Absent
          /\ UNCHANGED <<stats, visited>>
      BY <1>1 DEF Forget, Phases
    <2> QED BY <2>1, <2>2, NoVisits DEF VisitInv, VisitsTyped
  <1>4. EndOrdered' /\ LastEmpty'
    BY <1>1 DEF EndOrdered, LastEmpty, Forget
  <1>5. VisitsAccounted'
    BY <1>1, <1>2, NoVisits DEF VisitInv, VisitsTyped, VisitsAccounted, Forget
  <1>6. ListBounded'
    BY <1>1 DEF ListBounded, Forget
  <1> QED BY <1>3, <1>4, <1>5, <1>6 DEF VisitInv

LEMMA NextVisits == VisitInv /\ [Next]_vars => VisitInv'
  <1> SUFFICES ASSUME VisitInv, [Next]_vars PROVE VisitInv'
    OBVIOUS
  <1>1. CASE UNCHANGED visitVars
    BY <1>1 DEF visitVars, counter, VisitInv, VisitsTyped, EndOrdered, LastEmpty, VisitsAccounted,
                ListBounded
  <1>2. Manage => UNCHANGED visitVars
    BY DEF Manage
  <1>3. UNCHANGED vars => UNCHANGED visitVars
    BY DEF vars
  <1> QED
    BY <1>1, <1>2, <1>3, ResolveVisits, RecordVisits, DrainVisits, FlushDoneVisits,
       FlushFailedVisits, ListVisits, ProcessVisits, ForgetVisits DEF Next

LEMMA VisitsHold == Spec => []VisitInv
  BY InitVisits, NextVisits, PTL DEF Spec

-----------------------------------------------------------------------------
\* Every visit that was counted is stored, in memory, being written or dropped,
\* in exactly one of these places.
THEOREM VisitsAreAccounted == Spec => []VisitsAccounted
  <1>1. VisitInv => VisitsAccounted
    BY DEF VisitInv
  <1> QED BY <1>1, VisitsHold, PTL

\* A list shows no visit that did not happen, whatever is flushed between its reads.
THEOREM ListsAreReal == Spec => []ListedIsReal
  <1>1. VisitInv => ListedIsReal
    BY DEF VisitInv, ListBounded, ListedIsReal
  <1> QED BY <1>1, VisitsHold, PTL

-----------------------------------------------------------------------------
\* A step drops visits in four ways.  A failed flush drops some only when the
\* others fill the counter; an exit after a flush that succeeded drops none.

LEMMA DropAtRecord ==
  ASSUME VisitInv, NEW q \in Requests, Record(q), NEW l \in LinkIds, dropped'[l] > dropped[l]
  PROVE  Cardinality(Buckets(pending')) >= MaxBuckets
  <1>1. request[q] \in LinkIds
    BY DEF Record, VisitInv, VisitsTyped
  <1>2. dropped' # dropped
    BY DEF VisitInv, VisitsTyped
  <1>3. ~HasRoom(request[q]) /\ pending' = pending
    BY <1>2 DEF Record
  <1>4. Cardinality(Buckets(pending)) \in Nat
    BY VisitsAssumption, FS_Subset, FS_CardinalityType DEF Buckets
  <1> QED BY <1>3, <1>4, VisitsAssumption DEF HasRoom

LEMMA DropAtFlush ==
  ASSUME VisitInv, FlushFailed, NEW l \in LinkIds, dropped'[l] > dropped[l]
  PROVE  Cardinality(Buckets(pending')) >= MaxBuckets
  <1>1. PICK kept \in SUBSET LinkIds :
          /\ Restorable(kept)
          /\ pending' = Restored(kept)
          /\ dropped' = [k \in LinkIds |-> dropped[k] + (IF k \in kept THEN 0 ELSE drained[k])]
    BY DEF FlushFailed
  <1> DEFINE met == Buckets(drained) \cap Buckets(pending)
             new == kept \ met
  <1>2. l \notin kept /\ l \in Buckets(drained)
    BY <1>1 DEF VisitInv, VisitsTyped, Buckets
  <1>3. kept \subseteq Buckets(drained) /\ Cardinality(new) = MaxBuckets - Cardinality(Buckets(pending))
    BY <1>1, <1>2 DEF Restorable
  <1>4. Buckets(pending') = Buckets(pending) \cup new
    BY <1>1, <1>3 DEF VisitInv, VisitsTyped, Buckets, Restored
  <1>5. Buckets(pending) \cap new = {}
    BY <1>3
  <1>6. IsFiniteSet(Buckets(pending)) /\ IsFiniteSet(new)
    BY VisitsAssumption, FS_Subset DEF Buckets
  <1>7. Cardinality(Buckets(pending) \cup new) =
          Cardinality(Buckets(pending)) + Cardinality(new) - Cardinality(Buckets(pending) \cap new)
    BY <1>6, FS_Union
  <1>8. /\ Cardinality(Buckets(pending) \cap new) = 0
        /\ Cardinality(Buckets(pending)) \in Nat /\ Cardinality(new) \in Nat
    BY <1>5, <1>6, FS_EmptySet, FS_CardinalityType
  <1> HIDE DEF met, new
  <1> QED BY <1>3, <1>4, <1>7, <1>8, VisitsAssumption

LEMMA DropAtExit ==
  ASSUME VisitInv, Exit, NEW l \in LinkIds, dropped'[l] > dropped[l]
  PROVE  phase = "failed"
  <1>1. dropped'[l] = dropped[l] + (pending[l] + drained[l])
    BY DEF Exit, Forget, Plus
  <1>2. pending[l] + drained[l] > 0
    BY <1>1 DEF VisitInv, VisitsTyped
  <1>3. ASSUME drained = None, pending[l] = 0 PROVE FALSE
    BY <1>2, <1>3, NoVisits
  <1>4. CASE phase = "flushed"
    BY <1>3, <1>4, NoVisits DEF VisitInv, EndOrdered
  <1>5. CASE phase = "last" /\ ~flushing /\ Buckets(pending) = {}
    <2>1. pending[l] = 0
      BY <1>5 DEF VisitInv, VisitsTyped, Buckets
    <2> QED BY <1>3, <1>5, <2>1 DEF VisitInv, EndOrdered
  <1> QED BY <1>4, <1>5 DEF Exit

\* Visits are lost to a crash, a full counter or a last flush that failed, and to
\* nothing else: a graceful shutdown stores what is in memory.
THEOREM LossIsExplained == Spec => LossExplained
  <1>1. ASSUME VisitInv, [Next]_vars, NEW l \in LinkIds, dropped'[l] > dropped[l]
        PROVE  \/ phase' = "crashed"
               \/ phase = "failed"
               \/ Cardinality(Buckets(pending')) >= MaxBuckets
    <2>1. dropped' # dropped
      BY <1>1 DEF VisitInv, VisitsTyped
    <2>2. (\E q \in Requests : Record(q)) \/ FlushFailed \/ Exit \/ Crash
      BY <1>1, <2>1 DEF Next, vars, visitVars, Manage, Resolve, Drain, FlushDone, ListTotals,
                        ListPending, Shutdown, StopFlusher, Start
    <2> QED BY <1>1, <2>2, DropAtRecord, DropAtFlush, DropAtExit DEF Crash
  <1>2. VisitInv /\ [Next]_vars =>
          [\A l \in LinkIds : dropped'[l] > dropped[l] =>
             \/ phase' = "crashed"
             \/ phase = "failed"
             \/ Cardinality(Buckets(pending')) >= MaxBuckets]_vars
    BY <1>1
  <1> QED BY <1>2, VisitsHold, PTL DEF Spec, LossExplained

-----------------------------------------------------------------------------
\* The steps of ShortLinks are steps of PublicNames or leave the names alone.
THEOREM LinksUseNames == Spec => NamesSpec
  <1>1. Init => NamesInit
    BY DEF Init
  <1>2. [Next]_vars => [NamesNext]_nameVars
    BY DEF Next, Manage, vars, Resolve, Record, Drain, FlushDone, FlushFailed, ListTotals,
           ListPending, Shutdown, StopFlusher, Exit, Crash, Forget, Start
  <1> QED BY <1>1, <1>2, PTL DEF Spec, NamesSpec

-----------------------------------------------------------------------------
\* The counter never holds more buckets than it may.
Bounded == Cardinality(Buckets(pending)) <= MaxBuckets

LEMMA BucketsFinite == \A f : IsFiniteSet(Buckets(f)) /\ Cardinality(Buckets(f)) \in Nat
  BY VisitsAssumption, FS_Subset, FS_CardinalityType DEF Buckets

LEMMA NoBuckets == Cardinality(Buckets(None)) = 0
  <1>1. Buckets(None) = {}
    BY NoVisits DEF Buckets
  <1> QED BY <1>1, FS_EmptySet

LEMMA RecordBounded ==
  ASSUME VisitInv, Bounded, NEW q \in Requests, Record(q)
  PROVE  Bounded'
  <1> DEFINE l == request[q]
  <1>1. l \in LinkIds
    BY DEF Record, VisitInv, VisitsTyped
  <1>2. CASE pending' = pending
    BY <1>2 DEF Bounded
  <1>3. CASE HasRoom(l) /\ pending' = [pending EXCEPT ![l] = @ + 1]
    <2>1. Buckets(pending') = Buckets(pending) \cup {l}
      BY <1>1, <1>3 DEF VisitInv, VisitsTyped, Buckets
    <2>2. CASE pending[l] > 0
      <3>1. Buckets(pending) \cup {l} = Buckets(pending)
        BY <1>1, <2>2 DEF Buckets
      <3> QED BY <2>1, <3>1 DEF Bounded
    <2>3. CASE Cardinality(Buckets(pending)) < MaxBuckets
      <3>1. Cardinality(Buckets(pending) \cup {l}) \in
              {Cardinality(Buckets(pending)), Cardinality(Buckets(pending)) + 1}
        BY BucketsFinite, FS_AddElement
      <3> QED BY <2>1, <2>3, <3>1, BucketsFinite, VisitsAssumption DEF Bounded
    <2> QED BY <1>3, <2>2, <2>3 DEF HasRoom
  <1> QED BY <1>2, <1>3 DEF Record

LEMMA FlushFailedBounded ==
  ASSUME VisitInv, Bounded, FlushFailed
  PROVE  Bounded'
  <1>1. PICK kept \in SUBSET LinkIds : Restorable(kept) /\ pending' = Restored(kept)
    BY DEF FlushFailed
  <1> DEFINE met == Buckets(drained) \cap Buckets(pending)
             new == kept \ met
  <1>2. /\ kept \subseteq Buckets(drained)
        /\ Cardinality(new) <= MaxBuckets - Cardinality(Buckets(pending))
    BY <1>1 DEF Restorable
  <1>3. Buckets(pending') = Buckets(pending) \cup new
    BY <1>1, <1>2 DEF VisitInv, VisitsTyped, Buckets, Restored
  <1>4. IsFiniteSet(new) /\ Buckets(pending) \cap new = {}
    BY <1>2, VisitsAssumption, FS_Subset
  <1>5. Cardinality(Buckets(pending) \cup new) =
          Cardinality(Buckets(pending)) + Cardinality(new) - Cardinality(Buckets(pending) \cap new)
    BY <1>4, BucketsFinite, FS_Union
  <1>6. Cardinality(Buckets(pending) \cap new) = 0 /\ Cardinality(new) \in Nat
    BY <1>4, FS_EmptySet, FS_CardinalityType
  <1>7. Cardinality(Buckets(pending)) \in Nat
    BY BucketsFinite
  <1> HIDE DEF met, new
  <1> QED BY <1>2, <1>3, <1>5, <1>6, <1>7, VisitsAssumption DEF Bounded

LEMMA NextBounded == VisitInv /\ Bounded /\ [Next]_vars => Bounded'
  <1> SUFFICES ASSUME VisitInv, Bounded, [Next]_vars PROVE Bounded'
    OBVIOUS
  <1>1. CASE pending' = pending
    BY <1>1 DEF Bounded
  <1>2. CASE pending' = None
    BY <1>2, NoBuckets, VisitsAssumption DEF Bounded
  <1>3. \/ pending' = pending \/ pending' = None
        \/ FlushFailed \/ \E q \in Requests : Record(q)
    BY DEF Next, Manage, vars, visitVars, counter, Resolve, Drain, FlushDone, ListTotals,
           ListPending, Shutdown, StopFlusher, Exit, Crash, Forget, Start
  <1> QED BY <1>1, <1>2, <1>3, RecordBounded, FlushFailedBounded

\* The tables, the counter and the process have their types, and the counter
\* keeps its bound when a failed flush puts its buckets back.
THEOREM LinksTypeCorrect == Spec => []LinksTypeOK
  <1>1. Init => Bounded
    BY NoBuckets, VisitsAssumption DEF Init, Bounded
  <1>2. NamesSpec => []NamesInv
    BY InitNames, NextNames, PTL DEF NamesSpec
  <1>3. NamesInv /\ VisitInv /\ Bounded => LinksTypeOK
    BY DEF NamesInv, VisitInv, VisitsTyped, EndOrdered, Bounded, LinksTypeOK
  <1> QED BY <1>1, <1>2, <1>3, NextBounded, VisitsHold, LinksUseNames, PTL DEF Spec
=============================================================================
