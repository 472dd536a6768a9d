-------------------------- MODULE SiteReleasesProof --------------------------
(***************************************************************************)
(* Proofs about SiteReleases, for any sites, previews, handlers and        *)
(* limits: the pointers of a site, its versions, its previews, and what    *)
(* an erasure that was reported complete has removed.  The invariant has   *)
(* three parts, about the tables of releases, about previews, and about    *)
(* handlers and the data; most steps touch one of them.                    *)
(***************************************************************************)
EXTENDS SiteReleases, Sums

\* A release that was uploaded has a site and a version.
LEMMA UploadRows ==
  ASSUME uploads \in Seq(UploadRow), NEW i \in DOMAIN uploads
  PROVE  uploads[i].site \in Sites /\ uploads[i].version \in Nat
  <1>1. uploads[i] \in UploadRow
    OBVIOUS
  <1> QED BY <1>1 DEF UploadRow

TablesTyped ==
  /\ uploads \in Seq(UploadRow) /\ stored \subseteq DOMAIN uploads
  /\ site \in [Sites -> SiteRow]
  /\ \A s \in Sites : site[s].draft = Null \/ site[s].draft # site[s].published

\* Versions that were given are below the next one.
VersionsGiven ==
  \A r \in DOMAIN uploads : uploads[r].version < site[uploads[r].site].nextVersion

TablesInv == TablesTyped /\ SelectedStored /\ VersionsGiven /\ VersionsNew

PreviewsInv == preview \in [Previews -> PreviewRow \cup {Absent}] /\ PreviewsEnd

HandlersTyped ==
  /\ request \in [Requests -> RequestRow \cup {Absent}]
  /\ eraser \in [Erasers -> EraserRow \cup {Absent}]
  /\ data \in [Sites -> [Namespaces -> SUBSET Nat]]
  /\ epoch \in [Sites -> Nat] /\ erased \in [Sites -> Nat]

\* An erasure that goes on to the draft data has removed all older live data.
ErasedSoFar ==
  /\ \A s \in Sites : erased[s] <= epoch[s]
  /\ \A h \in Erasers : eraser[h] # Absent =>
       /\ eraser[h].epoch <= epoch[eraser[h].site]
       /\ eraser[h].next = "draft" =>
            \A e \in data[eraser[h].site]["live"] : e >= eraser[h].epoch

HandlersInv == HandlersTyped /\ ErasedSoFar /\ ErasedWhenReported

Inv == TablesInv /\ PreviewsInv /\ HandlersInv

LEMMA InitInv == Init => Inv
  <1> SUFFICES ASSUME Init PROVE Inv
    OBVIOUS
  <1>1. TablesInv
    BY DEF Init, TablesInv, TablesTyped, SelectedStored, VersionsGiven, VersionsNew, Null,
           SiteRow, UploadRow, Releases
  <1>2. PreviewsInv
    BY DEF Init, PreviewsInv, PreviewsEnd
  <1>3. HandlersInv
    BY DEF Init, HandlersInv, HandlersTyped, ErasedSoFar, ErasedWhenReported
  <1> QED BY <1>1, <1>2, <1>3 DEF Inv

-----------------------------------------------------------------------------
\* Releases, pointers and versions

LEMMA UploadTables ==
  ASSUME TablesInv, NEW s \in Sites, NEW bytes \in Sizes, Upload(s, bytes)
  PROVE  TablesInv'
  <1> DEFINE r == Len(uploads) + 1
             row == [site |-> s, version |-> site[s].nextVersion, bytes |-> bytes]
  <1>1. /\ uploads' = Append(uploads, row)
        /\ stored' = stored \cup {r}
        /\ site' = [site EXCEPT ![s].draft = r, ![s].nextVersion = site[s].nextVersion + 1]
    BY DEF Upload, NextVersion
  <1>2. /\ uploads \in Seq(UploadRow) /\ stored \subseteq DOMAIN uploads
        /\ site \in [Sites -> SiteRow] /\ site[s] \in SiteRow
    BY DEF TablesInv, TablesTyped
  <1>3. row \in UploadRow /\ r \in Nat \ {0} /\ r \notin DOMAIN uploads
    BY <1>2 DEF UploadRow, SiteRow
  <1>4. /\ uploads' \in Seq(UploadRow)
        /\ DOMAIN uploads' = DOMAIN uploads \cup {r}
        /\ uploads'[r] = row
        /\ \A i \in DOMAIN uploads : uploads'[i] = uploads[i]
    BY <1>1, <1>2, <1>3
  <1>5. \A t \in Sites : t # s => site'[t] = site[t]
    BY <1>1, <1>2
  <1>6. /\ site'[s] \in SiteRow /\ site'[s].draft = r /\ site'[s].published = site[s].published
        /\ site'[s].nextVersion = site[s].nextVersion + 1
    BY <1>1, <1>2, <1>3 DEF SiteRow
  <1> HIDE DEF r, row
  <1>7. \A t \in Sites : site[t].published # Null => site[t].published \in DOMAIN uploads
    BY <1>2 DEF TablesInv, SelectedStored, Releases
  <1>8. TablesTyped'
    <2>1. site' \in [Sites -> SiteRow]
      BY <1>1, <1>2, <1>5, <1>6
    <2>2. r # site[s].published
      BY <1>3, <1>7 DEF Null
    <2> QED BY <1>1, <1>2, <1>4, <1>5, <1>6, <2>1, <2>2 DEF TablesInv, TablesTyped
  <1>9. SelectedStored'
    <2>1. \A t \in Sites : Releases(t) \subseteq Releases(t)'
      BY <1>1, <1>2, <1>4 DEF Releases
    <2>2. r \in Releases(s)'
      BY <1>1, <1>4 DEF Releases, row
    <2> QED BY <1>5, <1>6, <2>1, <2>2 DEF TablesInv, SelectedStored
  <1>10. VersionsGiven' /\ VersionsNew'
    <2>1. row.site = s /\ row.version = site[s].nextVersion /\ site[s].nextVersion \in Nat
      BY <1>2 DEF row, SiteRow
    <2>2. \A i \in DOMAIN uploads : uploads[i].version \in Nat /\ uploads[i].site \in Sites
      BY <1>2, UploadRows
    <2>3. VersionsGiven'
      BY <1>4, <1>5, <1>6, <2>1, <2>2 DEF TablesInv, VersionsGiven
    <2>4. VersionsNew'
      BY <1>4, <2>1, <2>2 DEF TablesInv, VersionsGiven, VersionsNew
    <2> QED BY <2>3, <2>4
  <1> QED BY <1>8, <1>9, <1>10 DEF TablesInv

LEMMA PublishTables ==
  ASSUME TablesInv, NEW s \in Sites, NEW r \in stored, Publish(s, r)
  PROVE  TablesInv'
  <1>1. /\ r \in Releases(s)
        /\ site' = [site EXCEPT ![s].published = r,
                                ![s].draft = IF @ = r THEN Null ELSE @]
        /\ UNCHANGED <<uploads, stored>>
    BY DEF Publish
  <1>2. /\ uploads \in Seq(UploadRow) /\ stored \subseteq DOMAIN uploads
        /\ site \in [Sites -> SiteRow] /\ site[s] \in SiteRow
    BY DEF TablesInv, TablesTyped
  <1>3. r \in Nat
    BY <1>1, <1>2 DEF Releases
  <1>4. /\ \A t \in Sites : t # s => site'[t] = site[t]
        /\ site'[s] \in SiteRow /\ site'[s].published = r
        /\ site'[s].draft = IF site[s].draft = r THEN Null ELSE site[s].draft
        /\ site'[s].nextVersion = site[s].nextVersion
        /\ site' \in [Sites -> SiteRow]
    BY <1>1, <1>2, <1>3 DEF SiteRow, Null
  <1>5. TablesTyped'
    BY <1>1, <1>2, <1>4 DEF TablesInv, TablesTyped
  <1>6. SelectedStored'
    BY <1>1, <1>4 DEF TablesInv, SelectedStored, Releases
  <1>7. VersionsGiven' /\ VersionsNew'
    <2>1. \A i \in DOMAIN uploads : uploads[i].site \in Sites
      BY <1>2, UploadRows
    <2> QED BY <1>1, <1>4, <2>1 DEF TablesInv, VersionsGiven, VersionsNew
  <1> QED BY <1>5, <1>6, <1>7 DEF TablesInv

LEMMA SetEnabledTables ==
  ASSUME TablesInv, NEW s \in Sites, NEW enabled \in BOOLEAN, SetEnabled(s, enabled)
  PROVE  TablesInv'
  <1>1. site' = [site EXCEPT ![s].enabled = enabled] /\ UNCHANGED <<uploads, stored>>
    BY DEF SetEnabled
  <1>2. uploads \in Seq(UploadRow) /\ site \in [Sites -> SiteRow] /\ site[s] \in SiteRow
    BY DEF TablesInv, TablesTyped
  <1>3. /\ site' \in [Sites -> SiteRow]
        /\ \A t \in Sites : /\ site'[t].draft = site[t].draft
                            /\ site'[t].published = site[t].published
                            /\ site'[t].nextVersion = site[t].nextVersion
    BY <1>1, <1>2 DEF SiteRow
  <1>4. \A i \in DOMAIN uploads : uploads[i].site \in Sites
    BY <1>2, UploadRows
  <1> QED BY <1>1, <1>3, <1>4 DEF TablesInv, TablesTyped, SelectedStored, VersionsGiven,
                                  VersionsNew, Releases

LEMMA DeleteTables ==
  ASSUME TablesInv, NEW s \in Sites, NEW r \in stored, DeleteRelease(s, r)
  PROVE  TablesInv'
  <1>1. /\ r \in Releases(s) \ {site[s].draft, site[s].published}
        /\ stored' = stored \ {r} /\ UNCHANGED <<site, uploads>>
    BY DEF DeleteRelease, Selected
  <1>2. TablesTyped' /\ VersionsGiven' /\ VersionsNew'
    BY <1>1 DEF TablesInv, TablesTyped, VersionsGiven, VersionsNew
  <1>3. SelectedStored'
    <2> SUFFICES ASSUME NEW t \in Sites, NEW p \in {site[t].draft, site[t].published} \ {Null}
                 PROVE  p \in stored \ {r} /\ uploads[p].site = t
      BY <1>1 DEF SelectedStored, Releases
    <2>1. p \in stored /\ uploads[p].site = t
      BY DEF TablesInv, SelectedStored, Releases
    <2>2. p # r
      BY <1>1, <2>1 DEF Releases
    <2> QED BY <2>1, <2>2
  <1> QED BY <1>2, <1>3 DEF TablesInv

LEMMA PurgeTables ==
  ASSUME TablesInv, NEW s \in Sites, NEW h \in Erasers, PurgeContent(h, s)
  PROVE  TablesInv'
  <1>1. /\ site' = [site EXCEPT ![s].enabled = FALSE, ![s].draft = Null, ![s].published = Null]
        /\ stored' = stored \ Releases(s) /\ uploads' = uploads
    BY DEF PurgeContent
  <1>2. uploads \in Seq(UploadRow) /\ site \in [Sites -> SiteRow] /\ site[s] \in SiteRow
    BY DEF TablesInv, TablesTyped
  <1>3. /\ site' \in [Sites -> SiteRow]
        /\ site'[s].draft = Null /\ site'[s].published = Null
        /\ \A t \in Sites : t # s => site'[t] = site[t]
        /\ \A t \in Sites : site'[t].nextVersion = site[t].nextVersion
    BY <1>1, <1>2 DEF SiteRow, Null
  <1>4. TablesTyped'
    BY <1>1, <1>2, <1>3 DEF TablesInv, TablesTyped
  <1>5. SelectedStored'
    BY <1>1, <1>3 DEF TablesInv, SelectedStored, Releases
  <1>6. VersionsGiven' /\ VersionsNew'
    <2>1. \A i \in DOMAIN uploads : uploads[i].site \in Sites
      BY <1>2, UploadRows
    <2> QED BY <1>1, <1>3, <2>1 DEF TablesInv, VersionsGiven, VersionsNew
  <1> QED BY <1>4, <1>5, <1>6 DEF TablesInv

LEMMA NextTables == ASSUME TablesInv, [Next]_vars PROVE TablesInv'
  <1>1. CASE UNCHANGED <<site, uploads, stored>>
    BY <1>1 DEF TablesInv, TablesTyped, SelectedStored, VersionsGiven, VersionsNew, Releases
  <1>2. CASE \E s \in Sites, bytes \in Sizes : Upload(s, bytes)
    BY <1>2, UploadTables
  <1>3. CASE \E s \in Sites, r \in stored : Publish(s, r)
    BY <1>3, PublishTables
  <1>4. CASE \E s \in Sites, r \in stored : DeleteRelease(s, r)
    BY <1>4, DeleteTables
  <1>5. CASE \E s \in Sites, enabled \in BOOLEAN : SetEnabled(s, enabled)
    BY <1>5, SetEnabledTables
  <1>6. CASE \E s \in Sites, h \in Erasers : PurgeContent(h, s)
    BY <1>6, PurgeTables
  <1> QED BY <1>1, <1>2, <1>3, <1>4, <1>5, <1>6
          DEF Next, vars, tables, GrantPreview, ResolvePublic, PurgeNamespace, PurgeFailed,
              ExchangePreview, Expire, ResolvePreview, Bind, Write, Abandon, Crash

-----------------------------------------------------------------------------
\* Previews

LEMMA NextPreviews == ASSUME PreviewsInv, HandlersInv, [Next]_vars PROVE PreviewsInv'
  <1>0. preview \in [Previews -> PreviewRow \cup {Absent}] /\ epoch \in [Sites -> Nat]
    BY DEF PreviewsInv, HandlersInv, HandlersTyped
  <1>1. CASE UNCHANGED <<preview, epoch>>
    BY <1>1 DEF PreviewsInv, PreviewsEnd
  <1>2. ASSUME NEW p \in Previews, NEW s \in Sites, GrantPreview(p, s) PROVE PreviewsInv'
    BY <1>0, <1>2 DEF GrantPreview, PreviewsInv, PreviewsEnd, PreviewRow, ghosts
  <1>3. ASSUME NEW p \in Previews, ExchangePreview(p) PROVE PreviewsInv'
    <2>1. /\ preview' = [preview EXCEPT ![p].kind = "session"] /\ epoch' = epoch
          /\ preview[p] \in PreviewRow
      BY <1>0, <1>3 DEF ExchangePreview, ghosts
    <2>2. /\ preview'[p] \in PreviewRow /\ preview'[p].site = preview[p].site
          /\ preview'[p].epoch = preview[p].epoch
      BY <1>0, <2>1 DEF PreviewRow
    <2>3. \A o \in Previews : o # p => preview'[o] = preview[o]
      BY <1>0, <2>1
    <2>4. preview' \in [Previews -> PreviewRow \cup {Absent}]
      BY <1>0, <2>1, <2>2, <2>3
    <2>5. preview[p] # Absent
      BY <1>3 DEF ExchangePreview
    <2> QED BY <2>1, <2>2, <2>3, <2>4, <2>5 DEF PreviewsInv, PreviewsEnd
  <1>4. ASSUME NEW p \in Previews, Expire(p) PROVE PreviewsInv'
    BY <1>0, <1>4 DEF Expire, PreviewsInv, PreviewsEnd, ghosts
  <1>5. ASSUME NEW s \in Sites, NEW h \in Erasers, PurgeContent(h, s) PROVE PreviewsInv'
    <2>1. preview' = PreviewsLeft(s) /\ epoch' = [epoch EXCEPT ![s] = @ + 1]
      BY <1>5 DEF PurgeContent
    <2>2. \A p \in Previews :
            \/ preview'[p] = Absent
            \/ preview'[p] = preview[p] /\ preview[p].site # s
      BY <2>1 DEF PreviewsLeft
    <2>3. preview' \in [Previews -> PreviewRow \cup {Absent}]
      BY <1>0, <2>1 DEF PreviewsLeft
    <2>4. \A t \in Sites : t # s => epoch'[t] = epoch[t]
      BY <1>0, <2>1
    <2>5. \A p \in Previews : preview[p] # Absent => preview[p].site \in Sites
      BY <1>0 DEF PreviewRow
    <2> QED BY <2>2, <2>3, <2>4, <2>5 DEF PreviewsInv, PreviewsEnd
  <1> QED BY <1>1, <1>2, <1>3, <1>4, <1>5
          DEF Next, vars, tables, ghosts, Upload, Publish, DeleteRelease, SetEnabled,
              ResolvePublic, PurgeNamespace, PurgeFailed, Proceed, ResolvePreview, Bind, Write,
              Abandon, Crash

-----------------------------------------------------------------------------
\* Handlers and the data

LEMMA WriteHandlers ==
  ASSUME HandlersInv, NEW q \in Requests, Write(q)
  PROVE  HandlersInv'
  <1> DEFINE s == request[q].site
             n == NamespaceOf(request[q].mode)
  <1>1. /\ data' = [data EXCEPT ![s][n] = @ \cup {epoch[s]}]
        /\ request' = [request EXCEPT ![q] = Absent]
        /\ UNCHANGED <<eraser, epoch, erased>>
    BY DEF Write, ghosts
  <1>2. s \in Sites /\ n \in Namespaces
    BY DEF HandlersInv, HandlersTyped, Write, RequestRow, NamespaceOf, Namespaces
  <1>3. /\ data \in [Sites -> [Namespaces -> SUBSET Nat]] /\ epoch[s] \in Nat
        /\ epoch \in [Sites -> Nat]
    BY <1>2 DEF HandlersInv, HandlersTyped
  <1> HIDE DEF s, n
  <1>4. \A t \in Sites, m \in Namespaces :
          data'[t][m] = IF t = s /\ m = n THEN data[t][m] \cup {epoch[t]} ELSE data[t][m]
    BY <1>1, <1>2, <1>3
  <1>5. HandlersTyped'
    BY <1>1, <1>2, <1>3 DEF HandlersInv, HandlersTyped
  <1>6. ErasedSoFar'
    <2> SUFFICES ASSUME NEW h \in Erasers, eraser[h] # Absent, eraser[h].next = "draft",
                        NEW e \in data'[eraser[h].site]["live"]
                 PROVE  e >= eraser[h].epoch
      BY <1>1 DEF HandlersInv, ErasedSoFar
    <2>1. eraser[h].site \in Sites /\ eraser[h].epoch \in Nat
      BY DEF HandlersInv, HandlersTyped, EraserRow
    <2>2. e \in data[eraser[h].site]["live"] \/ e = epoch[eraser[h].site]
      BY <1>4, <2>1 DEF Namespaces
    <2> QED BY <2>2 DEF HandlersInv, ErasedSoFar
  <1>7. ErasedWhenReported'
    BY <1>1, <1>4 DEF HandlersInv, ErasedSoFar, ErasedWhenReported
  <1> QED BY <1>5, <1>6, <1>7 DEF HandlersInv

LEMMA PurgeContentHandlers ==
  ASSUME HandlersInv, NEW s \in Sites, NEW h \in Erasers, PurgeContent(h, s)
  PROVE  HandlersInv'
  <1> DEFINE row == [site |-> s, next |-> "live", epoch |-> epoch[s] + 1]
  <1>1. /\ epoch' = [epoch EXCEPT ![s] = @ + 1]
        /\ eraser' = [eraser EXCEPT ![h] = row]
        /\ UNCHANGED <<request, data, erased>>
    BY DEF PurgeContent
  <1>2. /\ epoch \in [Sites -> Nat] /\ erased \in [Sites -> Nat]
        /\ eraser \in [Erasers -> EraserRow \cup {Absent}]
    BY DEF HandlersInv, HandlersTyped
  <1>3. row \in EraserRow
    BY <1>2 DEF EraserRow, Namespaces
  <1>4. HandlersTyped'
    BY <1>1, <1>2, <1>3 DEF HandlersInv, HandlersTyped
  <1>5. \A t \in Sites : epoch'[t] \in Nat /\ epoch'[t] >= epoch[t] /\ epoch'[s] = epoch[s] + 1
    BY <1>1, <1>2
  <1>6. ErasedSoFar'
    <2>1. \A t \in Sites : erased'[t] <= epoch'[t]
      BY <1>1, <1>2, <1>5 DEF HandlersInv, ErasedSoFar
    <2> SUFFICES ASSUME NEW g \in Erasers, eraser'[g] # Absent
                 PROVE  /\ eraser'[g].epoch <= epoch'[eraser'[g].site]
                        /\ eraser'[g].next = "draft" =>
                             \A e \in data'[eraser'[g].site]["live"] : e >= eraser'[g].epoch
      BY <2>1 DEF ErasedSoFar
    <2>2. CASE g = h
      BY <1>1, <1>2, <1>5, <2>2
    <2>3. CASE g # h
      <3>1. eraser'[g] = eraser[g] /\ eraser[g] \in EraserRow
        BY <1>1, <1>2, <2>3
      <3>2. eraser[g].site \in Sites /\ eraser[g].epoch \in Nat
        BY <3>1 DEF EraserRow
      <3> QED BY <1>1, <1>2, <1>5, <3>1, <3>2 DEF HandlersInv, ErasedSoFar
    <2> QED BY <2>2, <2>3
  <1>7. ErasedWhenReported'
    BY <1>1 DEF HandlersInv, ErasedWhenReported
  <1> QED BY <1>4, <1>6, <1>7 DEF HandlersInv

LEMMA PurgeNamespaceHandlers ==
  ASSUME HandlersInv, NEW h \in Erasers, PurgeNamespace(h)
  PROVE  HandlersInv'
  <1> DEFINE s == eraser[h].site
             n == eraser[h].next
  <1>1. /\ eraser[h] # Absent
        /\ data' = [data EXCEPT ![s][n] = {}]
        /\ Proceed(h)
        /\ UNCHANGED <<request, epoch>>
    BY DEF PurgeNamespace
  <1>2. /\ eraser \in [Erasers -> EraserRow \cup {Absent}]
        /\ data \in [Sites -> [Namespaces -> SUBSET Nat]]
        /\ epoch \in [Sites -> Nat] /\ erased \in [Sites -> Nat]
    BY DEF HandlersInv, HandlersTyped
  <1>3. eraser[h] \in EraserRow
    BY <1>1, <1>2
  <1>4. s \in Sites /\ n \in Namespaces /\ eraser[h].epoch \in Nat
    BY <1>3 DEF EraserRow
  <1>5. \A t \in Sites, m \in Namespaces :
          data'[t][m] = IF t = s /\ m = n THEN {} ELSE data[t][m]
    BY <1>1, <1>2, <1>4
  <1>6. data' \in [Sites -> [Namespaces -> SUBSET Nat]]
    BY <1>1, <1>2, <1>4
  <1>7. CASE n = "live" /\ eraser' = [eraser EXCEPT ![h].next = "draft"] /\ erased' = erased
    <2>1. /\ eraser'[h] \in EraserRow
          /\ eraser'[h].site = s /\ eraser'[h].epoch = eraser[h].epoch
      BY <1>2, <1>3, <1>7 DEF EraserRow, Namespaces
    <2>2. \A g \in Erasers : g # h => eraser'[g] = eraser[g]
      BY <1>2, <1>7
    <2>3. HandlersTyped'
      BY <1>1, <1>2, <1>6, <1>7, <2>1, <2>2 DEF HandlersInv, HandlersTyped
    <2>4. data'[s]["live"] = {}
      BY <1>4, <1>5, <1>7
    <2>5. \A t \in Sites : data'[t]["live"] \subseteq data[t]["live"]
      BY <1>5 DEF Namespaces
    <2>6. \A g \in Erasers : eraser[g] # Absent => eraser[g].site \in Sites
      BY <1>2 DEF EraserRow
    <2>7. ErasedSoFar'
      BY <1>1, <1>4, <1>7, <2>1, <2>2, <2>4, <2>5, <2>6 DEF HandlersInv, ErasedSoFar
    <2>8. ErasedWhenReported'
      BY <1>5, <1>7 DEF HandlersInv, ErasedWhenReported
    <2> QED BY <2>3, <2>7, <2>8 DEF HandlersInv
  <1>8. CASE /\ n = "draft" /\ eraser' = [eraser EXCEPT ![h] = Absent]
             /\ erased' = [erased EXCEPT ![s] = IF eraser[h].epoch > @ THEN eraser[h].epoch ELSE @]
    <2>1. HandlersTyped'
      BY <1>1, <1>2, <1>4, <1>6, <1>8 DEF HandlersInv, HandlersTyped
    <2>2. /\ erased'[s] = IF eraser[h].epoch > erased[s] THEN eraser[h].epoch ELSE erased[s]
          /\ \A t \in Sites : t # s => erased'[t] = erased[t]
      BY <1>2, <1>4, <1>8
    <2>3. \A g \in Erasers : eraser'[g] # Absent => eraser'[g] = eraser[g]
      BY <1>2, <1>8
    <2>4. \A g \in Erasers : eraser[g] # Absent => eraser[g].site \in Sites
      BY <1>2 DEF EraserRow
    <2>5. \A t \in Sites, m \in Namespaces : data'[t][m] \subseteq data[t][m]
      BY <1>5
    <2>6. ErasedSoFar'
      BY <1>1, <1>4, <2>2, <2>3, <2>4, <2>5 DEF HandlersInv, ErasedSoFar, Namespaces
    <2>7. \A e \in data'[s]["live"] : e >= eraser[h].epoch
      BY <1>1, <1>4, <1>8, <2>5 DEF HandlersInv, ErasedSoFar, Namespaces
    <2>8. data'[s]["draft"] = {}
      BY <1>4, <1>5, <1>8
    <2>9. \A m \in Namespaces : \A e \in data'[s][m] : e >= erased'[s]
      BY <1>4, <2>2, <2>5, <2>7, <2>8 DEF HandlersInv, ErasedWhenReported, Namespaces
    <2>10. ErasedWhenReported'
      BY <2>2, <2>5, <2>9 DEF HandlersInv, ErasedWhenReported
    <2> QED BY <2>1, <2>6, <2>10 DEF HandlersInv
  <1> QED BY <1>1, <1>7, <1>8 DEF Proceed

LEMMA NextHandlers == ASSUME TablesInv, PreviewsInv, HandlersInv, [Next]_vars PROVE HandlersInv'
  <1>0. HandlersTyped
    BY DEF HandlersInv
  <1>1. CASE UNCHANGED <<request, eraser, data, epoch, erased>>
    BY <1>1 DEF HandlersInv, HandlersTyped, ErasedSoFar, ErasedWhenReported
  <1>2. ASSUME UNCHANGED <<eraser, data, epoch, erased>>,
               request' \in [Requests -> RequestRow \cup {Absent}]
        PROVE  HandlersInv'
    BY <1>2 DEF HandlersInv, HandlersTyped, ErasedSoFar, ErasedWhenReported
  <1>3. ASSUME UNCHANGED <<data, epoch, erased>>,
               request' \in [Requests -> RequestRow \cup {Absent}],
               eraser' \in [Erasers -> EraserRow \cup {Absent}],
               \A h \in Erasers : eraser'[h] # Absent => eraser'[h] = eraser[h]
        PROVE  HandlersInv'
    BY <1>3 DEF HandlersInv, HandlersTyped, ErasedSoFar, ErasedWhenReported
  <1>4. ASSUME NEW q \in Requests, NEW s \in Sites, ResolvePublic(q, s) PROVE HandlersInv'
    <2>1. site[s].published \in Nat
      BY DEF TablesInv, TablesTyped, SiteRow
    <2>2. request' \in [Requests -> RequestRow \cup {Absent}]
      BY <1>0, <1>4, <2>1 DEF ResolvePublic, HandlersTyped, RequestRow
    <2> QED BY <1>2, <1>4, <2>2 DEF ResolvePublic, ghosts
  <1>5. ASSUME NEW q \in Requests, NEW p \in Previews, NEW view, ResolvePreview(q, p, view)
        PROVE  HandlersInv'
    <2>1. preview[p].site \in Sites
      BY <1>5 DEF ResolvePreview, PreviewsInv, PreviewRow
    <2>2. site[preview[p].site].draft \in Nat /\ site[preview[p].site].published \in Nat
      BY <2>1 DEF TablesInv, TablesTyped, SiteRow
    <2>3. request' \in [Requests -> RequestRow \cup {Absent}]
      BY <1>0, <1>5, <2>1, <2>2 DEF ResolvePreview, PreviewMode, HandlersTyped, RequestRow
    <2> QED BY <1>2, <1>5, <2>3 DEF ResolvePreview, ghosts
  <1>6. ASSUME NEW q \in Requests, Bind(q) PROVE HandlersInv'
    <2>1. request[q] \in RequestRow /\ Null \in Nat
      BY <1>0, <1>6 DEF Bind, HandlersTyped, Null
    <2>2. [request[q] EXCEPT !.release = Null] \in RequestRow
      BY <2>1 DEF RequestRow
    <2>3. request' \in [Requests -> RequestRow \cup {Absent}]
      BY <1>0, <1>6, <2>2 DEF Bind, HandlersTyped
    <2> QED BY <1>2, <1>6, <2>3 DEF Bind, ghosts
  <1>7. ASSUME NEW q \in Requests, Abandon(q) PROVE HandlersInv'
    <2>1. request' \in [Requests -> RequestRow \cup {Absent}]
      BY <1>0, <1>7 DEF Abandon, HandlersTyped
    <2> QED BY <1>2, <1>7, <2>1 DEF Abandon, ghosts
  <1>8. ASSUME NEW h \in Erasers, PurgeFailed(h) PROVE HandlersInv'
    <2>1. /\ eraser' \in [Erasers -> EraserRow \cup {Absent}]
          /\ \A g \in Erasers : eraser'[g] # Absent => eraser'[g] = eraser[g]
      BY <1>0, <1>8 DEF PurgeFailed, HandlersTyped
    <2> QED BY <1>0, <1>3, <1>8, <2>1 DEF PurgeFailed, ghosts, HandlersTyped
  <1>9. CASE Crash
    BY <1>3, <1>9 DEF Crash, ghosts
  <1>10. CASE \E s \in Sites, h \in Erasers : PurgeContent(h, s)
    BY <1>10, PurgeContentHandlers
  <1>11. CASE \E h \in Erasers : PurgeNamespace(h)
    BY <1>11, PurgeNamespaceHandlers
  <1>12. CASE \E q \in Requests : Write(q)
    BY <1>12, WriteHandlers
  <1> QED BY <1>1, <1>4, <1>5, <1>6, <1>7, <1>8, <1>9, <1>10, <1>11, <1>12
          DEF Next, vars, tables, ghosts, Upload, Publish, DeleteRelease, SetEnabled,
              GrantPreview, ExchangePreview, Expire

-----------------------------------------------------------------------------
\* The theorems

LEMMA InvHolds == Spec => []Inv
  <1>1. Inv /\ [Next]_vars => Inv'
    BY NextTables, NextPreviews, NextHandlers DEF Inv
  <1> QED BY <1>1, InitInv, PTL DEF Spec

\* Rows have the types of their columns, and no site has the release it publishes
\* as its draft.
THEOREM SitesTypeCorrect == Spec => []SitesTypeOK
  <1>1. Inv => SitesTypeOK
    BY DEF Inv, TablesInv, TablesTyped, PreviewsInv, HandlersInv, HandlersTyped, SitesTypeOK
  <1> QED BY <1>1, InvHolds, PTL

\* What a site shows or previews is stored and its own.
THEOREM PointersAreStored == Spec => []SelectedStored
  <1>1. Inv => SelectedStored
    BY DEF Inv, TablesInv
  <1> QED BY <1>1, InvHolds, PTL

\* A version of a site is never given twice.
THEOREM VersionsAreNew == Spec => []VersionsNew
  <1>1. Inv => VersionsNew
    BY DEF Inv, TablesInv
  <1> QED BY <1>1, InvHolds, PTL

\* No grant or session is older than the last erasure of its site.
THEOREM PreviewsHaveEnded == Spec => []PreviewsEnd
  <1>1. Inv => PreviewsEnd
    BY DEF Inv, PreviewsInv
  <1> QED BY <1>1, InvHolds, PTL

\* After an erasure that was reported complete nothing is left that was written
\* before it, however many erasures fail, crash or run at the same time.
THEOREM ErasureIsComplete == Spec => []ErasedWhenReported
  <1>1. Inv => ErasedWhenReported
    BY DEF Inv, HandlersInv
  <1> QED BY <1>1, InvHolds, PTL

-----------------------------------------------------------------------------
\* A request that has been bound may write.
BoundMayWrite ==
  \A q \in Requests : request[q] # Absent /\ request[q].release = Null =>
    request[q].mode # "live-preview"

LEMMA NextBound == ASSUME HandlersTyped, BoundMayWrite, [Next]_vars PROVE BoundMayWrite'
  <1>1. CASE request' = request
    BY <1>1 DEF BoundMayWrite
  <1>2. ASSUME NEW q \in Requests, NEW row, request' = [request EXCEPT ![q] = row],
               row = Absent \/ row.release # Null \/ row.mode # "live-preview"
        PROVE  BoundMayWrite'
    BY <1>2 DEF HandlersTyped, BoundMayWrite
  <1>3. ASSUME NEW q \in Requests, NEW s \in Sites, ResolvePublic(q, s) PROVE BoundMayWrite'
    BY <1>2, <1>3 DEF ResolvePublic
  <1>4. ASSUME NEW q \in Requests, NEW p \in Previews, NEW view, ResolvePreview(q, p, view)
        PROVE  BoundMayWrite'
    <2> DEFINE s == preview[p].site
               mode == PreviewMode(view, site[s].published)
               row == [site |-> s,
                       release |-> IF mode = "draft" THEN site[s].draft ELSE site[s].published,
                       mode |-> mode]
    <2>1. site[s].draft # Null /\ request' = [request EXCEPT ![q] = row]
      BY <1>4 DEF ResolvePreview
    <2>2. row.release # Null
      BY <2>1 DEF PreviewMode
    <2> HIDE DEF row
    <2> QED BY <1>2, <2>1, <2>2
  <1>5. ASSUME NEW q \in Requests, Bind(q) PROVE BoundMayWrite'
    <2> DEFINE row == IF Accepts(request[q]) THEN [request[q] EXCEPT !.release = Null] ELSE Absent
    <2>1. request[q] \in RequestRow /\ request' = [request EXCEPT ![q] = row]
      BY <1>5 DEF Bind, HandlersTyped
    <2>2. row = Absent \/ row.mode # "live-preview"
      BY <2>1 DEF Accepts, RequestRow
    <2> HIDE DEF row
    <2> QED BY <1>2, <2>1, <2>2
  <1>6. ASSUME NEW q \in Requests, Write(q) \/ Abandon(q) PROVE BoundMayWrite'
    BY <1>2, <1>6 DEF Write, Abandon
  <1>7. CASE Crash
    BY <1>7 DEF Crash, BoundMayWrite
  <1> QED BY <1>1, <1>3, <1>4, <1>5, <1>6, <1>7
          DEF Next, vars, tables, Upload, Publish, DeleteRelease, SetEnabled, PurgeContent,
              GrantPreview, ExchangePreview, Expire, PurgeNamespace, PurgeFailed

LEMMA WriteLive ==
  ASSUME HandlersTyped, BoundMayWrite, NEW q \in Requests, Write(q),
         NEW s \in Sites, ~(data'[s]["live"] \subseteq data[s]["live"])
  PROVE  request'[q] = Absent /\ request[q].site = s /\ request[q].mode = "live"
  <1> DEFINE t == request[q].site
             n == NamespaceOf(request[q].mode)
  <1>1. /\ request[q] # Absent /\ request[q].release = Null
        /\ data' = [data EXCEPT ![t][n] = @ \cup {epoch[t]}]
        /\ request' = [request EXCEPT ![q] = Absent]
    BY DEF Write
  <1>2. request[q] \in RequestRow /\ request'[q] = Absent
    BY <1>1 DEF HandlersTyped
  <1>3. t = s /\ n = "live"
    BY <1>1 DEF HandlersTyped, Namespaces
  <1>4. request[q].mode \in {"live", "draft", "live-preview"} /\ request[q].mode # "draft"
    BY <1>2, <1>3 DEF RequestRow, NamespaceOf
  <1> QED BY <1>1, <1>2, <1>3, <1>4 DEF BoundMayWrite

\* Previews never write live documents, whatever happens to the site while their
\* requests are served.
THEOREM LiveIsFromPublic == Spec => LiveFromPublic
  <1> DEFINE FromPublic(s) ==
        ~(data'[s]["live"] \subseteq data[s]["live"]) =>
           \E q \in Requests :
             /\ request[q] # Absent /\ request'[q] = Absent
             /\ request[q].site = s /\ request[q].mode = "live"
  <1>1. ASSUME HandlersTyped, BoundMayWrite, [Next]_vars, NEW s \in Sites PROVE FromPublic(s)
    <2>1. CASE data' = data
      BY <2>1
    <2>2. ASSUME NEW q \in Requests, Write(q) PROVE FromPublic(s)
      <3>1. request[q] # Absent
        BY <2>2 DEF Write
      <3> QED BY <1>1, <2>2, <3>1, WriteLive
    <2>3. ASSUME NEW h \in Erasers, PurgeNamespace(h) PROVE FromPublic(s)
      <3>1. data' = [data EXCEPT ![eraser[h].site][eraser[h].next] = {}]
        BY <2>3 DEF PurgeNamespace
      <3>2. data'[s]["live"] \subseteq data[s]["live"]
        BY <1>1, <3>1 DEF HandlersTyped, Namespaces
      <3> QED BY <3>2
    <2> QED BY <1>1, <2>1, <2>2, <2>3
            DEF Next, vars, tables, Upload, Publish, DeleteRelease, SetEnabled, PurgeContent,
                GrantPreview, ExchangePreview, Expire, PurgeFailed, ResolvePublic,
                ResolvePreview, Bind, Abandon, Crash
  <1>2. HandlersTyped /\ BoundMayWrite /\ [Next]_vars => [\A s \in Sites : FromPublic(s)]_vars
    BY <1>1
  <1>3. Init => BoundMayWrite
    BY DEF Init, BoundMayWrite
  <1>4. Inv => HandlersTyped
    BY DEF Inv, HandlersInv
  <1>5. HandlersTyped /\ BoundMayWrite /\ [Next]_vars => BoundMayWrite'
    BY NextBound
  <1> QED BY <1>2, <1>3, <1>4, <1>5, InvHolds, PTL DEF Spec, LiveFromPublic

-----------------------------------------------------------------------------
\* The limits

LEMMA StoredFinite ==
  ASSUME TablesTyped
  PROVE  /\ IsFiniteSet(stored) /\ Weighs(Weight(uploads), stored)
         /\ \A t : Releases(t) \subseteq stored /\ IsFiniteSet(Releases(t))
                   /\ Cardinality(Releases(t)) \in Nat
  <1>1. IsFiniteSet(stored)
    <2>1. stored \subseteq 1..Len(uploads) /\ Len(uploads) \in Int
      BY DEF TablesTyped
    <2>2. IsFiniteSet(1..Len(uploads))
      BY <2>1, FS_Interval
    <2> QED BY <2>1, <2>2, FS_Subset
  <1>2. \A r \in stored : r \in DOMAIN uploads /\ uploads[r].bytes \in Nat
    <2> TAKE r \in stored
    <2>1. r \in DOMAIN uploads /\ uploads[r] \in UploadRow
      BY DEF TablesTyped
    <2> QED BY <2>1, SitesAssumption DEF UploadRow
  <1>3. \A t : Releases(t) \subseteq stored
    BY DEF Releases
  <1> QED BY <1>1, <1>2, <1>3, FS_Subset, FS_CardinalityType DEF Weighs, Weight

\* An upload adds its bytes, and one release to its site.
LEMMA UploadLimits ==
  ASSUME TablesTyped, WithinSiteLimits, NEW s \in Sites, NEW bytes \in Sizes, Upload(s, bytes)
  PROVE  WithinSiteLimits'
  <1> DEFINE r == Len(uploads) + 1
             row == [site |-> s, version |-> NextVersion(s), bytes |-> bytes]
  <1>1. /\ uploads' = Append(uploads, row) /\ stored' = stored \cup {r}
        /\ Cardinality(Releases(s)) < MaxReleasesPerSite
        /\ BytesOf(stored) <= MaxStorageBytesPerUser - bytes
    BY DEF Upload, HasStorage
  <1>2. uploads \in Seq(UploadRow) /\ stored \subseteq DOMAIN uploads
    BY DEF TablesTyped
  <1>3. /\ r \notin stored /\ DOMAIN uploads' = DOMAIN uploads \cup {r}
        /\ uploads'[r] = row
        /\ \A i \in stored : uploads'[i] = uploads[i]
    <2> HIDE DEF row
    <2> QED BY <1>1, <1>2
  <1>4. row.site = s /\ row.bytes = bytes /\ bytes \in Nat
    BY SitesAssumption
  <1> HIDE DEF row, r
  <1>5. ASSUME NEW t \in Sites
        PROVE  Cardinality(Releases(t)') <= MaxReleasesPerSite
    <2>1. CASE t = s
      <3>1. Releases(t)' = Releases(t) \cup {r} /\ r \notin Releases(t)
        BY <1>1, <1>3, <1>4, <2>1 DEF Releases
      <3>2. Cardinality(Releases(t)') = Cardinality(Releases(t)) + 1
        BY <3>1, StoredFinite, FS_AddElement
      <3> QED BY <1>1, <2>1, <3>2, StoredFinite, SitesAssumption
    <2>2. CASE t # s
      <3>1. Releases(t)' = Releases(t)
        BY <1>1, <1>3, <1>4, <2>2 DEF Releases
      <3> QED BY <3>1 DEF WithinSiteLimits
    <2> QED BY <2>1, <2>2
  <1>6. BytesOf(stored)' = bytes + BytesOf(stored) /\ BytesOf(stored) \in Nat
    <2> DEFINE v == Weight(uploads')
               w == Weight(uploads)
    <2>1. IsFiniteSet(stored) /\ Weighs(w, stored)
      BY StoredFinite
    <2>2. v[r] = bytes /\ Agree(v, w, stored) /\ stored' \subseteq DOMAIN uploads'
      BY <1>1, <1>2, <1>3, <1>4 DEF Agree, Weight
    <2>3. BytesOf(stored) = BytesIn(uploads, stored) /\ BytesOf(stored)' = BytesIn(uploads', stored')
      BY DEF BytesOf, BytesIn, MapThenSumSet, MapThenFoldSet
    <2>4. BytesIn(uploads, stored) = Total(w, stored)
      BY <1>2, <2>1, BytesAreTotal
    <2>5. IsFiniteSet(stored')
      BY <1>1, <2>1, FS_AddElement
    <2>6. BytesIn(uploads', stored') = Total(v, stored')
      BY <2>2, <2>5, BytesAreTotal
    <2> HIDE DEF v, w
    <2>7. Weighs(v, stored \cup {r})
      BY <1>4, <2>1, <2>2 DEF Weighs, Agree
    <2>8. Total(v, stored \cup {r}) = v[r] + Total(v, stored)
      BY <1>3, <2>1, <2>7, TotalAdd
    <2>9. Total(v, stored) = Total(w, stored) /\ Total(w, stored) \in Nat
      BY <2>1, <2>2, TotalAgrees, TotalType
    <2> QED BY <1>1, <2>2, <2>3, <2>4, <2>6, <2>8, <2>9
  <1>7. BytesOf(stored)' <= MaxStorageBytesPerUser
    BY <1>1, <1>4, <1>6, SitesAssumption
  <1> QED BY <1>5, <1>7 DEF WithinSiteLimits

\* Fewer releases stay within the limits.
LEMMA FewerReleases ==
  ASSUME TablesTyped, WithinSiteLimits, uploads' = uploads, stored' \subseteq stored
  PROVE  WithinSiteLimits'
  <1>1. ASSUME NEW t \in Sites
        PROVE  Cardinality(Releases(t)') <= MaxReleasesPerSite
    <2>1. Releases(t)' \subseteq Releases(t)
      BY DEF Releases
    <2>2. Cardinality(Releases(t)') <= Cardinality(Releases(t))
          /\ Cardinality(Releases(t)') \in Nat
      BY <2>1, StoredFinite, FS_Subset, FS_CardinalityType
    <2> QED BY <2>2, StoredFinite, SitesAssumption DEF WithinSiteLimits
  <1>2. BytesOf(stored)' <= BytesOf(stored) /\ BytesOf(stored) \in Nat /\ BytesOf(stored)' \in Nat
    <2> DEFINE w == Weight(uploads)
               T == stored'
    <2>1. IsFiniteSet(stored) /\ Weighs(w, stored) /\ stored \subseteq DOMAIN uploads
      BY StoredFinite DEF TablesTyped
    <2>2. IsFiniteSet(T) /\ T \in SUBSET stored
      BY <2>1, FS_Subset
    <2>3. BytesOf(stored) = BytesIn(uploads, stored) /\ BytesOf(stored)' = BytesIn(uploads, T)
      BY DEF BytesOf, BytesIn, MapThenSumSet, MapThenFoldSet
    <2> HIDE DEF T
    <2>4. BytesIn(uploads, stored) = Total(w, stored) /\ BytesIn(uploads, T) = Total(w, T)
      BY <2>1, <2>2, BytesAreTotal
    <2> HIDE DEF w
    <2>5. Weighs(w, T)
      BY <2>1, <2>2 DEF Weighs
    <2>6. Total(w, T) <= Total(w, stored) /\ Total(w, stored) \in Nat /\ Total(w, T) \in Nat
      BY <2>1, <2>2, <2>5, TotalOfPart, TotalType
    <2> QED BY <2>3, <2>4, <2>6
  <1> QED BY <1>1, <1>2, SitesAssumption DEF WithinSiteLimits

LEMMA NextLimits ==
  ASSUME TablesTyped, WithinSiteLimits, [Next]_vars
  PROVE  WithinSiteLimits'
  <1>1. ASSUME NEW s \in Sites, NEW bytes \in Sizes, Upload(s, bytes)
        PROVE  WithinSiteLimits'
    BY <1>1, UploadLimits
  <1>2. (uploads' = uploads /\ stored' \subseteq stored) \/
          \E s \in Sites, bytes \in Sizes : Upload(s, bytes)
    BY DEF Next, vars, tables, Publish, DeleteRelease, SetEnabled, PurgeContent, GrantPreview,
           ResolvePublic, PurgeNamespace, PurgeFailed, ExchangePreview, Expire,
           ResolvePreview, Bind, Write, Abandon, Crash
  <1> QED BY <1>1, <1>2, FewerReleases

\* However uploads, deletions and erasures follow each other, no site has more
\* releases than the limit and all of the owner's fit into the storage: what
\* CreateSiteRelease measures before it inserts is what the tables hold after.
THEOREM SitesStayWithinLimits == Spec => []WithinSiteLimits
  <1>1. Init => WithinSiteLimits
    <2> SUFFICES ASSUME Init PROVE WithinSiteLimits
      OBVIOUS
    <2>1. stored = {} /\ \A t : Releases(t) = {}
      BY DEF Init, Releases
    <2>2. BytesOf(stored) = 0
      <3>1. BytesOf(stored) = BytesIn(uploads, {})
        BY <2>1 DEF BytesOf, BytesIn
      <3> QED BY <3>1, BytesAreTotal, TotalEmpty, FS_EmptySet
    <2>3. Cardinality({}) = 0 /\ 0 <= MaxReleasesPerSite /\ 0 <= MaxStorageBytesPerUser
      BY FS_EmptySet, SitesAssumption
    <2> QED BY <2>1, <2>2, <2>3 DEF WithinSiteLimits
  <1>2. Inv /\ WithinSiteLimits /\ [Next]_vars => WithinSiteLimits'
    BY NextLimits DEF Inv, TablesInv
  <1> QED BY <1>1, <1>2, InvHolds, PTL DEF Spec
=============================================================================
