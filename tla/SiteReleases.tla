---------------------------- MODULE SiteReleases ----------------------------
(***************************************************************************)
(* The contents of an owner's sites: releases, previews, and the data that *)
(* visitors write (internal/store/sites.go, internal/site,                 *)
(* internal/web/sites.go, purgeSite of site_data.go).                      *)
(*                                                                         *)
(* An upload stores a release and makes it the draft; publishing makes a   *)
(* stored release the public one.  A preview is a grant that is exchanged  *)
(* for a session.  A request reads the site or its session once, then the  *)
(* declaration of the release it found, then its body, and writes to the   *)
(* site's Wispist store; the site may change in between.  Erasing a site   *)
(* is a transaction here and two more in that store, any of which may fail.*)
(*                                                                         *)
(* Every transaction is one action, a refused one is a disabled action.    *)
(* Sites are those of one owner, as quotas are; CreateSite is in           *)
(* PublicNames.  Left out: who asks, the viewer's status and the audit     *)
(* rows; requests that only read; requests that only delete, and the       *)
(* owner's data pages, which replace or remove what is there.  Every       *)
(* release declares a collection.  Time passes as Expire.                  *)
(* Ghosts: uploads keeps the rows of deleted releases; epoch, erased and   *)
(* the epochs in data and previews tell what came before which erasure.    *)
(***************************************************************************)
EXTENDS Integers, Sequences, FiniteSets, FiniteSetsExt

CONSTANTS
  Sites,                    \* the owner's sites
  Previews,                 \* preview origins, never drawn twice
  Requests,                 \* requests of visitors and viewers served at a time
  Erasers,                  \* purgeSite handlers at a time
  Sizes,                    \* bytes of a bundle
  MaxReleasesPerSite,       \* site.Limits
  MaxStorageBytesPerUser,
  MaxChanges,               \* bound on uploads and erasures, together
  Absent                    \* no row, no request

ASSUME SitesAssumption ==
  /\ Sizes \subseteq Nat
  /\ MaxReleasesPerSite \in Nat \ {0, 1} /\ MaxStorageBytesPerUser \in Nat
  /\ MaxChanges \in Nat

VARIABLES
  site,      \* sites: site -> enabled, draft and published release, next version
  uploads,   \* every release ever uploaded; its place here is its ID
  stored,    \* site_releases with their site_files: IDs
  preview,   \* site_preview_grants and _sessions: origin -> its row
  request,   \* request -> the site, mode and release it found; Null once it is bound
  eraser,    \* purgeSite -> the site and the namespace it purges next
  data,      \* the site's Wispist store: namespace -> epochs its documents are of
  epoch,     \* ghost: site -> committed erasures of its contents
  erased     \* ghost: site -> the last epoch whose erasure was reported complete

tables == <<site, uploads, stored, preview>>
ghosts == <<epoch, erased>>
vars == <<tables, request, eraser, data, ghosts>>

Null == 0
Namespaces == {"live", "draft"}

Releases(s) == {r \in stored : uploads[r].site = s}
Changes == Len(uploads) + MapThenSumSet(LAMBDA s : epoch[s], Sites)
BytesOf(rs) == MapThenSumSet(LAMBDA r : uploads[r].bytes, rs)

Init ==
  /\ site = [s \in Sites |->
       [enabled |-> TRUE, draft |-> Null, published |-> Null, nextVersion |-> 1]]
  /\ uploads = <<>> /\ stored = {}
  /\ preview = [p \in Previews |-> Absent]
  /\ request = [q \in Requests |-> Absent]
  /\ eraser = [h \in Erasers |-> Absent]
  /\ data = [s \in Sites |-> [n \in Namespaces |-> {}]]
  /\ epoch = [s \in Sites |-> 0] /\ erased = [s \in Sites |-> 0]

-----------------------------------------------------------------------------
\* The owner's transactions

\* Broken variant of HasStorage: only the site's own releases are added up.
HasStorageOfSite(s, bytes) == BytesOf(Releases(s)) <= MaxStorageBytesPerUser - bytes

\* All releases of the owner count.
HasStorage(s, bytes) == BytesOf(stored) <= MaxStorageBytesPerUser - bytes

\* Broken variant of NextVersion: one more than the highest version that is left
\* (what migration 10 gave the sites it found).
NextVersionLeft(s) ==
  LET left == {uploads[r].version : r \in Releases(s)}
  IN  IF left = {} THEN 1 ELSE Max(left) + 1

NextVersion(s) == site[s].nextVersion

\* CreateSiteRelease
Upload(s, bytes) ==
  /\ Changes < MaxChanges
  /\ Cardinality(Releases(s)) < MaxReleasesPerSite
  /\ HasStorage(s, bytes)
  /\ LET r == Len(uploads) + 1
     IN  /\ uploads' = Append(uploads, [site |-> s, version |-> NextVersion(s), bytes |-> bytes])
         /\ stored' = stored \cup {r}
         /\ site' = [site EXCEPT ![s].draft = r, ![s].nextVersion = NextVersion(s) + 1]
  /\ UNCHANGED <<preview, request, eraser, data, ghosts>>

\* PublishSiteRelease, of the draft or of an older release
Publish(s, r) ==
  /\ r \in Releases(s)
  /\ site' = [site EXCEPT ![s].published = r,
                          ![s].draft = IF @ = r THEN Null ELSE @]
  /\ UNCHANGED <<uploads, stored, preview, request, eraser, data, ghosts>>

\* SetSiteEnabled
SetEnabled(s, enabled) ==
  /\ site' = [site EXCEPT ![s].enabled = enabled]
  /\ UNCHANGED <<uploads, stored, preview, request, eraser, data, ghosts>>

\* Broken variant of Selected: the draft may be deleted.
SelectedPublished(s) == {site[s].published}

Selected(s) == {site[s].draft, site[s].published}

\* DeleteSiteRelease
DeleteRelease(s, r) ==
  /\ r \in Releases(s) \ Selected(s)
  /\ stored' = stored \ {r}
  /\ UNCHANGED <<site, uploads, preview, request, eraser, data, ghosts>>

-----------------------------------------------------------------------------
\* purgeSite

\* Broken variant of PreviewsLeft: sessions are kept, as their site has no draft.
PreviewSessionsLeft(s) ==
  [p \in Previews |->
     IF preview[p] # Absent /\ preview[p].site = s /\ preview[p].kind = "grant"
       THEN Absent ELSE preview[p]]

PreviewsLeft(s) ==
  [p \in Previews |->
     IF preview[p] # Absent /\ preview[p].site = s THEN Absent ELSE preview[p]]

\* PurgeSiteContent: the site is taken offline first.
PurgeContent(h, s) ==
  /\ eraser[h] = Absent
  /\ Changes < MaxChanges
  /\ site' = [site EXCEPT ![s].enabled = FALSE, ![s].draft = Null, ![s].published = Null]
  /\ preview' = PreviewsLeft(s)
  /\ stored' = stored \ Releases(s)
  /\ epoch' = [epoch EXCEPT ![s] = @ + 1]
  /\ eraser' = [eraser EXCEPT ![h] = [site |-> s, next |-> "live", epoch |-> epoch[s] + 1]]
  /\ UNCHANGED <<uploads, request, data, erased>>

\* The handler goes on to the next namespace, or reports success.
Proceed(h) ==
  LET e == eraser[h]
  IN  \/ /\ e.next = "live"
         /\ eraser' = [eraser EXCEPT ![h].next = "draft"]
         /\ UNCHANGED erased
      \/ /\ e.next = "draft"
         /\ eraser' = [eraser EXCEPT ![h] = Absent]
         /\ erased' = [erased EXCEPT ![e.site] = IF e.epoch > @ THEN e.epoch ELSE @]

\* Wispist's PurgeNamespace
PurgeNamespace(h) ==
  /\ eraser[h] # Absent
  /\ data' = [data EXCEPT ![eraser[h].site][eraser[h].next] = {}]
  /\ Proceed(h)
  /\ UNCHANGED <<tables, request, epoch>>

\* Broken variant of PurgeFailed: the handler logs the error and goes on.
PurgeFailedGoOn(h) ==
  /\ eraser[h] # Absent
  /\ Proceed(h)
  /\ UNCHANGED <<tables, request, data, epoch>>

\* The handler answers that the cleanup is incomplete.
PurgeFailed(h) ==
  /\ eraser[h] # Absent
  /\ eraser' = [eraser EXCEPT ![h] = Absent]
  /\ UNCHANGED <<tables, request, data, ghosts>>

-----------------------------------------------------------------------------
\* Previews

\* CreateSitePreviewGrant
GrantPreview(p, s) ==
  /\ preview[p] = Absent
  /\ site[s].draft # Null
  /\ preview' = [preview EXCEPT ![p] = [site |-> s, kind |-> "grant", epoch |-> epoch[s]]]
  /\ UNCHANGED <<site, uploads, stored, request, eraser, data, ghosts>>

\* ExchangeSitePreviewGrant
ExchangePreview(p) ==
  /\ preview[p] # Absent /\ preview[p].kind = "grant"
  /\ site[preview[p].site].draft # Null
  /\ preview' = [preview EXCEPT ![p].kind = "session"]
  /\ UNCHANGED <<site, uploads, stored, request, eraser, data, ghosts>>

\* A grant or a session is past its time; its origin may be drawn for a new one,
\* which stands for another random origin.
Expire(p) ==
  /\ preview[p] # Absent
  /\ preview' = [preview EXCEPT ![p] = Absent]
  /\ UNCHANGED <<site, uploads, stored, request, eraser, data, ghosts>>

-----------------------------------------------------------------------------
\* Requests that write documents

\* serveSiteHost: the site as SiteByName read it.
ResolvePublic(q, s) ==
  /\ request[q] = Absent
  /\ site[s].enabled /\ site[s].published # Null
  /\ request' = [request EXCEPT ![q] =
       [site |-> s, release |-> site[s].published, mode |-> "live"]]
  /\ UNCHANGED <<tables, eraser, data, ghosts>>

\* The view of the cookie, which falls back to the draft.
PreviewMode(view, published) ==
  IF view = "current" /\ published # Null THEN "live-preview" ELSE "draft"

\* serveSitePreviewHost: the site as SitePreviewSession read it.
ResolvePreview(q, p, view) ==
  /\ request[q] = Absent
  /\ preview[p] # Absent /\ preview[p].kind = "session"
  /\ LET s == preview[p].site
         mode == PreviewMode(view, site[s].published)
     IN  /\ site[s].draft # Null
         /\ request' = [request EXCEPT ![q] =
              [site |-> s,
               release |-> IF mode = "draft" THEN site[s].draft ELSE site[s].published, mode |-> mode]]
  /\ UNCHANGED <<tables, eraser, data, ghosts>>

\* Broken variant of Accepts: read-only bindings are not refused.
AcceptsReadOnly(r) == r.release \in stored

\* A release that has been deleted meanwhile declares nothing, and a document is
\* refused then, as it is when the binding is read-only.
Accepts(r) == r.release \in stored /\ r.mode # "live-preview"

\* siteWispistBinding has read the declaration of the release; what is left to read
\* is the body.
Bind(q) ==
  /\ request[q] # Absent /\ request[q].release # Null
  /\ request' = [request EXCEPT ![q] = IF Accepts(@) THEN [@ EXCEPT !.release = Null] ELSE Absent]
  /\ UNCHANGED <<tables, eraser, data, ghosts>>

NamespaceOf(mode) == IF mode = "draft" THEN "draft" ELSE "live"

\* The document is committed.
Write(q) ==
  /\ request[q] # Absent /\ request[q].release = Null
  /\ LET s == request[q].site
     IN  data' = [data EXCEPT ![s][NamespaceOf(request[q].mode)] = @ \cup {epoch[s]}]
  /\ request' = [request EXCEPT ![q] = Absent]
  /\ UNCHANGED <<tables, eraser, ghosts>>

\* The request is refused, or its client is gone.
Abandon(q) ==
  /\ request[q] # Absent
  /\ request' = [request EXCEPT ![q] = Absent]
  /\ UNCHANGED <<tables, eraser, data, ghosts>>

\* The process is killed and started again: handlers are gone, tables stay.
Crash ==
  /\ request' = [q \in Requests |-> Absent]
  /\ eraser' = [h \in Erasers |-> Absent]
  /\ UNCHANGED <<tables, data, ghosts>>

-----------------------------------------------------------------------------
Next ==
  \/ \E s \in Sites :
       \/ \E bytes \in Sizes : Upload(s, bytes)
       \/ \E r \in stored : Publish(s, r) \/ DeleteRelease(s, r)
       \/ \E enabled \in BOOLEAN : SetEnabled(s, enabled)
       \/ \E h \in Erasers : PurgeContent(h, s)
       \/ \E p \in Previews : GrantPreview(p, s)
       \/ \E q \in Requests : ResolvePublic(q, s)
  \/ \E h \in Erasers : PurgeNamespace(h) \/ PurgeFailed(h)
  \/ \E p \in Previews :
       \/ ExchangePreview(p) \/ Expire(p)
       \/ \E q \in Requests, view \in {"draft", "current"} : ResolvePreview(q, p, view)
  \/ \E q \in Requests : Bind(q) \/ Write(q) \/ Abandon(q)
  \/ Crash

Spec == Init /\ [][Next]_vars

-----------------------------------------------------------------------------
\* Properties

UploadRow == [site : Sites, version : Nat \ {0}, bytes : Sizes]
SiteRow == [enabled : BOOLEAN, draft : Nat, published : Nat, nextVersion : Nat \ {0}]
PreviewRow == [site : Sites, kind : {"grant", "session"}, epoch : Nat]
RequestRow ==
  [site : Sites, release : Nat, mode : {"live", "draft", "live-preview"}]
EraserRow == [site : Sites, next : Namespaces, epoch : Nat]

\* What stands for no row is no row.
ASSUME AbsentAssumption ==
  Absent \notin PreviewRow /\ Absent \notin RequestRow /\ Absent \notin EraserRow

\* Rows have the types of their columns, and the draft of a site is not the release
\* that is published, which the table demands (CHECK of migration 8).
SitesTypeOK ==
  /\ uploads \in Seq(UploadRow) /\ stored \subseteq DOMAIN uploads
  /\ site \in [Sites -> SiteRow]
  /\ \A s \in Sites : site[s].draft = Null \/ site[s].draft # site[s].published
  /\ preview \in [Previews -> PreviewRow \cup {Absent}]
  /\ request \in [Requests -> RequestRow \cup {Absent}]
  /\ eraser \in [Erasers -> EraserRow \cup {Absent}]
  /\ data \in [Sites -> [Namespaces -> SUBSET Nat]]
  /\ epoch \in [Sites -> Nat] /\ erased \in [Sites -> Nat]

\* A site shows and previews releases that are stored and are its own, through
\* uploads, publications of older releases, deletions and erasures: the foreign
\* keys of the pointers (ON DELETE RESTRICT) never have to refuse anything.
SelectedStored ==
  \A s \in Sites : {site[s].draft, site[s].published} \ {Null} \subseteq Releases(s)

\* The limits hold of the tables (docs/hosting.md: counting, size checks, file
\* insertion and draft selection are one transaction).
WithinSiteLimits ==
  /\ \A s \in Sites : Cardinality(Releases(s)) <= MaxReleasesPerSite
  /\ BytesOf(stored) <= MaxStorageBytesPerUser

\* No two releases a site has ever had share a version, whatever has been deleted
\* or erased in between (docs/hosting.md: version numbers remain monotonic after
\* deletion).
VersionsNew ==
  \A r1, r2 \in DOMAIN uploads :
    r1 # r2 /\ uploads[r1].site = uploads[r2].site => uploads[r1].version # uploads[r2].version

\* Every grant and session was issued after the last erasure of its site: one of
\* before cannot come back to life when the site gets a new draft.
PreviewsEnd ==
  \A p \in Previews : preview[p] # Absent => preview[p].epoch = epoch[preview[p].site]

\* When an erasure has been reported complete, no document is left that was
\* written before the site was taken offline, although other erasures fail, crash,
\* or run at the same time.  (Documents of a request that was bound before and
\* wrote later may be there.)
ErasedWhenReported ==
  \A s \in Sites, n \in Namespaces : \A e \in data[s][n] : e >= erased[s]

\* Live documents come from public requests only: a preview never writes them, not
\* when it shows the current release, nor when that is published, replaced or erased
\* while the request is served (docs/hosting.md: a Current selection reads live data
\* with a server-side mutation restriction).
LiveFromPublic ==
  [][\A s \in Sites : ~(data'[s]["live"] \subseteq data[s]["live"]) =>
       \E q \in Requests :
         /\ request[q] # Absent /\ request'[q] = Absent
         /\ request[q].site = s /\ request[q].mode = "live"]_vars
=============================================================================
