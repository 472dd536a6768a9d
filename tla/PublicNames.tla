---------------------------- MODULE PublicNames ----------------------------
(***************************************************************************)
(* Public names, and the short links and sites they stand for              *)
(* (internal/store: public_names.go, shortlinks.go, CreateSite).           *)
(*                                                                         *)
(* A name is reserved for a link or for a site, in the transaction that    *)
(* creates it.  Retiring a link keeps its name as a tombstone: the same    *)
(* owner may reuse it, for a link or for a site, after confirming so.      *)
(*                                                                         *)
(* Each action is one committed transaction.  A refused one is rolled back *)
(* and is a disabled action.  IDs are random and never drawn twice.  Left  *)
(* out: who asks (an owner, or a superuser on an owner's behalf, with its  *)
(* audit row), the owner's account status, titles, destinations and        *)
(* expiry, which decide only whether a live link is shown.  The unique     *)
(* indexes on live slugs and on site names are not guards here either:     *)
(* OneMeaning says that they never have to refuse anything.                *)
(***************************************************************************)
EXTENDS Naturals, FiniteSets

CONSTANTS
  Users,             \* owners
  Names,             \* public names
  LinkIds,           \* IDs of short links
  SiteIds,           \* IDs of sites
  MaxLinksPerUser,   \* shortlink.Limits
  MaxSitesPerUser,   \* site.Limits
  Absent             \* no row

ASSUME NamesAssumption ==
  /\ IsFiniteSet(Names) /\ IsFiniteSet(SiteIds)
  /\ {MaxLinksPerUser, MaxSitesPerUser} \subseteq Nat \ {0}
  /\ LinkIds \cap SiteIds = {}

VARIABLES
  names,   \* public_names: name -> its row
  links,   \* short_links: ID -> its row, kept when the link is retired
  sites    \* sites: ID -> its owner and name

nameVars == <<names, links, sites>>

NameRow ==
  [owner : Users, kind : {"link"}, resource : LinkIds, retired : BOOLEAN]
    \cup [owner : Users, kind : {"site"}, resource : SiteIds, retired : BOOLEAN]
LinkRow == [owner : Users, slug : Names, enabled : BOOLEAN, retired : BOOLEAN]
SiteRow == [owner : Users, name : Names]

\* What stands for no row is no row.
ASSUME AbsentAssumption ==
  /\ Absent \notin NameRow /\ Absent \notin LinkRow /\ Absent \notin SiteRow

Live(l) == links[l] # Absent /\ ~links[l].retired

NamesInit ==
  /\ names = [n \in Names |-> Absent]
  /\ links = [l \in LinkIds |-> Absent]
  /\ sites = [s \in SiteIds |-> Absent]

-----------------------------------------------------------------------------
\* claimPublicName

\* Broken variant of Reclaimable: the owner of the tombstone is not compared.
ReclaimableByAnyone(n, u) ==
  /\ names[n] # Absent
  /\ names[n].kind = "link" /\ names[n].retired

\* A tombstone that its owner may use again.
Reclaimable(n, u) ==
  /\ names[n] # Absent
  /\ names[n].owner = u
  /\ names[n].kind = "link" /\ names[n].retired

\* Broken variant of Claim: a name that may be reused need not be retired.
ClaimInUse(n, u, kind, id, confirmed) ==
  /\ \/ names[n] = Absent
     \/ names[n] # Absent /\ names[n].owner = u /\ names[n].kind = "link" /\ confirmed
  /\ names' = [names EXCEPT ![n] =
       [owner |-> u, kind |-> kind, resource |-> id, retired |-> FALSE]]

\* The row is inserted, or a tombstone is given to the new resource.
Claim(n, u, kind, id, confirmed) ==
  /\ names[n] = Absent \/ (Reclaimable(n, u) /\ confirmed)
  /\ names' = [names EXCEPT ![n] =
       [owner |-> u, kind |-> kind, resource |-> id, retired |-> FALSE]]

-----------------------------------------------------------------------------
\* The transactions

\* Broken variant of NamesOfLinks: only the names of live links count.
NamesOfLiveLinks(table, u) ==
  {n \in Names : table[n] # Absent /\ table[n].owner = u /\ table[n].kind = "link"
                   /\ ~table[n].retired}

\* Names that are reserved for links of u, tombstones included.
NamesOfLinks(table, u) ==
  {n \in Names : table[n] # Absent /\ table[n].owner = u /\ table[n].kind = "link"}

SitesOf(table, u) == {s \in SiteIds : table[s] # Absent /\ table[s].owner = u}

\* CreateShortLink: the quota is asked of the table as the claim leaves it, and
\* only when the name is a new one.
CreateLink(u, n, l, confirmed) ==
  /\ links[l] = Absent
  /\ Claim(n, u, "link", l, confirmed)
  /\ names[n] = Absent => Cardinality(NamesOfLinks(names', u)) <= MaxLinksPerUser
  /\ links' = [links EXCEPT ![l] =
       [owner |-> u, slug |-> n, enabled |-> TRUE, retired |-> FALSE]]
  /\ UNCHANGED sites

CreateSite(u, n, s, confirmed) ==
  /\ sites[s] = Absent
  /\ Cardinality(SitesOf(sites, u)) < MaxSitesPerUser
  /\ Claim(n, u, "site", s, confirmed)
  /\ sites' = [sites EXCEPT ![s] = [owner |-> u, name |-> n]]
  /\ UNCHANGED links

\* SetShortLinkEnabled
SetLinkEnabled(l, enabled) ==
  /\ Live(l)
  /\ links' = [links EXCEPT ![l].enabled = enabled]
  /\ UNCHANGED <<names, sites>>

\* RetireShortLink: exactly one name in use has to be this link's.
RetireLink(l) ==
  /\ Live(l)
  /\ links' = [links EXCEPT ![l].enabled = FALSE, ![l].retired = TRUE]
  /\ \E n \in Names :
       /\ names[n] # Absent
       /\ names[n].kind = "link" /\ names[n].resource = l /\ ~names[n].retired
       /\ names' = [names EXCEPT ![n].retired = TRUE]
  /\ UNCHANGED sites

NamesNext ==
  \/ \E u \in Users, n \in Names, confirmed \in BOOLEAN :
       \/ \E l \in LinkIds : CreateLink(u, n, l, confirmed)
       \/ \E s \in SiteIds : CreateSite(u, n, s, confirmed)
  \/ \E l \in LinkIds :
       \/ \E enabled \in BOOLEAN : SetLinkEnabled(l, enabled)
       \/ RetireLink(l)

NamesSpec == NamesInit /\ [][NamesNext]_nameVars

-----------------------------------------------------------------------------
\* Properties

\* The tables hold rows of their columns; a retired link is not enabled, which
\* the table itself demands (CHECK of migration 14).
NamesTypeOK ==
  /\ names \in [Names -> NameRow \cup {Absent}]
  /\ links \in [LinkIds -> LinkRow \cup {Absent}]
  /\ sites \in [SiteIds -> SiteRow \cup {Absent}]
  /\ \A l \in LinkIds : links[l] # Absent => ~(links[l].retired /\ links[l].enabled)

\* A name means one thing.  Every live link and every site has its name, which
\* stands for it and for nothing else, and every name stands for a link or site of
\* its owner: through any number of retirements and reuses, no link and site, and no
\* two live links, ever answer to the same name (resolvePublicName asks the
\* sites first, then the links).
LinkNamed(l) ==
  Live(l) => names[links[l].slug] =
    [owner |-> links[l].owner, kind |-> "link", resource |-> l, retired |-> FALSE]
SiteNamed(s) ==
  sites[s] # Absent => names[sites[s].name] =
    [owner |-> sites[s].owner, kind |-> "site", resource |-> s, retired |-> FALSE]
NameStands(n) ==
  names[n] # Absent =>
    \/ /\ names[n].kind = "link"
       /\ links[names[n].resource] # Absent
       /\ links[names[n].resource].slug = n
       /\ links[names[n].resource].owner = names[n].owner
       /\ links[names[n].resource].retired = names[n].retired
    \/ /\ names[n].kind = "site"
       /\ sites[names[n].resource] = [owner |-> names[n].owner, name |-> n]

OneMeaning ==
  /\ \A l \in LinkIds : LinkNamed(l)
  /\ \A s \in SiteIds : SiteNamed(s)
  /\ \A n \in Names : NameStands(n)

\* A name stays with its owner for ever, and what it stands for changes only
\* when that was a link that has been retired (docs/hosting.md: a site's name is
\* reserved permanently; docs/security-model.md: a tombstone keeps an old URL from
\* being claimed by another user).
NameKept(n) ==
  names[n] # Absent =>
    /\ names'[n] # Absent
    /\ names'[n].owner = names[n].owner
    /\ names'[n].resource # names[n].resource => names[n].kind = "link" /\ names[n].retired
NamesPermanent == [][\A n \in Names : NameKept(n)]_nameVars

\* The limits hold of the tables, whatever is retired, reused or turned from
\* the name of a link into the name of a site (docs/hosting.md: requests cannot
\* overrun a limit).
WithinQuota ==
  \A u \in Users :
    /\ Cardinality(NamesOfLinks(names, u)) <= MaxLinksPerUser
    /\ Cardinality(SitesOf(sites, u)) <= MaxSitesPerUser
=============================================================================
