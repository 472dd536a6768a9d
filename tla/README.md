# Wispdeck: a verification development

Wispdeck (`src/`) is a self-hosted home for short links and small web sites. A
hosted site can use *Wispist*, a document store with live collections. This
directory holds TLA+ models of Wispdeck's stateful parts, the TLC configurations
that check them, and TLAPS proofs of the facts that matter most.

    tlc -workers 2 -config MCWispistStore.cfg MCWispistStore     # one run of the table below
    tlapm WispistStoreProof.tla                                  # the proofs

`PROJECT.json` lists the components, the runs, the source lines each definition
stands for, the hazards of the code with the properties that cover them, and the
disagreements between code and documents the runs exhibit.

## 1. The system

One process (`cmd/wispdeck serve`) answers HTTP for the control application
(`internal/web`) and for the sites. It keeps a control database (SQLite, one
connection), one SQLite file per site for Wispist, and a key file. Every
connection pool has size one, so each store method that opens a transaction runs
alone; what interleaves are the steps *between* transactions, the in-memory
structures, and crashes between durable steps.

| Component | State | Operations | Hard behaviour | What makes it correct |
|---|---|---|---|---|
| Wispist document store (`wispist/sqlite/store.go`, `admin.go`) | documents, change log, idempotency records, sequence | create, put, delete, list, changes, clear, purge | pruning by age and number while cursors point into the log; retries; paged lists over a changing table; limits shared by collections | an accepted cursor never misses a change; a retry creates nothing; pages are stable; limits hold of the state |
| Live changes (`wispist/hub.go`, `sse.go`, `client/v1.js`) | hub subscriptions and queues, stream positions; the browser's replica and cursor | subscribe, publish, reset, read the log, send, reconnect, list again | publication after the commit; read/subscribe race; full queue; restart; purge | a replica never lacks what lies behind its cursor; it converges |
| Wispist handlers and engine (`wispist/http.go`, `engine.go`, `management.go`, declarations) | the loaded declaration of a release | parse, authorize, mutate, publish | authorization against a document read before the transaction | who may write what |
| Request limiter (`wispist/limit.go`) | token buckets, stream slots | charge, acquire, prune | all-or-nothing over five buckets, bounded bucket table | no bucket charged by a refused request; a slot released once (not modelled, section 6) |
| Store factory (`wispist/sqlite/factory.go`) | cache of open stores, references | open, wait, release, evict, close | opening outside the lock, cancellation, closing meanwhile | no store in use is closed, none is open twice |
| Update activation (`internal/updater/activate.go`) | executable, staged executable, recovery marker | activate, begin, confirm, roll back | a crash between any two durable steps; failing steps; a version that never comes up | a whole installation is opened, by a version that understands it; some version comes to serve |
| Backup and restore (`internal/installation`) | backup archive, installation lock, targets moved aside | create, verify, restore, revert | a crash between two renames | all of one backup or all of the prior state |
| Command line (`cmd/wispdeck`) | the order of startup, probe, confirmation, shutdown | serve, administration commands | recovery before the state is opened | see activation |
| Update manager (`internal/updater/manager.go`, client, manifest, cleanup) | settings, latest release, pending application | check, apply, change settings | loop against handlers, bounded channels, a policy row that travels with the database | the manager is never stuck or doubled, the policy survives, a wanted release is installed |
| Public names, short links (`internal/store/public_names.go`, `shortlinks.go`, `internal/shortlink`) | names, links, visit counters | claim, retire, reclaim, resolve, flush | names shared by links and sites; counted visits put back after a failed flush | a name means one thing for ever; visits neither lost nor doubled |
| Sites, releases, previews (`internal/store/sites.go`, `internal/site`) | sites, releases, published and draft pointers, grants | upload, publish, roll back, delete, purge, exchange | deletion against publication and preview | what is served exists; a grant is used once |
| Accounts (`internal/auth`, `internal/store/users.go`, `mfa.go`, `totp.go`) | users, sessions, setup tokens, factors, ceremonies | set up, log in, change, reset, revoke | checks made outside the transaction that acts on them | the last superuser and the last factor stay; a proof is used once; a session claims only what its account has |
| Login limiter (`internal/limit`) | windows by address and user name | allow, record | bounded maps | a full window is not forgotten early (not modelled, section 6) |
| Control database (`migrate.go`, `maintenance.go`) | schema version, settings | migrate, prune | one transaction each | |
| Web application and hosting (`internal/web`) | none of its own | routing, forms, templates | | |
| Branding, build information, key, passwords, tokens, assets | none, or one row | | | |

Interaction: a mutation handler calls the store, then the hub; a stream handler
subscribes to the hub, then reads the store, then drains its queue into the
response; the browser client lists by pages, follows a stream, and goes back to
either after an event or an error. Handlers reach the store of a site through
the factory, which several requests share. `serve` consults the recovery marker
before it opens any state and confirms an update only after its own health probe.

## 2. Modules

| Module | Models | Composes |
|---|---|---|
| `WispistStore` | one namespace: every committing method of the store as one action | |
| `WispistLive` | handlers, hub, stream handler, browser client, restarts | extends `WispistStore` |
| `LogFollowers` | what a live collection promises: a growing log and followers with a view and a place | refined by `WispistLive` |
| `SerialWriters` | `WispistLive` with handlers that publish what they committed before another commits | extends `WispistLive` |
| `WispistLiveProof` | proofs about the two and the refinement of `LogFollowers` | extends `SerialWriters` and `WispistStoreProof` |
| `StoreFactory` | the cache of open stores: a critical section or one step outside the lock per action | |
| `StoreLeases` | what the factory promises: stores that are claimed, connected, lent and given back | refined by `StoreFactory` |
| `StoreFactoryProof` | proofs about `StoreFactory` and its refinement | extends it |
| `Update` | activation, startup, confirmation, rollback with its restore, one durable step per action | |
| `AtomicUpdate` | what an update promises: one trial of the new version, then it is settled on or all of the old one comes back | refined by `Update` |
| `Sums` | lemmas about byte totals of finite sets of rows | |
| `WispistStoreProof` | proofs about `WispistStore` | extends it and `Sums` |
| `PublicNames` | names, links and sites: one committed transaction per action | |
| `ShortLinks` | visits: requests, the counter, flushes, lists, shutdown and crash | extends `PublicNames` and implements it |
| `ShortLinksProof` | proofs about the two | extends them |
| `SiteReleases` | releases, previews and the erasure of an owner's sites, and requests that write site data | |
| `SiteReleasesProof` | proofs about `SiteReleases` | extends it and `Sums` |
| `UpdateManager` | the manager's loop, the handlers of the policy, the hand-over of a release, and the policy row through backup and restore | extends `Update` |
| `UpdateProof` | proofs about the two | extends them |
| `AuthStore` | the tables of users, setup links, sessions and factors: one operator per transaction | |
| `Accounts` | sign-ins, onboarding, management of users and factors as requests of several steps; local commands, restarts | extends `AuthStore` |
| `AccountsProof` | proofs about `Accounts` | extends it |
| `MCWispistStore`, `MCWispistLive`, `MCShortLinks`, `MCSiteReleases`, `MCAccounts` | small instances | |
| `MCTwoHandlers` | bounds for handlers that write in turn and for handlers that overlap | extends `SerialWriters` and `MCWispistLive` |

`WispistStore`. Document data are a byte length and a revision; a revision is
drawn once and stands for the content. `documents`, `createdSequence`,
`lastSequence`, `changes`, `idempotency` are the tables; `clock` is wall-clock
time, and an action takes the reading `now` its handler made before the
transaction, up to `Skew` ticks ago. A refused transaction is rolled back and
changes nothing, so it is a disabled action; the replay of a create is an action
because it gives an answer. `history` (documents after each change) and
`answers` (201 answers given) are auxiliary: no guard reads them.

`WispistLive`. `Commit(h)` is a handler's transaction, `Publish(h)` its later call
of the hub for one event, outside any lock. `queue`, `registered` are the hub's
subscription, `position` the stream handler's `lastSequence`, `mode`, `paging`,
`replica`, `cursor` the client. What is on the wire is not separate state: an
event counts as sent when the client has applied it, and a broken connection
(`Disconnect`), between two pages as well, or a restart takes away what was not. A stream
that reads its backlog is reset by any error of a later page (`ResetExpired`): the cursor
may have expired, or a purge have left it beyond the sequence.

`StoreFactory`. An entry's ready channel and error are what waiters hold on to
after a failed entry has left the cache; here the error is handed to them
when the channel is closed (`Wake`). Of the idle entries any may be the oldest,
and any set may have been idle long enough to be pruned.

`Update`. Each file is its content's version. `pc` names the next durable step;
`Fail` is that step ending in an error and `Crash` the process being killed before
it. `Revert` (putting the prior state back after a failed restore) is one step,
and is the only sequence of renames that is not taken apart. When the last target is in
its place, `Install` may still end in an error: of the first sync, which puts the prior
state back, or of what comes after it, which leaves the restored state behind an updated
executable. A new version is `healthy` or not, which it is at every start. `Serving` begins
at the probe: the listener is up before the probe and the confirmation, so a version on
trial has visitors, whose writes a rollback takes away.

`PublicNames`. `names`, `links`, `sites` are the tables; a row that is not there is
`Absent`. `Claim` is `claimPublicName` inside the transaction of `CreateLink` or
`CreateSite`, each of which asks its quota where the code does: the sites before the
claim, the names of links after it and only when the name is a new one. The
unique indexes on live slugs and on site names are no guards: `OneMeaning` says
that they never have anything to refuse.

`ShortLinks`. A request is between `Resolve` (one read of the database) and `Record`
(the counter, under its mutex), so its link may be retired and its name be given away in
between. `FlushVisits` is `Drain`, outside the database, and then `FlushDone` or
`FlushFailed`; the mutex around it is the guard `~flushing`. Buckets are drained from a Go
map, so a counter that has filled meanwhile takes back any of them until it is full
(`Restorable`). A list is its read of the totals (`ListTotals`) and its later look at the
counter (`ListPending`). `phase` follows the end of `serve`: the server is shut down, the
flusher stopped, the last flush made. `visited` and `dropped` are auxiliary.

`SiteReleases`. A release's ID is its place in `uploads`, which keeps the rows of deleted
ones; `stored` are the IDs in `site_releases`. A preview is one row, a grant first and a
session after `ExchangePreview`. A request is what it has read: `ResolvePublic` or
`ResolvePreview` reads the site (or session) and chooses release and mode, `Bind` reads the
declaration of that release, which may be gone, and `Write` commits a document after
the body has been read. `PurgeContent` and two `PurgeNamespace` steps are `purgeSite`; each
of the latter may end in `PurgeFailed`. A document of the site's Wispist store is known by
the erasure epoch in which it was written, and `erased` is the last epoch whose handler
reported success.

`UpdateManager`. `loop` is where the goroutine of `Manager.Run` is: idle, waiting for the
release source, deciding about what it found, or staging a candidate; it holds no lock
while it waits, so `settings` and `latest` may change under it. `handler` is the request that
holds `policyMu`: `Save` is its transaction (or its failure), `Adopt` the manager's copy
afterwards. `actions` and `applyRequests` are the two bounded channels. The loop runs while
the process is `Serving`, the probe and the confirmation included.
`policy` is the row `update_settings` in each of the three places the database can be: in
use, in the backup, moved aside. It follows `Update`'s own steps (`PolicyFollows`); what a
process knew is gone when it ends (`MemoryFollows`). Releases are numbers, the running version
is 0, and a failing request to the release source is one of `Update`'s faults. `agreed`
(the policy a confirmed server last stored) and `confirmed` are auxiliary: no guard
reads them.

`AuthStore` and `Accounts`. The tables are sets of rows, or functions from users for columns.
A request is what it has read so far: `at` says how far it has come, and `user`, `token`,
`role` and `assurance` are what it has in hand, all of which may be stale when it writes.
Password sign-in is four steps (`VerifyCredentials`, `CountPasskeys`, `CheckTOTP`, then
`StartSecondFactor` or `NewSession`), a passkey sign-in five, every form of a signed-in user
two (`Authenticate`, then the transaction of the form). A TOTP code is matched with the secret
that was read (`MatchTOTP`) and consumed in a later transaction (`VerifyLogin`), which compares the
counter with the row's and not the secret; between the two the authenticator may be removed
and another be enrolled (`Authenticators` are the secrets). A refused transaction is a disabled
action, and `Abandon` ends the request. Tokens are random: a new one is none that a row
or a request holds. `Maintain` deletes one row that has expired; it may do so at any
time, as the reads of the code refuse such rows already. The local commands
hold the installation lock, so they run while the server is stopped (`Stopped`). `redeemed`
is auxiliary: it counts how often each code was accepted that the authenticator or the batch
in force produces, and starts anew with a new one. A code of another secret lets its user in
without being one of those; section 6 says what that means.

Definitions called "Broken variant" are not part of any specification. Each is a
plausible bug in the definition after it and shows that the property it is paired
with in `PROJECT.json` can fail.

## 3. Runs

| Run | Question | Answer |
|---|---|---|
| `store` | two collections of two slots, two idempotency keys, log of two entries, one record, three bytes, clock in 0..2 and retention of one tick | `Resumable`, `WithinLimits`, `RetriesAnswerTheSame`, `ListStable` hold |
| `skewed_store` | the same with readings one tick old | `Resumable` fails (section 5) |
| `live` | two handlers, page and queue of one, log of two entries; behaviours in which they write in turn (`serial`), with two faults, and behaviours in which they overlap and may purge, with one fault | `OneWriterCurrent`, `OneWriterConverges` and the refinement `OneWriterFollowsLog` hold of the first, `NothingLost` and `PurgeReachesStreams` of both |
| `two_writers` | two handlers publishing without order | `ReplicaCurrent` fails |
| `purge_relist` | a purge while the connection is down | `Converges` fails |
| `factory` | three requests, three stores, room for two | `InUseOpen`, `HandlesBounded`, `CreateNeverNotFound`, `WaitersWoken`, `ClosesDown` and the refinement `LendsStores` hold |
| `names` | two owners, two names, three links, two sites, one request, two buckets, three visits | `OneMeaning`, `NamesPermanent`, `WithinQuota`, `VisitsAccounted`, `LossExplained`, `ListedIsReal` hold |
| `sites` | two sites, four uploads and erasures, two erasing handlers, one preview, one request, two releases per site and two bundles per owner | `SelectedStored`, `WithinSiteLimits`, `VersionsNew`, `PreviewsEnd`, `ErasedWhenReported`, `LiveFromPublic` hold |
| `update` | two releases, two attempts, two policy changes, a channel of one action, one crash or failing step anywhere | `OpensWhole`, `WayBack`, `ConfirmedStays`, the refinement `UpdatesAtomically`, `SettlesWithKey`, `OneWorker`, `PolicyStands`, `AutomaticInstalls` hold |
| `accounts` | two requests; one instance with two users and no factors (`administration`), one with a user, a passkey, two authenticators with two counters and one recovery code (`factors`) | `SuperuserKept`, `AssuranceStands`, `CodesComeWithFactors`, `ProofsSpentOnce`, `LastFactorKept` hold |
| `two_crashes` | activation alone, two faults | `OpensWhole` fails |
| `lost_key` | activation alone, one crash during the restore of a rollback | `Settles` fails |

The type invariants are proved for every instance (section 4), and no run repeats them.

Bounds. `MaxSequence`, `MaxRevision`, `MaxClock`, `MaxFaults`, `MaxPurges`,
`MaxUpdates`,
`MaxReleases`, `MaxChanges` only cut behaviours off; the others are the code's own limits made
small so that they are reached: every limit is met and exceeded by a further
request, the log is pruned by age and by number, a clear is longer than the log
keeps, a list and a backlog take several pages, a queue overflows, the cache is
full of stores in use, an expired key is used again. Client and store need one
watched collection and one other, since collections interact only through
the sequence, the log and the byte limit. In `live`, both handlers write in the behaviours
that are `serial`, but none commits while the other has something to publish, because that is
exactly what `two_writers` shows to fail, and there is no purge because of `purge_relist`;
what they show beyond these is that nothing *else* breaks the stream. The behaviours that are
not `serial` have one fault, which may be a connection that breaks before, in or after a purge.
`PurgeReachesStreams` speaks of streams that page their backlog and of live ones, and of such a
purge until that fault happens: a client that is cut off before its reset is the one of
`purge_relist`, which never lists. `update` has one fault because two are what `two_crashes` shows to fail,
two releases so that one is offered while another is skipped, staged or running, and two
policy changes so that one is saved while a check or an application acts on the other.
`names` has two names, so that owners compete for them and one can be retired and
reused while the other stands, three links, so that a tombstone is reused twice or
for a site, limits of one, and a counter of two buckets for three visits of three links,
so that it fills up while a flush is under way. One request at a time is enough there:
requests meet only in the counter, and `Record` is one critical section.
Its owners, names, links and sites are alike, and symmetry is used; no liveness is
checked in that run.
`sites` has two sites because the storage limit is the owner's: two releases of one and one of
the other exceed it. Four uploads and erasures together are enough to delete the highest
version and upload again, to erase, use and erase a site again, and to have two erasures
of it under way. Previews and requests do not meet each other except through the site.
Sites and erasing handlers are alike.
`accounts` takes two users apart from the second factors: users meet only in
`AnotherActiveSuperuser`, which reads no factor. Two requests are enough for each race the
code has to settle (two sign-ins with one code, two demotions, two deletions of a factor,
a sign-in against a reset); two session tokens and two sign-in tokens allow one of each
to be stale. One passkey name, one authenticator and one code are the fewest with which a
factor can be the last one in either of two ways; a second authenticator is what a code
matched with the first may meet. At most one ceremony and one enrolment
are under way (`MaxUnderWay`), which a session or sign-in has per kind anyway. Tokens and
requests are alike, and symmetry is used. The proofs of section 4 have no such bounds.
The factory's bound of 32 is two and idle time is left out, which allows more
evictions than the code makes, not fewer.

Deadlock. The store can always purge and a process always crash or start, so `store`,
`names` and `sites` check deadlock; `factory` and the others state `CHECK_DEADLOCK FALSE` where the
bounds let the system come to rest (nothing left to mutate, everything closed, a
confirmed update serving, in `accounts` every token in use).

Fairness. `live`: a handler that committed goes on to publish (`WF` of `Publish(h)`),
and a connected client and the goroutine of its stream go on (`WF` of `ClientStep`);
no mutation, purge, fault or restart is ever owed. `factory`: a request that is being
served goes on and releases its store (the lease is closed by a deferred call); no
request has to arrive, be cancelled, and nobody has to close the factory.
`update`: a running process goes on and the service manager restarts one that
exited, as `docs/operations.md` asks; the loop's ticker ticks, its channel is read, the
release source answers or fails (the client has a timeout), the server takes the request it
was handed, and a handler that holds `policyMu` finishes. No policy change, question or
release is owed: `AutomaticInstalls` supposes that the policy wants the release for good.

## 4. Proofs

`WispistStoreProof` proves of `WispistStore`, for every set of collections, IDs and
keys, every limit, retention period and bound (assumption `StoreAssumption`):

- `StoreTypeCorrect`: `StoreTypeOK` is inductive as it stands. It is what gives
  the arithmetic of the other proofs its types, and says that no row or log entry
  refers beyond the sequence.
- `ResumableWithoutSkew`: `Resumable`, if `Skew = 0`. Not inductive: whether the
  next pruning cuts the log at one place depends on the times in it. `LogInv` adds
  that the log is a suffix of the sequence along which times do not decrease and
  that none lies ahead of the clock. With skew the theorem is false (`skewed_store`),
  so the assumption is the code's missing one and not a convenience.
- `RetriesWithoutSkew`: `RetriesAnswerTheSame`, if `Skew = 0`. `RetryInv` adds that
  as long as the window of a first answer lasts, the record is there, names the
  same revision and has the expiry of that answer.
- `LimitsHold`: `WithinLimits` for any skew. A transaction compares a sum over the rows it
  finds with a limit; that the sum *after* it keeps the limit takes what one more row, one
  row fewer or another size of a row do to a sum (`WrittenNew`, `WrittenOver`, `Removed`).
  `LimitsInv` adds that the records of idempotency keys are finitely many, without which
  their number says nothing. A create counts the records in force, and what it leaves is at
  most those and its own.
- `ListPagesStable`: `ListStable` for any skew. `ListInv` adds that a stored
  document did not exist right before its `createdSequence` and has existed at every
  number since.

`Sums` proves the facts about totals which `LimitsHold` and `SitesStayWithinLimits` need. The
models write a total with the community modules' `MapThenSumSet`, which adds along a choice
of one element after the other, by a recursive function on the subsets (`SumsUp`). That there
is such a function (`SumsExist`), that its values are numbers (`SumsType`) and do not depend
on which element is taken first (`SumsRemove`), and that a part weighs no more than the whole
(`TotalOfPart`) calls for an induction, which is out of reach as a rule over operators; here
it is carried out for these sums by taking the smallest set for which the fact would fail
(`LeastOf`, `SmallestOf`), removing one element of it, and finding that it does not fail.

Each proof has one lemma per action and per invariant, and lemmas about the
operators (`Retained` keeps a suffix of a suffix, `Extended` adds behind the log).
The invariants do not depend on `MaxSequence`, `MaxRevision`, `MaxClock`.

`WispistLiveProof` proves of `WispistLive`, for any handlers, clients, collections, page
and queue sizes, faults and purges (`LiveAssumption`, `StoreAssumption`):

- `LiveTypeCorrect`: `LiveTypeOK`. It needs that each number of the sequence changed one
  document (`Stepwise`), so that `ChangeEvent` names it, and that a drawn revision is new.
- `NothingIsLost`: `NothingLost`. It is inductive given the types: a commit leaves the
  events of earlier numbers as they were and puts its own with its handler, a publication
  moves the first of them into the channel or drops the subscriber, and an event that is
  taken lies behind the place of the stream from then on.

The other half supposes that handlers do not overlap: `OneAtATime` says that at most one of
them has something to publish and nothing was purged. It is a hypothesis on the behaviour
and not on the constants, so there may be any number of handlers, which write in turn
(`two_writers` shows that it cannot be dropped, and a purge leaves cursors beyond the
sequence):

- `ClientsStayCurrent`: `Spec /\ []OneAtATime => []ReplicaCurrent`.
- `ClientsFollowTheLog`: `Spec /\ []OneAtATime => FollowsLog`, the refinement of
  `LogFollowers`.
- `OneWriterStaysCurrent` and `OneWriterIsFollowed`: the properties `OneWriterCurrent` and
  `OneWriterFollowsLog` of `SerialSpec`, which the run `live` checks.

`OneWriterInv` adds to the above what waits with the handler (the last numbers, in order),
what a channel holds (published numbers in increasing order, and none missing between the
place of a live stream and any of them, also once the hub has dropped it), where the
cursor, the place and the watermark lie to each other, and what the pages read so far
cover: a watched document is the one found, as of some moment since the watermark, or is
still stored behind the last page. The log part of the invariant of `WispistStoreProof`
says that no change is missing from the page of an accepted cursor, and its list part that
what was stored all along is not skipped. A change to one document is then carried over
the numbers that did not touch it by taking the least number that would contradict it,
which takes the place of an induction.

`StoreFactoryProof` proves the safety properties of `StoreFactory`, for any
requests, keys and `MaxOpen` (assumption `FactoryAssumption`): `FactoryTypeCorrect`,
`UsedStoresOpen`, `HandlesUnique`, `OpenBounded` and `CreateFinds`. None is inductive
alone; one invariant, `FactoryInv`, carries all: an entry's count is the number of
requests at it (so an idle one has none), where a request is tells the state of its
entry, one request opens an entry, and a handle belongs to a ready entry or to the
request that has just opened it. A step of one request is then harmless to the others
because they hold other keys or are counted.

`StoresAreLent` is `Spec => LendsStores`: the factory implements `StoreLeases`, in which there
is no cache, only requests that claim a store, connect it, use it and leave. The map takes
a reference for a claim. Beside `FactoryInv` it needs `HandlesBounded` of the next state, and
`NoneIdle`: a closed factory has no idle store, because `Close` closes all there are and the
last reference closes its own. That is what makes the store a request leaves behind exactly
the set of stores nobody claims, also while others are still being opened.

`ShortLinksProof` first proves of `PublicNames`, for any users, names, IDs and limits
(`NamesAssumption`; `AbsentAssumption` says that the value for no row is no row):

- `NamesMeanOne`: `OneMeaning`. It is inductive together with `NamesTypeOK`
  (`NamesInv`) because it states both directions: every live resource has its name, and
  every name its resource. `ClaimFree` is the heart: a name that may be claimed is one
  that nothing live answers to. It follows that the two unique indexes never refuse.
- `NamesStay`: the action property `NamesPermanent`, from `NamesInv` and `ClaimFree`.
- `QuotaHolds`: `WithinQuota`; a step makes the set of names of at most one owner larger,
  and that owner's quota is asked in the step.

It then proves of `ShortLinks`, for any requests, links and bounds (`VisitsAssumption`),
from one invariant, `VisitInv`:

- `VisitsAreAccounted` and `ListsAreReal`; the second needs that a list in progress has
  read no more than is stored *now*, which is at least what was stored then.
- `LossIsExplained`: `LossExplained`. It needs that no request is left once the last
  flush is due, and that the counter is empty after one that succeeded (`EndOrdered`,
  `LastEmpty`); for a failed flush, that what was put back filled the counter.
- `LinksTypeCorrect`: the types and the bound of the counter.
- `LinksUseNames`: `Spec => NamesSpec`, so what is proved of `NamesSpec` holds of it.

`SiteReleasesProof` proves every property of `SiteReleases`, for any sites,
previews, handlers, sizes and limits (`SitesAssumption`, `AbsentAssumption`). The invariant
has three parts that most steps disturb one at a time:

- `TablesInv` gives `PointersAreStored` and `VersionsAreNew`; that a version is new needs
  that all versions a site has given lie below its `nextVersion`, deleted ones included.
- `PreviewsInv` gives `PreviewsHaveEnded`.
- `HandlersInv` gives `ErasureIsComplete`: an erasure that has gone on to the draft data
  has removed all live data older than itself (`ErasedSoFar`), and writes are never older
  than an erasure under way, because the site's own transaction comes first.
- `SitesStayWithinLimits`: `WithinSiteLimits`. Beside the types it needs only that the set of
  stored releases is finite (`StoredFinite`): an upload adds to the bytes of the whole owner
  what it asked for, and whatever deletes leaves a part of each site's releases
  (`FewerReleases`), whose total is no larger.
- `LiveIsFromPublic` adds that a request which has been bound may write (`BoundMayWrite`).

`AccountsProof` proves every property of `Accounts`, for any users, tokens, names,
counters, codes and requests (`CountersAssumption`: time steps are positive, as the row that
stands for no authenticator has the counter 0; `CodesAssumption`: a batch has at least one code).
Transactions are proved once, as lemmas about the operators of `AuthStore`; an action of
`Accounts` then cites its transaction's lemma and adds what happens to the request. The
invariant has four parts:

- `TypeInv` gives `AccountsTypeCorrect`.
- `UsersInv` gives `SuperuserIsKept`: the two transactions that could take the last active
  superuser look for another one in the transaction itself. It gives `SetupLinksWait`.
- `FactorsInv` gives `AssuranceIsTrue` and `CodesFollowFactors`. `AssuranceStands` alone is
  not inductive: a request that was granted a session or let in with one writes later, so
  the invariant says what such a request may still rely on (the account it belongs to, and
  what its assurance says of that account's factors), and that a user with factors
  has codes and the opt-out is over. Whoever takes the last factor away ends all requests,
  which is `LastFactorIsKept`.
- `ProofsInv` gives `ProofsAreSpent`: an accepted counter is at most the last used one of the
  row, an accepted code is marked as used, and a token is held by one row or one request.
  A request may consume a counter it matched with an authenticator that is gone. It can then
  only raise the counter of the row (`CounterAfter`), so it refuses codes of the new
  authenticator and never makes one good again.

`UpdateProof` proves of `Update`, for any number of updates and at most one fault
(`SingleFault`, `MaxFaults <= 1`): `UpdateTypeCorrect`, `WholeIsOpened`, `WayBackStays`, and
the temporal `ConfirmedIsKept`. The assumption cannot be dropped: with two faults
`OpensWhole` is false (`two_crashes`). None of the properties is inductive, as each
speaks of a few places of the process only; `Situation` says for every place what the disk is like:

- a version is installed and nothing is under way (`AtRest`), an update is prepared
  (`Ready`), the new version is on trial (`Trial`), the old executable is back over a state
  that may be half restored (`Half`), or a restore is under way (`Restored`, `Aside`);
- a half restored state comes with a fault that has been used up, which is why the next
  start gets through its rollback;
- a restore that fails before any other fault can put everything back (`Traced`).

A new version that opens the new state is on trial or confirmed, and `Confirmed` lasts.

`UpdatesAreAtomic` is `Spec => UpdatesAtomically`: all of it implements `AtomicUpdate`, in which
an update is applied, tried and then settled on or returned from. `Phase` says how far it is:
on trial while the new version serves unconfirmed, which it does from the moment the listener
is up; being applied before that, from the backup to the opening of the state by its one
counted start; returning while there is still a marker, or a rollback that has not removed it; settled otherwise. The abstract
specification lets the new version serve once per update, over the whole state it made; it
settles on a version only from a trial, and after a trial that was not settled on nobody
serves before the old version does, over the whole state of before. What visitors wrote
during such a trial is lost, and the specification says so by that state. The refinement
needs what `Situation` says of the state and executable at each place (`MappedNow`). With two
faults it is false, as `OpensWhole` is.

It also proves of `UpdateManager`, for any releases, policy changes, actions
and updates (`ManagerAssumption`):

- `OneWorkerOnly`: `OneWorker`, for any number of faults. What makes it inductive is that
  nothing is staged while a release waits for the server.
- `PolicyAlwaysStands`: `PolicyStands`, for at most one fault. `RowInv` says at each place of
  the process whether the agreed policy is the database's (`Stored`), the backup's
  (`Kept`), or both; a start that will roll back relies on the latter and any other one
  on the former. `CopyInv` adds that memory differs from the row only inside a handler.
- `ManagerTypeCorrect`, and `ManagedUpdatesAreSafe`, `ManagedUpdatesAreAtomic`: what is proved of the process
  alone holds beside the manager, whose steps are steps of `Update`, faults of
  the release source while it serves, or invisible to it (`ManagerStep`).

With these, every invariant, action property and refinement that a run checks is stated by a
theorem. Only model-checked is liveness, which is out of the prover's reach as it rests
on fairness and `ENABLED`: `OneWriterConverges`, `PurgeReachesStreams`, `WaitersWoken`,
`ClosesDown`, `SettlesWithKey`, `AutomaticInstalls`. The five violated properties of section 5
are counterexamples and have no proof; `ResumableWithoutSkew`, `OneWriterStaysCurrent` and
the theorems under `SingleFault` say what holds when their cause is excluded.

## 5. Where code and documents disagree

Each of the five has a run of its own and an entry in `PROJECT.json` with both quotes.

1. `two_writers`: two handlers may publish in the opposite order of their commits.
   The stream drops the older event as a duplicate (`sse.go:193`), and the client's
   cursor moves past a change it was never sent.
2. `purge_relist`: a client that is disconnected while a purge commits keeps a cursor
   beyond the new sequence, is refused with HTTP 400, and opens again with the same
   cursor instead of listing, until the sequence has grown past it.
3. `skewed_store`: `occurred_at` is read before the transaction, so it may decrease
   along the sequence; pruning by age then removes a change from the middle of the
   log, and the cursor check sees only the smallest number left.
4. `two_crashes`: a `prepared` marker with the old executable in place means "never
   exchanged" or "already rolled back, restore under way". After a crash in the second
   situation the old version opens a half-restored installation.
5. `lost_key`: startup checks the authentication key before the recovery marker; a
   crash between moving the key aside and installing the restored one makes
   every later start fail.

## 6. Not modelled, and why

- Formats, parsing, hashing, signatures, downloads, templates, routing: pure or I/O,
  without state that steps interleave on.
- Authorization of a change against its document (`canReadChange`): it decides per
  event from a document and a declaration that do not change during a stream.
- Snapshots and usage: they read one transaction's state.
- Archive contents and path validation in backup and restore; the `restore` command,
  whose steps are those of the rollback's restore without a marker.
- Of links: titles, destinations, expiry, the audit of what a superuser does for an
  owner, and the daily split of the statistics. One day stands for all; a bucket per
  link and day is a bucket.
- A shutdown that gives up on requests after ten seconds (`main.go:508`): a request that
  resolves a link is taken to be done by then. One that is not counts its visit after
  the last flush, and the visit is lost.
- Of sites: who asks, the audit rows, the account status of a viewer, the bundle's contents,
  and requests that only read.
- `docs/hosting.md:162` and the comment at `web/site_data.go:329` say that the erasure's first
  transaction keeps requests from writing into it. `SiteReleases` has the code's order: a request
  that resolved the site before that transaction and reads its body after it still
  writes, at worst after its namespace was purged. `ErasedWhenReported` therefore speaks of
  what was written before the erasure, and no property speaks of those late documents.
- `docs/security-model.md:174` says that publishing a draft invalidates its preview sessions.
  Their rows stay: they are refused while the site has no draft and are accepted again
  when it gets the next one, as `ResolvePreview` has it. An erasure deletes them (`PreviewsEnd`).
- `docs/authentication.md:77` says that a counter may never be reused. A sign-in may have matched its
  code when the authenticator is removed and another one enrolled with a smaller counter; it
  then consumes that counter on the new row, also if the old row had accepted the same code
  already. `Accounts` has these steps. `ProofsSpentOnce` speaks of the codes of the
  authenticator that is enrolled, and no property says of a code of one that is gone that it
  lets its user in at most once.
- `docs/security-model.md:214` says that a second factor is mandatory once one is enrolled. A
  sign-in that found none creates a bootstrap session also when one has been enrolled meanwhile;
  `AssuranceStands` says of bootstrap sessions only that their account is active.
- Of accounts: the ten minutes for which an authentication is recent, renaming a passkey,
  the tokens of ceremonies, enrolments and setup links (a request presents the one in force or is
  refused), names, e-mail, password hashes and their upgrade, the sign counter of a
  passkey, the audit.
- Of the update manager: what a release contains. Manifest, signature, comparison of versions,
  download and preflight end in success or failure; the cleanup of old backups and
  caches deletes only what nothing refers to.
- The request limiter and the login limiter: each call is one critical section over its own
  maps, no step of a request depends on what it did earlier, and what there is to say
  is arithmetic over real time (refill rates, windows). A model would restate it.

## 7. Plan

In this order, the most important behaviour first:

1. *Done*: `WispistStore` with its proofs; `WispistLive` and `LogFollowers`; `Update`;
   `StoreFactory` with its proofs; `PublicNames` and `ShortLinks` with their proofs;
   `SiteReleases` with its proofs.
2. *Done*: `AuthStore` and `Accounts` with their proofs; `UpdateManager` over `Update`, which the
   run `update` checks together, with the proofs of both.
3. *Done*: `WispistLiveProof`: `NothingLost` for any handlers, `ReplicaCurrent` and the
   refinement of `LogFollowers` for handlers that write in turn; `Sums` and the byte limits;
   `StoreLeases` and `AtomicUpdate` with the refinements of both.
4. The restore command as an action of `Update`.
5. `ResumableWithoutSkew` and `RetriesWithoutSkew` for behaviours whose transactions commit in the
   order of their readings, whatever `Skew` is, as `ClientsStayCurrent` has it of handlers; and a
   bound on the retention by age under which skew does no harm.
