---------------------------- MODULE StoreFactory ----------------------------
(***************************************************************************)
(* The cache of open Wispist stores (wispist/sqlite, Factory).             *)
(*                                                                         *)
(* A request opens the store of its site by key, uses it and releases it.  *)
(* The factory keeps at most MaxOpen stores open, shares one among the     *)
(* requests that use it, and closes stores that are idle.  A store is      *)
(* opened OUTSIDE the factory's lock, while an entry without a store holds *)
(* its place: others that want the same store wait for the outcome.        *)
(*                                                                         *)
(* An action is one critical section, or one step outside the lock.  Time  *)
(* is left out: of the idle entries any may be the least recently used,    *)
(* and any may have been idle for long enough to be pruned.  So are files: *)
(* one that is opened without create may or may not exist.  An entry is    *)
(* named by its key while the cache holds it; one that failed has left the *)
(* cache, and all that is left of it is its error, with those who waited.  *)
(***************************************************************************)
EXTENDS Integers, FiniteSets

CONSTANTS
  Requests,      \* requests being served at the same time
  StoreKeys,     \* keys of stores
  MaxOpen        \* Factory.maxOpen

ASSUME FactoryAssumption ==
  /\ IsFiniteSet(Requests) /\ IsFiniteSet(StoreKeys) /\ StoreKeys # {}
  /\ MaxOpen \in Nat \ {0}

VARIABLES
  entry,      \* Factory.entries: key -> "none", "opening", or "ready" (store is set)
  refs,       \* key -> refs of its entry
  handles,    \* key -> how many times its database is open
  closed,     \* Factory.closed
  pc,         \* request -> what it is doing
  wants,      \* request -> the arguments of its Open
  outcome     \* request -> what the open ended with that it made or waited for

cache == <<entry, refs, handles, closed>>
vars == <<cache, pc, wants, outcome>>

Cached == {k \in StoreKeys : entry[k] # "none"}

\* Broken variant of Idle: a store in use counts as idle.
IdleOrNot == {k \in StoreKeys : entry[k] = "ready"}

\* Keys of the stores that are open and that no request refers to.
Idle == {k \in StoreKeys : entry[k] = "ready" /\ refs[k] = 0}

\* Broken variant of Full: there is room for one store more.
FullLate(cached) == Cardinality(cached) > MaxOpen

Full(cached) == Cardinality(cached) >= MaxOpen

\* Broken variant of Found: an entry that is still being opened is overlooked.
FoundReady(k) == entry[k] = "ready"

Found(k) == entry[k] # "none"

Nothing == [key |-> CHOOSE k \in StoreKeys : TRUE, create |-> FALSE]

Init ==
  /\ entry = [k \in StoreKeys |-> "none"]
  /\ refs = [k \in StoreKeys |-> 0]
  /\ handles = [k \in StoreKeys |-> 0]
  /\ closed = FALSE
  /\ pc = [p \in Requests |-> "idle"]
  /\ wants = [p \in Requests |-> Nothing]
  /\ outcome = [p \in Requests |-> "none"]

\* The entries of some keys leave the cache, their databases are closed.
EntriesWithout(gone) == [k \in StoreKeys |-> IF k \in gone THEN "none" ELSE entry[k]]
HandlesWithout(gone) == [k \in StoreKeys |-> IF k \in gone THEN handles[k] - 1 ELSE handles[k]]

\* Where a request is after its Open, or its use of a store, ended: the one
\* answer that is told apart is "no such store" to a create.
After(want, value) == IF value = "notfound" /\ want.create THEN "misled" ELSE "idle"

Return(p, want, value) ==
  /\ outcome' = [outcome EXCEPT ![p] = "none"]
  /\ pc' = [pc EXCEPT ![p] = After(want, value)]
  /\ wants' = [wants EXCEPT ![p] = Nothing]

---------------------------------------------------------------------------
\* Open, first critical section.

OpenClosed(p, want) ==
  /\ closed
  /\ Return(p, want, "error")
  /\ UNCHANGED cache

\* An entry exists: one more reference to it, whatever becomes of it.
OpenShared(p, want) ==
  /\ ~closed
  /\ Found(want.key)
  /\ \E pruned \in SUBSET (Idle \ {want.key}) :
       /\ entry' = EntriesWithout(pruned)
       /\ handles' = HandlesWithout(pruned)
  /\ refs' = [refs EXCEPT ![want.key] = @ + 1]
  /\ wants' = [wants EXCEPT ![p] = want]
  /\ pc' = [pc EXCEPT ![p] = "waiting"]
  /\ UNCHANGED <<closed, outcome>>

\* No entry exists, or it has just been pruned: a full cache evicts an idle
\* store, and an entry without a store takes its place.
OpenNew(p, want) ==
  /\ ~closed
  /\ \E pruned \in SUBSET Idle : \E evicted \in SUBSET (Idle \ pruned) :
       /\ ~Found(want.key) \/ want.key \in pruned
       /\ Cardinality(evicted) =
            IF Full(Cached \ pruned) /\ Idle \ pruned # {} THEN 1 ELSE 0
       /\ ~Full(Cached \ (pruned \cup evicted))
       /\ entry' = [EntriesWithout(pruned \cup evicted) EXCEPT ![want.key] = "opening"]
       /\ handles' = HandlesWithout(pruned \cup evicted)
  /\ refs' = [refs EXCEPT ![want.key] = 1]
  /\ wants' = [wants EXCEPT ![p] = want]
  /\ pc' = [pc EXCEPT ![p] = "opening"]
  /\ UNCHANGED <<closed, outcome>>

\* ErrStoreUnavailable: every store of a full cache is in use or being opened.
OpenRefused(p, want) ==
  /\ ~closed
  /\ ~Found(want.key)
  /\ Full(Cached) /\ Idle = {}
  /\ Return(p, want, "error")
  /\ UNCHANGED cache

Open(p, want) ==
  OpenClosed(p, want) \/ OpenShared(p, want) \/ OpenNew(p, want) \/ OpenRefused(p, want)

\* A request arrives.
Arrive(p) ==
  /\ pc[p] \in {"idle", "misled"}
  /\ \E k \in StoreKeys, create \in BOOLEAN : Open(p, [key |-> k, create |-> create])

---------------------------------------------------------------------------
\* Open, outside the lock and after it.

\* openStore: a create makes the file it does not find.  A failure after that,
\* or the end of the request's own context, closes the database again.
OpenStore(p) ==
  /\ pc[p] = "opening"
  /\ \/ /\ handles' = [handles EXCEPT ![wants[p].key] = @ + 1]
        /\ outcome' = [outcome EXCEPT ![p] = "ready"]
     \/ /\ ~wants[p].create
        /\ outcome' = [outcome EXCEPT ![p] = "notfound"]
        /\ UNCHANGED handles
     \/ /\ outcome' = [outcome EXCEPT ![p] = "error"]
        /\ UNCHANGED handles
  /\ pc' = [pc EXCEPT ![p] = "opened"]
  /\ UNCHANGED <<entry, refs, closed, wants>>

\* The store is set and the ready channel closed.  The factory may have been
\* closed meanwhile: the request gets its store all the same.
PublishStore(p) ==
  /\ pc[p] = "opened"
  /\ outcome[p] = "ready"
  /\ entry' = [entry EXCEPT ![wants[p].key] = "ready"]
  /\ pc' = [pc EXCEPT ![p] = "using"]
  /\ outcome' = [outcome EXCEPT ![p] = "none"]
  /\ UNCHANGED <<refs, handles, closed, wants>>

\* Requests that wait for the entry of key k.
Waiting(k) == {q \in Requests : pc[q] = "waiting" /\ wants[q].key = k}

\* Broken variant of Wake: the ready channel of a failed entry stays open.
WakeNobody(p) ==
  /\ outcome' = [outcome EXCEPT ![p] = "none"]
  /\ pc' = [pc EXCEPT ![p] = After(wants[p], outcome[p])]

\* Closing the ready channel hands the error to those who wait.
Wake(p) ==
  LET k == wants[p].key
  IN  /\ outcome' = [q \in Requests |-> IF q \in Waiting(k) THEN outcome[p]
                                        ELSE IF q = p THEN "none" ELSE outcome[q]]
      /\ pc' = [q \in Requests |-> IF q \in Waiting(k) THEN "failed"
                                   ELSE IF q # p THEN pc[q]
                                   ELSE After(wants[p], outcome[p])]

\* A failed entry is deleted, and with it every reference to it.
PublishFailure(p) ==
  LET k == wants[p].key
  IN  /\ pc[p] = "opened"
      /\ outcome[p] # "ready"
      /\ entry' = [entry EXCEPT ![k] = "none"]
      /\ refs' = [refs EXCEPT ![k] = 0]
      /\ Wake(p)
      /\ wants' = [wants EXCEPT ![p] = Nothing]
      /\ UNCHANGED <<handles, closed>>

---------------------------------------------------------------------------
\* Waiting, using, releasing.

\* Broken variant of Release: the last user of a closed factory leaves the
\* store open.
ReleaseOnly(k) ==
  /\ refs' = [refs EXCEPT ![k] = @ - 1]
  /\ UNCHANGED <<entry, handles>>

\* release: once the factory is closed, the last reference closes the store.
Release(k) ==
  LET gone == {j \in {k} : closed /\ refs[j] = 1 /\ entry[j] = "ready"}
  IN  /\ refs' = [refs EXCEPT ![k] = @ - 1]
      /\ entry' = EntriesWithout(gone)
      /\ handles' = HandlesWithout(gone)

WaitDone(p) ==
  /\ pc[p] = "waiting"
  /\ entry[wants[p].key] = "ready"
  /\ pc' = [pc EXCEPT ![p] = "using"]
  /\ UNCHANGED <<cache, wants, outcome>>

\* Broken variant of WaitFailed: the other request's error is passed on.
WaitFailedAlike(p) ==
  /\ pc[p] = "failed"
  /\ Return(p, wants[p], outcome[p])
  /\ UNCHANGED cache

\* The store could not be opened: a create that waited for a request that was
\* not one opens it again.
WaitFailed(p) ==
  /\ pc[p] = "failed"
  /\ IF wants[p].create /\ outcome[p] = "notfound"
     THEN Open(p, wants[p])
     ELSE Return(p, wants[p], outcome[p]) /\ UNCHANGED cache

\* The request's own context ends while it waits.
Cancel(p) ==
  /\ \/ pc[p] = "waiting" /\ Release(wants[p].key)
     \/ pc[p] = "failed" /\ UNCHANGED <<entry, refs, handles>>
  /\ Return(p, wants[p], "error")
  /\ UNCHANGED closed

\* storeLease.Close, which a handler defers.
CloseLease(p) ==
  /\ pc[p] = "using"
  /\ Release(wants[p].key)
  /\ Return(p, wants[p], "ready")
  /\ UNCHANGED closed

\* Factory.Close
Close ==
  /\ ~closed
  /\ closed' = TRUE
  /\ entry' = EntriesWithout(Idle)
  /\ handles' = HandlesWithout(Idle)
  /\ UNCHANGED <<refs, pc, wants, outcome>>

Step(p) ==
  \/ OpenStore(p) \/ PublishStore(p) \/ PublishFailure(p)
  \/ WaitDone(p) \/ WaitFailed(p) \/ CloseLease(p)

Next ==
  \/ \E p \in Requests : Arrive(p) \/ Step(p) \/ Cancel(p)
  \/ Close

Spec == Init /\ [][Next]_vars

\* A request that is being served goes on, and releases the store it uses;
\* nobody has to make one, to give up waiting, or to close the factory.
FairSpec == Spec /\ \A p \in Requests : WF_vars(Step(p))

---------------------------------------------------------------------------
\* Properties.

Places == {"idle", "misled", "opening", "opened", "waiting", "failed", "using"}

FactoryTypeOK ==
  /\ entry \in [StoreKeys -> {"none", "opening", "ready"}]
  /\ refs \in [StoreKeys -> 0..Cardinality(Requests)]
  /\ handles \in [StoreKeys -> Nat]
  /\ closed \in BOOLEAN
  /\ pc \in [Requests -> Places]
  /\ wants \in [Requests -> [key : StoreKeys, create : BOOLEAN]]
  /\ outcome \in [Requests -> {"none", "ready", "notfound", "error"}]

\* Nobody closes a store while a request uses it: not an eviction or a prune,
\* not another request's release, not the closing of the factory.
InUseOpen == \A p \in Requests : pc[p] = "using" => handles[wants[p].key] > 0

\* A database is open at most once, opens in progress included.  The store has
\* one connection, so this is what makes its transactions run one at a time.
OneHandle == \A k \in StoreKeys : handles[k] <= 1

\* No more databases are open than the bound allows, those that are being
\* opened or are still in use after Close included.
HandlesBounded == Cardinality({k \in StoreKeys : handles[k] # 0}) <= MaxOpen

\* An open that may create the store is never told that there is none, whoever
\* it waited for.
CreateNeverNotFound == \A p \in Requests : pc[p] # "misled"

\* The factory lends stores (StoreLeases): one is opened once and within the bound,
\* by a request that refers to it, it is not closed while any request refers to it,
\* and after Close it is closed with the last reference.
Claims == [p \in Requests |-> IF pc[p] \in {"opening", "opened", "waiting", "using"}
                             THEN {wants[p].key} ELSE {}]
Leases == [p \in Requests |-> IF pc[p] = "using" THEN {wants[p].key} ELSE {}]
Lent == INSTANCE StoreLeases WITH
  connections <- handles, claim <- Claims, lease <- Leases, down <- closed
LendsStores == Lent!Spec

\* A request that waits for another one's open learns its outcome: it is not
\* left waiting for an entry that failed, was cancelled or left the cache.
WaitersWoken == \A p \in Requests : pc[p] = "waiting" ~> pc[p] # "waiting"

\* After Close every database comes to be closed, also one that was being
\* opened at that moment, as soon as its users are done.
ClosesDown == closed ~> \A k \in StoreKeys : handles[k] = 0
=============================================================================
