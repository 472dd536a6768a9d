----------------------------- MODULE ShortLinks -----------------------------
(***************************************************************************)
(* Visits of short links: counted in memory, flushed to the database       *)
(* (internal/shortlink: Resolve, visitCounter, FlushVisits, List; the      *)
(* flusher and the shutdown of cmd/wispdeck).                              *)
(*                                                                         *)
(* A request resolves a link in one read and counts the visit in a later   *)
(* step.  The counter holds a bounded number of buckets; a flush takes     *)
(* them out, writes them in one transaction, and puts them back when that  *)
(* fails, while new visits are counted.  A list adds up what it read from  *)
(* the database and what it then finds in memory.                          *)
(*                                                                         *)
(* A bucket belongs to a link and a day; here there is one day, so that    *)
(* LinkIds takes the place of both.  Shutdown waits for requests at most   *)
(* ten seconds, which is taken to be enough for one that resolves a link.  *)
(* Ghosts: visited (visits that reached the counter) and dropped (those    *)
(* that it or the end of the process forgot).                              *)
(***************************************************************************)
EXTENDS PublicNames, Integers, FiniteSetsExt

CONSTANTS
  Requests,     \* requests for links being served at the same time
  MaxBuckets,   \* visitCounter.maxBuckets (maxPendingBuckets)
  MaxVisits     \* bound on the visits of all links

ASSUME VisitsAssumption ==
  /\ IsFiniteSet(LinkIds)
  /\ MaxBuckets \in Nat \ {0} /\ MaxVisits \in Nat

VARIABLES
  stats,      \* short_link_daily_stats: link -> visits
  pending,    \* visitCounter.buckets: link -> visits, 0 if it has no bucket
  drained,    \* the buckets FlushVisits has taken out: link -> visits
  flushing,   \* FlushVisits is between drain and the end of its transaction
  phase,      \* the process, see Phases
  request,    \* request -> the link it has resolved and not yet counted, or Absent
  list,       \* the last List, or the one in progress, for the total of one link
  visited,    \* ghost: link -> visits given to the counter
  dropped     \* ghost: link -> visits that are neither stored nor in memory

counter == <<pending, drained, flushing>>
visitVars == <<stats, counter, phase, request, list, visited, dropped>>
vars == <<nameVars, visitVars>>

\* serving; stopping: Shutdown waits for requests; last: the server is down and
\* the last flush is due; flushed, failed: how it ended; exited, crashed.
Phases == {"serving", "stopping", "last", "flushed", "failed", "exited", "crashed"}
Running == phase \notin {"exited", "crashed"}

None == [l \in LinkIds |-> 0]
Plus(f, g) == [l \in LinkIds |-> f[l] + g[l]]
SumOf(f) == MapThenSumSet(LAMBDA l : f[l], LinkIds)
Buckets(f) == {l \in LinkIds : f[l] > 0}

Init ==
  /\ NamesInit
  /\ stats = None /\ pending = None /\ drained = None /\ flushing = FALSE
  /\ phase = "serving"
  /\ request = [q \in Requests |-> Absent]
  /\ list = Absent
  /\ visited = None /\ dropped = None

-----------------------------------------------------------------------------
\* Requests

\* Service.Resolve up to the end of ResolveShortLink: the link may be disabled,
\* retired, and its name reused before the visit is counted.
Resolve(q) ==
  /\ phase = "serving"
  /\ request[q] = Absent
  /\ SumOf(visited) < MaxVisits
  /\ \E l \in LinkIds :
       /\ Live(l) /\ links[l].enabled
       /\ request' = [request EXCEPT ![q] = l]
  /\ UNCHANGED <<nameVars, stats, counter, phase, list, visited, dropped>>

\* A visit of l finds its bucket, or room for one.
HasRoom(l) == pending[l] > 0 \/ Cardinality(Buckets(pending)) < MaxBuckets

\* visitCounter.record
Record(q) ==
  /\ Running
  /\ request[q] # Absent
  /\ LET l == request[q]
     IN  /\ visited' = [visited EXCEPT ![l] = @ + 1]
         /\ \/ /\ HasRoom(l)
               /\ pending' = [pending EXCEPT ![l] = @ + 1]
               /\ UNCHANGED dropped
            \/ /\ ~HasRoom(l)
               /\ dropped' = [dropped EXCEPT ![l] = @ + 1]
               /\ UNCHANGED pending
  /\ request' = [request EXCEPT ![q] = Absent]
  /\ UNCHANGED <<nameVars, stats, drained, flushing, phase, list>>

-----------------------------------------------------------------------------
\* FlushVisits, one at a time (flushMu)

\* Broken variant of Drain: the buckets are copied and stay in the counter.
DrainCopying ==
  /\ ~flushing /\ phase \in {"serving", "stopping", "last"}
  /\ Buckets(pending) # {}
  /\ flushing' = TRUE
  /\ drained' = pending
  /\ UNCHANGED <<nameVars, stats, pending, phase, request, list, visited, dropped>>

Drain ==
  /\ ~flushing /\ phase \in {"serving", "stopping", "last"}
  /\ Buckets(pending) # {}
  /\ flushing' = TRUE
  /\ drained' = pending
  /\ pending' = None
  /\ UNCHANGED <<nameVars, stats, phase, request, list, visited, dropped>>

\* AddShortLinkVisits: one transaction for all buckets.
FlushDone ==
  /\ Running /\ flushing
  /\ flushing' = FALSE
  /\ stats' = Plus(stats, drained)
  /\ drained' = None
  /\ phase' = IF phase = "last" THEN "flushed" ELSE phase
  /\ UNCHANGED <<nameVars, pending, request, list, visited, dropped>>

\* Broken variant of Restored: the buckets replace those of newer visits.
RestoredOver(kept) == [l \in LinkIds |-> IF l \in kept THEN drained[l] ELSE pending[l]]

\* visitCounter.restore: the counter after the buckets of kept were merged into it.
Restored(kept) == [l \in LinkIds |-> pending[l] + (IF l \in kept THEN drained[l] ELSE 0)]

\* The buckets are put back in any order until the counter is full; those of a
\* link that has a bucket by now always find room.
Restorable(kept) ==
  LET met == Buckets(drained) \cap Buckets(pending)
      new == kept \ met
      room == MaxBuckets - Cardinality(Buckets(pending))
  IN  /\ met \subseteq kept /\ kept \subseteq Buckets(drained)
      /\ Cardinality(new) <= room
      /\ kept = Buckets(drained) \/ Cardinality(new) = room

FlushFailed ==
  /\ Running /\ flushing
  /\ flushing' = FALSE
  /\ \E kept \in SUBSET LinkIds :
       /\ Restorable(kept)
       /\ pending' = Restored(kept)
       /\ dropped' = [l \in LinkIds |-> dropped[l] + (IF l \in kept THEN 0 ELSE drained[l])]
  /\ drained' = None
  /\ phase' = IF phase = "last" THEN "failed" ELSE phase
  /\ UNCHANGED <<nameVars, stats, request, list, visited>>

-----------------------------------------------------------------------------
\* List, for the total of one link

ListTotals(l) ==
  /\ phase = "serving"
  /\ Live(l)
  /\ list' = [link |-> l, total |-> stats[l], answered |-> FALSE]
  /\ UNCHANGED <<nameVars, stats, counter, phase, request, visited, dropped>>

\* snapshot and applyPendingTotals, after the reads of the database.
ListPending ==
  /\ Running /\ list # Absent /\ ~list.answered
  /\ list' = [list EXCEPT !.total = @ + pending[list.link], !.answered = TRUE]
  /\ UNCHANGED <<nameVars, stats, counter, phase, request, visited, dropped>>

-----------------------------------------------------------------------------
\* The process

\* A signal or an update: the server takes no more requests.
Shutdown ==
  /\ phase = "serving"
  /\ phase' = "stopping"
  /\ UNCHANGED <<nameVars, stats, counter, request, list, visited, dropped>>

\* Broken variant of StopFlusher: the flusher is stopped before the server.
StopFlusherFirst ==
  /\ phase = "stopping"
  /\ ~flushing
  /\ phase' = "last"
  /\ UNCHANGED <<nameVars, stats, counter, request, list, visited, dropped>>

\* serve returns from Serve and runs its deferred calls, of which the last flush
\* is one; it waits for a flush of the ticker.
StopFlusher ==
  /\ phase = "stopping"
  /\ \A q \in Requests : request[q] = Absent
  /\ ~flushing
  /\ phase' = "last"
  /\ UNCHANGED <<nameVars, stats, counter, request, list, visited, dropped>>

\* What is in memory is gone.
Forget ==
  /\ pending' = None /\ drained' = None /\ flushing' = FALSE
  /\ request' = [q \in Requests |-> Absent]
  /\ list' = Absent
  /\ dropped' = Plus(dropped, Plus(pending, drained))
  /\ UNCHANGED <<nameVars, stats, visited>>

\* An empty counter leaves the last flush nothing to do.
Exit ==
  /\ \/ phase \in {"flushed", "failed"}
     \/ phase = "last" /\ ~flushing /\ Buckets(pending) = {}
  /\ phase' = "exited"
  /\ Forget

Crash == Running /\ phase' = "crashed" /\ Forget

Start ==
  /\ ~Running
  /\ phase' = "serving"
  /\ UNCHANGED <<nameVars, stats, counter, request, list, visited, dropped>>

-----------------------------------------------------------------------------
\* The transactions of PublicNames are made by requests.
Manage == phase \in {"serving", "stopping"} /\ NamesNext /\ UNCHANGED visitVars

Next ==
  \/ Manage
  \/ \E q \in Requests : Resolve(q) \/ Record(q)
  \/ Drain \/ FlushDone \/ FlushFailed
  \/ \E l \in LinkIds : ListTotals(l)
  \/ ListPending
  \/ Shutdown \/ StopFlusher \/ Exit \/ Crash \/ Start

Spec == Init /\ [][Next]_vars

-----------------------------------------------------------------------------
\* Properties

\* Types, and the bound of the counter: buckets put back after a failed flush
\* never take more room than there is.
LinksTypeOK ==
  /\ NamesTypeOK
  /\ {stats, pending, drained, visited, dropped} \subseteq [LinkIds -> Nat]
  /\ flushing \in BOOLEAN /\ phase \in Phases
  /\ request \in [Requests -> LinkIds \cup {Absent}]
  /\ list \in [link : LinkIds, total : Nat, answered : BOOLEAN] \cup {Absent}
  /\ Cardinality(Buckets(pending)) <= MaxBuckets
  /\ ~flushing => drained = None

\* Every visit that reached the counter is in exactly one place: stored, in
\* memory, being written, or dropped.  None is counted twice by a flush that fails
\* and is repeated, and none disappears when visits are counted meanwhile.
VisitsAccounted ==
  \A l \in LinkIds : visited[l] = stats[l] + pending[l] + drained[l] + dropped[l]

\* Visits are dropped only by a crash, by a counter that is full, or by a last
\* flush that failed; a graceful shutdown stores what it has (docs/security-model.md:
\* visits are flushed during graceful shutdown, a crash may lose the most recent).
LossExplained ==
  [][\A l \in LinkIds : dropped'[l] > dropped[l] =>
       \/ phase' = "crashed"
       \/ phase = "failed"
       \/ Cardinality(Buckets(pending')) >= MaxBuckets]_vars

\* A list never shows more visits than there were, although it reads the
\* database and the counter at different times with a flush in between.
ListedIsReal ==
  list # Absent /\ list.answered => list.total <= visited[list.link]
=============================================================================
