----------------------------- MODULE WispistLive -----------------------------
(***************************************************************************)
(* Live subscriptions to one namespace: the mutation handlers of the       *)
(* engine, the in-process change hub, the SSE handler and the browser      *)
(* client, over the transactions of WispistStore.                          *)
(*                                                                         *)
(* A mutation handler commits first and hands its changes to the hub       *)
(* afterwards, outside any lock.  The SSE handler subscribes to the hub    *)
(* BEFORE it reads the change log, sends the log from the client's cursor  *)
(* on, and then what the hub queued meanwhile, skipping what it already    *)
(* sent.  The client lists a collection page by page, follows the stream   *)
(* from the list's cursor, reopens it with its last cursor after an error, *)
(* and lists again after a reset.                                          *)
(***************************************************************************)
EXTENDS WispistStore, Sequences

CONSTANTS
  Handlers,          \* mutation requests being served at the same time
  Clients,           \* subscribed browser clients
  Interest,          \* the collection each client watches
  ListLimit,         \* page size of lists and of change-log reads
  QueueSize,         \* SSEQueueSize
  MaxFaults,         \* bound on broken connections and restarts
  MaxPurges          \* bound on hard purges

ASSUME LiveAssumption ==
  /\ Interest \in [Clients -> Collections]
  /\ {ListLimit, QueueSize} \subseteq Nat \ {0}
  /\ {MaxFaults, MaxPurges} \subseteq Nat

VARIABLES
  unpublished,   \* handler -> events committed but not yet given to the hub
  mode,          \* client -> what its subscription is doing
  paging,        \* client -> the list it is reading
  replica,       \* client -> the documents its callback is shown
  cursor,        \* client -> the change cursor it holds
  position,      \* client -> the SSE handler's lastSequence
  queue,         \* client -> events in its hub subscription's channel
  registered,    \* client -> its hub subscription still receives events
  faults, purges \* counters for the bounds

liveVars == <<unpublished, mode, paging, replica, cursor, position, queue,
              registered, faults, purges>>
vars == <<storeVars, liveVars>>

streamVars == <<position, queue, registered>>

Reset == [kind |-> "reset"]
NoPaging == [watermark |-> 0, after |-> 0, found |-> NoDocuments]
Streaming == {"subscribed", "backlog", "live"}

Init ==
  /\ StoreInit
  /\ unpublished = [h \in Handlers |-> <<>>]
  /\ mode = [c \in Clients |-> "list"]
  /\ paging = [c \in Clients |-> NoPaging]
  /\ replica = [c \in Clients |-> NoDocuments]
  /\ cursor = [c \in Clients |-> 0]
  /\ position = [c \in Clients |-> 0]
  /\ queue = [c \in Clients |-> <<>>]
  /\ registered = [c \in Clients |-> FALSE]
  /\ faults = 0
  /\ purges = 0

---------------------------------------------------------------------------
\* Mutation handlers.

\* The event of the n-th change, given the documents after each change.
ChangeEvent(states, n) ==
  LET s == CHOOSE t \in Slots : states[n][t] # states[n - 1][t]
  IN  [kind |-> "change", sequence |-> n, slot |-> s, document |-> states[n][s]]

\* A handler's transaction commits; its changes wait to be published.
Commit(h) ==
  /\ unpublished[h] = <<>>
  /\ \/ \E s \in Slots, bytes \in Sizes : PutNew(s, bytes, clock)
     \/ \E s \in Slots, bytes \in Sizes, r \in 1..lastRevision :
          \/ Put(s, bytes, r, clock)
          \/ Delete(s, r, clock)
     \/ \E c \in Collections : ClearCollection(c, clock)
  /\ unpublished' = [unpublished EXCEPT ![h] =
       [i \in 1..(lastSequence' - lastSequence) |->
          ChangeEvent(history', lastSequence + i)]]
  /\ UNCHANGED <<mode, paging, replica, cursor, position, queue, registered,
                 faults, purges>>

Purge(h) ==
  /\ unpublished[h] = <<>>
  /\ purges < MaxPurges
  /\ purges' = purges + 1
  /\ PurgeNamespace
  /\ unpublished' = [unpublished EXCEPT ![h] = <<Reset>>]
  /\ UNCHANGED <<mode, paging, replica, cursor, position, queue, registered, faults>>

\* Broken variant of PublishChange: the event is dropped, the subscriber is not.
PublishDropping(event) ==
  /\ queue' = [c \in Clients |->
       IF registered[c] /\ Interest[c] = event.slot[1] /\ Len(queue[c]) < QueueSize
       THEN Append(queue[c], event) ELSE queue[c]]
  /\ UNCHANGED registered

\* changeHub.publish: a subscriber whose channel is full is dropped, what its
\* channel holds is still delivered.
PublishChange(event) ==
  LET wanting == {c \in Clients : registered[c] /\ Interest[c] = event.slot[1]}
      full    == {c \in wanting : Len(queue[c]) >= QueueSize}
  IN  /\ queue' = [c \in Clients |-> IF c \in wanting \ full
                                     THEN Append(queue[c], event) ELSE queue[c]]
      /\ registered' = [c \in Clients |-> registered[c] /\ c \notin full]

\* Broken variant of PublishReset: what a channel holds is not drained, so a
\* full one has no room for the reset, and stays open.
ResetWithoutDraining ==
  /\ queue' = [c \in Clients |-> IF registered[c] /\ Len(queue[c]) < QueueSize
                                 THEN Append(queue[c], Reset) ELSE queue[c]]
  /\ UNCHANGED registered

\* changeHub.reset: every channel is emptied, given one reset and closed.
PublishReset ==
  /\ queue' = [c \in Clients |-> IF registered[c] THEN <<Reset>> ELSE queue[c]]
  /\ registered' = [c \in Clients |-> FALSE]

Publish(h) ==
  /\ unpublished[h] # <<>>
  /\ LET event == Head(unpublished[h])
     IN  IF event.kind = "reset" THEN PublishReset ELSE PublishChange(event)
  /\ unpublished' = [unpublished EXCEPT ![h] = Tail(@)]
  /\ UNCHANGED <<storeVars, mode, paging, replica, cursor, position, faults, purges>>

---------------------------------------------------------------------------
\* Listing: the client's listState over Store.List.

Oldest(slots, key) ==
  {s \in slots : Cardinality({t \in slots : key[t] < key[s]}) < ListLimit}

ReadPage(c, watermark, after, found) ==
  LET listed == {s \in StoredIn(documents, Interest[c]) :
                   after < createdSequence[s] /\ createdSequence[s] <= watermark}
      page   == Oldest(listed, createdSequence)
      sofar  == [s \in Slots |-> IF s \in page THEN documents[s] ELSE found[s]]
  IN  \/ /\ page = listed
         /\ replica' = [replica EXCEPT ![c] = sofar]
         /\ cursor' = [cursor EXCEPT ![c] = watermark]
         /\ mode' = [mode EXCEPT ![c] = "connect"]
         /\ paging' = [paging EXCEPT ![c] = NoPaging]
      \/ /\ page # listed
         /\ mode' = [mode EXCEPT ![c] = "paging"]
         /\ paging' = [paging EXCEPT ![c] =
              [watermark |-> watermark, found |-> sofar,
               after |-> Max({createdSequence[s] : s \in page})]]
         /\ UNCHANGED <<replica, cursor>>

FirstPage(c) ==
  /\ mode[c] = "list"
  /\ ReadPage(c, lastSequence, 0, NoDocuments)
  /\ UNCHANGED <<storeVars, streamVars, unpublished, faults, purges>>

NextPage(c) ==
  /\ mode[c] = "paging"
  /\ paging[c].watermark <= lastSequence
  /\ ReadPage(c, paging[c].watermark, paging[c].after, paging[c].found)
  /\ UNCHANGED <<storeVars, streamVars, unpublished, faults, purges>>

---------------------------------------------------------------------------
\* The change stream.

\* The stream ends, whatever it still had queued with it; the client goes on
\* in mode m: "list" after a reset event, "connect" after an error.
EndStream(c, m) ==
  /\ mode' = [mode EXCEPT ![c] = m]
  /\ paging' = [paging EXCEPT ![c] = NoPaging]
  /\ position' = [position EXCEPT ![c] = 0]
  /\ queue' = [queue EXCEPT ![c] = <<>>]
  /\ registered' = [registered EXCEPT ![c] = FALSE]
  /\ UNCHANGED <<storeVars, unpublished, replica, cursor, purges>>

\* The pages' watermark lies beyond the sequence: ErrInvalidCursor, list again.
RefusePage(c) ==
  /\ mode[c] = "paging"
  /\ paging[c].watermark > lastSequence
  /\ EndStream(c, "list")
  /\ UNCHANGED faults

Subscribe(c) ==
  /\ mode[c] = "connect"
  /\ mode' = [mode EXCEPT ![c] = "subscribed"]
  /\ position' = [position EXCEPT ![c] = cursor[c]]
  /\ queue' = [queue EXCEPT ![c] = <<>>]
  /\ registered' = [registered EXCEPT ![c] = TRUE]
  /\ UNCHANGED <<storeVars, unpublished, paging, replica, cursor, faults, purges>>

\* Broken variant of ReadBacklog: the first page is taken for the last.
ReadOnePage(c) ==
  LET wanted == {n \in ChangesAfter(position[c]) : changes[n].slot[1] = Interest[c]}
      page   == Oldest(wanted, [n \in wanted |-> n])
      latest(s) == {n \in page : changes[n].slot = s}
  IN  /\ mode[c] \in {"subscribed", "backlog"}
      /\ ~CursorInvalid(position[c]) /\ ~CursorExpired(position[c])
      /\ replica' = [replica EXCEPT ![c] = [s \in Slots |->
           IF latest(s) = {} THEN replica[c][s] ELSE changes[Max(latest(s))].document]]
      /\ cursor' = [cursor EXCEPT ![c] = IF page = {} THEN @ ELSE Max(page)]
      /\ position' = [position EXCEPT ![c] = lastSequence]
      /\ mode' = [mode EXCEPT ![c] = "live"]
      /\ UNCHANGED <<storeVars, unpublished, paging, queue, registered, faults, purges>>

\* A page of the log is read and sent; the last page ends at the high-water
\* mark, and from there on events come from the hub.
ReadBacklog(c) ==
  LET wanted == {n \in ChangesAfter(position[c]) : changes[n].slot[1] = Interest[c]}
      page   == Oldest(wanted, [n \in wanted |-> n])
      latest(s) == {n \in page : changes[n].slot = s}
  IN  /\ mode[c] \in {"subscribed", "backlog"}
      /\ ~CursorInvalid(position[c]) /\ ~CursorExpired(position[c])
      /\ replica' = [replica EXCEPT ![c] = [s \in Slots |->
           IF latest(s) = {} THEN replica[c][s] ELSE changes[Max(latest(s))].document]]
      /\ cursor' = [cursor EXCEPT ![c] = IF page = {} THEN @ ELSE Max(page)]
      /\ position' = [position EXCEPT ![c] =
           IF page = wanted THEN lastSequence ELSE Max(page)]
      /\ mode' = [mode EXCEPT ![c] = IF page = wanted THEN "live" ELSE "backlog"]
      /\ UNCHANGED <<storeVars, unpublished, paging, queue, registered, faults, purges>>

\* HTTP 400 for a cursor beyond the log: to an EventSource an error like any
\* other, after which the client opens the stream with the same cursor.
RefuseCursor(c) ==
  /\ mode[c] = "subscribed"
  /\ CursorInvalid(position[c])
  /\ EndStream(c, "connect")
  /\ UNCHANGED faults

\* A reset event: the log no longer reaches back to the cursor, or a later page
\* of it is refused, as one beyond the log of a purged namespace is.
ResetExpired(c) ==
  /\ \/ mode[c] \in {"subscribed", "backlog"} /\ CursorExpired(position[c])
     \/ mode[c] = "backlog" /\ CursorInvalid(position[c])
  /\ EndStream(c, "list")
  /\ UNCHANGED faults

\* An event of the hub that the log already covered is skipped.
SkipEvent(c) ==
  /\ mode[c] = "live" /\ queue[c] # <<>>
  /\ Head(queue[c]).kind = "change" /\ Head(queue[c]).sequence <= position[c]
  /\ queue' = [queue EXCEPT ![c] = Tail(@)]
  /\ UNCHANGED <<storeVars, unpublished, mode, paging, replica, cursor, position,
                 registered, faults, purges>>

\* Broken variant of SendEvent: what the log covered is sent once more.
SendAgain(c) ==
  /\ mode[c] = "live" /\ queue[c] # <<>>
  /\ LET event == Head(queue[c])
     IN  /\ event.kind = "change"
         /\ replica' = [replica EXCEPT ![c][event.slot] = event.document]
         /\ cursor' = [cursor EXCEPT ![c] = event.sequence]
         /\ position' = [position EXCEPT ![c] = event.sequence]
  /\ queue' = [queue EXCEPT ![c] = Tail(@)]
  /\ UNCHANGED <<storeVars, unpublished, mode, paging, registered, faults, purges>>

SendEvent(c) ==
  /\ mode[c] = "live" /\ queue[c] # <<>>
  /\ LET event == Head(queue[c])
     IN  /\ event.kind = "change" /\ event.sequence > position[c]
         /\ replica' = [replica EXCEPT ![c][event.slot] = event.document]
         /\ cursor' = [cursor EXCEPT ![c] = event.sequence]
         /\ position' = [position EXCEPT ![c] = event.sequence]
  /\ queue' = [queue EXCEPT ![c] = Tail(@)]
  /\ UNCHANGED <<storeVars, unpublished, mode, paging, registered, faults, purges>>

\* Broken variant of SendReset: a closed channel is not noticed.
SendQueuedReset(c) ==
  /\ mode[c] = "live"
  /\ queue[c] # <<>> /\ Head(queue[c]).kind = "reset"
  /\ EndStream(c, "list")
  /\ UNCHANGED faults

\* A queued reset, or a channel closed because it was full: slow_consumer.
SendReset(c) ==
  /\ mode[c] = "live"
  /\ IF queue[c] = <<>> THEN ~registered[c] ELSE Head(queue[c]).kind = "reset"
  /\ EndStream(c, "list")
  /\ UNCHANGED faults

---------------------------------------------------------------------------
\* Faults.

\* A connection breaks, or a read of the store fails: a stream is reopened with
\* the client's cursor, a list is begun again, and a stream that could not read a
\* later page of the log is reset.
Disconnect(c) ==
  /\ faults < MaxFaults
  /\ faults' = faults + 1
  /\ \/ mode[c] \in Streaming /\ EndStream(c, "connect")
     \/ mode[c] \in {"paging", "backlog"} /\ EndStream(c, "list")

\* The process stops and is started again: the hub, the streams and the
\* handlers are gone, the store is not.
Restart ==
  /\ faults < MaxFaults
  /\ faults' = faults + 1
  /\ unpublished' = [h \in Handlers |-> <<>>]
  /\ mode' = [c \in Clients |-> IF mode[c] \in Streaming THEN "connect"
                                ELSE IF mode[c] = "paging" THEN "list" ELSE mode[c]]
  /\ paging' = [c \in Clients |-> NoPaging]
  /\ position' = [c \in Clients |-> 0]
  /\ queue' = [c \in Clients |-> <<>>]
  /\ registered' = [c \in Clients |-> FALSE]
  /\ UNCHANGED <<storeVars, replica, cursor, purges>>

ClientStep(c) ==
  \/ FirstPage(c) \/ NextPage(c) \/ RefusePage(c)
  \/ Subscribe(c) \/ ReadBacklog(c) \/ RefuseCursor(c) \/ ResetExpired(c)
  \/ SkipEvent(c) \/ SendEvent(c) \/ SendReset(c)

Next ==
  \/ \E h \in Handlers : Commit(h) \/ Purge(h) \/ Publish(h)
  \/ \E c \in Clients : ClientStep(c) \/ Disconnect(c)
  \/ Restart

Spec == Init /\ [][Next]_vars

\* A handler that committed goes on to publish, and a client and the handler
\* of its stream keep running; nobody has to mutate anything.
FairSpec ==
  /\ Spec
  /\ \A h \in Handlers : WF_vars(Publish(h))
  /\ \A c \in Clients : WF_vars(ClientStep(c))

---------------------------------------------------------------------------
\* Properties.

Event == {Reset} \cup [kind : {"change"}, sequence : Nat, slot : Slots,
                       document : Document \cup {Absent}]

LiveTypeOK ==
  /\ StoreTypeOK
  /\ unpublished \in [Handlers -> Seq(Event)]
  /\ mode \in [Clients -> {"list", "paging", "connect"} \cup Streaming]
  /\ paging \in [Clients -> [watermark : Nat, after : Nat,
                             found : [Slots -> Document \cup {Absent}]]]
  /\ replica \in [Clients -> [Slots -> Document \cup {Absent}]]
  /\ cursor \in [Clients -> Nat] /\ position \in [Clients -> Nat]
  /\ queue \in [Clients -> Seq(Event)]
  /\ \A c \in Clients : Len(queue[c]) <= QueueSize
  /\ registered \in [Clients -> BOOLEAN]

Watched(c) == {s \in Slots : s[1] = Interest[c]}

\* Up to where a client has been brought.
Reached(c) == IF mode[c] \in Streaming THEN position[c] ELSE cursor[c]

\* No document a client shows is older than the client's place in the change
\* sequence: what lies behind its cursor, which no later stream sends again,
\* is in the replica (listing page by page, subscribe-then-read-log, queued
\* events, reconnects, overflow and restarts included).
ReplicaCurrent ==
  \A c \in Clients : \A s \in Watched(c) :
    \E m \in Reached(c)..lastSequence : replica[c][s] = history[m][s]

\* A stream that has caught up is owed nothing: every later change to its
\* collection is in its queue or with the handler that committed it, as long as
\* the hub has not dropped it.
NothingLost ==
  \A c \in Clients : mode[c] = "live" /\ registered[c] =>
    \A n \in (position[c] + 1)..lastSequence :
      LET event == ChangeEvent(history, n)
      IN  event.slot[1] = Interest[c] =>
            \/ \E i \in DOMAIN queue[c] : queue[c][i] = event
            \/ \E h \in Handlers : \E i \in DOMAIN unpublished[h] : unpublished[h][i] = event

\* Once mutations, faults and purges have ended, every client comes to show
\* the collection as it is stored, and stays there.
UpToDate(c) == \A s \in Watched(c) : replica[c][s] = documents[s]
Converges == <>[](\A c \in Clients : UpToDate(c))

\* A purge that has committed ends every stream that has begun to send: whatever
\* its queue holds by then, and whether it still reads the log, its client comes
\* to list again, unless a connection breaks, a read fails or the process stops
\* first.
PurgeReachesStreams ==
  \A c \in Clients, n \in 0..MaxFaults :
    (/\ mode[c] \in {"backlog", "live"}
     /\ \E h \in Handlers : \E i \in DOMAIN unpublished[h] : unpublished[h][i] = Reset
     /\ faults = n) ~> (mode[c] = "list" \/ faults > n)

\* Clients follow the log of the store (LogFollowers): a view never lacks a
\* change behind the place its client would resume from, and that place never
\* moves back, whatever is published, queued, skipped, dropped or reconnected.
Followed == INSTANCE LogFollowers WITH
  Followers <- Clients, Watches <- LAMBDA c, s : s \in Watched(c),
  Start <- NoDocuments, log <- history, last <- lastSequence,
  view <- replica, place <- cursor
FollowsLog == Followed!Spec
=============================================================================
