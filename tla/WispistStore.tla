---------------------------- MODULE WispistStore ----------------------------
(***************************************************************************)
(* One namespace of one site's Wispist store (wispist/sqlite).             *)
(*                                                                         *)
(* The store keeps documents, the log of recent changes to them, and the   *)
(* idempotency records of generated-ID creates.  Its database is opened    *)
(* with one connection, so every method of the store is one transaction    *)
(* that runs alone: an action below is one committed transaction.  A       *)
(* transaction that is refused (conflict, not found, quota) is rolled back *)
(* and changes nothing, so it is an action that is not enabled.            *)
(*                                                                         *)
(* A handler reads the clock BEFORE its transaction begins.  RequestTimes  *)
(* is the set of such readings a transaction may carry: with Skew = 0      *)
(* transactions commit in the order of their readings, with Skew > 0 they  *)
(* may not.                                                                *)
(***************************************************************************)
EXTENDS Integers, FiniteSets, FiniteSetsExt

CONSTANTS
  Collections, Ids,         \* collection names and document IDs
  Keys,                     \* values of the Idempotency-Key header
  Sizes,                    \* byte lengths of document data
  MaxDocuments, MaxDocumentBytes, MaxNamespaceBytes,      \* MutationLimits
  MaxIdempotencyRecords, IdempotencyRetention,
  ChangeRetentionEntries, ChangeRetentionAge,
  Skew,                     \* how far a request's clock reading may lag behind
  Absent,                   \* "no row"
  MaxSequence, MaxRevision, MaxClock                      \* bounds of the model

\* The content of a document, as a byte length and a revision that is never
\* used twice: two equal revisions stand for equal data.
Document == [revision : Nat, bytes : Nat]

\* An idempotency record: what was posted, the document it created, its expiry.
Record == [fingerprint : Collections \X Sizes, revision : Nat, expires : Nat]

\* Names, IDs and keys are strings of bounded length.
ASSUME StoreAssumption ==
  /\ IsFiniteSet(Collections) /\ IsFiniteSet(Ids)
  /\ Absent \notin Document \cup Record
  /\ Sizes \subseteq Nat
  /\ {MaxDocuments, MaxIdempotencyRecords, ChangeRetentionEntries} \subseteq Nat \ {0}
  /\ {MaxDocumentBytes, MaxNamespaceBytes} \subseteq Nat
  /\ {IdempotencyRetention, ChangeRetentionAge} \subseteq Nat \ {0}
  /\ {MaxSequence, MaxRevision, MaxClock, Skew} \subseteq Nat

Slots == Collections \X Ids

Change == [operation : {"create", "update", "delete"}, slot : Slots,
           document : Document \cup {Absent}, at : Nat]

VARIABLES
  documents,        \* table documents: slot -> content, or Absent
  createdSequence,  \* its column created_sequence (0 where there is no row)
  lastSequence,     \* namespace_state.last_sequence (0 where there is no row)
  changes,          \* table changes: sequence -> change
  idempotency,      \* table idempotency_records: key -> record, or Absent
  lastRevision,     \* how many revisions have been drawn
  clock,            \* wall-clock time
  history,          \* auxiliary: sequence -> documents right after that change
  answers           \* auxiliary: the 201 answers given to generated-ID creates

storeVars == <<documents, createdSequence, lastSequence, changes, idempotency,
               lastRevision, clock, history, answers>>

NoDocuments == [s \in Slots |-> Absent]

StoreInit ==
  /\ documents = NoDocuments
  /\ createdSequence = [s \in Slots |-> 0]
  /\ lastSequence = 0
  /\ changes = [n \in {} |-> Absent]
  /\ idempotency = [k \in Keys |-> Absent]
  /\ lastRevision = 0
  /\ clock = 0
  /\ history = [n \in {0} |-> NoDocuments]
  /\ answers = {}

RequestTimes == {t \in 0..clock : clock - t <= Skew}

Stored(docs) == {s \in Slots : docs[s] # Absent}
StoredIn(docs, c) == {s \in Stored(docs) : s[1] = c}
BytesUsed(docs) == MapThenSumSet(LAMBDA s : docs[s].bytes, Stored(docs))

\* What one logged change does to the documents.
Apply(docs, change) == [docs EXCEPT ![change.slot] = change.document]

---------------------------------------------------------------------------
\* Parts of a transaction.

CreateFits(c, bytes) ==
  /\ bytes <= MaxDocumentBytes
  /\ Cardinality(StoredIn(documents, c)) < MaxDocuments
  /\ BytesUsed(documents) + bytes <= MaxNamespaceBytes

\* Broken variant: only the document itself is measured.
ReplacementFitsAlone(s, bytes) == bytes <= MaxDocumentBytes

ReplacementFits(s, bytes) ==
  /\ bytes <= MaxDocumentBytes
  /\ BytesUsed(documents) - documents[s].bytes + bytes <= MaxNamespaceBytes

\* The changes that survive the age bound, then the newest of those.
Retained(log, now) ==
  LET young  == {n \in DOMAIN log : log[n].at >= now - ChangeRetentionAge}
      newest == {n \in young :
                   Cardinality({m \in young : m > n}) < ChangeRetentionEntries}
  IN  [n \in newest |-> log[n]]

\* The log with k further changes.
Extended(k, entries) ==
  [n \in DOMAIN changes \cup (lastSequence + 1)..(lastSequence + k) |->
     IF n <= lastSequence THEN changes[n] ELSE entries[n - lastSequence]]

\* A transaction draws k sequence numbers, logs entries[1..k] under them,
\* after the i-th of which the documents are states[i], and prunes the log.
LogChanges(k, entries, states, now) ==
  /\ lastSequence + k <= MaxSequence
  /\ lastSequence' = lastSequence + k
  /\ changes' = Retained(Extended(k, entries), now)
  /\ history' = [n \in 0..(lastSequence + k) |->
                   IF n <= lastSequence THEN history[n]
                                        ELSE states[n - lastSequence]]

\* A document is written: a fresh revision, the row, and its change.
WriteDocument(s, bytes, operation, now) ==
  LET document == [revision |-> lastRevision + 1, bytes |-> bytes]
      after    == [documents EXCEPT ![s] = document]
      entry    == [operation |-> operation, slot |-> s,
                   document |-> document, at |-> now]
  IN  /\ lastRevision < MaxRevision
      /\ lastRevision' = lastRevision + 1
      /\ documents' = after
      /\ LogChanges(1, [i \in 1..1 |-> entry], [i \in 1..1 |-> after], now)

\* The records left by cleanupIdempotency, or found by idempotentDocument.
Unexpired(now) ==
  [k \in Keys |-> IF idempotency[k] # Absent /\ idempotency[k].expires > now
                  THEN idempotency[k] ELSE Absent]

Fingerprint(c, bytes) == <<c, bytes>>

---------------------------------------------------------------------------
\* The methods of the store that commit a change.

\* Broken variant of Create: at the record limit another key makes room.
CreateEvicting(c, i, bytes, k, now) ==
  LET kept == Unexpired(now)
      s    == <<c, i>>
  IN  /\ kept[k] = Absent
      /\ documents[s] = Absent
      /\ CreateFits(c, bytes)
      /\ WriteDocument(s, bytes, "create", now)
      /\ createdSequence' = [createdSequence EXCEPT ![s] = lastSequence + 1]
      /\ idempotency' = [j \in Keys |-> IF j # k THEN Absent ELSE
           [fingerprint |-> Fingerprint(c, bytes), revision |-> lastRevision + 1,
            expires |-> now + IdempotencyRetention]]
      /\ answers' = answers \cup
           {[key |-> k, at |-> now, revision |-> lastRevision + 1, replay |-> FALSE]}
      /\ UNCHANGED clock

\* POST of a document under idempotency key k, the first one in its window.
\* The ID is drawn at random; one that is taken is drawn again.
Create(c, i, bytes, k, now) ==
  LET kept == Unexpired(now)
      s    == <<c, i>>
  IN  /\ kept[k] = Absent
      /\ documents[s] = Absent
      /\ CreateFits(c, bytes)
      /\ Cardinality({j \in Keys : kept[j] # Absent}) < MaxIdempotencyRecords
      /\ WriteDocument(s, bytes, "create", now)
      /\ createdSequence' = [createdSequence EXCEPT ![s] = lastSequence + 1]
      /\ idempotency' = [kept EXCEPT ![k] =
           [fingerprint |-> Fingerprint(c, bytes), revision |-> lastRevision + 1,
            expires |-> now + IdempotencyRetention]]
      /\ answers' = answers \cup
           {[key |-> k, at |-> now, revision |-> lastRevision + 1, replay |-> FALSE]}
      /\ UNCHANGED clock

\* The same POST again: the recorded document is returned and the transaction
\* is rolled back, the expiry of other records with it.
ReplayCreate(c, bytes, k, now) ==
  LET kept == Unexpired(now)
  IN  /\ kept[k] # Absent
      /\ kept[k].fingerprint = Fingerprint(c, bytes)
      /\ answers' = answers \cup
           {[key |-> k, at |-> now, revision |-> kept[k].revision, replay |-> TRUE]}
      /\ UNCHANGED <<documents, createdSequence, lastSequence, changes,
                     idempotency, lastRevision, clock, history>>

\* PUT with If-None-Match: *.
PutNew(s, bytes, now) ==
  /\ documents[s] = Absent
  /\ CreateFits(s[1], bytes)
  /\ WriteDocument(s, bytes, "create", now)
  /\ createdSequence' = [createdSequence EXCEPT ![s] = lastSequence + 1]
  /\ UNCHANGED <<idempotency, clock, answers>>

\* Broken variant of Put: the row moves to the end of the list order.
PutMoving(s, bytes, expectedRevision, now) ==
  /\ documents[s] # Absent
  /\ documents[s].revision = expectedRevision
  /\ ReplacementFits(s, bytes)
  /\ WriteDocument(s, bytes, "update", now)
  /\ createdSequence' = [createdSequence EXCEPT ![s] = lastSequence + 1]
  /\ UNCHANGED <<idempotency, clock, answers>>

\* PUT with If-Match: the row keeps its created_sequence.
Put(s, bytes, expectedRevision, now) ==
  /\ documents[s] # Absent
  /\ documents[s].revision = expectedRevision
  /\ ReplacementFits(s, bytes)
  /\ WriteDocument(s, bytes, "update", now)
  /\ UNCHANGED <<createdSequence, idempotency, clock, answers>>

Delete(s, expectedRevision, now) ==
  LET after == [documents EXCEPT ![s] = Absent]
      entry == [operation |-> "delete", slot |-> s, document |-> Absent, at |-> now]
  IN  /\ documents[s] # Absent
      /\ documents[s].revision = expectedRevision
      /\ documents' = after
      /\ createdSequence' = [createdSequence EXCEPT ![s] = 0]
      /\ LogChanges(1, [i \in 1..1 |-> entry], [i \in 1..1 |-> after], now)
      /\ UNCHANGED <<idempotency, lastRevision, clock, answers>>

\* The documents of collection c from the oldest to the newest.
ClearOrders(c) ==
  LET cleared == StoredIn(documents, c)
  IN  {f \in [1..Cardinality(cleared) -> cleared] :
         /\ \A s \in cleared : \E i \in DOMAIN f : f[i] = s
         /\ \A i, j \in DOMAIN f :
              i < j => createdSequence[f[i]] < createdSequence[f[j]]}

\* Every document of a collection is deleted, each with a change of its own.
ClearCollection(c, now) ==
  LET cleared == StoredIn(documents, c)
      k == Cardinality(cleared)
  IN  \E order \in ClearOrders(c) :
        LET entries == [i \in 1..k |-> [operation |-> "delete", slot |-> order[i],
                                        document |-> Absent, at |-> now]]
            states  == [i \in 1..k |-> [s \in Slots |->
                          IF \E j \in 1..i : order[j] = s THEN Absent
                                                          ELSE documents[s]]]
        IN  /\ documents' = [s \in Slots |->
                               IF s \in cleared THEN Absent ELSE documents[s]]
            /\ createdSequence' = [s \in Slots |->
                               IF s \in cleared THEN 0 ELSE createdSequence[s]]
            /\ LogChanges(k, entries, states, now)
            /\ UNCHANGED <<idempotency, lastRevision, clock, answers>>

\* Documents, log, idempotency records and the sequence itself are gone; the
\* next change is number 1 again.
PurgeNamespace ==
  /\ documents' = NoDocuments
  /\ createdSequence' = [s \in Slots |-> 0]
  /\ lastSequence' = 0
  /\ changes' = [n \in {} |-> Absent]
  /\ idempotency' = [k \in Keys |-> Absent]
  /\ history' = [n \in {0} |-> NoDocuments]
  /\ answers' = {}
  /\ UNCHANGED <<lastRevision, clock>>

Tick ==
  /\ clock < MaxClock
  /\ clock' = clock + 1
  /\ UNCHANGED <<documents, createdSequence, lastSequence, changes, idempotency,
                 lastRevision, history, answers>>

StoreNext ==
  \/ \E now \in RequestTimes :
       \/ \E c \in Collections, bytes \in Sizes, k \in Keys :
            \/ \E i \in Ids : Create(c, i, bytes, k, now)
            \/ ReplayCreate(c, bytes, k, now)
       \/ \E s \in Slots :
            \/ \E bytes \in Sizes : PutNew(s, bytes, now)
            \/ \E bytes \in Sizes, r \in 1..lastRevision : Put(s, bytes, r, now)
            \/ \E r \in 1..lastRevision : Delete(s, r, now)
       \/ \E c \in Collections : ClearCollection(c, now)
  \/ PurgeNamespace
  \/ Tick

StoreSpec == StoreInit /\ [][StoreNext]_storeVars

---------------------------------------------------------------------------
\* What Changes(after) answers.

\* Broken variant: a log without rows is taken to hold nothing newer.
CursorExpiredByRows(after) ==
  DOMAIN changes # {} /\ \A n \in DOMAIN changes : after + 1 < n

\* ErrCursorExpired: the retained log no longer reaches back to the cursor.
CursorExpired(after) ==
  IF DOMAIN changes = {} THEN after < lastSequence
                         ELSE \A n \in DOMAIN changes : after + 1 < n

\* ErrInvalidCursor: the cursor lies beyond the namespace's last change.
CursorInvalid(after) == after > lastSequence

\* The changes it returns, before the collection filter and the page limit.
ChangesAfter(after) == {n \in DOMAIN changes : n > after /\ n <= lastSequence}

---------------------------------------------------------------------------
\* Properties.

Answer == [key : Keys, at : Nat, revision : Nat, replay : BOOLEAN]

\* Every table holds rows of its type, and a row's created_sequence is one of
\* the sequence numbers already drawn.
StoreTypeOK ==
  /\ lastSequence \in Nat /\ lastRevision \in Nat /\ clock \in Nat
  /\ documents \in [Slots -> Document \cup {Absent}]
  /\ createdSequence \in [Slots -> 0..lastSequence]
  /\ DOMAIN changes \subseteq 1..lastSequence
  /\ changes \in [DOMAIN changes -> Change]
  /\ idempotency \in [Keys -> Record \cup {Absent}]
  /\ history \in [0..lastSequence -> [Slots -> Document \cup {Absent}]]
  /\ answers \subseteq Answer

\* A reader whose cursor Changes accepts can rebuild the documents: every
\* change after the cursor is still in the log, each one takes the documents
\* of the moment before it to those of the moment after it, and the last of
\* these are the documents now.  This is what lets a client resume a stream
\* instead of listing again (Changes with cleanupChanges, over any sequence of
\* creates, replacements, deletes, clears and purges).
Resumable ==
  /\ history[lastSequence] = documents
  /\ \A after \in 0..lastSequence :
       ~CursorExpired(after) =>
         \A n \in (after + 1)..lastSequence :
            /\ n \in ChangesAfter(after)
            /\ history[n] = Apply(history[n - 1], changes[n])

\* The limits hold of the state, not only of the request that was checked:
\* neither a run of creates and replacements, nor several collections sharing
\* the namespace's bytes, nor expired records that are still stored exceed them.
WithinLimits ==
  /\ \A c \in Collections : Cardinality(StoredIn(documents, c)) <= MaxDocuments
  /\ BytesUsed(documents) <= MaxNamespaceBytes
  /\ Cardinality({k \in Keys : idempotency[k] # Absent}) <= MaxIdempotencyRecords
  /\ Cardinality(DOMAIN changes) <= ChangeRetentionEntries

\* Within the retention of a key, every answer to it names the document of the
\* create that first used it: a retry after a lost response creates nothing,
\* whatever other keys expired and whatever happened to the document meanwhile.
RetriesAnswerTheSame ==
  \A first, again \in answers :
    /\ ~first.replay /\ again.key = first.key
    /\ first.at <= again.at /\ again.at < first.at + IdempotencyRetention
    => again.revision = first.revision

\* A list is read in pages, each a transaction of its own that selects by
\* created_sequence <= the watermark of the first.  For every watermark W that
\* selects exactly the documents stored ever since W: one deleted and created
\* again in between is left to the change stream, one replaced in between is
\* not.  No two documents share a created_sequence, so a page boundary falls
\* between documents.
ListStable ==
  \A s \in Stored(documents) :
    /\ \A t \in Stored(documents) \ {s} : createdSequence[t] # createdSequence[s]
    /\ \A W \in 0..lastSequence :
         createdSequence[s] <= W <=> \A m \in W..lastSequence : history[m][s] # Absent
=============================================================================
