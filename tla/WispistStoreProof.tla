-------------------------- MODULE WispistStoreProof --------------------------
(***************************************************************************)
(* What holds of WispistStore for every set of names, every limit and      *)
(* every retention period.                                                 *)
(***************************************************************************)
EXTENDS WispistStore, Sums

States == [Slots -> Document \cup {Absent}]

---------------------------------------------------------------------------
\* The operators the transactions are built from.

\* A clock reading is a natural number, and the present one if none may lag.
LEMMA RequestTime ==
  ASSUME StoreTypeOK, NEW now \in RequestTimes
  PROVE  now \in Nat /\ (Skew = 0 => now = clock)
BY StoreAssumption DEF StoreTypeOK, RequestTimes

\* Only finitely many documents can be stored.
LEMMA StoredFinite ==
  ASSUME NEW docs, NEW c
  PROVE  /\ IsFiniteSet(StoredIn(docs, c))
         /\ Cardinality(StoredIn(docs, c)) \in Nat
         /\ StoredIn(docs, c) \subseteq Slots
<1>1. IsFiniteSet(Slots)
  BY StoreAssumption, FS_Product DEF Slots
<1>2. StoredIn(docs, c) \subseteq Slots
  BY DEF StoredIn, Stored
<1> QED
  BY <1>1, <1>2, FS_Subset, FS_CardinalityType

\* Retained only removes changes.
LEMMA RetainedSubset ==
  ASSUME NEW log, NEW now
  PROVE  /\ DOMAIN Retained(log, now) \subseteq DOMAIN log
         /\ \A n \in DOMAIN Retained(log, now) : Retained(log, now)[n] = log[n]
BY DEF Retained

\* Extended keeps the log and adds the entries behind it.
LEMMA ExtendedLog ==
  ASSUME StoreTypeOK, NEW k \in Nat, NEW entries \in [1..k -> Change]
  PROVE  /\ DOMAIN Extended(k, entries) \subseteq 1..(lastSequence + k)
         /\ DOMAIN Extended(k, entries) =
              DOMAIN changes \cup (lastSequence + 1)..(lastSequence + k)
         /\ \A n \in DOMAIN changes : Extended(k, entries)[n] = changes[n]
         /\ \A n \in (lastSequence + 1)..(lastSequence + k) :
              /\ n - lastSequence \in 1..k
              /\ Extended(k, entries)[n] = entries[n - lastSequence]
         /\ \A n \in DOMAIN Extended(k, entries) : Extended(k, entries)[n] \in Change
BY DEF StoreTypeOK, Extended

\* The tables of the log have their types after a transaction.
LEMMA LogChangesType ==
  ASSUME StoreTypeOK, NEW k \in Nat, NEW entries \in [1..k -> Change],
         NEW states \in [1..k -> States], NEW now \in Nat,
         LogChanges(k, entries, states, now)
  PROVE  /\ lastSequence' \in Nat /\ lastSequence' >= lastSequence
         /\ lastSequence' = lastSequence + k
         /\ DOMAIN changes' \subseteq 1..lastSequence'
         /\ changes' \in [DOMAIN changes' -> Change]
         /\ history' \in [0..lastSequence' -> States]
<1> DEFINE log == Extended(k, entries)
<1>1. lastSequence \in Nat /\ lastSequence' = lastSequence + k
  BY DEF StoreTypeOK, LogChanges
<1>2. changes' = Retained(log, now)
  BY DEF LogChanges
<1>3. DOMAIN changes' \subseteq DOMAIN log /\ \A n \in DOMAIN changes' : changes'[n] = log[n]
  BY <1>2, RetainedSubset
<1>4. changes' = [n \in DOMAIN changes' |-> changes'[n]]
  BY <1>2 DEF Retained
<1>5. /\ DOMAIN log \subseteq 1..(lastSequence + k)
      /\ \A n \in DOMAIN log : log[n] \in Change
  BY ExtendedLog
<1> HIDE DEF log
<1>6. changes' \in [DOMAIN changes' -> Change]
  BY <1>3, <1>4, <1>5
<1>7. history' \in [0..(lastSequence + k) -> States]
  <2>1. history \in [0..lastSequence -> States]
    BY DEF StoreTypeOK, States
  <2>2. ASSUME NEW n \in 0..(lastSequence + k), ~(n <= lastSequence)
        PROVE  n - lastSequence \in 1..k
    BY <2>2, <1>1
  <2> QED
    BY <1>1, <2>1, <2>2 DEF LogChanges
<1> QED
  BY <1>1, <1>3, <1>5, <1>6, <1>7

---------------------------------------------------------------------------
\* Type correctness.

LEMMA InitType == StoreInit => StoreTypeOK
<1> SUFFICES ASSUME StoreInit PROVE StoreTypeOK
  OBVIOUS
<1>1. history \in [0..0 -> [Slots -> Document \cup {Absent}]]
  BY DEF StoreInit, NoDocuments
<1>2. changes \in [{} -> Change] /\ DOMAIN changes = {}
  BY DEF StoreInit
<1> QED
  BY <1>1, <1>2 DEF StoreInit, StoreTypeOK, NoDocuments

\* A written document, with its revision, its change and its type.
LEMMA WriteDocumentType ==
  ASSUME StoreTypeOK, NEW s \in Slots, NEW bytes \in Sizes,
         NEW operation \in {"create", "update"}, NEW now \in Nat,
         WriteDocument(s, bytes, operation, now)
  PROVE  /\ lastRevision' \in Nat /\ lastRevision' = lastRevision + 1
         /\ documents' \in States
         /\ lastSequence' \in Nat /\ lastSequence' = lastSequence + 1
         /\ DOMAIN changes' \subseteq 1..lastSequence'
         /\ changes' \in [DOMAIN changes' -> Change]
         /\ history' \in [0..lastSequence' -> States]
<1> DEFINE document == [revision |-> lastRevision + 1, bytes |-> bytes]
           after    == [documents EXCEPT ![s] = document]
           entry    == [operation |-> operation, slot |-> s,
                        document |-> document, at |-> now]
<1>1. bytes \in Nat
  BY StoreAssumption
<1>2. document \in Document
  BY <1>1 DEF StoreTypeOK, Document
<1>3. after \in States
  BY <1>2 DEF StoreTypeOK, States
<1>4. entry \in Change
  BY <1>2 DEF Change
<1>5. /\ lastRevision' = lastRevision + 1 /\ documents' = after
      /\ LogChanges(1, [i \in 1..1 |-> entry], [i \in 1..1 |-> after], now)
  BY DEF WriteDocument
<1> HIDE DEF entry, after
<1>6. [i \in 1..1 |-> entry] \in [1..1 -> Change] /\ [i \in 1..1 |-> after] \in [1..1 -> States]
  BY <1>3, <1>4
<1>7. lastRevision' \in Nat
  BY <1>5 DEF StoreTypeOK
<1> QED
  BY <1>3, <1>5, <1>6, <1>7, LogChangesType

\* Expiry leaves records of their type.
LEMMA UnexpiredType ==
  ASSUME StoreTypeOK, NEW now
  PROVE  /\ Unexpired(now) \in [Keys -> Record \cup {Absent}]
         /\ \A k \in Keys : Unexpired(now)[k] # Absent =>
              /\ Unexpired(now)[k] = idempotency[k]
              /\ idempotency[k] # Absent /\ idempotency[k].expires > now
         /\ \A k \in Keys : Unexpired(now)[k] = Absent =>
              idempotency[k] = Absent \/ ~(idempotency[k].expires > now)
<1>1. Unexpired(now) \in [Keys -> Record \cup {Absent}]
  BY DEF StoreTypeOK, Unexpired
<1>2. \A k \in Keys : Unexpired(now)[k] =
         IF idempotency[k] # Absent /\ idempotency[k].expires > now
         THEN idempotency[k] ELSE Absent
  BY DEF Unexpired
<1> QED
  BY <1>1, <1>2

LEMMA CreateType ==
  ASSUME StoreTypeOK, NEW c \in Collections, NEW i \in Ids, NEW bytes \in Sizes,
         NEW k \in Keys, NEW now \in Nat, Create(c, i, bytes, k, now)
  PROVE  StoreTypeOK'
<1> DEFINE s == <<c, i>>
           record == [fingerprint |-> Fingerprint(c, bytes), revision |-> lastRevision + 1,
                      expires |-> now + IdempotencyRetention]
           answer == [key |-> k, at |-> now, revision |-> lastRevision + 1, replay |-> FALSE]
<1>1. s \in Slots
  BY DEF Slots
<1>2. WriteDocument(s, bytes, "create", now)
  BY DEF Create
<1>3. /\ lastRevision' \in Nat /\ lastRevision' = lastRevision + 1
      /\ documents' \in States
      /\ lastSequence' \in Nat /\ lastSequence' = lastSequence + 1
      /\ DOMAIN changes' \subseteq 1..lastSequence'
      /\ changes' \in [DOMAIN changes' -> Change]
      /\ history' \in [0..lastSequence' -> States]
  <2> HIDE DEF s
  <2> QED BY <1>1, <1>2, WriteDocumentType
<1>4. createdSequence' \in [Slots -> 0..lastSequence']
  BY <1>1, <1>3 DEF Create, StoreTypeOK
<1>5. record \in Record /\ answer \in Answer
  <2>1. now + IdempotencyRetention \in Nat
    BY StoreAssumption
  <2>2. lastRevision + 1 \in Nat
    BY DEF StoreTypeOK
  <2>3. Fingerprint(c, bytes) \in Collections \X Sizes
    BY DEF Fingerprint
  <2> QED
    BY <2>1, <2>2, <2>3 DEF Record, Answer
<1>6. idempotency' \in [Keys -> Record \cup {Absent}]
  <2>1. idempotency' = [Unexpired(now) EXCEPT ![k] = record]
    BY DEF Create
  <2> HIDE DEF record
  <2> QED BY <2>1, <1>5, UnexpiredType
<1>7. answers' \subseteq Answer
  <2>1. answers' = answers \cup {answer}
    BY DEF Create
  <2>2. answers \subseteq Answer
    BY DEF StoreTypeOK
  <2> HIDE DEF answer
  <2> QED BY <2>1, <2>2, <1>5
<1>8. clock' \in Nat
  BY DEF Create, StoreTypeOK
<1> QED
  BY <1>3, <1>4, <1>6, <1>7, <1>8 DEF StoreTypeOK, States

LEMMA ReplayCreateType ==
  ASSUME StoreTypeOK, NEW c \in Collections, NEW bytes \in Sizes,
         NEW k \in Keys, NEW now \in Nat, ReplayCreate(c, bytes, k, now)
  PROVE  StoreTypeOK'
<1> DEFINE answer == [key |-> k, at |-> now, revision |-> Unexpired(now)[k].revision,
                      replay |-> TRUE]
<1>1. Unexpired(now)[k] \in Record
  BY UnexpiredType DEF ReplayCreate
<1>2. answer \in Answer
  BY <1>1 DEF Record, Answer
<1>3. answers' = answers \cup {answer}
  BY DEF ReplayCreate
<1> HIDE DEF answer
<1> QED
  BY <1>2, <1>3 DEF ReplayCreate, StoreTypeOK

LEMMA PutNewType ==
  ASSUME StoreTypeOK, NEW s \in Slots, NEW bytes \in Sizes, NEW now \in Nat,
         PutNew(s, bytes, now)
  PROVE  StoreTypeOK'
<1>1. WriteDocument(s, bytes, "create", now)
  BY DEF PutNew
<1>2. /\ lastRevision' \in Nat
      /\ documents' \in States
      /\ lastSequence' \in Nat /\ lastSequence' = lastSequence + 1
      /\ DOMAIN changes' \subseteq 1..lastSequence'
      /\ changes' \in [DOMAIN changes' -> Change]
      /\ history' \in [0..lastSequence' -> States]
  BY <1>1, WriteDocumentType
<1>3. createdSequence' \in [Slots -> 0..lastSequence']
  BY <1>2 DEF PutNew, StoreTypeOK
<1> QED
  BY <1>2, <1>3 DEF PutNew, StoreTypeOK, States

LEMMA PutType ==
  ASSUME StoreTypeOK, NEW s \in Slots, NEW bytes \in Sizes, NEW r, NEW now \in Nat,
         Put(s, bytes, r, now)
  PROVE  StoreTypeOK'
<1>1. WriteDocument(s, bytes, "update", now)
  BY DEF Put
<1>2. /\ lastRevision' \in Nat
      /\ documents' \in States
      /\ lastSequence' \in Nat /\ lastSequence' = lastSequence + 1
      /\ DOMAIN changes' \subseteq 1..lastSequence'
      /\ changes' \in [DOMAIN changes' -> Change]
      /\ history' \in [0..lastSequence' -> States]
  BY <1>1, WriteDocumentType
<1>3. createdSequence' \in [Slots -> 0..lastSequence']
  BY <1>2 DEF Put, StoreTypeOK
<1> QED
  BY <1>2, <1>3 DEF Put, StoreTypeOK, States

LEMMA DeleteType ==
  ASSUME StoreTypeOK, NEW s \in Slots, NEW r, NEW now \in Nat, Delete(s, r, now)
  PROVE  StoreTypeOK'
<1> DEFINE after == [documents EXCEPT ![s] = Absent]
           entry == [operation |-> "delete", slot |-> s, document |-> Absent, at |-> now]
<1>1. after \in States
  BY DEF StoreTypeOK, States
<1>2. entry \in Change
  BY DEF Change
<1>3. documents' = after /\ LogChanges(1, [i \in 1..1 |-> entry], [i \in 1..1 |-> after], now)
  BY DEF Delete
<1> HIDE DEF after, entry
<1>4. [i \in 1..1 |-> entry] \in [1..1 -> Change] /\ [i \in 1..1 |-> after] \in [1..1 -> States]
  BY <1>1, <1>2
<1>5. /\ lastSequence' \in Nat /\ lastSequence' = lastSequence + 1
      /\ DOMAIN changes' \subseteq 1..lastSequence'
      /\ changes' \in [DOMAIN changes' -> Change]
      /\ history' \in [0..lastSequence' -> States]
  BY <1>3, <1>4, LogChangesType
<1>6. createdSequence' \in [Slots -> 0..lastSequence']
  BY <1>5 DEF Delete, StoreTypeOK
<1> QED
  BY <1>1, <1>3, <1>5, <1>6 DEF Delete, StoreTypeOK, States

\* The cleared documents in the order of their change numbers.
LEMMA ClearOrder ==
  ASSUME NEW c, NEW order \in ClearOrders(c)
  PROVE  /\ Cardinality(StoredIn(documents, c)) \in Nat
         /\ order \in [1..Cardinality(StoredIn(documents, c)) -> StoredIn(documents, c)]
         /\ \A s \in StoredIn(documents, c) :
              \E i \in 1..Cardinality(StoredIn(documents, c)) : order[i] = s
         /\ StoredIn(documents, c) \subseteq Slots
BY StoredFinite DEF ClearOrders

LEMMA ClearCollectionType ==
  ASSUME StoreTypeOK, NEW c, NEW now \in Nat, ClearCollection(c, now)
  PROVE  StoreTypeOK'
<1> DEFINE cleared == StoredIn(documents, c)
           k == Cardinality(cleared)
           entries(order) == [i \in 1..k |-> [operation |-> "delete", slot |-> order[i],
                                             document |-> Absent, at |-> now]]
           states(order) == [i \in 1..k |-> [s \in Slots |->
                               IF \E j \in 1..i : order[j] = s THEN Absent
                                                               ELSE documents[s]]]
<1>1. PICK order \in ClearOrders(c) :
        /\ documents' = [s \in Slots |-> IF s \in cleared THEN Absent ELSE documents[s]]
        /\ createdSequence' = [s \in Slots |->
                               IF s \in cleared THEN 0 ELSE createdSequence[s]]
        /\ LogChanges(k, entries(order), states(order), now)
        /\ UNCHANGED <<idempotency, lastRevision, clock, answers>>
  BY DEF ClearCollection
<1>2. k \in Nat /\ order \in [1..k -> cleared] /\ cleared \subseteq Slots
  BY ClearOrder
<1>3. entries(order) \in [1..k -> Change]
  BY <1>2 DEF Change
<1>4. states(order) \in [1..k -> States]
  BY DEF StoreTypeOK, States
<1> HIDE DEF entries, states, cleared, k
<1>5. /\ lastSequence' \in Nat /\ lastSequence' >= lastSequence
      /\ DOMAIN changes' \subseteq 1..lastSequence'
      /\ changes' \in [DOMAIN changes' -> Change]
      /\ history' \in [0..lastSequence' -> States]
  BY <1>1, <1>2, <1>3, <1>4, LogChangesType
<1>6. createdSequence' \in [Slots -> 0..lastSequence']
  BY <1>1, <1>5 DEF StoreTypeOK
<1>7. documents' \in States
  BY <1>1 DEF StoreTypeOK, States
<1> QED
  BY <1>1, <1>5, <1>6, <1>7 DEF StoreTypeOK, States

LEMMA PurgeNamespaceType == StoreTypeOK /\ PurgeNamespace => StoreTypeOK'
<1> SUFFICES ASSUME StoreTypeOK, PurgeNamespace PROVE StoreTypeOK'
  OBVIOUS
<1>1. history' \in [0..0 -> [Slots -> Document \cup {Absent}]]
  BY DEF PurgeNamespace, NoDocuments
<1>2. changes' \in [{} -> Change] /\ DOMAIN changes' = {}
  BY DEF PurgeNamespace
<1> QED
  BY <1>1, <1>2 DEF PurgeNamespace, StoreTypeOK, NoDocuments

\* Every transaction, whatever its clock reading, keeps the tables well typed.
LEMMA NextType == StoreTypeOK /\ [StoreNext]_storeVars => StoreTypeOK'
<1> SUFFICES ASSUME StoreTypeOK, [StoreNext]_storeVars PROVE StoreTypeOK'
  OBVIOUS
<1>1. ASSUME NEW now \in RequestTimes, NEW c \in Collections, NEW bytes \in Sizes,
             NEW k \in Keys, NEW i \in Ids, Create(c, i, bytes, k, now)
      PROVE  StoreTypeOK'
  BY <1>1, RequestTime, CreateType
<1>2. ASSUME NEW now \in RequestTimes, NEW c \in Collections, NEW bytes \in Sizes,
             NEW k \in Keys, ReplayCreate(c, bytes, k, now)
      PROVE  StoreTypeOK'
  BY <1>2, RequestTime, ReplayCreateType
<1>3. ASSUME NEW now \in RequestTimes, NEW s \in Slots, NEW bytes \in Sizes,
             PutNew(s, bytes, now)
      PROVE  StoreTypeOK'
  BY <1>3, RequestTime, PutNewType
<1>4. ASSUME NEW now \in RequestTimes, NEW s \in Slots, NEW bytes \in Sizes,
             NEW r \in 1..lastRevision, Put(s, bytes, r, now)
      PROVE  StoreTypeOK'
  BY <1>4, RequestTime, PutType
<1>5. ASSUME NEW now \in RequestTimes, NEW s \in Slots,
             NEW r \in 1..lastRevision, Delete(s, r, now)
      PROVE  StoreTypeOK'
  BY <1>5, RequestTime, DeleteType
<1>6. ASSUME NEW now \in RequestTimes, NEW c \in Collections, ClearCollection(c, now)
      PROVE  StoreTypeOK'
  BY <1>6, RequestTime, ClearCollectionType
<1>7. CASE PurgeNamespace
  BY <1>7, PurgeNamespaceType
<1>8. CASE Tick
  BY <1>8 DEF Tick, StoreTypeOK
<1>9. CASE UNCHANGED storeVars
  BY <1>9 DEF storeVars, StoreTypeOK
<1> QED
  BY <1>1, <1>2, <1>3, <1>4, <1>5, <1>6, <1>7, <1>8, <1>9 DEF StoreNext

\* The tables are well typed in every reachable state: no sequence number is
\* ever ahead of namespace_state, and the log never refers beyond it.
THEOREM StoreTypeCorrect == StoreSpec => []StoreTypeOK
<1>1. StoreInit => StoreTypeOK
  BY InitType
<1>2. StoreTypeOK /\ [StoreNext]_storeVars => StoreTypeOK'
  BY NextType
<1> QED
  BY <1>1, <1>2, PTL DEF StoreSpec

---------------------------------------------------------------------------
\* The change log.

\* With any change the log holds every later one, and times never decrease.
Suffix(log, last) ==
  \A m \in DOMAIN log : \A n \in m..last :
    n \in DOMAIN log /\ log[m].at <= log[n].at

\* The inductive invariant of the log.  Resumable alone is not inductive: that
\* the next pruning cuts the log at one place follows from the times.
LogInv ==
  /\ Suffix(changes, lastSequence)
  /\ \A n \in DOMAIN changes : changes[n].at <= clock
  /\ \A n \in DOMAIN changes : history[n] = Apply(history[n - 1], changes[n])
  /\ history[lastSequence] = documents

\* Pruning by age and by number leaves a suffix of a suffix.
LEMMA RetainedSuffix ==
  ASSUME NEW last \in Nat, NEW log, DOMAIN log \subseteq 1..last,
         \A n \in DOMAIN log : log[n].at \in Nat, Suffix(log, last), NEW now \in Nat
  PROVE  Suffix(Retained(log, now), last)
<1> DEFINE young == {n \in DOMAIN log : log[n].at >= now - ChangeRetentionAge}
           newer(n) == {m \in young : m > n}
<1>1. SUFFICES ASSUME NEW m \in DOMAIN Retained(log, now), NEW n \in m..last
               PROVE  /\ n \in DOMAIN Retained(log, now)
                      /\ Retained(log, now)[m].at <= Retained(log, now)[n].at
  BY DEF Suffix
<1>2. m \in young /\ Cardinality(newer(m)) < ChangeRetentionEntries
  BY DEF Retained
<1>3. n \in DOMAIN log /\ log[m].at <= log[n].at
  BY <1>2 DEF Suffix
<1>4. n \in young
  <2>1. log[m].at \in Nat /\ log[n].at \in Nat /\ now - ChangeRetentionAge \in Int
    BY <1>2, <1>3, StoreAssumption
  <2> QED BY <1>2, <1>3, <2>1
<1>5. Cardinality(newer(n)) < ChangeRetentionEntries
  <2>1. newer(n) \subseteq newer(m)
    BY <1>2
  <2>2. IsFiniteSet(newer(m))
    <3>1. newer(m) \subseteq 1..last
      OBVIOUS
    <3>2. IsFiniteSet(1..last)
      BY FS_Interval
    <3> QED BY <3>1, <3>2, FS_Subset
  <2>3. /\ Cardinality(newer(n)) <= Cardinality(newer(m))
        /\ Cardinality(newer(n)) \in Nat /\ Cardinality(newer(m)) \in Nat
    <3> HIDE DEF newer
    <3> QED BY <2>1, <2>2, FS_Subset, FS_CardinalityType
  <2> HIDE DEF newer
  <2> QED BY <1>2, <2>3, StoreAssumption
<1>6. n \in DOMAIN Retained(log, now)
  BY <1>4, <1>5 DEF Retained
<1> QED
  BY <1>3, <1>6, RetainedSubset

LEMMA LogChangesInv ==
  ASSUME StoreTypeOK, LogInv, NEW k \in Nat, NEW entries \in [1..k -> Change],
         NEW states \in [1..k -> States],
         \A i \in 1..k : entries[i].at = clock,
         \A i \in 1..k : states[i] = Apply(IF i = 1 THEN documents ELSE states[i - 1],
                                          entries[i]),
         LogChanges(k, entries, states, clock),
         documents' = IF k = 0 THEN documents ELSE states[k],
         clock' = clock
  PROVE  LogInv'
<1> DEFINE log == Extended(k, entries)
           last == lastSequence + k
<1>0. lastSequence \in Nat /\ last \in Nat /\ clock \in Nat /\ lastSequence' = last
  BY DEF StoreTypeOK, LogChanges
<1>1. changes' = Retained(log, clock)
  BY DEF LogChanges
<1>2. /\ DOMAIN log \subseteq 1..last
      /\ DOMAIN log = DOMAIN changes \cup (lastSequence + 1)..last
      /\ \A n \in DOMAIN changes : log[n] = changes[n]
      /\ \A n \in (lastSequence + 1)..last :
           n - lastSequence \in 1..k /\ log[n] = entries[n - lastSequence]
      /\ \A n \in DOMAIN log : log[n] \in Change
  BY ExtendedLog
<1>3. DOMAIN changes \subseteq 1..lastSequence
  BY DEF StoreTypeOK
<1>4. \A n \in 0..last : history'[n] = IF n <= lastSequence THEN history[n]
                                       ELSE states[n - lastSequence]
  BY DEF LogChanges
<1> HIDE DEF log
<1>5. \A n \in DOMAIN log : log[n].at \in Nat /\ log[n].at <= clock
  <2> TAKE n \in DOMAIN log
  <2>1. log[n].at \in Nat
    BY <1>2 DEF Change
  <2>2. CASE n \in DOMAIN changes
    BY <1>2, <2>1, <2>2 DEF LogInv
  <2>3. CASE n \in (lastSequence + 1)..last
    BY <1>0, <1>2, <2>1, <2>3
  <2> QED BY <1>2, <2>2, <2>3
<1>6. Suffix(log, last)
  <2>1. SUFFICES ASSUME NEW m \in DOMAIN log, NEW n \in m..last
                 PROVE  n \in DOMAIN log /\ log[m].at <= log[n].at
    BY DEF Suffix
  <2>2. m \in Nat /\ n \in Nat /\ m \in 1..last
    BY <1>0, <1>2
  <2>3. CASE n > lastSequence
    <3>1. n \in (lastSequence + 1)..last
      BY <1>0, <2>2, <2>3
    <3>2. n \in DOMAIN log /\ log[n].at = clock
      BY <1>2, <3>1
    <3> QED BY <1>5, <3>2
  <2>4. CASE ~(n > lastSequence)
    <3>1. m \in DOMAIN changes /\ n \in m..lastSequence
      BY <1>0, <1>2, <2>2, <2>4
    <3>2. n \in DOMAIN changes /\ changes[m].at <= changes[n].at
      BY <3>1 DEF LogInv, Suffix
    <3> QED BY <1>2, <3>1, <3>2
  <2> QED BY <2>3, <2>4
<1>7. Suffix(changes', lastSequence')
  <2> HIDE DEF last
  <2> QED BY <1>0, <1>1, <1>2, <1>5, <1>6, RetainedSuffix
<1>8. \A n \in DOMAIN changes' : n \in DOMAIN log /\ changes'[n] = log[n]
  BY <1>1, RetainedSubset
<1>9. ASSUME NEW n \in DOMAIN log
      PROVE  history'[n] = Apply(history'[n - 1], log[n])
  <2>1. CASE n \in DOMAIN changes
    <3>1. n \in 1..lastSequence /\ n - 1 \in 0..lastSequence
      BY <1>0, <1>3, <2>1
    <3>2. history'[n] = history[n] /\ history'[n - 1] = history[n - 1]
      BY <1>0, <1>4, <3>1
    <3> QED BY <1>2, <2>1, <3>2 DEF LogInv
  <2>2. CASE n \in (lastSequence + 1)..last
    <3> DEFINE i == n - lastSequence
    <3>1. i \in 1..k /\ log[n] = entries[i]
      BY <1>2, <2>2
    <3>2. n \in 0..last /\ n - 1 \in 0..last /\ ~(n <= lastSequence)
      BY <1>0, <2>2
    <3>3. history'[n] = states[i]
      BY <1>4, <3>2
    <3>4. history'[n - 1] = IF i = 1 THEN documents ELSE states[i - 1]
      <4>1. CASE i = 1
        <5>1. n - 1 = lastSequence
          BY <1>0, <2>2, <4>1
        <5> QED BY <1>0, <1>4, <3>2, <4>1, <5>1 DEF LogInv
      <4>2. CASE i # 1
        <5>1. ~(n - 1 <= lastSequence) /\ (n - 1) - lastSequence = i - 1
          BY <1>0, <2>2, <4>2
        <5> QED BY <1>4, <3>2, <4>2, <5>1
      <4> QED BY <4>1, <4>2
    <3> QED BY <3>1, <3>3, <3>4
  <2> QED BY <1>2, <2>1, <2>2
<1>10. history'[lastSequence'] = documents'
  <2>1. CASE k = 0
    BY <1>0, <1>4, <2>1 DEF LogInv
  <2>2. CASE k # 0
    <3>1. last \in 0..last /\ ~(last <= lastSequence) /\ last - lastSequence = k
      BY <1>0, <2>2
    <3> QED BY <1>0, <1>4, <2>2, <3>1
  <2> QED BY <2>1, <2>2
<1> QED
  BY <1>5, <1>7, <1>8, <1>9, <1>10 DEF LogInv

LEMMA WriteDocumentLog ==
  ASSUME StoreTypeOK, LogInv, NEW s \in Slots, NEW bytes \in Sizes,
         NEW operation \in {"create", "update"},
         WriteDocument(s, bytes, operation, clock), clock' = clock
  PROVE  LogInv'
<1> DEFINE document == [revision |-> lastRevision + 1, bytes |-> bytes]
           after    == [documents EXCEPT ![s] = document]
           entry    == [operation |-> operation, slot |-> s,
                        document |-> document, at |-> clock]
<1>0. clock \in Nat /\ lastRevision + 1 \in Nat /\ bytes \in Nat
  BY StoreAssumption DEF StoreTypeOK
<1>1. document \in Document
  BY <1>0 DEF Document
<1>2. after \in States
  BY <1>1 DEF StoreTypeOK, States
<1>3. entry \in Change /\ entry.at = clock
  BY <1>0, <1>1 DEF Change
<1>4. after = Apply(documents, entry)
  BY DEF Apply
<1>5. documents' = after /\ LogChanges(1, [i \in 1..1 |-> entry], [i \in 1..1 |-> after], clock)
  BY DEF WriteDocument
<1> HIDE DEF entry, after
<1> DEFINE entries == [i \in 1..1 |-> entry]
           states  == [i \in 1..1 |-> after]
<1>6. /\ entries \in [1..1 -> Change] /\ states \in [1..1 -> States]
      /\ \A i \in 1..1 : entries[i].at = clock
      /\ \A i \in 1..1 : states[i] = Apply(IF i = 1 THEN documents ELSE states[i - 1],
                                           entries[i])
      /\ documents' = IF 1 = 0 THEN documents ELSE states[1]
      /\ LogChanges(1, entries, states, clock)
  BY <1>2, <1>3, <1>4, <1>5
<1> HIDE DEF entries, states
<1> QED
  BY <1>6, LogChangesInv

LEMMA DeleteLog ==
  ASSUME StoreTypeOK, LogInv, NEW s \in Slots, NEW r, Delete(s, r, clock)
  PROVE  LogInv'
<1> DEFINE after == [documents EXCEPT ![s] = Absent]
           entry == [operation |-> "delete", slot |-> s, document |-> Absent, at |-> clock]
<1>0. clock \in Nat
  BY DEF StoreTypeOK
<1>1. after \in States
  BY DEF StoreTypeOK, States
<1>2. entry \in Change /\ entry.at = clock
  BY <1>0 DEF Change
<1>3. after = Apply(documents, entry)
  BY DEF Apply
<1>4. /\ documents' = after /\ clock' = clock
      /\ LogChanges(1, [i \in 1..1 |-> entry], [i \in 1..1 |-> after], clock)
  BY DEF Delete
<1> HIDE DEF entry, after
<1> DEFINE entries == [i \in 1..1 |-> entry]
           states  == [i \in 1..1 |-> after]
<1>5. /\ entries \in [1..1 -> Change] /\ states \in [1..1 -> States]
      /\ \A i \in 1..1 : entries[i].at = clock
      /\ \A i \in 1..1 : states[i] = Apply(IF i = 1 THEN documents ELSE states[i - 1],
                                           entries[i])
      /\ documents' = IF 1 = 0 THEN documents ELSE states[1]
      /\ LogChanges(1, entries, states, clock)
  BY <1>1, <1>2, <1>3, <1>4
<1> HIDE DEF entries, states
<1> QED
  BY <1>4, <1>5, LogChangesInv

\* The last of a clear's states is the one it leaves behind.
LEMMA ClearedLast ==
  ASSUME StoreTypeOK, NEW c, NEW order \in ClearOrders(c),
         documents' = [s \in Slots |-> IF s \in StoredIn(documents, c) THEN Absent
                                                                     ELSE documents[s]]
  PROVE  documents' =
           IF Cardinality(StoredIn(documents, c)) = 0 THEN documents
           ELSE [i \in 1..Cardinality(StoredIn(documents, c)) |-> [s \in Slots |->
                   IF \E j \in 1..i : order[j] = s THEN Absent
                   ELSE documents[s]]][Cardinality(StoredIn(documents, c))]
<1> DEFINE cleared == StoredIn(documents, c)
           k == Cardinality(cleared)
<1>1. documents' = [s \in Slots |-> IF s \in cleared THEN Absent ELSE documents[s]]
  OBVIOUS
<1>2. /\ k \in Nat /\ order \in [1..k -> cleared] /\ cleared \subseteq Slots
      /\ \A s \in cleared : \E i \in 1..k : order[i] = s
  BY ClearOrder
<1>3. documents \in States
  BY DEF StoreTypeOK, States
<1> HIDE DEF cleared, k
<1>4. CASE k = 0
  <2>1. cleared = {}
    BY <1>2, <1>4
  <2>2. documents' = documents
    BY <1>1, <1>3, <2>1 DEF States
  <2> QED BY <1>4, <2>2 DEF k, cleared
<1>5. CASE k # 0
  <2>1. k \in 1..k
    BY <1>2, <1>5
  <2>2. ASSUME NEW s \in Slots
        PROVE  s \in cleared <=> \E j \in 1..k : order[j] = s
    BY <1>2
  <2>3. documents' = [s \in Slots |-> IF \E j \in 1..k : order[j] = s THEN Absent
                                                                   ELSE documents[s]]
    BY <1>1, <2>2
  <2>4. documents' = [i \in 1..k |-> [s \in Slots |->
                        IF \E j \in 1..i : order[j] = s THEN Absent ELSE documents[s]]][k]
    BY <2>1, <2>3
  <2> QED BY <1>5, <2>4 DEF k, cleared
<1> QED
  BY <1>4, <1>5

\* A clear logs one delete after another, each explaining the next state.
LEMMA ClearCollectionLog ==
  ASSUME StoreTypeOK, LogInv, NEW c, ClearCollection(c, clock)
  PROVE  LogInv'
<1> DEFINE cleared == StoredIn(documents, c)
           k == Cardinality(cleared)
           entries(order) == [i \in 1..k |-> [operation |-> "delete", slot |-> order[i],
                                             document |-> Absent, at |-> clock]]
           states(order) == [i \in 1..k |-> [s \in Slots |->
                               IF \E j \in 1..i : order[j] = s THEN Absent
                                                               ELSE documents[s]]]
<1>0. clock \in Nat
  BY DEF StoreTypeOK
<1>1. PICK order \in ClearOrders(c) :
        /\ documents' = [s \in Slots |-> IF s \in cleared THEN Absent ELSE documents[s]]
        /\ LogChanges(k, entries(order), states(order), clock)
        /\ clock' = clock
  BY DEF ClearCollection
<1>2. /\ k \in Nat /\ order \in [1..k -> cleared] /\ cleared \subseteq Slots
      /\ \A s \in cleared : \E i \in 1..k : order[i] = s
  BY ClearOrder
<1>3. documents \in States
  BY DEF StoreTypeOK, States
<1>8. documents' = IF k = 0 THEN documents ELSE states(order)[k]
  BY <1>1, ClearedLast
<1> HIDE DEF cleared, k
<1>4. entries(order) \in [1..k -> Change]
  BY <1>0, <1>2 DEF Change
<1>5. states(order) \in [1..k -> States]
  BY <1>3 DEF States
<1>6. \A i \in 1..k : entries(order)[i].at = clock
  OBVIOUS
<1>7. ASSUME NEW i \in 1..k
      PROVE  states(order)[i] = Apply(IF i = 1 THEN documents ELSE states(order)[i - 1],
                                      entries(order)[i])
  <2> DEFINE before == IF i = 1 THEN documents ELSE states(order)[i - 1]
  <2>1. before \in States
    <3>1. CASE i = 1
      BY <1>3, <3>1
    <3>2. CASE i # 1
      <4>1. i - 1 \in 1..k
        BY <1>2, <3>2
      <4> HIDE DEF states
      <4> QED BY <1>5, <3>2, <4>1
    <3> QED BY <3>1, <3>2
  <2>2. ASSUME NEW s \in Slots
        PROVE  before[s] = IF \E j \in 1..(i - 1) : order[j] = s THEN Absent ELSE documents[s]
    <3>1. CASE i = 1
      BY <3>1
    <3>2. CASE i # 1
      <4>1. i - 1 \in 1..k
        BY <1>2, <3>2
      <4> QED BY <3>2, <4>1
    <3> QED BY <3>1, <3>2
  <2>3. Apply(before, entries(order)[i]) = [before EXCEPT ![order[i]] = Absent]
    <3>1. entries(order)[i].slot = order[i] /\ entries(order)[i].document = Absent
      OBVIOUS
    <3> HIDE DEF before, entries
    <3> QED BY <3>1 DEF Apply
  <2>4. ASSUME NEW s \in Slots
        PROVE  [before EXCEPT ![order[i]] = Absent][s] =
                 IF \E j \in 1..i : order[j] = s THEN Absent ELSE documents[s]
    <3>1. \A j \in Int : j \in 1..i <=> j \in 1..(i - 1) \/ j = i
      BY <1>2
    <3> HIDE DEF before
    <3>2. [before EXCEPT ![order[i]] = Absent][s] = IF s = order[i] THEN Absent ELSE before[s]
      BY <2>1 DEF States
    <3> QED BY <2>2, <3>1, <3>2
  <2>5. [before EXCEPT ![order[i]] = Absent] = states(order)[i]
    <3> HIDE DEF before
    <3>1. [before EXCEPT ![order[i]] = Absent] =
            [s \in Slots |-> [before EXCEPT ![order[i]] = Absent][s]]
      BY <2>1 DEF States
    <3> QED BY <2>4, <3>1
  <2> QED BY <2>3, <2>5
<1> HIDE DEF entries, states
<1> QED
  BY <1>1, <1>2, <1>4, <1>5, <1>6, <1>7, <1>8, LogChangesInv

LEMMA InitLog == StoreInit => LogInv
BY DEF StoreInit, LogInv, Suffix

LEMMA NextLog ==
  ASSUME Skew = 0, StoreTypeOK, LogInv, [StoreNext]_storeVars
  PROVE  LogInv'
<1>1. ASSUME NEW now \in RequestTimes, NEW c \in Collections, NEW bytes \in Sizes,
             NEW k \in Keys, NEW i \in Ids, Create(c, i, bytes, k, now)
      PROVE  LogInv'
  <2> DEFINE s == <<c, i>>
  <2>1. now = clock /\ s \in Slots
    BY RequestTime DEF Slots
  <2>2. WriteDocument(s, bytes, "create", clock) /\ clock' = clock
    BY <1>1, <2>1 DEF Create
  <2> HIDE DEF s
  <2> QED BY <2>1, <2>2, WriteDocumentLog
<1>2. ASSUME NEW now \in RequestTimes, NEW c \in Collections, NEW bytes \in Sizes,
             NEW k \in Keys, ReplayCreate(c, bytes, k, now)
      PROVE  LogInv'
  BY <1>2 DEF ReplayCreate, LogInv
<1>3. ASSUME NEW now \in RequestTimes, NEW s \in Slots, NEW bytes \in Sizes,
             PutNew(s, bytes, now)
      PROVE  LogInv'
  <2>1. WriteDocument(s, bytes, "create", clock) /\ clock' = clock
    BY <1>3, RequestTime DEF PutNew
  <2> QED BY <2>1, WriteDocumentLog
<1>4. ASSUME NEW now \in RequestTimes, NEW s \in Slots, NEW bytes \in Sizes,
             NEW r \in 1..lastRevision, Put(s, bytes, r, now)
      PROVE  LogInv'
  <2>1. WriteDocument(s, bytes, "update", clock) /\ clock' = clock
    BY <1>4, RequestTime DEF Put
  <2> QED BY <2>1, WriteDocumentLog
<1>5. ASSUME NEW now \in RequestTimes, NEW s \in Slots,
             NEW r \in 1..lastRevision, Delete(s, r, now)
      PROVE  LogInv'
  BY <1>5, RequestTime, DeleteLog
<1>6. ASSUME NEW now \in RequestTimes, NEW c \in Collections, ClearCollection(c, now)
      PROVE  LogInv'
  BY <1>6, RequestTime, ClearCollectionLog
<1>7. CASE PurgeNamespace
  BY <1>7 DEF PurgeNamespace, LogInv, Suffix
<1>8. CASE Tick
  BY <1>8 DEF Tick, LogInv, StoreTypeOK, Change
<1>9. CASE UNCHANGED storeVars
  BY <1>9 DEF storeVars, LogInv
<1> QED
  BY <1>1, <1>2, <1>3, <1>4, <1>5, <1>6, <1>7, <1>8, <1>9 DEF StoreNext

LEMMA LogIsResumable == StoreTypeOK /\ LogInv => Resumable
<1> SUFFICES ASSUME StoreTypeOK, LogInv,
                    NEW after \in 0..lastSequence, ~CursorExpired(after),
                    NEW n \in (after + 1)..lastSequence
             PROVE  n \in ChangesAfter(after) /\ history[n] = Apply(history[n - 1], changes[n])
  BY DEF Resumable, LogInv
<1>1. lastSequence \in Nat /\ DOMAIN changes \subseteq 1..lastSequence
  BY DEF StoreTypeOK
<1>2. PICK m \in DOMAIN changes : ~(after + 1 < m)
  BY <1>1 DEF CursorExpired
<1>3. n \in m..lastSequence
  BY <1>1, <1>2
<1>4. n \in DOMAIN changes
  BY <1>2, <1>3 DEF LogInv, Suffix
<1> QED
  BY <1>1, <1>4 DEF LogInv, ChangesAfter

\* If transactions commit in the order of their clock readings, a cursor that
\* Changes accepts is one from which nothing is missing: no combination of age
\* pruning, entry pruning, clears and purges leaves a hole behind a cursor.
THEOREM ResumableWithoutSkew ==
  ASSUME Skew = 0
  PROVE  StoreSpec => []Resumable
<1>1. StoreInit => StoreTypeOK /\ LogInv
  BY InitType, InitLog
<1>2. StoreTypeOK /\ LogInv /\ [StoreNext]_storeVars => (StoreTypeOK /\ LogInv)'
  BY NextType, NextLog
<1>3. StoreTypeOK /\ LogInv => Resumable
  BY LogIsResumable
<1> QED
  BY <1>1, <1>2, <1>3, PTL DEF StoreSpec

---------------------------------------------------------------------------
\* Idempotent creates.

\* The inductive invariant of idempotent creates: the record of a create that
\* is still within its window is there and names that create's document, and a
\* key answered at this very moment is recorded.
RetryInv ==
  /\ \A a \in answers :
       /\ a.at <= clock
       /\ a.at = clock => /\ idempotency[a.key] # Absent
                          /\ idempotency[a.key].expires > clock
  /\ \A first \in answers :
       ~first.replay /\ clock < first.at + IdempotencyRetention =>
         /\ idempotency[first.key] # Absent
         /\ idempotency[first.key].revision = first.revision
         /\ idempotency[first.key].expires = first.at + IdempotencyRetention
  /\ RetriesAnswerTheSame

LEMMA AnswerFacts ==
  ASSUME StoreTypeOK
  PROVE  /\ clock \in Nat /\ IdempotencyRetention \in Nat \ {0}
         /\ \A a \in answers : /\ a.key \in Keys /\ a.at \in Nat
                              /\ a.revision \in Nat /\ a.replay \in BOOLEAN
BY StoreAssumption DEF StoreTypeOK, Answer

LEMMA CreateRetry ==
  ASSUME StoreTypeOK, RetryInv, NEW c \in Collections, NEW i \in Ids,
         NEW bytes \in Sizes, NEW k \in Keys, Create(c, i, bytes, k, clock)
  PROVE  RetryInv'
<1> DEFINE kept == Unexpired(clock)
           record == [fingerprint |-> Fingerprint(c, bytes), revision |-> lastRevision + 1,
                      expires |-> clock + IdempotencyRetention]
           new == [key |-> k, at |-> clock, revision |-> lastRevision + 1, replay |-> FALSE]
<1>0. /\ clock \in Nat /\ IdempotencyRetention \in Nat \ {0}
      /\ \A a \in answers : a.key \in Keys /\ a.at \in Nat /\ a.replay \in BOOLEAN
  BY AnswerFacts
<1>1. kept[k] = Absent /\ clock' = clock /\ answers' = answers \cup {new}
  BY DEF Create
<1>2. idempotency' = [kept EXCEPT ![k] = record]
  BY DEF Create
<1>3. kept \in [Keys -> Record \cup {Absent}]
  BY UnexpiredType
<1>4. /\ \A j \in Keys \ {k} : idempotency'[j] = kept[j]
      /\ idempotency'[k] = record
  <2> HIDE DEF kept, record
  <2> QED BY <1>2, <1>3
<1>5. record \in Record /\ record # Absent
  <2>1. clock + IdempotencyRetention \in Nat
    BY <1>0
  <2>2. lastRevision + 1 \in Nat
    BY DEF StoreTypeOK
  <2>3. Fingerprint(c, bytes) \in Collections \X Sizes
    BY DEF Fingerprint
  <2>4. record \in Record
    BY <2>1, <2>2, <2>3 DEF Record
  <2> QED BY <2>4, StoreAssumption
\* Key k has no answer that still binds it.
<1>6. \A j \in Keys : idempotency[j] # Absent /\ idempotency[j].expires > clock =>
                     kept[j] = idempotency[j] /\ j # k
  BY <1>1 DEF Unexpired
<1>7. \A a \in answers : a.at = clock => a.key # k
  BY <1>0, <1>6 DEF RetryInv
<1>8. \A first \in answers :
        ~first.replay /\ clock < first.at + IdempotencyRetention => first.key # k
  BY <1>0, <1>6 DEF RetryInv
<1> HIDE DEF kept
<1>9. \A a \in answers' :
        /\ a.at <= clock'
        /\ a.at = clock' => idempotency'[a.key] # Absent /\ idempotency'[a.key].expires > clock'
  <2> TAKE a \in answers'
  <2>1. CASE a \in answers
    BY <1>0, <1>1, <1>4, <1>6, <2>1 DEF RetryInv
  <2>2. CASE a = new
    BY <1>0, <1>1, <1>4, <1>5, <2>2
  <2> QED BY <1>1, <2>1, <2>2
<1>10. ASSUME NEW first \in answers', ~first.replay,
              clock' < first.at + IdempotencyRetention
       PROVE  /\ idempotency'[first.key] # Absent
              /\ idempotency'[first.key].revision = first.revision
              /\ idempotency'[first.key].expires = first.at + IdempotencyRetention
  <2>1. CASE first \in answers
    <3>1. /\ idempotency[first.key] # Absent
          /\ idempotency[first.key].revision = first.revision
          /\ idempotency[first.key].expires = first.at + IdempotencyRetention
      BY <1>1, <1>10, <2>1 DEF RetryInv
    <3>2. kept[first.key] = idempotency[first.key] /\ first.key \in Keys \ {k}
      BY <1>0, <1>1, <1>6, <1>10, <2>1, <3>1
    <3> QED BY <1>4, <3>1, <3>2
  <2>2. CASE first = new
    BY <1>4, <1>5, <2>2
  <2> QED BY <1>1, <2>1, <2>2
<1>11. ASSUME NEW first \in answers', NEW again \in answers',
              ~first.replay, again.key = first.key,
              first.at <= again.at, again.at < first.at + IdempotencyRetention
       PROVE  again.revision = first.revision
  <2>1. CASE first \in answers /\ again \in answers
    BY <1>11, <2>1 DEF RetryInv, RetriesAnswerTheSame
  <2>2. CASE first = new /\ again \in answers
    <3>1. again.at = clock
      BY <1>0, <1>11, <2>2 DEF RetryInv
    <3> QED BY <1>7, <1>11, <2>2, <3>1
  <2>3. CASE first \in answers /\ again = new
    BY <1>8, <1>11, <2>3
  <2>4. CASE first = new /\ again = new
    BY <2>4
  <2> QED BY <1>1, <2>1, <2>2, <2>3, <2>4
<1>12. RetriesAnswerTheSame'
  BY <1>11 DEF RetriesAnswerTheSame
<1> QED
  BY <1>9, <1>10, <1>12 DEF RetryInv

LEMMA ReplayRetry ==
  ASSUME StoreTypeOK, RetryInv, NEW c, NEW bytes, NEW k \in Keys,
         ReplayCreate(c, bytes, k, clock)
  PROVE  RetryInv'
<1> DEFINE new == [key |-> k, at |-> clock, revision |-> idempotency[k].revision,
                   replay |-> TRUE]
<1>0. /\ clock \in Nat /\ IdempotencyRetention \in Nat \ {0}
      /\ \A a \in answers : a.key \in Keys /\ a.at \in Nat /\ a.replay \in BOOLEAN
  BY AnswerFacts
<1>1. idempotency[k] # Absent /\ idempotency[k].expires > clock
      /\ Unexpired(clock)[k] = idempotency[k]
  BY UnexpiredType DEF ReplayCreate
<1>2. /\ clock' = clock /\ idempotency' = idempotency
      /\ answers' = answers \cup {new}
  BY <1>1 DEF ReplayCreate
<1>3. ASSUME NEW first \in answers', NEW again \in answers',
             ~first.replay, again.key = first.key,
             first.at <= again.at, again.at < first.at + IdempotencyRetention
      PROVE  again.revision = first.revision
  <2>1. first \in answers
    BY <1>2, <1>3
  <2>2. CASE again \in answers
    BY <1>3, <2>1, <2>2 DEF RetryInv, RetriesAnswerTheSame
  <2>3. CASE again = new
    BY <1>3, <2>1, <2>3 DEF RetryInv
  <2> QED BY <1>2, <2>2, <2>3
<1>4. RetriesAnswerTheSame'
  BY <1>3 DEF RetriesAnswerTheSame
<1>5. \A a \in answers' :
        /\ a.at <= clock'
        /\ a.at = clock' => idempotency'[a.key] # Absent /\ idempotency'[a.key].expires > clock'
  BY <1>0, <1>1, <1>2 DEF RetryInv
<1> QED
  BY <1>2, <1>4, <1>5 DEF RetryInv

\* What leaves the answers, the records and the clock alone.
LEMMA RetryUnchanged ==
  RetryInv /\ UNCHANGED <<idempotency, clock, answers>> => RetryInv'
BY DEF RetryInv, RetriesAnswerTheSame

LEMMA NextRetry ==
  ASSUME Skew = 0, StoreTypeOK, RetryInv, [StoreNext]_storeVars
  PROVE  RetryInv'
<1>1. ASSUME NEW now \in RequestTimes, NEW c \in Collections, NEW bytes \in Sizes,
             NEW k \in Keys, NEW i \in Ids, Create(c, i, bytes, k, now)
      PROVE  RetryInv'
  BY <1>1, RequestTime, CreateRetry
<1>2. ASSUME NEW now \in RequestTimes, NEW c \in Collections, NEW bytes \in Sizes,
             NEW k \in Keys, ReplayCreate(c, bytes, k, now)
      PROVE  RetryInv'
  BY <1>2, RequestTime, ReplayRetry
<1>3. ASSUME NEW now, NEW s \in Slots, NEW bytes \in Sizes, PutNew(s, bytes, now)
      PROVE  RetryInv'
  BY <1>3, RetryUnchanged DEF PutNew
<1>4. ASSUME NEW now, NEW s \in Slots, NEW bytes \in Sizes, NEW r, Put(s, bytes, r, now)
      PROVE  RetryInv'
  BY <1>4, RetryUnchanged DEF Put
<1>5. ASSUME NEW now, NEW s \in Slots, NEW r, Delete(s, r, now)
      PROVE  RetryInv'
  BY <1>5, RetryUnchanged DEF Delete
<1>6. ASSUME NEW now, NEW c \in Collections, ClearCollection(c, now)
      PROVE  RetryInv'
  BY <1>6, RetryUnchanged DEF ClearCollection
<1>7. CASE PurgeNamespace
  BY <1>7 DEF PurgeNamespace, RetryInv, RetriesAnswerTheSame
<1>8. CASE Tick
  BY <1>8, AnswerFacts DEF Tick, RetryInv, RetriesAnswerTheSame
<1>9. CASE UNCHANGED storeVars
  BY <1>9, RetryUnchanged DEF storeVars
<1> QED
  BY <1>1, <1>2, <1>3, <1>4, <1>5, <1>6, <1>7, <1>8, <1>9 DEF StoreNext

\* If transactions commit in the order of their clock readings, no key is used
\* for two documents within its window, whatever the other keys, the expiry of
\* their records and the record limit do meanwhile.
THEOREM RetriesWithoutSkew ==
  ASSUME Skew = 0
  PROVE  StoreSpec => []RetriesAnswerTheSame
<1>1. StoreInit => StoreTypeOK /\ RetryInv
  BY InitType DEF StoreInit, RetryInv, RetriesAnswerTheSame
<1>2. StoreTypeOK /\ RetryInv /\ [StoreNext]_storeVars => (StoreTypeOK /\ RetryInv)'
  BY NextType, NextRetry
<1>3. RetryInv => RetriesAnswerTheSame
  BY DEF RetryInv
<1> QED
  BY <1>1, <1>2, <1>3, PTL DEF StoreSpec

---------------------------------------------------------------------------
\* List pages.

\* The inductive invariant of the list order: a stored document was absent right
\* before its created_sequence and has been stored ever since.
ListInv ==
  /\ history[lastSequence] = documents
  /\ \A s \in Stored(documents) :
       /\ createdSequence[s] \in 1..lastSequence
       /\ \A t \in Stored(documents) \ {s} : createdSequence[t] # createdSequence[s]
       /\ history[createdSequence[s] - 1][s] = Absent
       /\ \A m \in createdSequence[s]..lastSequence : history[m][s] # Absent

LEMMA ListInvStable == StoreTypeOK /\ ListInv => ListStable
<1> SUFFICES ASSUME StoreTypeOK, ListInv, NEW s \in Stored(documents),
                    NEW W \in 0..lastSequence
             PROVE  createdSequence[s] <= W <=> \A m \in W..lastSequence : history[m][s] # Absent
  BY DEF ListInv, ListStable
<1>1. lastSequence \in Nat /\ createdSequence[s] \in 1..lastSequence
  BY DEF StoreTypeOK, ListInv
<1>2. ASSUME createdSequence[s] <= W
      PROVE  \A m \in W..lastSequence : history[m][s] # Absent
  BY <1>1, <1>2 DEF ListInv
<1>3. ASSUME ~(createdSequence[s] <= W)
      PROVE  ~ \A m \in W..lastSequence : history[m][s] # Absent
  <2>1. createdSequence[s] - 1 \in W..lastSequence
    BY <1>1, <1>3
  <2> QED BY <2>1 DEF ListInv
<1> QED
  BY <1>2, <1>3

\* What LogChanges does to the history.
LEMMA HistoryExtended ==
  ASSUME StoreTypeOK, NEW k \in Nat, NEW entries, NEW states, NEW now,
         LogChanges(k, entries, states, now)
  PROVE  /\ lastSequence \in Nat /\ lastSequence' = lastSequence + k
         /\ \A n \in 0..lastSequence : history'[n] = history[n]
         /\ \A n \in (lastSequence + 1)..(lastSequence + k) :
              n - lastSequence \in 1..k /\ history'[n] = states[n - lastSequence]
BY DEF LogChanges, StoreTypeOK

\* A document that keeps its row through a transaction keeps its place.
LEMMA RowKept ==
  ASSUME StoreTypeOK, ListInv, NEW k \in Nat, NEW entries, NEW states, NEW now,
         LogChanges(k, entries, states, now),
         NEW s \in Stored(documents), createdSequence'[s] = createdSequence[s],
         \A i \in 1..k : states[i][s] # Absent
  PROVE  /\ createdSequence'[s] \in 1..lastSequence
         /\ createdSequence'[s] \in 1..lastSequence'
         /\ history'[createdSequence'[s] - 1][s] = Absent
         /\ \A m \in createdSequence'[s]..lastSequence' : history'[m][s] # Absent
<1>1. /\ lastSequence \in Nat /\ lastSequence' = lastSequence + k
      /\ \A n \in 0..lastSequence : history'[n] = history[n]
      /\ \A n \in (lastSequence + 1)..(lastSequence + k) :
           n - lastSequence \in 1..k /\ history'[n] = states[n - lastSequence]
  BY HistoryExtended
<1>2. createdSequence[s] \in 1..lastSequence
  BY DEF ListInv
<1>3. createdSequence[s] - 1 \in 0..lastSequence
  BY <1>1, <1>2
<1>4. ASSUME NEW m \in createdSequence[s]..lastSequence'
      PROVE  history'[m][s] # Absent
  <2>1. CASE m <= lastSequence
    <3>1. m \in 0..lastSequence /\ m \in createdSequence[s]..lastSequence
      BY <1>1, <1>2, <2>1
    <3> QED BY <1>1, <3>1 DEF ListInv
  <2>2. CASE ~(m <= lastSequence)
    <3>1. m \in (lastSequence + 1)..(lastSequence + k)
      BY <1>1, <1>2, <2>2
    <3> QED BY <1>1, <3>1
  <2> QED BY <2>1, <2>2
<1> QED
  BY <1>1, <1>2, <1>3, <1>4 DEF ListInv

\* One document is written, and its row is new (created) or kept.
LEMMA WriteDocumentList ==
  ASSUME StoreTypeOK, ListInv, NEW s \in Slots, NEW bytes \in Sizes,
         NEW operation \in {"create", "update"}, NEW now,
         WriteDocument(s, bytes, operation, now),
         \/ /\ documents[s] = Absent
            /\ createdSequence' = [createdSequence EXCEPT ![s] = lastSequence + 1]
         \/ /\ documents[s] # Absent
            /\ createdSequence' = createdSequence
  PROVE  ListInv'
<1> DEFINE document == [revision |-> lastRevision + 1, bytes |-> bytes]
           after    == [documents EXCEPT ![s] = document]
           entry    == [operation |-> operation, slot |-> s,
                        document |-> document, at |-> now]
           entries == [i \in 1..1 |-> entry]
           states  == [i \in 1..1 |-> after]
<1>0. /\ documents \in States /\ createdSequence \in [Slots -> 0..lastSequence]
      /\ lastSequence \in Nat
  BY DEF StoreTypeOK, States
<1>1. document # Absent
  <2>1. document \in Document
    BY StoreAssumption DEF StoreTypeOK, Document
  <2> QED BY <2>1, StoreAssumption
<1>2. documents' = after /\ LogChanges(1, entries, states, now)
  BY DEF WriteDocument
<1> HIDE DEF document, entry
<1>3. \A t \in Slots : documents'[t] = IF t = s THEN document ELSE documents[t]
  BY <1>0, <1>2 DEF States
<1>4. \A i \in 1..1 : states[i] = documents'
  BY <1>2
<1>5. Stored(documents') = Stored(documents) \cup {s}
  BY <1>1, <1>3 DEF Stored
<1> HIDE DEF entries, states, after
<1>6. /\ lastSequence' = lastSequence + 1
      /\ \A n \in 0..lastSequence : history'[n] = history[n]
      /\ history'[lastSequence + 1] = documents'
  <2>1. lastSequence + 1 \in (lastSequence + 1)..(lastSequence + 1)
    BY <1>0
  <2> QED BY <1>2, <1>4, <2>1, HistoryExtended
<1>7. ASSUME NEW t \in Stored(documents), createdSequence'[t] = createdSequence[t]
      PROVE  /\ createdSequence'[t] \in 1..lastSequence
             /\ createdSequence'[t] \in 1..lastSequence'
             /\ history'[createdSequence'[t] - 1][t] = Absent
             /\ \A m \in createdSequence'[t]..lastSequence' : history'[m][t] # Absent
  <2>1. \A i \in 1..1 : states[i][t] # Absent
    BY <1>4, <1>5 DEF Stored
  <2> QED BY <1>2, <1>7, <2>1, RowKept
<1>8. CASE documents[s] = Absent
  <2>1. createdSequence' = [createdSequence EXCEPT ![s] = lastSequence + 1]
    BY <1>8
  <2>2. s \notin Stored(documents) /\ Stored(documents) \subseteq Slots
    BY <1>8 DEF Stored
  <2>3. /\ createdSequence'[s] = lastSequence + 1
        /\ \A t \in Stored(documents) : createdSequence'[t] = createdSequence[t]
    BY <1>0, <2>1, <2>2
  <2>4. ASSUME NEW t \in Stored(documents')
        PROVE  /\ createdSequence'[t] \in 1..lastSequence'
               /\ \A u \in Stored(documents') \ {t} : createdSequence'[u] # createdSequence'[t]
               /\ history'[createdSequence'[t] - 1][t] = Absent
               /\ \A m \in createdSequence'[t]..lastSequence' : history'[m][t] # Absent
    <3>1. \A u \in Stored(documents) : createdSequence'[u] \in 1..lastSequence
      BY <1>7, <2>3
    <3>2. CASE t = s
      <4>1. history'[lastSequence][s] = Absent
        BY <1>0, <1>6, <1>8 DEF ListInv
      <4>2. \A m \in (lastSequence + 1)..lastSequence' : m = lastSequence + 1
        BY <1>0, <1>6
      <4>3. history'[lastSequence + 1][s] # Absent
        BY <1>1, <1>3, <1>6
      <4>4. createdSequence'[s] \in 1..lastSequence' /\ createdSequence'[s] - 1 = lastSequence
        BY <1>0, <1>6, <2>3
      <4>5. \A u \in Stored(documents') \ {t} : createdSequence'[u] # createdSequence'[t]
        BY <1>0, <1>5, <2>3, <3>1, <3>2
      <4> QED BY <2>3, <3>2, <4>1, <4>2, <4>3, <4>4, <4>5
    <3>3. CASE t \in Stored(documents)
      <4>1. \A u \in Stored(documents') \ {t} : createdSequence'[u] # createdSequence'[t]
        <5> TAKE u \in Stored(documents') \ {t}
        <5>1. CASE u = s
          BY <1>0, <2>3, <3>1, <3>3, <5>1
        <5>2. CASE u \in Stored(documents)
          BY <2>3, <3>3, <5>2 DEF ListInv
        <5> QED BY <1>5, <5>1, <5>2
      <4> QED BY <1>7, <2>3, <3>3, <4>1
    <3> QED BY <1>5, <3>2, <3>3
  <2> QED BY <1>6, <2>4 DEF ListInv
<1>9. CASE documents[s] # Absent
  <2>1. createdSequence' = createdSequence /\ Stored(documents') = Stored(documents)
    BY <1>5, <1>9 DEF Stored
  <2> QED BY <1>6, <1>7, <2>1 DEF ListInv
<1> QED
  BY <1>8, <1>9

\* Documents are only removed, one change after another.
LEMMA RemovalList ==
  ASSUME StoreTypeOK, ListInv, NEW k \in Nat, NEW entries,
         NEW states, NEW now, NEW removed \in SUBSET Slots,
         LogChanges(k, entries, states, now),
         documents' = [s \in Slots |-> IF s \in removed THEN Absent ELSE documents[s]],
         createdSequence' = [s \in Slots |-> IF s \in removed THEN 0 ELSE createdSequence[s]],
         documents' = IF k = 0 THEN documents ELSE states[k],
         \A i \in 1..k : \A s \in Slots \ removed : states[i][s] = documents[s]
  PROVE  ListInv'
<1>1. /\ lastSequence \in Nat /\ lastSequence' = lastSequence + k
      /\ \A n \in 0..lastSequence : history'[n] = history[n]
      /\ \A n \in (lastSequence + 1)..(lastSequence + k) :
           n - lastSequence \in 1..k /\ history'[n] = states[n - lastSequence]
  BY HistoryExtended
<1>2. history'[lastSequence'] = documents'
  <2>1. CASE k = 0
    BY <1>1, <2>1 DEF ListInv
  <2>2. CASE k # 0
    <3>1. lastSequence' \in (lastSequence + 1)..(lastSequence + k)
          /\ lastSequence' - lastSequence = k
      BY <1>1, <2>2
    <3> QED BY <1>1, <2>2, <3>1
  <2> QED BY <2>1, <2>2
<1>3. Stored(documents') = Stored(documents) \ removed
  BY DEF Stored
<1>4. ASSUME NEW s \in Stored(documents')
      PROVE  /\ createdSequence'[s] = createdSequence[s]
             /\ createdSequence'[s] \in 1..lastSequence'
             /\ history'[createdSequence'[s] - 1][s] = Absent
             /\ \A m \in createdSequence'[s]..lastSequence' : history'[m][s] # Absent
  <2>1. s \in Stored(documents) /\ s \in Slots \ removed /\ documents[s] # Absent
    BY <1>3 DEF Stored
  <2>2. createdSequence'[s] = createdSequence[s] /\ \A i \in 1..k : states[i][s] # Absent
    BY <2>1
  <2> QED BY <2>1, <2>2, RowKept
<1>5. \A s \in Stored(documents') : \A t \in Stored(documents') \ {s} :
        createdSequence'[t] # createdSequence'[s]
  <2>1. \A s \in Stored(documents) : \A t \in Stored(documents) \ {s} :
          createdSequence[t] # createdSequence[s]
    BY DEF ListInv
  <2>2. \A s \in Stored(documents') : createdSequence'[s] = createdSequence[s]
    BY <1>4
  <2>3. Stored(documents') \subseteq Stored(documents)
    BY <1>3
  <2> QED BY <2>1, <2>2, <2>3, Zenon
<1> QED
  BY <1>2, <1>4, <1>5 DEF ListInv

LEMMA DeleteList ==
  ASSUME StoreTypeOK, ListInv, NEW s \in Slots, NEW r, NEW now, Delete(s, r, now)
  PROVE  ListInv'
<1> DEFINE after == [documents EXCEPT ![s] = Absent]
           entry == [operation |-> "delete", slot |-> s, document |-> Absent, at |-> now]
           entries == [i \in 1..1 |-> entry]
           states  == [i \in 1..1 |-> after]
<1>1. /\ documents \in States /\ createdSequence \in [Slots -> 0..lastSequence]
  BY DEF StoreTypeOK, States
<1>2. /\ documents' = after /\ LogChanges(1, entries, states, now)
      /\ createdSequence' = [createdSequence EXCEPT ![s] = 0]
  BY DEF Delete
<1>3. documents' = [t \in Slots |-> IF t \in {s} THEN Absent ELSE documents[t]]
  BY <1>1, <1>2 DEF States
<1>4. createdSequence' = [t \in Slots |-> IF t \in {s} THEN 0 ELSE createdSequence[t]]
  BY <1>1, <1>2
<1>5. \A i \in 1..1 : \A t \in Slots \ {s} : states[i][t] = documents[t]
  BY <1>1 DEF States
<1>6. documents' = IF 1 = 0 THEN documents ELSE states[1]
  BY <1>2
<1> HIDE DEF entries, states
<1> QED
  BY <1>2, <1>3, <1>4, <1>5, <1>6, RemovalList

LEMMA ClearCollectionList ==
  ASSUME StoreTypeOK, ListInv, NEW c, NEW now, ClearCollection(c, now)
  PROVE  ListInv'
<1> DEFINE cleared == StoredIn(documents, c)
           k == Cardinality(cleared)
           entries(order) == [i \in 1..k |-> [operation |-> "delete", slot |-> order[i],
                                             document |-> Absent, at |-> now]]
           states(order) == [i \in 1..k |-> [s \in Slots |->
                               IF \E j \in 1..i : order[j] = s THEN Absent
                                                               ELSE documents[s]]]
<1>1. PICK order \in ClearOrders(c) :
        /\ documents' = [s \in Slots |-> IF s \in cleared THEN Absent ELSE documents[s]]
        /\ createdSequence' = [s \in Slots |->
                               IF s \in cleared THEN 0 ELSE createdSequence[s]]
        /\ LogChanges(k, entries(order), states(order), now)
  BY DEF ClearCollection
<1>2. /\ k \in Nat /\ order \in [1..k -> cleared] /\ cleared \subseteq Slots
  BY ClearOrder
<1>3. documents' = IF k = 0 THEN documents ELSE states(order)[k]
  BY <1>1, ClearedLast
<1> HIDE DEF cleared, k
<1>4. \A i \in 1..k : \A s \in Slots \ cleared : states(order)[i][s] = documents[s]
  <2> TAKE i \in 1..k
  <2> TAKE s \in Slots \ cleared
  <2>1. \A j \in 1..i : order[j] # s
    BY <1>2
  <2> QED BY <2>1
<1> HIDE DEF entries, states
<1> QED
  BY <1>1, <1>2, <1>3, <1>4, RemovalList

\* What leaves the documents and their history alone.
LEMMA ListUnchanged ==
  ListInv /\ UNCHANGED <<documents, createdSequence, lastSequence, history>> => ListInv'
BY DEF ListInv, Stored

LEMMA NextList ==
  ASSUME StoreTypeOK, ListInv, [StoreNext]_storeVars
  PROVE  ListInv'
<1>1. ASSUME NEW now, NEW c \in Collections, NEW bytes \in Sizes,
             NEW k, NEW i \in Ids, Create(c, i, bytes, k, now)
      PROVE  ListInv'
  <2> DEFINE s == <<c, i>>
  <2>1. s \in Slots
    BY DEF Slots
  <2>2. /\ WriteDocument(s, bytes, "create", now) /\ documents[s] = Absent
        /\ createdSequence' = [createdSequence EXCEPT ![s] = lastSequence + 1]
    BY <1>1 DEF Create
  <2> HIDE DEF s
  <2> QED BY <2>1, <2>2, WriteDocumentList
<1>2. ASSUME NEW now, NEW c, NEW bytes, NEW k, ReplayCreate(c, bytes, k, now)
      PROVE  ListInv'
  BY <1>2, ListUnchanged DEF ReplayCreate
<1>3. ASSUME NEW now, NEW s \in Slots, NEW bytes \in Sizes, PutNew(s, bytes, now)
      PROVE  ListInv'
  BY <1>3, WriteDocumentList DEF PutNew
<1>4. ASSUME NEW now, NEW s \in Slots, NEW bytes \in Sizes, NEW r, Put(s, bytes, r, now)
      PROVE  ListInv'
  BY <1>4, WriteDocumentList DEF Put
<1>5. ASSUME NEW now, NEW s \in Slots, NEW r, Delete(s, r, now)
      PROVE  ListInv'
  BY <1>5, DeleteList
<1>6. ASSUME NEW now, NEW c, ClearCollection(c, now)
      PROVE  ListInv'
  BY <1>6, ClearCollectionList
<1>7. CASE PurgeNamespace
  BY <1>7 DEF PurgeNamespace, ListInv, Stored, NoDocuments
<1>8. CASE Tick
  BY <1>8, ListUnchanged DEF Tick
<1>9. CASE UNCHANGED storeVars
  BY <1>9, ListUnchanged DEF storeVars
<1> QED
  BY <1>1, <1>2, <1>3, <1>4, <1>5, <1>6, <1>7, <1>8, <1>9 DEF StoreNext

\* A list read page by page shows, for its watermark, the documents stored ever
\* since, whatever is written between two pages and whatever clock readings the
\* writers carry.
THEOREM ListPagesStable == StoreSpec => []ListStable
<1>1. StoreInit => StoreTypeOK /\ ListInv
  BY InitType DEF StoreInit, ListInv, Stored, NoDocuments
<1>2. StoreTypeOK /\ ListInv /\ [StoreNext]_storeVars => (StoreTypeOK /\ ListInv)'
  BY NextType, NextList
<1>3. StoreTypeOK /\ ListInv => ListStable
  BY ListInvStable
<1> QED
  BY <1>1, <1>2, <1>3, PTL DEF StoreSpec

---------------------------------------------------------------------------
\* The limits.

\* Pruning leaves no more changes than may be retained.
LEMMA RetainedFew ==
  ASSUME NEW last \in Nat, NEW log, DOMAIN log \subseteq 1..last, NEW now
  PROVE  Cardinality(DOMAIN Retained(log, now)) <= ChangeRetentionEntries
<1> DEFINE young == {n \in DOMAIN log : log[n].at >= now - ChangeRetentionAge}
           newer(n) == {m \in young : m > n}
           newest == {n \in young : Cardinality(newer(n)) < ChangeRetentionEntries}
<1>1. DOMAIN Retained(log, now) = newest
  BY DEF Retained
<1>2. young \subseteq Nat /\ IsFiniteSet(young) /\ newest \subseteq young
  <2>1. young \subseteq 1..last /\ IsFiniteSet(1..last)
    BY FS_Interval
  <2> QED BY <2>1, FS_Subset
<1>3. CASE newest = {}
  <2>1. Cardinality(newest) = 0 /\ ChangeRetentionEntries \in Nat
    BY <1>3, FS_EmptySet, StoreAssumption
  <2> HIDE DEF newest
  <2> QED BY <1>1, <2>1
<1>4. CASE newest # {}
  <2>1. PICK n \in newest : \A m \in newest : n <= m
    <3> HIDE DEF newest
    <3> QED BY <1>2, <1>4, LeastOf
  <2>2. newest \ {n} \subseteq newer(n)
    <3> HIDE DEF newest, young
    <3>1. \A m \in newest \ {n} : m \in young /\ n <= m /\ m # n /\ m \in Nat /\ n \in Nat
      BY <1>2, <2>1
    <3>2. \A m \in newest \ {n} : m > n
      BY <3>1
    <3> QED BY <3>1, <3>2
  <2>3. newer(n) \subseteq young /\ Cardinality(newer(n)) < ChangeRetentionEntries
    BY <2>1
  <2> HIDE DEF newest, newer, young
  <2>4. IsFiniteSet(newer(n)) /\ IsFiniteSet(newest)
    BY <1>2, <2>3, FS_Subset
  <2>5. Cardinality(newest \ {n}) <= Cardinality(newer(n)) /\ Cardinality(newer(n)) \in Nat
    BY <2>2, <2>4, FS_Subset, FS_CardinalityType
  <2>6. Cardinality(newest) = Cardinality(newest \ {n}) + 1 /\ Cardinality(newest \ {n}) \in Nat
    BY <2>1, <2>4, OneLess
  <2> QED BY <1>1, <2>3, <2>5, <2>6, StoreAssumption
<1> QED BY <1>3, <1>4

LEMMA LogChangesFew ==
  ASSUME StoreTypeOK, NEW k \in Nat, NEW entries, NEW states, NEW now,
         LogChanges(k, entries, states, now)
  PROVE  Cardinality(DOMAIN changes') <= ChangeRetentionEntries
<1>1. changes' = Retained(Extended(k, entries), now)
  BY DEF LogChanges
<1>2. DOMAIN Extended(k, entries) \subseteq 1..(lastSequence + k) /\ lastSequence + k \in Nat
  BY DEF Extended, StoreTypeOK
<1> QED BY <1>1, <1>2, RetainedFew

LEMMA StoredAllFinite ==
  ASSUME NEW docs
  PROVE  IsFiniteSet(Stored(docs)) /\ Stored(docs) \subseteq Slots
<1>1. IsFiniteSet(Slots)
  BY StoreAssumption, FS_Product DEF Slots
<1> QED BY <1>1, FS_Subset DEF Stored

\* The bytes in use, as a total of weights.
LEMMA BytesAreWeights ==
  ASSUME NEW docs \in States
  PROVE  /\ Weighs(Weight(docs), Stored(docs))
         /\ BytesUsed(docs) = Total(Weight(docs), Stored(docs))
         /\ BytesUsed(docs) \in Nat
<1>1. IsFiniteSet(Stored(docs)) /\ Stored(docs) \subseteq DOMAIN docs
  BY StoredAllFinite DEF States
<1>2. Weighs(Weight(docs), Stored(docs))
  BY DEF States, Document, Weight, Weighs, Stored
<1>3. BytesUsed(docs) = BytesIn(docs, Stored(docs))
  BY DEF BytesUsed, BytesIn
<1> QED BY <1>1, <1>2, <1>3, BytesAreTotal, TotalType

\* A document is written where there was none.
LEMMA WrittenNew ==
  ASSUME StoreTypeOK, WithinLimits, NEW s \in Slots, NEW bytes \in Sizes,
         documents[s] = Absent, CreateFits(s[1], bytes), NEW now \in Nat,
         NEW operation \in {"create", "update"}, WriteDocument(s, bytes, operation, now)
  PROVE  /\ \A c \in Collections : Cardinality(StoredIn(documents', c)) <= MaxDocuments
         /\ BytesUsed(documents') <= MaxNamespaceBytes
<1> DEFINE document == [revision |-> lastRevision + 1, bytes |-> bytes]
           after == [documents EXCEPT ![s] = document]
<1>1. documents \in States /\ document \in Document
  <2>1. bytes \in Nat /\ lastRevision + 1 \in Nat
    BY StoreAssumption DEF StoreTypeOK
  <2> QED BY <2>1 DEF StoreTypeOK, States, Document
<1>2. documents' = after
  BY DEF WriteDocument
<1>3. document # Absent /\ document.bytes = bytes
  BY <1>1, StoreAssumption
<1> HIDE DEF document
<1>4. after \in States
  BY <1>1 DEF States
<1>0. DOMAIN after = Slots /\ DOMAIN documents = Slots
  BY <1>1, <1>4 DEF States
<1>5. \A t \in Slots : after[t] = IF t = s THEN document ELSE documents[t]
  BY <1>1 DEF States
<1> HIDE DEF after
<1>6. Stored(after) = Stored(documents) \cup {s} /\ s \notin Stored(documents)
  BY <1>3, <1>5 DEF Stored
<1>7. ASSUME NEW c \in Collections
      PROVE  Cardinality(StoredIn(after, c)) <= MaxDocuments
  <2>1. CASE s[1] = c
    <3>1. StoredIn(after, c) = StoredIn(documents, c) \cup {s} /\ s \notin StoredIn(documents, c)
      BY <1>6, <2>1 DEF StoredIn
    <3>2. Cardinality(StoredIn(after, c)) = Cardinality(StoredIn(documents, c)) + 1
      BY <3>1, StoredFinite, FS_AddElement
    <3>3. Cardinality(StoredIn(documents, c)) < MaxDocuments
      BY <2>1 DEF CreateFits
    <3> QED BY <3>2, <3>3, StoredFinite, StoreAssumption
  <2>2. CASE s[1] # c
    <3>1. StoredIn(after, c) = StoredIn(documents, c)
      BY <1>6, <2>2 DEF StoredIn
    <3> QED BY <3>1 DEF WithinLimits
  <2> QED BY <2>1, <2>2
<1>8. BytesUsed(after) = bytes + BytesUsed(documents)
  <2> DEFINE v == Weight(after)
             w == Weight(documents)
             S == Stored(documents)
  <2>1. IsFiniteSet(S)
    BY StoredAllFinite
  <2>2. Weighs(v, S \cup {s})
    BY <1>4, <1>6, BytesAreWeights
  <2>3. v[s] = bytes /\ Agree(v, w, S)
    BY <1>0, <1>3, <1>5, <1>6 DEF Weight, Agree, Stored
  <2> HIDE DEF v, w, S
  <2>4. s \notin S
    BY <1>6 DEF S
  <2>5. Total(v, S \cup {s}) = v[s] + Total(v, S)
    BY <2>1, <2>2, <2>4, TotalAdd
  <2>6. Total(v, S) = Total(w, S)
    BY <2>1, <2>3, TotalAgrees
  <2>7. Total(v, S \cup {s}) = bytes + Total(w, S)
    BY <2>3, <2>5, <2>6
  <2> QED BY <1>1, <1>4, <1>6, <2>7, BytesAreWeights DEF v, w, S
<1>9. BytesUsed(documents) \in Nat
  BY <1>1, BytesAreWeights
<1>10. BytesUsed(documents) + bytes <= MaxNamespaceBytes
  BY DEF CreateFits
<1>11. BytesUsed(after) <= MaxNamespaceBytes
  BY <1>8, <1>9, <1>10, StoreAssumption
<1> QED BY <1>2, <1>7, <1>11

\* A document is replaced.
LEMMA WrittenOver ==
  ASSUME StoreTypeOK, WithinLimits, NEW s \in Slots, NEW bytes \in Sizes,
         documents[s] # Absent, ReplacementFits(s, bytes), NEW now \in Nat,
         NEW operation \in {"create", "update"}, WriteDocument(s, bytes, operation, now)
  PROVE  /\ \A c \in Collections : Cardinality(StoredIn(documents', c)) <= MaxDocuments
         /\ BytesUsed(documents') <= MaxNamespaceBytes
<1> DEFINE document == [revision |-> lastRevision + 1, bytes |-> bytes]
           after == [documents EXCEPT ![s] = document]
<1>1. documents \in States /\ document \in Document
  <2>1. bytes \in Nat /\ lastRevision + 1 \in Nat
    BY StoreAssumption DEF StoreTypeOK
  <2> QED BY <2>1 DEF StoreTypeOK, States, Document
<1>2. documents' = after
  BY DEF WriteDocument
<1>3. document # Absent /\ document.bytes = bytes
  BY <1>1, StoreAssumption
<1> HIDE DEF document
<1>4. after \in States
  BY <1>1 DEF States
<1>0. DOMAIN after = Slots /\ DOMAIN documents = Slots
  BY <1>1, <1>4 DEF States
<1>5. \A t \in Slots : after[t] = IF t = s THEN document ELSE documents[t]
  BY <1>1 DEF States
<1> HIDE DEF after
<1>6. Stored(after) = Stored(documents) /\ s \in Stored(documents)
  BY <1>3, <1>5 DEF Stored
<1>7. \A c \in Collections : Cardinality(StoredIn(after, c)) <= MaxDocuments
  BY <1>6 DEF WithinLimits, StoredIn
<1>8. BytesUsed(after) = BytesUsed(documents) - documents[s].bytes + bytes
  <2> DEFINE v == Weight(after)
             w == Weight(documents)
             S == Stored(documents)
  <2>1. IsFiniteSet(S) /\ s \in S
    BY <1>6, StoredAllFinite
  <2>2. Weighs(v, S) /\ Weighs(w, S)
    BY <1>1, <1>4, <1>6, BytesAreWeights
  <2>3. v[s] = bytes /\ w[s] = documents[s].bytes /\ Agree(v, w, S \ {s})
    BY <1>0, <1>3, <1>5 DEF Weight, Agree, Stored
  <2> HIDE DEF v, w, S
  <2>4. Total(v, S) = Total(w, S) - w[s] + v[s]
    BY <2>1, <2>2, <2>3, TotalReplace
  <2>5. Total(v, S) = Total(w, S) - documents[s].bytes + bytes
    BY <2>3, <2>4
  <2> QED BY <1>1, <1>4, <1>6, <2>5, BytesAreWeights DEF v, w, S
<1> QED BY <1>2, <1>7, <1>8 DEF ReplacementFits

\* Documents are only removed.
LEMMA Removed ==
  ASSUME StoreTypeOK, WithinLimits, NEW gone,
         documents' = [s \in Slots |-> IF s \in gone THEN Absent ELSE documents[s]]
  PROVE  /\ \A c \in Collections : Cardinality(StoredIn(documents', c)) <= MaxDocuments
         /\ BytesUsed(documents') <= MaxNamespaceBytes
<1> DEFINE after == [s \in Slots |-> IF s \in gone THEN Absent ELSE documents[s]]
<1>1. documents' = after /\ documents \in States /\ after \in States
  BY DEF StoreTypeOK, States
<1>2. /\ Stored(after) \subseteq Stored(documents)
      /\ Agree(Weight(after), Weight(documents), Stored(after))
  <2>1. DOMAIN after = Slots /\ DOMAIN documents = Slots
    BY <1>1 DEF States
  <2>2. \A s \in Stored(after) : s \in Slots /\ after[s] = documents[s] /\ documents[s] # Absent
    BY DEF Stored
  <2> HIDE DEF after
  <2> QED BY <2>1, <2>2 DEF Stored, Agree, Weight
<1> HIDE DEF after
<1>3. ASSUME NEW c \in Collections
      PROVE  Cardinality(StoredIn(after, c)) <= MaxDocuments
  <2>1. StoredIn(after, c) \subseteq StoredIn(documents, c)
    BY <1>2 DEF StoredIn
  <2>2. /\ Cardinality(StoredIn(after, c)) <= Cardinality(StoredIn(documents, c))
        /\ Cardinality(StoredIn(after, c)) \in Nat
    BY <2>1, StoredFinite, FS_Subset
  <2> QED BY <2>2, StoredFinite, StoreAssumption DEF WithinLimits
<1>4. BytesUsed(after) <= BytesUsed(documents)
  <2> DEFINE v == Weight(after)
             w == Weight(documents)
             S == Stored(documents)
             T == Stored(after)
  <2>1. IsFiniteSet(S) /\ IsFiniteSet(T) /\ T \in SUBSET S
    BY <1>2, StoredAllFinite
  <2>2. Weighs(w, S)
    BY <1>1, BytesAreWeights
  <2>3. Agree(v, w, T)
    BY <1>2
  <2> HIDE DEF v, w, S, T
  <2>4. Total(v, T) = Total(w, T)
    BY <2>1, <2>3, TotalAgrees
  <2>5. Total(w, T) <= Total(w, S)
    BY <2>1, <2>2, TotalOfPart
  <2>6. Total(v, T) <= Total(w, S)
    BY <2>4, <2>5
  <2> QED BY <1>1, <2>6, BytesAreWeights DEF v, w, S, T
<1>5. BytesUsed(documents) \in Nat /\ BytesUsed(after) \in Nat
  BY <1>1, BytesAreWeights
<1> QED BY <1>1, <1>3, <1>4, <1>5, StoreAssumption DEF WithinLimits

\* The records that are kept, and one more.
Kept(records) == {k \in Keys : records[k] # Absent}

RecordsFew ==
  /\ IsFiniteSet(Kept(idempotency))
  /\ Cardinality(Kept(idempotency)) <= MaxIdempotencyRecords

LEMMA CreateRecords ==
  ASSUME StoreTypeOK, RecordsFew, NEW c, NEW i, NEW bytes, NEW k \in Keys,
         NEW now, Create(c, i, bytes, k, now)
  PROVE  RecordsFew'
<1> DEFINE kept == Unexpired(now)
           before == Kept(kept)
           after == Kept(idempotency')
<1>1. before \subseteq Kept(idempotency) /\ \A j \in Keys : kept[j] # Absent => j \in before
  BY DEF Kept, Unexpired
<1>2. after \subseteq before \cup {k}
  BY DEF Create, Unexpired, Kept
<1>3. Cardinality(before) < MaxIdempotencyRecords
  BY DEF Create, Kept
<1> HIDE DEF before, after
<1>4. IsFiniteSet(before) /\ Cardinality(before) \in Nat
  BY <1>1, FS_Subset, FS_CardinalityType DEF RecordsFew
<1>5. IsFiniteSet(before \cup {k}) /\ Cardinality(before \cup {k}) <= Cardinality(before) + 1
  <2>1. IsFiniteSet(before \cup {k})
        /\ Cardinality(before \cup {k}) = IF k \in before THEN Cardinality(before)
                                          ELSE Cardinality(before) + 1
    BY <1>4, FS_AddElement
  <2> QED BY <1>4, <2>1
<1>6. /\ IsFiniteSet(after) /\ Cardinality(after) \in Nat
      /\ Cardinality(after) <= Cardinality(before \cup {k})
      /\ Cardinality(before \cup {k}) \in Nat
  BY <1>2, <1>5, FS_Subset, FS_CardinalityType
<1>7. Cardinality(after) <= MaxIdempotencyRecords
  BY <1>3, <1>4, <1>5, <1>6, StoreAssumption
<1> QED BY <1>6, <1>7 DEF RecordsFew, after

\* WithinLimits, and that the records are finitely many: of an infinite set
\* Cardinality says nothing.
LimitsInv == WithinLimits /\ RecordsFew

LEMMA InitLimits == StoreInit => LimitsInv
<1> SUFFICES ASSUME StoreInit PROVE LimitsInv
  OBVIOUS
<1>1. Stored(documents) = {} /\ DOMAIN changes = {} /\ Kept(idempotency) = {}
  BY DEF StoreInit, Stored, NoDocuments, Kept
<1>2. \A c : StoredIn(documents, c) = {}
  BY <1>1 DEF StoredIn
<1>3. BytesUsed(documents) = 0
  <2>1. documents \in States
    BY DEF StoreInit, NoDocuments, States
  <2> QED BY <1>1, <2>1, BytesAreWeights, TotalEmpty
<1>4. 0 <= MaxDocuments /\ 0 <= MaxNamespaceBytes /\ 0 <= MaxIdempotencyRecords
      /\ 0 <= ChangeRetentionEntries
  BY StoreAssumption
<1> QED BY <1>1, <1>2, <1>3, <1>4, FS_EmptySet DEF LimitsInv, WithinLimits, RecordsFew, Kept

\* What leaves the documents, the log and the records alone.
LEMMA LimitsUnchanged ==
  LimitsInv /\ UNCHANGED <<documents, changes, idempotency>> => LimitsInv'
BY DEF LimitsInv, WithinLimits, RecordsFew, Kept

LEMMA NextLimits ==
  ASSUME StoreTypeOK, LimitsInv, [StoreNext]_storeVars
  PROVE  LimitsInv'
<1> DEFINE Documents == /\ \A c \in Collections :
                             Cardinality(StoredIn(documents, c)) <= MaxDocuments
                        /\ BytesUsed(documents) <= MaxNamespaceBytes
           Log == Cardinality(DOMAIN changes) <= ChangeRetentionEntries
<1>0. /\ WithinLimits /\ RecordsFew
      /\ Documents' /\ Log' /\ RecordsFew' => LimitsInv'
  BY DEF LimitsInv, WithinLimits, RecordsFew, Kept
<1>1. ASSUME NEW s, NEW bytes, NEW operation, NEW now, WriteDocument(s, bytes, operation, now)
      PROVE  Log'
  BY <1>1, LogChangesFew DEF WriteDocument
<1>2. UNCHANGED idempotency => RecordsFew'
  BY <1>0 DEF RecordsFew, Kept
<1>3. ASSUME NEW now \in RequestTimes, NEW c \in Collections, NEW bytes \in Sizes,
             NEW k \in Keys, NEW i \in Ids, Create(c, i, bytes, k, now)
      PROVE  LimitsInv'
  <2> DEFINE s == <<c, i>>
  <2>1. s \in Slots /\ s[1] = c /\ now \in Nat
    BY RequestTime DEF Slots
  <2>2. documents[s] = Absent /\ CreateFits(s[1], bytes) /\ WriteDocument(s, bytes, "create", now)
    BY <1>3, <2>1 DEF Create
  <2> HIDE DEF s
  <2>3. Documents'
    BY <1>0, <2>1, <2>2, WrittenNew
  <2> QED BY <1>0, <1>1, <1>3, <2>2, <2>3, CreateRecords
<1>4. ASSUME NEW now, NEW c, NEW bytes, NEW k, ReplayCreate(c, bytes, k, now)
      PROVE  LimitsInv'
  BY <1>4, LimitsUnchanged DEF ReplayCreate
<1>5. ASSUME NEW now \in RequestTimes, NEW s \in Slots, NEW bytes \in Sizes, PutNew(s, bytes, now)
      PROVE  LimitsInv'
  <2>1. /\ documents[s] = Absent /\ CreateFits(s[1], bytes)
        /\ WriteDocument(s, bytes, "create", now) /\ UNCHANGED idempotency
    BY <1>5 DEF PutNew
  <2>2. Documents'
    BY <1>0, <2>1, RequestTime, WrittenNew
  <2> QED BY <1>0, <1>1, <1>2, <2>1, <2>2
<1>6. ASSUME NEW now \in RequestTimes, NEW s \in Slots, NEW bytes \in Sizes, NEW r,
             Put(s, bytes, r, now)
      PROVE  LimitsInv'
  <2>1. /\ documents[s] # Absent /\ ReplacementFits(s, bytes)
        /\ WriteDocument(s, bytes, "update", now) /\ UNCHANGED idempotency
    BY <1>6 DEF Put
  <2>2. Documents'
    BY <1>0, <2>1, RequestTime, WrittenOver
  <2> QED BY <1>0, <1>1, <1>2, <2>1, <2>2
<1>7. ASSUME NEW now, NEW s \in Slots, NEW r, Delete(s, r, now)
      PROVE  LimitsInv'
  <2>1. documents' = [documents EXCEPT ![s] = Absent] /\ UNCHANGED idempotency
    BY <1>7 DEF Delete
  <2>2. documents' = [t \in Slots |-> IF t \in {s} THEN Absent ELSE documents[t]]
    BY <2>1 DEF StoreTypeOK
  <2>3. Documents'
    BY <1>0, <2>2, Removed
  <2>4. Log'
    BY <1>7, LogChangesFew DEF Delete
  <2> QED BY <1>0, <1>2, <2>1, <2>3, <2>4
<1>8. ASSUME NEW now, NEW c, ClearCollection(c, now)
      PROVE  LimitsInv'
  <2> DEFINE cleared == StoredIn(documents, c)
  <2>1. /\ documents' = [s \in Slots |-> IF s \in cleared THEN Absent ELSE documents[s]]
        /\ UNCHANGED idempotency
        /\ \E entries, states : LogChanges(Cardinality(cleared), entries, states, now)
    BY <1>8 DEF ClearCollection
  <2>2. Cardinality(cleared) \in Nat
    BY StoredFinite
  <2> HIDE DEF cleared
  <2>3. Documents'
    BY <1>0, <2>1, Removed
  <2>4. Log'
    BY <2>1, <2>2, LogChangesFew
  <2> QED BY <1>0, <1>2, <2>1, <2>3, <2>4
<1>9. CASE PurgeNamespace
  <2>1. Documents'
    <3>1. documents' = [s \in Slots |-> IF s \in Slots THEN Absent ELSE documents[s]]
      BY <1>9 DEF PurgeNamespace, NoDocuments
    <3> QED BY <1>0, <3>1, Removed
  <2>2. DOMAIN changes' = {} /\ Kept(idempotency') = {}
    BY <1>9 DEF PurgeNamespace, Kept
  <2>3. Log'
    BY <2>2, FS_EmptySet, StoreAssumption
  <2>4. RecordsFew'
    <3>1. IsFiniteSet({}) /\ Cardinality({}) = 0 /\ 0 <= MaxIdempotencyRecords
      BY FS_EmptySet, StoreAssumption
    <3> QED BY <2>2, <3>1 DEF RecordsFew
  <2> QED BY <1>0, <2>1, <2>3, <2>4
<1>10. CASE Tick
  BY <1>10, LimitsUnchanged DEF Tick
<1>11. CASE UNCHANGED storeVars
  BY <1>11, LimitsUnchanged DEF storeVars
<1> QED
  BY <1>3, <1>4, <1>5, <1>6, <1>7, <1>8, <1>9, <1>10, <1>11 DEF StoreNext

\* No sequence of requests, with any clock readings, brings the namespace over a
\* limit: not its collections, not its bytes, not the records, not the log.
THEOREM LimitsHold == StoreSpec => []WithinLimits
<1>1. StoreInit => StoreTypeOK /\ LimitsInv
  BY InitType, InitLimits
<1>2. StoreTypeOK /\ LimitsInv /\ [StoreNext]_storeVars => (StoreTypeOK /\ LimitsInv)'
  BY NextType, NextLimits
<1>3. LimitsInv => WithinLimits
  BY DEF LimitsInv
<1> QED
  BY <1>1, <1>2, <1>3, PTL DEF StoreSpec
=============================================================================
