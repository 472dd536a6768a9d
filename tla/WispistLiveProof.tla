--------------------------- MODULE WispistLiveProof ---------------------------
(***************************************************************************)
(* Proofs about WispistLive, for any clients, collections, queue and page  *)
(* sizes, retention and faults.  That a live stream is owed nothing holds  *)
(* however handlers overlap, and with purges.  That a client never lacks a *)
(* change behind its place, and that clients follow the log of the store   *)
(* as LogFollowers says, holds as long as no handler commits while another *)
(* has something to publish and nothing is purged; the runs two_writers    *)
(* and purge_relist show why.                                              *)
(***************************************************************************)
EXTENDS SerialWriters, WispistStoreProof, SequenceTheorems

USE LiveAssumption

-----------------------------------------------------------------------------
(* Sets of numbers, and pages *)

LEMMA MaxOf ==
  ASSUME NEW b \in Nat, NEW S \in SUBSET (0..b), S # {}
  PROVE  Max(S) \in S /\ \A n \in S : n <= Max(S)
<1>1. PICK m \in {b - n : n \in S} : \A k \in {b - n : n \in S} : m <= k
  <2>1. \A n \in S : n \in 0..b /\ b - n \in Nat
    OBVIOUS
  <2>2. {b - n : n \in S} \in SUBSET Nat
    BY <2>1
  <2>3. {b - n : n \in S} # {}
    OBVIOUS
  <2> QED BY <2>2, <2>3, LeastOf
<1>2. PICK x \in S : m = b - x
  BY <1>1
<1>3. ASSUME NEW n \in S
      PROVE  x >= n
  <2>1. b - n \in {b - k : k \in S} /\ n \in Int /\ x \in Int
    OBVIOUS
  <2>2. b - x <= b - n
    BY <1>1, <1>2, <2>1
  <2> QED BY <2>1, <2>2
<1> QED BY <1>3 DEF Max

\* A page holds the first of what is listed, and one of it if there is any.
LEMMA OldestOf ==
  ASSUME NEW slots, IsFiniteSet(slots), NEW key, \A s \in slots : key[s] \in Nat
  PROVE  /\ Oldest(slots, key) \subseteq slots
         /\ \A s \in Oldest(slots, key), t \in slots \ Oldest(slots, key) : key[s] < key[t]
         /\ slots # {} => Oldest(slots, key) # {}
<1> DEFINE below(s) == {t \in slots : key[t] < key[s]}
           oldest == Oldest(slots, key)
<1>0. oldest = {s \in slots : Cardinality(below(s)) < ListLimit}
  BY DEF Oldest
<1> HIDE DEF oldest
<1>1. ASSUME NEW s \in slots
      PROVE  IsFiniteSet(below(s)) /\ Cardinality(below(s)) \in Nat
  <2>1. below(s) \subseteq slots
    OBVIOUS
  <2> HIDE DEF below
  <2> QED BY <2>1, FS_Subset, FS_CardinalityType
<1>2. ASSUME NEW s \in oldest, NEW t \in slots \ oldest, ~(key[s] < key[t])
      PROVE  FALSE
  <2>1. below(t) \subseteq below(s)
    BY <1>0, <1>2
  <2>2. s \in slots /\ Cardinality(below(s)) < ListLimit /\ ~(Cardinality(below(t)) < ListLimit)
    BY <1>0
  <2>3. Cardinality(below(t)) <= Cardinality(below(s))
    <3> HIDE DEF below
    <3> QED BY <1>1, <2>1, <2>2, FS_Subset
  <2> HIDE DEF below
  <2> QED BY <1>1, <2>2, <2>3
<1>3. ASSUME slots # {}
      PROVE  oldest # {}
  <2>1. {key[s] : s \in slots} \in SUBSET Nat /\ {key[s] : s \in slots} # {}
    BY <1>3
  <2>2. PICK k \in {key[s] : s \in slots} : \A n \in {key[s] : s \in slots} : k <= n
    BY <2>1, LeastOf
  <2>3. PICK s \in slots : key[s] = k
    BY <2>2
  <2>4. below(s) = {}
    BY <2>2, <2>3
  <2>5. Cardinality(below(s)) = 0
    <3> HIDE DEF below
    <3> QED BY <2>4, FS_EmptySet
  <2> QED BY <1>0, <2>3, <2>5
<1> QED BY <1>0, <1>2, <1>3 DEF oldest

-----------------------------------------------------------------------------
(* Transactions, as the clients see them *)

\* Each change in the sequence changes one document.
Stepwise ==
  /\ history[lastSequence] = documents
  /\ \A n \in 1..lastSequence : \E s \in Slots :
       /\ history[n][s] # history[n - 1][s]
       /\ \A t \in Slots \ {s} : history[n][t] = history[n - 1][t]

\* A revision that is drawn is a new one.
Fresh == \A s \in Slots : documents[s] # Absent => documents[s].revision <= lastRevision

StoreInv == StoreTypeOK /\ Stepwise /\ Fresh

LEMMA SameEvent ==
  ASSUME NEW f, NEW g, NEW n, f[n] = g[n], f[n - 1] = g[n - 1]
  PROVE  ChangeEvent(f, n) = ChangeEvent(g, n)
BY DEF ChangeEvent

LEMMA LogChangesStepwise ==
  ASSUME StoreTypeOK, Stepwise, NEW k \in Nat, NEW entries, NEW states, NEW now,
         LogChanges(k, entries, states, now),
         \A i \in 1..k : \E s \in Slots :
           LET before == IF i = 1 THEN documents ELSE states[i - 1]
           IN  /\ states[i][s] # before[s]
               /\ \A t \in Slots \ {s} : states[i][t] = before[t],
         documents' = IF k = 0 THEN documents ELSE states[k]
  PROVE  Stepwise'
<1>1. /\ lastSequence \in Nat /\ lastSequence' = lastSequence + k
      /\ \A n \in 0..lastSequence : history'[n] = history[n]
      /\ \A n \in (lastSequence + 1)..(lastSequence + k) :
           n - lastSequence \in 1..k /\ history'[n] = states[n - lastSequence]
  BY HistoryExtended
<1>2. history'[lastSequence'] = documents'
  <2>1. CASE k = 0
    BY <1>1, <2>1 DEF Stepwise
  <2>2. CASE k # 0
    <3>1. lastSequence' \in (lastSequence + 1)..(lastSequence + k)
          /\ lastSequence' - lastSequence = k
      BY <1>1, <2>2
    <3> QED BY <1>1, <2>2, <3>1
  <2> QED BY <2>1, <2>2
<1>3. ASSUME NEW n \in 1..lastSequence'
      PROVE  \E s \in Slots : /\ history'[n][s] # history'[n - 1][s]
                              /\ \A t \in Slots \ {s} : history'[n][t] = history'[n - 1][t]
  <2>1. CASE n <= lastSequence
    <3>1. n \in 1..lastSequence /\ n \in 0..lastSequence /\ n - 1 \in 0..lastSequence
      BY <1>1, <2>1
    <3>2. history'[n] = history[n] /\ history'[n - 1] = history[n - 1]
      BY <1>1, <3>1
    <3> QED BY <3>1, <3>2 DEF Stepwise
  <2>2. CASE n > lastSequence
    <3> DEFINE i == n - lastSequence
               before == IF i = 1 THEN documents ELSE states[i - 1]
    <3>1. i \in 1..k /\ n \in (lastSequence + 1)..(lastSequence + k)
      BY <1>1, <2>2
    <3>2. history'[n] = states[i]
      BY <1>1, <3>1
    <3>3. history'[n - 1] = before
      <4>1. CASE i = 1
        <5>1. n - 1 = lastSequence /\ n - 1 \in 0..lastSequence
          BY <1>1, <4>1
        <5> QED BY <1>1, <4>1, <5>1 DEF Stepwise
      <4>2. CASE i # 1
        <5>1. n - 1 \in (lastSequence + 1)..(lastSequence + k)
              /\ (n - 1) - lastSequence = i - 1
          BY <1>1, <3>1, <4>2
        <5> QED BY <1>1, <4>2, <5>1
      <4> QED BY <4>1, <4>2
    <3>4. \E s \in Slots : states[i][s] # before[s]
                           /\ \A t \in Slots \ {s} : states[i][t] = before[t]
      BY <3>1
    <3> HIDE DEF i, before
    <3> QED BY <3>2, <3>3, <3>4
  <2> QED BY <1>1, <2>1, <2>2
<1> QED  BY <1>2, <1>3 DEF Stepwise

LEMMA WriteDocumentStepwise ==
  ASSUME StoreInv, NEW s \in Slots, NEW bytes \in Sizes, NEW operation, NEW now,
         WriteDocument(s, bytes, operation, now)
  PROVE  Stepwise' /\ Fresh'
<1> DEFINE document == [revision |-> lastRevision + 1, bytes |-> bytes]
           after    == [documents EXCEPT ![s] = document]
           entry    == [operation |-> operation, slot |-> s,
                        document |-> document, at |-> now]
           entries  == [i \in 1..1 |-> entry]
           states   == [i \in 1..1 |-> after]
<1>0. documents \in States /\ lastRevision \in Nat
  BY DEF StoreInv, StoreTypeOK, States
<1>1. /\ documents' = after /\ lastRevision' = lastRevision + 1
      /\ LogChanges(1, entries, states, now)
  BY DEF WriteDocument
<1>2. /\ document # documents[s]
      /\ document.revision = lastRevision + 1
  <2>1. document # Absent
    <3>1. document \in Document
      BY <1>0, StoreAssumption DEF Document
    <3> QED BY <3>1, StoreAssumption
  <2>2. document.revision = lastRevision + 1
    OBVIOUS
  <2>3. CASE documents[s] = Absent
    BY <2>1, <2>2, <2>3
  <2>4. CASE documents[s] # Absent
    <3>1. documents[s].revision <= lastRevision /\ documents[s] \in Document
      BY <1>0, <2>4 DEF StoreInv, Fresh, States
    <3>2. documents[s].revision \in Nat
      BY <3>1 DEF Document
    <3>3. document.revision # documents[s].revision
      BY <1>0, <2>2, <3>1, <3>2
    <3> QED BY <2>2, <3>3
  <2> QED BY <2>3, <2>4
<1> HIDE DEF document, entry
<1>3. /\ after[s] # documents[s] /\ \A t \in Slots \ {s} : after[t] = documents[t]
      /\ after[s] = document
  BY <1>0, <1>2 DEF States
<1>4. Stepwise'
  <2>1. \A i \in 1..1 : i = 1 /\ states[i] = after
    OBVIOUS
  <2>2. documents' = IF 1 = 0 THEN documents ELSE states[1]
    BY <1>1
  <2> HIDE DEF states, entries, after
  <2> QED BY <1>1, <1>3, <2>1, <2>2, LogChangesStepwise DEF StoreInv
<1>5. Fresh'
  <2> HIDE DEF after, states, entries
  <2> SUFFICES ASSUME NEW t \in Slots, documents'[t] # Absent
               PROVE  documents'[t].revision <= lastRevision + 1
    BY <1>1 DEF Fresh
  <2>1. CASE t = s
    BY <1>0, <1>1, <1>2, <1>3, <2>1
  <2>2. CASE t # s
    <3>1. documents'[t] = documents[t] /\ documents[t] \in Document
      BY <1>0, <1>1, <1>3, <2>2 DEF States
    <3>2. documents[t].revision <= lastRevision /\ documents[t].revision \in Nat
      BY <3>1 DEF StoreInv, Fresh, Document
    <3> QED BY <1>0, <3>1, <3>2
  <2> QED BY <2>1, <2>2
<1> QED  BY <1>4, <1>5

LEMMA DeleteStepwise ==
  ASSUME StoreInv, NEW s \in Slots, NEW r, NEW now, Delete(s, r, now)
  PROVE  Stepwise' /\ Fresh'
<1> DEFINE after   == [documents EXCEPT ![s] = Absent]
           entry   == [operation |-> "delete", slot |-> s, document |-> Absent, at |-> now]
           entries == [i \in 1..1 |-> entry]
           states  == [i \in 1..1 |-> after]
<1>0. documents \in States
  BY DEF StoreInv, StoreTypeOK, States
<1>1. /\ documents' = after /\ lastRevision' = lastRevision /\ documents[s] # Absent
      /\ LogChanges(1, entries, states, now)
  BY DEF Delete
<1>2. /\ after[s] # documents[s] /\ \A t \in Slots \ {s} : after[t] = documents[t]
      /\ after[s] = Absent
  BY <1>0, <1>1 DEF States
<1>3. Stepwise'
  <2>1. \A i \in 1..1 : i = 1 /\ states[i] = after
    OBVIOUS
  <2>2. documents' = IF 1 = 0 THEN documents ELSE states[1]
    BY <1>1
  <2> HIDE DEF states, entries, after
  <2> QED BY <1>1, <1>2, <2>1, <2>2, LogChangesStepwise DEF StoreInv
<1>4. Fresh'
  <2> HIDE DEF after
  <2> QED BY <1>1, <1>2 DEF StoreInv, Fresh
<1> QED  BY <1>3, <1>4

LEMMA ClearCollectionStepwise ==
  ASSUME StoreInv, NEW c, NEW now, ClearCollection(c, now)
  PROVE  Stepwise' /\ Fresh'
<1> DEFINE cleared == StoredIn(documents, c)
           k == Cardinality(cleared)
           entries(order) == [i \in 1..k |-> [operation |-> "delete", slot |-> order[i],
                                             document |-> Absent, at |-> now]]
           states(order) == [i \in 1..k |-> [s \in Slots |->
                               IF \E j \in 1..i : order[j] = s THEN Absent
                                                               ELSE documents[s]]]
<1>0. StoreTypeOK /\ Stepwise /\ Fresh
  BY DEF StoreInv
<1>1. PICK order \in ClearOrders(c) :
        /\ documents' = [s \in Slots |-> IF s \in cleared THEN Absent ELSE documents[s]]
        /\ LogChanges(k, entries(order), states(order), now)
        /\ lastRevision' = lastRevision
  BY DEF ClearCollection
<1>2. /\ k \in Nat /\ order \in [1..k -> cleared] /\ cleared \subseteq Slots
  BY ClearOrder
<1>3. documents' = IF k = 0 THEN documents ELSE states(order)[k]
  BY <1>0, <1>1, ClearedLast
<1>4. \A i, j \in 1..k : i < j => createdSequence[order[i]] < createdSequence[order[j]]
  BY <1>2 DEF ClearOrders
<1>5. \A s \in cleared : documents[s] # Absent /\ createdSequence[s] \in Nat
  BY <1>0 DEF StoredIn, Stored, StoreTypeOK
<1> HIDE DEF cleared, k
<1>6. ASSUME NEW i \in 1..k
      PROVE  \E s \in Slots :
               LET before == IF i = 1 THEN documents ELSE states(order)[i - 1]
               IN  /\ states(order)[i][s] # before[s]
                   /\ \A t \in Slots \ {s} : states(order)[i][t] = before[t]
  <2> DEFINE before == IF i = 1 THEN documents ELSE states(order)[i - 1]
  <2>1. order[i] \in Slots /\ order[i] \in cleared
    BY <1>2
  <2>2. ASSUME NEW s \in Slots
        PROVE  before[s] = IF \E j \in 1..(i - 1) : order[j] = s THEN Absent ELSE documents[s]
    <3>1. CASE i = 1
      BY <3>1
    <3>2. CASE i # 1
      <4>1. i - 1 \in 1..k
        BY <1>2, <3>2
      <4> QED BY <3>2, <4>1
    <3> QED BY <3>1, <3>2
  <2>3. ASSUME NEW j \in 1..(i - 1)
        PROVE  order[j] # order[i]
    <3>1. j \in 1..k /\ j < i
      BY <1>2
    <3>2. createdSequence[order[j]] < createdSequence[order[i]] /\ order[j] \in cleared
      BY <1>2, <1>4, <3>1
    <3> QED BY <1>5, <2>1, <3>2
  <2>4. before[order[i]] # Absent
    BY <1>5, <2>1, <2>2, <2>3
  <2>5. i \in 1..i
    BY <1>2
  <2>6. states(order)[i][order[i]] = Absent
    BY <2>1, <2>5
  <2>7. ASSUME NEW t \in Slots \ {order[i]}
        PROVE  states(order)[i][t] = before[t]
    <3>1. \A j \in Int : j \in 1..i <=> j \in 1..(i - 1) \/ j = i
      BY <1>2
    <3>2. states(order)[i][t] = IF \E j \in 1..i : order[j] = t THEN Absent ELSE documents[t]
      OBVIOUS
    <3> HIDE DEF before, states
    <3> QED BY <2>2, <3>1, <3>2
  <2> HIDE DEF states
  <2> QED BY <2>1, <2>4, <2>6, <2>7
<1>7. Stepwise'
  <2> HIDE DEF entries, states
  <2> QED BY <1>0, <1>1, <1>2, <1>3, <1>6, LogChangesStepwise
<1>8. Fresh'
  BY <1>0, <1>1 DEF Fresh
<1> QED  BY <1>7, <1>8

LEMMA CommitLogs ==
  ASSUME NEW h, Commit(h)
  PROVE  \E k \in Nat : \E entries, states : LogChanges(k, entries, states, clock)
<1>1. ASSUME NEW s, NEW bytes, NEW operation, WriteDocument(s, bytes, operation, clock)
      PROVE  \E k \in Nat : \E entries, states : LogChanges(k, entries, states, clock)
  BY <1>1 DEF WriteDocument
<1>2. ASSUME NEW s, NEW r, Delete(s, r, clock)
      PROVE  \E k \in Nat : \E entries, states : LogChanges(k, entries, states, clock)
  BY <1>2 DEF Delete
<1>3. ASSUME NEW c, ClearCollection(c, clock)
      PROVE  \E k \in Nat : \E entries, states : LogChanges(k, entries, states, clock)
  BY <1>3, StoredFinite DEF ClearCollection
<1> QED  BY <1>1, <1>2, <1>3 DEF Commit, PutNew, Put

\* A transaction of a handler adds to the history and keeps what is known of the
\* store.
LEMMA CommitStore ==
  ASSUME StoreInv, NEW h, Commit(h)
  PROVE  /\ StoreInv' /\ lastSequence \in Nat /\ lastSequence' \in Nat
         /\ lastSequence' >= lastSequence
         /\ \A n \in 0..lastSequence : history'[n] = history[n]
<1>0. StoreTypeOK /\ clock \in Nat
  BY DEF StoreInv, StoreTypeOK
<1>1. ASSUME NEW s \in Slots, NEW bytes \in Sizes, PutNew(s, bytes, clock)
      PROVE  StoreInv'
  BY <1>0, <1>1, PutNewType, WriteDocumentStepwise DEF PutNew, StoreInv
<1>2. ASSUME NEW s \in Slots, NEW bytes \in Sizes, NEW r, Put(s, bytes, r, clock)
      PROVE  StoreInv'
  BY <1>0, <1>2, PutType, WriteDocumentStepwise DEF Put, StoreInv
<1>3. ASSUME NEW s \in Slots, NEW r, Delete(s, r, clock)
      PROVE  StoreInv'
  BY <1>0, <1>3, DeleteType, DeleteStepwise DEF StoreInv
<1>4. ASSUME NEW c, ClearCollection(c, clock)
      PROVE  StoreInv'
  BY <1>0, <1>4, ClearCollectionType, ClearCollectionStepwise DEF StoreInv
<1>5. StoreInv'
  BY <1>1, <1>2, <1>3, <1>4 DEF Commit
<1>6. PICK k \in Nat : \E entries, states : LogChanges(k, entries, states, clock)
  BY CommitLogs
<1> QED  BY <1>0, <1>5, <1>6, HistoryExtended

LEMMA PurgeStore == StoreInv /\ PurgeNamespace => StoreInv'
BY PurgeNamespaceType DEF StoreInv, PurgeNamespace, Stepwise, Fresh, NoDocuments

LEMMA InitStore == StoreInit => StoreInv
BY InitType DEF StoreInv, StoreInit, Stepwise, Fresh, NoDocuments

\* The n-th event tells what the n-th change did.
Tells(event, f, n) ==
  /\ event \in Event /\ event # Reset /\ event.kind = "change" /\ event.sequence = n
  /\ event.slot \in Slots /\ event.document = f[n][event.slot]
  /\ \A t \in Slots \ {event.slot} : f[n][t] = f[n - 1][t]

LEMMA EventTells ==
  ASSUME NEW last \in Nat, NEW f \in [0..last -> [Slots -> Document \cup {Absent}]],
         NEW n \in 1..last, NEW u \in Slots, f[n][u] # f[n - 1][u],
         \A t \in Slots \ {u} : f[n][t] = f[n - 1][t]
  PROVE  Tells(ChangeEvent(f, n), f, n)
<1> DEFINE s == CHOOSE t \in Slots : f[n][t] # f[n - 1][t]
<1>2. s \in Slots /\ f[n][s] # f[n - 1][s]
  OBVIOUS
<1>3. ChangeEvent(f, n) =
        [kind |-> "change", sequence |-> n, slot |-> s, document |-> f[n][s]]
  BY DEF ChangeEvent
<1> HIDE DEF s
<1>4. s = u
  BY <1>2
<1>5. n \in Nat /\ f[n][s] \in Document \cup {Absent}
  BY <1>2
<1>6. ChangeEvent(f, n) \in Event /\ ChangeEvent(f, n).kind # Reset.kind
  BY <1>2, <1>3, <1>5 DEF Event, Reset
<1> QED  BY <1>2, <1>3, <1>4, <1>6 DEF Tells

LEMMA EventFacts ==
  ASSUME StoreInv, NEW n \in 1..lastSequence
  PROVE  Tells(ChangeEvent(history, n), history, n)
BY EventTells DEF StoreInv, Stepwise, StoreTypeOK

LEMMA CommittedFacts ==
  ASSUME StoreInv', NEW n \in 1..lastSequence'
  PROVE  Tells(ChangeEvent(history', n), history', n)
BY EventTells DEF StoreInv, Stepwise, StoreTypeOK

\* What a page of a list holds, and where it ends.
Listed(c, watermark, after) ==
  {s \in StoredIn(documents, Interest[c]) :
     after < createdSequence[s] /\ createdSequence[s] <= watermark}
Page(c, watermark, after) == Oldest(Listed(c, watermark, after), createdSequence)
PageEnd(c, watermark, after) == Max({createdSequence[s] : s \in Page(c, watermark, after)})

LEMMA PageFacts ==
  ASSUME StoreInv, NEW c, NEW W, NEW A
  PROVE  /\ Page(c, W, A) \subseteq Listed(c, W, A) /\ Listed(c, W, A) \subseteq Slots
         /\ Page(c, W, A) # Listed(c, W, A) =>
              /\ PageEnd(c, W, A) \in Nat
              /\ \A s \in Page(c, W, A) : createdSequence[s] <= PageEnd(c, W, A)
              /\ \A s \in Listed(c, W, A) \ Page(c, W, A) :
                   PageEnd(c, W, A) < createdSequence[s]
<1> DEFINE listed == Listed(c, W, A)
           page == Page(c, W, A)
           numbers == {createdSequence[s] : s \in page}
<1>1. listed \subseteq StoredIn(documents, Interest[c])
  BY DEF Listed
<1>2. IsFiniteSet(listed) /\ listed \subseteq Slots
  <2> HIDE DEF listed
  <2> QED BY <1>1, StoredFinite, FS_Subset
<1>3. lastSequence \in Nat /\ \A s \in listed : createdSequence[s] \in 0..lastSequence
  BY <1>2 DEF StoreInv, StoreTypeOK
<1>4. /\ page \subseteq listed
      /\ \A s \in page, t \in listed \ page : createdSequence[s] < createdSequence[t]
      /\ listed # {} => page # {}
  <2>1. page = Oldest(listed, createdSequence)
    BY DEF Page
  <2>2. \A s \in listed : createdSequence[s] \in Nat
    BY <1>3
  <2> HIDE DEF page, listed
  <2> QED BY <1>2, <2>1, <2>2, OldestOf
<1>5. CASE page # listed
  <2>1. page # {} /\ numbers \in SUBSET (0..lastSequence)
    BY <1>3, <1>4, <1>5
  <2>2. numbers # {}
    BY <2>1
  <2>3. Max(numbers) \in numbers /\ \A n \in numbers : n <= Max(numbers)
    <3> HIDE DEF numbers
    <3> QED BY <1>3, <2>1, <2>2, MaxOf
  <2>4. PageEnd(c, W, A) = Max(numbers)
    BY DEF PageEnd
  <2>5. PICK s \in page : Max(numbers) = createdSequence[s]
    BY <2>3
  <2> HIDE DEF page, listed
  <2>6. \A t \in listed \ page : Max(numbers) < createdSequence[t]
    BY <1>4, <2>5
  <2>7. \A t \in page : createdSequence[t] <= Max(numbers)
    BY <2>3
  <2>8. Max(numbers) \in Nat
    BY <1>3, <1>4, <2>5
  <2> QED BY <1>2, <1>4, <2>4, <2>6, <2>7, <2>8 DEF page, listed
<1> QED  BY <1>2, <1>4, <1>5

\* What a page of the log holds.
Wanted(c) == {n \in ChangesAfter(position[c]) : changes[n].slot[1] = Interest[c]}
LogPage(c) == Oldest(Wanted(c), [n \in Wanted(c) |-> n])
LatestOf(c, s) == {n \in LogPage(c) : changes[n].slot = s}

LEMMA LogPageFacts ==
  ASSUME StoreInv, NEW c, position[c] \in Nat
  PROVE  /\ LogPage(c) \subseteq Wanted(c) /\ Wanted(c) \subseteq DOMAIN changes
         /\ lastSequence \in Nat
         /\ Wanted(c) \subseteq (position[c] + 1)..lastSequence
         /\ \A n \in LogPage(c), m \in Wanted(c) \ LogPage(c) : n < m
         /\ LogPage(c) # Wanted(c) => LogPage(c) # {}
         /\ \A S \in SUBSET LogPage(c) :
              S # {} => Max(S) \in S /\ \A n \in S : n <= Max(S)
<1>1. /\ lastSequence \in Nat /\ DOMAIN changes \subseteq 1..lastSequence
      /\ Wanted(c) \subseteq DOMAIN changes
      /\ Wanted(c) \subseteq (position[c] + 1)..lastSequence
      /\ Wanted(c) \subseteq 0..lastSequence
  BY DEF StoreInv, StoreTypeOK, Wanted, ChangesAfter
<1>2. IsFiniteSet(Wanted(c))
  <2>1. 0 \in Int /\ lastSequence \in Int
    BY <1>1
  <2>2. IsFiniteSet(0..lastSequence)
    BY <2>1, FS_Interval
  <2> QED BY <1>1, <2>2, FS_Subset
<1> DEFINE key == [n \in Wanted(c) |-> n]
<1>3. \A n \in Wanted(c) : key[n] = n /\ key[n] \in Nat
  BY <1>1
<1>4. LogPage(c) = Oldest(Wanted(c), key)
  BY DEF LogPage
<1> HIDE DEF key
<1>5. /\ LogPage(c) \subseteq Wanted(c)
      /\ \A n \in LogPage(c), m \in Wanted(c) \ LogPage(c) : key[n] < key[m]
      /\ Wanted(c) # {} => LogPage(c) # {}
  BY <1>2, <1>3, <1>4, OldestOf
<1>6. \A n \in LogPage(c), m \in Wanted(c) \ LogPage(c) : n < m
  BY <1>3, <1>5
<1>7. ASSUME NEW S \in SUBSET LogPage(c), S # {}
      PROVE  Max(S) \in S /\ \A n \in S : n <= Max(S)
  <2>1. S \in SUBSET (0..lastSequence)
    BY <1>1, <1>5
  <2> QED BY <1>1, <1>7, <2>1, MaxOf
<1> QED  BY <1>1, <1>5, <1>6, <1>7

-----------------------------------------------------------------------------
(* Types *)

HubTyped ==
  /\ unpublished \in [Handlers -> Seq(Event)]
  /\ queue \in [Clients -> Seq(Event)] /\ \A c \in Clients : Len(queue[c]) <= QueueSize
  /\ registered \in [Clients -> BOOLEAN]

ClientsTyped ==
  /\ mode \in [Clients -> {"list", "paging", "connect"} \cup Streaming]
  /\ paging \in [Clients -> [watermark : Nat, after : Nat,
                             found : [Slots -> Document \cup {Absent}]]]
  /\ replica \in [Clients -> [Slots -> Document \cup {Absent}]]
  /\ cursor \in [Clients -> Nat] /\ position \in [Clients -> Nat]

LiveInv == StoreInv /\ HubTyped /\ ClientsTyped /\ purges \in 0..MaxPurges

LEMMA NoPagingTyped ==
  NoPaging \in [watermark : Nat, after : Nat, found : [Slots -> Document \cup {Absent}]]
BY DEF NoPaging, NoDocuments

LEMMA InitTyped == Init => LiveInv
<1> SUFFICES ASSUME Init PROVE LiveInv
  OBVIOUS
<1>1. StoreInv
  BY InitStore DEF Init
<1>2. HubTyped
  BY DEF Init, HubTyped
<1>3. ClientsTyped
  BY NoPagingTyped DEF Init, ClientsTyped, NoDocuments
<1> QED  BY <1>1, <1>2, <1>3 DEF LiveInv, Init

LEMMA Difference ==
  ASSUME NEW a \in Nat, NEW b \in Nat, b >= a
  PROVE  b - a \in Nat /\ a + (b - a) = b /\ b - (b - a) = a /\ b - a <= b
OBVIOUS

LEMMA CommitTyped ==
  ASSUME LiveInv, NEW h \in Handlers, Commit(h)
  PROVE  LiveInv'
<1>1. StoreInv' /\ lastSequence \in Nat /\ lastSequence' \in Nat /\ lastSequence' >= lastSequence
  BY CommitStore DEF LiveInv
<1> DEFINE k == lastSequence' - lastSequence
           new == [i \in 1..k |-> ChangeEvent(history', lastSequence + i)]
<1>2. unpublished' = [unpublished EXCEPT ![h] = new]
  BY DEF Commit
<1>3. new \in Seq(Event)
  <2>0. k \in Nat /\ lastSequence + k = lastSequence'
    BY <1>1, Difference
  <2>1. ASSUME NEW i \in 1..k
        PROVE  lastSequence + i \in 1..lastSequence'
    <3> HIDE DEF k
    <3> QED BY <1>1, <2>0
  <2>2. \A i \in 1..k : ChangeEvent(history', lastSequence + i) \in Event
    BY <1>1, <2>1, CommittedFacts DEF Tells
  <2>3. new \in [1..k -> Event]
    BY <2>2
  <2> HIDE DEF new, k
  <2> QED BY <2>0, <2>3, SeqDef
<1>4. HubTyped'
  <2> HIDE DEF new
  <2> QED BY <1>2, <1>3 DEF LiveInv, HubTyped, Commit
<1>5. ClientsTyped' /\ purges' \in 0..MaxPurges
  BY DEF LiveInv, ClientsTyped, Commit
<1> QED  BY <1>1, <1>4, <1>5 DEF LiveInv

LEMMA PurgeTyped ==
  ASSUME LiveInv, NEW h \in Handlers, Purge(h)
  PROVE  LiveInv'
<1>1. StoreInv'
  BY PurgeStore DEF LiveInv, Purge
<1>2. <<Reset>> \in Seq(Event)
  BY DEF Event
<1>3. HubTyped'
  BY <1>2 DEF LiveInv, HubTyped, Purge
<1>4. ClientsTyped'
  BY DEF LiveInv, ClientsTyped, Purge
<1>5. purges' \in 0..MaxPurges
  BY DEF LiveInv, Purge
<1> QED  BY <1>1, <1>3, <1>4, <1>5 DEF LiveInv

\* What is not said to change.
LEMMA SameStore == StoreInv /\ UNCHANGED storeVars => StoreInv'
BY DEF StoreInv, StoreTypeOK, Stepwise, Fresh, storeVars

LEMMA PublishTyped ==
  ASSUME LiveInv, NEW h \in Handlers, Publish(h)
  PROVE  LiveInv'
<1>1. StoreInv' /\ ClientsTyped' /\ purges' \in 0..MaxPurges
  BY SameStore DEF LiveInv, ClientsTyped, Publish
<1> DEFINE event == Head(unpublished[h])
<1>2. unpublished[h] \in Seq(Event) /\ unpublished[h] # <<>>
  BY DEF LiveInv, HubTyped, Publish
<1>3. event \in Event /\ Tail(unpublished[h]) \in Seq(Event)
  BY <1>2
<1>4. unpublished' \in [Handlers -> Seq(Event)]
  BY <1>3 DEF LiveInv, HubTyped, Publish
<1> HIDE DEF event
<1>5. CASE PublishReset
  <2>1. <<Reset>> \in Seq(Event) /\ Len(<<Reset>>) = 1
    BY DEF Event
  <2> QED BY <1>1, <1>4, <1>5, <2>1 DEF LiveInv, HubTyped, PublishReset
<1>6. CASE PublishChange(event)
  <2>1. \A c \in Clients : /\ queue[c] \in Seq(Event) /\ Len(queue[c]) \in Nat
                           /\ Append(queue[c], event) \in Seq(Event)
                           /\ Len(Append(queue[c], event)) = Len(queue[c]) + 1
    BY <1>3 DEF LiveInv, HubTyped
  <2>2. ASSUME NEW c \in Clients
        PROVE  queue'[c] = queue[c]
               \/ (queue'[c] = Append(queue[c], event) /\ ~(Len(queue[c]) >= QueueSize))
    BY <1>6 DEF PublishChange
  <2>3. /\ queue' = [c \in Clients |-> queue'[c]]
        /\ registered' \in [Clients -> BOOLEAN]
    BY <1>6 DEF PublishChange, LiveInv, HubTyped
  <2>4. ASSUME NEW c \in Clients
        PROVE  queue'[c] \in Seq(Event) /\ Len(queue'[c]) <= QueueSize
    <3>1. CASE queue'[c] = queue[c]
      BY <3>1 DEF LiveInv, HubTyped
    <3>2. CASE queue'[c] = Append(queue[c], event) /\ ~(Len(queue[c]) >= QueueSize)
      <4>1. Len(queue[c]) \in Nat /\ QueueSize \in Nat
            /\ Len(queue'[c]) = Len(queue[c]) + 1
        BY <2>1, <3>2, LiveAssumption
      <4> QED BY <2>1, <3>2, <4>1
    <3> QED BY <2>2, <3>1, <3>2
  <2> QED BY <1>1, <1>4, <2>3, <2>4 DEF LiveInv, HubTyped
<1> QED  BY <1>5, <1>6 DEF Publish, event

LEMMA ReadPageTyped ==
  ASSUME LiveInv, NEW c \in Clients, NEW W \in Nat, NEW A \in Nat,
         NEW found \in [Slots -> Document \cup {Absent}], ReadPage(c, W, A, found)
  PROVE  /\ replica' \in [Clients -> [Slots -> Document \cup {Absent}]]
         /\ cursor' \in [Clients -> Nat]
         /\ mode' \in [Clients -> {"list", "paging", "connect"} \cup Streaming]
         /\ paging' \in [Clients -> [watermark : Nat, after : Nat,
                                     found : [Slots -> Document \cup {Absent}]]]
<1> DEFINE sofar == [s \in Slots |-> IF s \in Page(c, W, A) THEN documents[s] ELSE found[s]]
           read == [watermark |-> W, found |-> sofar, after |-> PageEnd(c, W, A)]
<1>1. sofar \in [Slots -> Document \cup {Absent}]
  BY DEF LiveInv, StoreInv, StoreTypeOK
<1>2. CASE /\ replica' = [replica EXCEPT ![c] = sofar]
           /\ cursor' = [cursor EXCEPT ![c] = W]
           /\ mode' = [mode EXCEPT ![c] = "connect"]
           /\ paging' = [paging EXCEPT ![c] = NoPaging]
  <2> HIDE DEF sofar
  <2> QED BY <1>1, <1>2, NoPagingTyped DEF LiveInv, ClientsTyped
<1>3. CASE /\ Page(c, W, A) # Listed(c, W, A)
           /\ mode' = [mode EXCEPT ![c] = "paging"]
           /\ paging' = [paging EXCEPT ![c] = read]
           /\ UNCHANGED <<replica, cursor>>
  <2>1. PageEnd(c, W, A) \in Nat
    BY <1>3, PageFacts DEF LiveInv
  <2>2. read \in [watermark : Nat, after : Nat, found : [Slots -> Document \cup {Absent}]]
    <3> HIDE DEF sofar
    <3> QED BY <1>1, <2>1
  <2> HIDE DEF read
  <2> QED BY <1>3, <2>2 DEF LiveInv, ClientsTyped
<1> QED  BY <1>2, <1>3 DEF ReadPage, Page, Listed, PageEnd

LEMMA ReadBacklogTyped ==
  ASSUME LiveInv, NEW c \in Clients, ReadBacklog(c)
  PROVE  ClientsTyped'
<1>0. position[c] \in Nat /\ StoreInv
  BY DEF LiveInv, ClientsTyped
<1>1. /\ LogPage(c) \subseteq DOMAIN changes /\ LogPage(c) \subseteq Nat
      /\ lastSequence \in Nat
      /\ \A n \in DOMAIN changes : changes[n].document \in Document \cup {Absent}
      /\ \A S \in SUBSET LogPage(c) : S # {} => Max(S) \in S
      /\ LogPage(c) # Wanted(c) => LogPage(c) # {}
  <2>1. lastSequence \in Nat /\ StoreTypeOK
    BY <1>0 DEF StoreInv, StoreTypeOK
  <2>2. \A n \in DOMAIN changes : changes[n].document \in Document \cup {Absent}
    BY <2>1 DEF StoreTypeOK, Change
  <2> QED BY <1>0, <2>1, <2>2, LogPageFacts
<1> DEFINE shown == [s \in Slots |-> IF LatestOf(c, s) = {} THEN replica[c][s]
                                     ELSE changes[Max(LatestOf(c, s))].document]
<1>2. /\ replica' = [replica EXCEPT ![c] = shown]
      /\ cursor' = [cursor EXCEPT ![c] = IF LogPage(c) = {} THEN @ ELSE Max(LogPage(c))]
      /\ position' = [position EXCEPT ![c] =
           IF LogPage(c) = Wanted(c) THEN lastSequence ELSE Max(LogPage(c))]
      /\ mode' = [mode EXCEPT ![c] = IF LogPage(c) = Wanted(c) THEN "live" ELSE "backlog"]
      /\ paging' = paging
  BY DEF ReadBacklog, LogPage, Wanted, LatestOf
<1>3. shown \in [Slots -> Document \cup {Absent}]
  <2>1. ASSUME NEW s \in Slots
        PROVE  shown[s] \in Document \cup {Absent}
    <3>1. LatestOf(c, s) \in SUBSET LogPage(c)
      BY DEF LatestOf
    <3>2. replica[c][s] \in Document \cup {Absent}
      BY DEF LiveInv, ClientsTyped
    <3> QED BY <1>1, <3>1, <3>2
  <2> QED BY <2>1
<1>4. LogPage(c) # {} => Max(LogPage(c)) \in Nat
  BY <1>1
<1> HIDE DEF shown
<1> QED  BY <1>1, <1>2, <1>3, <1>4 DEF LiveInv, ClientsTyped, Streaming

LEMMA SendEventTyped ==
  ASSUME LiveInv, NEW c \in Clients, SendEvent(c)
  PROVE  LiveInv'
<1> DEFINE event == Head(queue[c])
<1>1. /\ queue[c] \in Seq(Event) /\ queue[c] # <<>> /\ event.kind = "change"
  BY DEF SendEvent, LiveInv, HubTyped
<1>2. event \in Event /\ Tail(queue[c]) \in Seq(Event) /\ Len(Tail(queue[c])) <= Len(queue[c])
  BY <1>1
<1>3. event.sequence \in Nat /\ event.slot \in Slots
      /\ event.document \in Document \cup {Absent}
  BY <1>1, <1>2 DEF Event, Reset
<1>4. /\ replica' = [replica EXCEPT ![c][event.slot] = event.document]
      /\ cursor' = [cursor EXCEPT ![c] = event.sequence]
      /\ position' = [position EXCEPT ![c] = event.sequence]
      /\ queue' = [queue EXCEPT ![c] = Tail(@)]
  BY DEF SendEvent
<1> HIDE DEF event
<1>5. replica' \in [Clients -> [Slots -> Document \cup {Absent}]]
  BY <1>3, <1>4 DEF LiveInv, ClientsTyped
<1>6. HubTyped'
  BY <1>1, <1>2, <1>4 DEF LiveInv, HubTyped, SendEvent
<1>7. ClientsTyped'
  BY <1>3, <1>4, <1>5 DEF LiveInv, ClientsTyped, SendEvent
<1> QED  BY <1>6, <1>7, SameStore DEF LiveInv, SendEvent

LEMMA EndStreamTyped ==
  ASSUME LiveInv, NEW c \in Clients, NEW m \in {"list", "connect"}, EndStream(c, m)
  PROVE  LiveInv'
<1>1. HubTyped'
  BY DEF LiveInv, HubTyped, EndStream
<1>2. ClientsTyped'
  BY NoPagingTyped DEF LiveInv, ClientsTyped, EndStream
<1> QED  BY <1>1, <1>2, SameStore DEF LiveInv, EndStream

LEMMA ClientTyped ==
  ASSUME LiveInv, NEW c \in Clients, ClientStep(c) \/ Disconnect(c)
  PROVE  LiveInv'
<1>1. CASE FirstPage(c)
  <2>1. NoDocuments \in [Slots -> Document \cup {Absent}] /\ lastSequence \in Nat
    BY DEF NoDocuments, LiveInv, StoreInv, StoreTypeOK
  <2>2. ClientsTyped'
    BY <1>1, <2>1, ReadPageTyped DEF FirstPage, ClientsTyped, LiveInv, streamVars
  <2> QED BY <1>1, <2>2, SameStore DEF FirstPage, LiveInv, HubTyped, streamVars
<1>2. CASE NextPage(c)
  <2>1. /\ paging[c].watermark \in Nat /\ paging[c].after \in Nat
        /\ paging[c].found \in [Slots -> Document \cup {Absent}]
    BY DEF LiveInv, ClientsTyped
  <2>2. ClientsTyped'
    BY <1>2, <2>1, ReadPageTyped DEF NextPage, ClientsTyped, LiveInv, streamVars
  <2> QED BY <1>2, <2>2, SameStore DEF NextPage, LiveInv, HubTyped, streamVars
<1>3. CASE Subscribe(c)
  <2>1. HubTyped'
    BY <1>3 DEF LiveInv, HubTyped, Subscribe
  <2>2. ClientsTyped'
    BY <1>3 DEF LiveInv, ClientsTyped, Subscribe, Streaming
  <2> QED BY <1>3, <2>1, <2>2, SameStore DEF LiveInv, Subscribe
<1>4. CASE ReadBacklog(c)
  <2>1. ClientsTyped'
    BY <1>4, ReadBacklogTyped
  <2> QED BY <1>4, <2>1, SameStore DEF LiveInv, HubTyped, ReadBacklog
<1>5. CASE SkipEvent(c)
  <2>1. queue[c] \in Seq(Event) /\ queue[c] # <<>>
    BY <1>5 DEF LiveInv, HubTyped, SkipEvent
  <2>2. Tail(queue[c]) \in Seq(Event) /\ Len(Tail(queue[c])) <= Len(queue[c])
    BY <2>1
  <2>3. HubTyped'
    BY <1>5, <2>1, <2>2 DEF LiveInv, HubTyped, SkipEvent
  <2> QED BY <1>5, <2>3, SameStore DEF LiveInv, ClientsTyped, SkipEvent
<1>6. CASE SendEvent(c)
  BY <1>6, SendEventTyped
<1>7. CASE RefusePage(c) \/ RefuseCursor(c) \/ ResetExpired(c) \/ SendReset(c) \/ Disconnect(c)
  BY <1>7, EndStreamTyped
  DEF RefusePage, RefuseCursor, ResetExpired, SendReset, Disconnect
<1> QED  BY <1>1, <1>2, <1>3, <1>4, <1>5, <1>6, <1>7 DEF ClientStep

LEMMA RestartTyped ==
  ASSUME LiveInv, Restart
  PROVE  LiveInv'
<1>1. HubTyped'
  BY DEF HubTyped, Restart
<1>2. ClientsTyped'
  BY NoPagingTyped DEF LiveInv, ClientsTyped, Restart, Streaming
<1> QED  BY <1>1, <1>2, SameStore DEF LiveInv, Restart

LEMMA NextTyped == LiveInv /\ [Next]_vars => LiveInv'
<1>1. ASSUME LiveInv, UNCHANGED vars
      PROVE  LiveInv'
  BY <1>1, SameStore DEF LiveInv, HubTyped, ClientsTyped, vars, liveVars
<1> QED  BY <1>1, CommitTyped, PurgeTyped, PublishTyped, ClientTyped, RestartTyped DEF Next

LEMMA TypesHold == Spec => []LiveInv
BY InitTyped, NextTyped, PTL DEF Spec

\* The tables, the hub and the clients have their types, and no channel holds
\* more than its capacity, with any handlers, clients, purges and faults.
THEOREM LiveTypeCorrect == Spec => []LiveTypeOK
<1>1. LiveInv => LiveTypeOK
  BY DEF LiveInv, StoreInv, HubTyped, ClientsTyped, LiveTypeOK
<1> QED  BY <1>1, TypesHold, PTL

-----------------------------------------------------------------------------
(* A live stream is owed nothing *)

\* An event waits for a client: in its channel, or with a handler.
Waits(event, c) ==
  \/ \E i \in DOMAIN queue[c] : queue[c][i] = event
  \/ \E h \in Handlers : \E i \in DOMAIN unpublished[h] : unpublished[h][i] = event

WillWait(event, c) ==
  \/ \E i \in DOMAIN queue'[c] : queue'[c][i] = event
  \/ \E h \in Handlers : \E i \in DOMAIN unpublished'[h] : unpublished'[h][i] = event

LEMMA Owed ==
  ASSUME NothingLost, NEW c \in Clients, mode[c] = "live", registered[c],
         NEW n \in (position[c] + 1)..lastSequence,
         ChangeEvent(history, n).slot[1] = Interest[c]
  PROVE  Waits(ChangeEvent(history, n), c)
BY DEF NothingLost, Waits

\* What a step of a handler may not do to an event that waits.
LEMMA CommitOwes ==
  ASSUME LiveInv, NothingLost, NEW h \in Handlers, Commit(h)
  PROVE  NothingLost'
<1>1. /\ StoreInv' /\ lastSequence \in Nat /\ lastSequence' \in Nat
      /\ lastSequence' >= lastSequence
      /\ \A n \in 0..lastSequence : history'[n] = history[n]
  BY CommitStore DEF LiveInv
<1> DEFINE k == lastSequence' - lastSequence
           new == [i \in 1..k |-> ChangeEvent(history', lastSequence + i)]
<1>2. /\ unpublished' = [unpublished EXCEPT ![h] = new] /\ unpublished[h] = <<>>
      /\ UNCHANGED <<mode, position, queue, registered>>
  BY DEF Commit
<1>3. unpublished \in [Handlers -> Seq(Event)]
  BY DEF LiveInv, HubTyped
<1> SUFFICES ASSUME NEW c \in Clients, mode[c] = "live", registered[c],
                    NEW n \in (position[c] + 1)..lastSequence',
                    ChangeEvent(history', n).slot[1] = Interest[c]
             PROVE  WillWait(ChangeEvent(history', n), c)
  BY <1>2 DEF NothingLost, Waits, WillWait
<1>4. position[c] \in Nat /\ n \in Nat
  BY <1>1 DEF LiveInv, ClientsTyped
<1>5. CASE n <= lastSequence
  <2>1. n \in (position[c] + 1)..lastSequence /\ n \in 0..lastSequence
        /\ n - 1 \in 0..lastSequence
    BY <1>1, <1>4, <1>5
  <2>2. ChangeEvent(history', n) = ChangeEvent(history, n)
    BY <1>1, <2>1, SameEvent
  <2>3. Waits(ChangeEvent(history, n), c)
    BY <2>1, <2>2, Owed
  <2>4. CASE \E i \in DOMAIN queue[c] : queue[c][i] = ChangeEvent(history, n)
    BY <1>2, <2>2, <2>4 DEF Waits, WillWait
  <2>5. CASE \E g \in Handlers : \E i \in DOMAIN unpublished[g] :
               unpublished[g][i] = ChangeEvent(history, n)
    <3>1. PICK g \in Handlers : \E i \in DOMAIN unpublished[g] :
                 unpublished[g][i] = ChangeEvent(history, n)
      BY <2>5
    <3>2. g # h
      BY <1>2, <3>1
    <3>3. unpublished'[g] = unpublished[g]
      BY <1>2, <1>3, <3>2
    <3> QED BY <2>2, <3>1, <3>3 DEF Waits, WillWait
  <2> QED BY <2>3, <2>4, <2>5 DEF Waits, WillWait
<1>6. CASE n > lastSequence
  <2>1. n - lastSequence \in 1..k /\ lastSequence + (n - lastSequence) = n
    BY <1>1, <1>4, <1>6
  <2>2. n - lastSequence \in DOMAIN new
        /\ new[n - lastSequence] = ChangeEvent(history', n)
    BY <2>1
  <2> HIDE DEF new
  <2>3. unpublished'[h] = new
    BY <1>2, <1>3
  <2> QED BY <2>2, <2>3 DEF Waits, WillWait
<1> QED BY <1>1, <1>4, <1>5, <1>6

LEMMA PublishOwes ==
  ASSUME LiveInv, NothingLost, NEW h \in Handlers, Publish(h)
  PROVE  NothingLost'
<1> DEFINE event == Head(unpublished[h])
<1>1. /\ UNCHANGED <<history, lastSequence, mode, position>>
      /\ unpublished' = [unpublished EXCEPT ![h] = Tail(@)]
      /\ unpublished[h] # <<>>
      /\ PublishReset \/ PublishChange(event)
  BY DEF Publish, storeVars
<1>2. /\ unpublished \in [Handlers -> Seq(Event)] /\ queue \in [Clients -> Seq(Event)]
      /\ unpublished[h] \in Seq(Event)
  BY DEF LiveInv, HubTyped
<1>3. \A i \in DOMAIN unpublished[h] :
        unpublished[h][i] = event
        \/ \E j \in DOMAIN Tail(unpublished[h]) : Tail(unpublished[h])[j] = unpublished[h][i]
  <2> DEFINE u == unpublished[h]
  <2>1. u \in Seq(Event) /\ u # <<>>
    BY <1>1, <1>2
  <2> HIDE DEF u
  <2>2. \A i \in DOMAIN u : u[i] = Head(u) \/ \E j \in DOMAIN Tail(u) : Tail(u)[j] = u[i]
    <3>1. Len(u) \in Nat /\ DOMAIN u = 1..Len(u) /\ Head(u) = u[1]
      BY <2>1
    <3>2. /\ DOMAIN Tail(u) = 1..(Len(u) - 1)
          /\ \A j \in 1..(Len(u) - 1) : Tail(u)[j] = u[j + 1]
      BY <2>1
    <3>3. ASSUME NEW i \in DOMAIN u, i # 1
          PROVE  \E j \in DOMAIN Tail(u) : Tail(u)[j] = u[i]
      <4>1. i - 1 \in 1..(Len(u) - 1) /\ (i - 1) + 1 = i
        BY <3>1, <3>3
      <4> QED BY <3>2, <4>1
    <3> QED BY <3>1, <3>3
  <2> QED BY <2>2 DEF u
<1> SUFFICES ASSUME NEW c \in Clients, mode[c] = "live", registered'[c],
                    NEW n \in (position[c] + 1)..lastSequence,
                    ChangeEvent(history, n).slot[1] = Interest[c]
             PROVE  WillWait(ChangeEvent(history, n), c)
  BY <1>1 DEF NothingLost, Waits, WillWait
<1> DEFINE owed == ChangeEvent(history, n)
<1> HIDE DEF event, owed
<1>4. PublishChange(event)
  BY <1>1 DEF PublishReset
<1>5. registered[c]
  BY <1>4 DEF PublishChange
<1>6. /\ queue'[c] = queue[c] \/ queue'[c] = Append(queue[c], event)
      /\ event.slot[1] = Interest[c] => queue'[c] = Append(queue[c], event)
  BY <1>4, <1>5 DEF PublishChange
<1>7. Waits(owed, c) /\ owed.slot[1] = Interest[c]
  BY <1>5, Owed DEF owed
<1>8. /\ queue[c] \in Seq(Event)
      /\ \A i \in DOMAIN queue[c] : i \in DOMAIN Append(queue[c], event)
                                    /\ Append(queue[c], event)[i] = queue[c][i]
      /\ Len(queue[c]) + 1 \in DOMAIN Append(queue[c], event)
      /\ Append(queue[c], event)[Len(queue[c]) + 1] = event
  BY <1>2
<1>9. CASE \E i \in DOMAIN queue[c] : queue[c][i] = owed
  BY <1>6, <1>8, <1>9 DEF Waits, WillWait, owed
<1>10. CASE \E g \in Handlers : \E i \in DOMAIN unpublished[g] : unpublished[g][i] = owed
  <2>1. PICK g \in Handlers : \E i \in DOMAIN unpublished[g] : unpublished[g][i] = owed
    BY <1>10
  <2>2. CASE g # h
    <3>1. unpublished'[g] = unpublished[g]
      BY <1>1, <1>2, <2>2
    <3> QED BY <1>1, <2>1, <3>1 DEF Waits, WillWait, owed
  <2>3. CASE g = h
    <3>1. unpublished'[h] = Tail(unpublished[h])
      BY <1>1, <1>2
    <3>2. CASE event = owed
      BY <1>6, <1>7, <1>8, <3>2 DEF Waits, WillWait, owed
    <3>3. CASE \E j \in DOMAIN Tail(unpublished[h]) : Tail(unpublished[h])[j] = owed
      BY <3>1, <3>3 DEF Waits, WillWait, owed
    <3> QED BY <1>3, <2>1, <2>3, <3>2, <3>3
  <2> QED BY <2>2, <2>3
<1> QED BY <1>7, <1>9, <1>10 DEF Waits, WillWait

\* An event is taken from the channel of client c, which has come past it.
LEMMA TakeOwes ==
  ASSUME LiveInv, NothingLost, NEW c \in Clients, NEW p \in Nat, p >= position[c],
         UNCHANGED <<storeVars, unpublished, mode, registered>>,
         queue[c] # <<>>, queue' = [queue EXCEPT ![c] = Tail(@)],
         position' = [position EXCEPT ![c] = p],
         Head(queue[c]).kind = "change", Head(queue[c]).sequence <= p
  PROVE  NothingLost'
<1>1. queue \in [Clients -> Seq(Event)] /\ position \in [Clients -> Nat]
      /\ UNCHANGED <<history, lastSequence, mode, registered, unpublished>>
  BY DEF LiveInv, HubTyped, ClientsTyped, storeVars
<1> SUFFICES ASSUME NEW d \in Clients, mode'[d] = "live", registered'[d],
                    NEW n \in (position'[d] + 1)..lastSequence',
                    ChangeEvent(history', n).slot[1] = Interest[d]
             PROVE  WillWait(ChangeEvent(history', n), d)
  BY DEF NothingLost, WillWait
<1>0. /\ mode[d] = "live" /\ registered[d] /\ n \in (position'[d] + 1)..lastSequence
      /\ ChangeEvent(history', n) = ChangeEvent(history, n)
      /\ ChangeEvent(history, n).slot[1] = Interest[d]
  BY <1>1
<1>2. lastSequence \in Nat /\ position[d] \in Nat /\ position'[d] \in Nat
      /\ position'[d] >= position[d]
  <2>1. lastSequence \in Nat
    BY DEF LiveInv, StoreInv, StoreTypeOK
  <2>2. CASE d = c
    BY <1>1, <2>1, <2>2
  <2>3. CASE d # c
    <3>1. position'[d] = position[d] /\ position[d] \in Nat
      BY <1>1, <2>3
    <3> QED BY <2>1, <3>1
  <2> QED BY <2>2, <2>3
<1>3. n \in (position[d] + 1)..lastSequence /\ n \in 1..lastSequence /\ n > position'[d]
  BY <1>0, <1>2
<1>4. Waits(ChangeEvent(history, n), d)
  BY <1>0, <1>3, Owed
<1>5. ASSUME NEW i \in DOMAIN queue[d], queue[d][i] = ChangeEvent(history, n)
      PROVE  \E j \in DOMAIN queue'[d] : queue'[d][j] = ChangeEvent(history, n)
  <2>1. CASE d # c
    <3>1. queue'[d] = queue[d]
      BY <1>1, <2>1
    <3> QED BY <1>5, <3>1
  <2>2. CASE d = c
    <3> DEFINE q == queue[c]
    <3>1. q \in Seq(Event) /\ q # <<>> /\ queue'[d] = Tail(q) /\ i \in DOMAIN q
      BY <1>1, <1>5, <2>2
    <3>2. ChangeEvent(history, n).sequence = n
      BY <1>3, EventFacts DEF LiveInv, Tells
    <3>3. q[i].sequence = n /\ Head(q).sequence <= position'[d]
      BY <1>1, <1>5, <2>2, <3>2
    <3> HIDE DEF q
    <3>4. Len(q) \in Nat /\ DOMAIN q = 1..Len(q) /\ Head(q) = q[1]
      BY <3>1
    <3>5. i # 1
      BY <1>2, <1>3, <3>3, <3>4
    <3>6. i - 1 \in 1..(Len(q) - 1) /\ (i - 1) + 1 = i
      BY <3>1, <3>4, <3>5
    <3>7. /\ DOMAIN Tail(q) = 1..(Len(q) - 1)
          /\ \A j \in 1..(Len(q) - 1) : Tail(q)[j] = q[j + 1]
      BY <3>1
    <3>8. Tail(q)[i - 1] = q[i]
      BY <3>6, <3>7
    <3>9. q[i] = ChangeEvent(history, n)
      BY <1>5, <2>2 DEF q
    <3> QED BY <3>1, <3>6, <3>7, <3>8, <3>9
  <2> QED BY <2>1, <2>2
<1> QED BY <1>0, <1>1, <1>4, <1>5 DEF Waits, WillWait

\* A step of client c that leaves the store, the hub's events and the other
\* clients alone, after which c is not live and registered, or has caught up.
LEMMA ElseOwes ==
  ASSUME NothingLost, NEW c \in Clients,
         UNCHANGED <<storeVars, unpublished>>,
         \A d \in Clients \ {c} : /\ mode'[d] = mode[d] /\ position'[d] = position[d]
                                  /\ queue'[d] = queue[d] /\ registered'[d] = registered[d],
         mode'[c] = "live" /\ registered'[c]
           => (position'[c] + 1)..lastSequence = {}
  PROVE  NothingLost'
<1>1. UNCHANGED <<history, lastSequence, unpublished>>
  BY DEF storeVars
<1> SUFFICES ASSUME NEW d \in Clients, mode'[d] = "live", registered'[d],
                    NEW n \in (position'[d] + 1)..lastSequence,
                    ChangeEvent(history, n).slot[1] = Interest[d]
             PROVE  WillWait(ChangeEvent(history, n), d)
  BY <1>1 DEF NothingLost, Waits, WillWait
<1>2. d # c
  OBVIOUS
<1>3. Waits(ChangeEvent(history, n), d)
  BY <1>2, Owed
<1> QED BY <1>1, <1>2, <1>3 DEF Waits, WillWait

LEMMA EndStreamOwes ==
  ASSUME LiveInv, NothingLost, NEW c \in Clients, NEW m, EndStream(c, m)
  PROVE  NothingLost'
BY ElseOwes DEF EndStream, LiveInv, HubTyped, ClientsTyped

LEMMA ClientOwes ==
  ASSUME LiveInv, NothingLost, NEW c \in Clients, ClientStep(c) \/ Disconnect(c)
  PROVE  NothingLost'
<1>0. HubTyped /\ ClientsTyped /\ lastSequence \in Nat
  BY DEF LiveInv, StoreInv, StoreTypeOK
<1>1. ASSUME NEW W, NEW A, NEW found, ReadPage(c, W, A, found),
             UNCHANGED <<storeVars, streamVars, unpublished>>
      PROVE  NothingLost'
  <2>1. mode' = [mode EXCEPT ![c] = "connect"] \/ mode' = [mode EXCEPT ![c] = "paging"]
    BY <1>1 DEF ReadPage
  <2>2. mode'[c] # "live" /\ \A d \in Clients \ {c} : mode'[d] = mode[d]
    BY <1>0, <2>1 DEF ClientsTyped
  <2> QED BY <1>1, <2>2, ElseOwes DEF streamVars
<1>2. CASE Subscribe(c)
  BY <1>0, <1>2, ElseOwes DEF Subscribe, HubTyped, ClientsTyped
<1>3. CASE ReadBacklog(c)
  <2>1. /\ \A d \in Clients \ {c} : mode'[d] = mode[d] /\ position'[d] = position[d]
        /\ mode'[c] = "live" => position'[c] = lastSequence
        /\ UNCHANGED <<storeVars, unpublished, queue, registered>>
    BY <1>0, <1>3 DEF ReadBacklog, ClientsTyped
  <2>2. (lastSequence + 1)..lastSequence = {}
    BY <1>0
  <2> QED BY <2>1, <2>2, ElseOwes
<1>4. CASE SkipEvent(c)
  <2>1. position[c] \in Nat /\ position[c] >= position[c]
        /\ position' = [position EXCEPT ![c] = position[c]]
    BY <1>0, <1>4 DEF SkipEvent, ClientsTyped
  <2> QED BY <1>4, <2>1, TakeOwes DEF SkipEvent
<1>5. CASE SendEvent(c)
  <2> DEFINE event == Head(queue[c])
  <2>1. queue[c] \in Seq(Event) /\ queue[c] # <<>> /\ event.kind = "change"
    BY <1>0, <1>5 DEF SendEvent, HubTyped
  <2>2. event \in Event
    BY <2>1
  <2>3. event.sequence \in Nat /\ event.sequence > position[c]
    BY <1>5, <2>1, <2>2 DEF SendEvent, Event, Reset
  <2>4. position' = [position EXCEPT ![c] = event.sequence]
    BY <1>5 DEF SendEvent
  <2> HIDE DEF event
  <2>5. event.sequence >= position[c] /\ event.sequence <= event.sequence
    BY <1>0, <2>3 DEF ClientsTyped
  <2> QED BY <1>5, <2>1, <2>3, <2>4, <2>5, TakeOwes DEF SendEvent, event
<1>6. CASE RefusePage(c) \/ RefuseCursor(c) \/ ResetExpired(c) \/ SendReset(c) \/ Disconnect(c)
  BY <1>6, EndStreamOwes DEF RefusePage, RefuseCursor, ResetExpired, SendReset, Disconnect
<1> QED  BY <1>1, <1>2, <1>3, <1>4, <1>5, <1>6 DEF ClientStep, FirstPage, NextPage

LEMMA NextOwes == LiveInv /\ NothingLost /\ [Next]_vars => NothingLost'
<1> SUFFICES ASSUME LiveInv, NothingLost, [Next]_vars PROVE NothingLost'
  OBVIOUS
<1>1. CASE UNCHANGED vars
  BY <1>1 DEF vars, storeVars, liveVars, NothingLost
<1>2. ASSUME NEW h \in Handlers, Purge(h)
      PROVE  NothingLost'
  <2>1. lastSequence' = 0 /\ UNCHANGED position
    BY <1>2 DEF Purge, PurgeNamespace
  <2>2. \A c \in Clients : (position'[c] + 1)..lastSequence' = {}
    BY <2>1 DEF LiveInv, ClientsTyped
  <2> QED BY <2>2 DEF NothingLost
<1>3. CASE Restart
  BY <1>3 DEF Restart, NothingLost
<1> QED  BY <1>1, <1>2, <1>3, CommitOwes, PublishOwes, ClientOwes DEF Next

\* A stream that has caught up with the log is owed nothing afterwards: a later
\* change to its collection is in its channel or with the handler that committed
\* it, until the hub drops the stream; for any number of handlers, clients,
\* purges, faults and any channel capacity (ReadBacklog, changeHub.publish).
THEOREM NothingIsLost == Spec => []NothingLost
<1>1. Init => NothingLost
  BY DEF Init, NothingLost
<1> QED  BY <1>1, TypesHold, NextOwes, PTL DEF Spec

-----------------------------------------------------------------------------
(* Handlers that write one at a time, and no purge *)

LogsInv == LogInv /\ ListInv

\* A document that nothing changed between two moments is the same at both.
LEMMA Unchanging ==
  ASSUME NEW f, NEW s, NEW a \in Nat, NEW b \in Nat, a <= b,
         \A n \in (a + 1)..b : f[n][s] = f[n - 1][s]
  PROVE  f[a][s] = f[b][s]
<1> DEFINE differ == {n \in a..b : f[n][s] # f[a][s]}
<1> SUFFICES ASSUME f[a][s] # f[b][s] PROVE FALSE
  OBVIOUS
<1>1. differ \in SUBSET Nat /\ differ # {}
  <2>1. b \in differ
    OBVIOUS
  <2> QED BY <2>1
<1>2. PICK m \in differ : \A n \in differ : m <= n
  <2> HIDE DEF differ
  <2> QED BY <1>1, LeastOf
<1>3. m \in a..b /\ f[m][s] # f[a][s] /\ m # a /\ m \in Nat
  BY <1>2
<1>4. m - 1 \in a..b /\ m \in (a + 1)..b
  BY <1>3
<1>5. m - 1 \notin differ
  <2> HIDE DEF differ
  <2> QED BY <1>2, <1>3
<1> QED BY <1>3, <1>4, <1>5

\* The document d is that of slot s at a moment from a on; nothing changed s
\* after a and up to b.
HeldFrom(d, s, a) == \E m \in a..lastSequence : d = history[m][s]
Still(s, a, b) == \A n \in (a + 1)..b : history[n][s] = history[n - 1][s]

LEMMA CarriedOn ==
  ASSUME lastSequence \in Nat, NEW s, NEW a \in Nat, NEW b \in Nat, a <= b,
         b <= lastSequence, NEW d, HeldFrom(d, s, a), Still(s, a, b)
  PROVE  HeldFrom(d, s, b)
<1>1. PICK m \in a..lastSequence : d = history[m][s]
  BY DEF HeldFrom
<1>2. CASE m >= b
  BY <1>1, <1>2 DEF HeldFrom
<1>3. CASE m < b
  <2>1. m \in Nat /\ m <= b /\ \A n \in (m + 1)..b : history[n][s] = history[n - 1][s]
    BY <1>1, <1>3 DEF Still
  <2>2. history[m][s] = history[b][s]
    BY <2>1, Unchanging
  <2>3. b \in b..lastSequence
    OBVIOUS
  <2> QED BY <1>1, <2>2, <2>3 DEF HeldFrom
<1> QED BY <1>1, <1>2, <1>3

LEMMA CommitLogsInv ==
  ASSUME StoreInv, LogsInv, NEW h, Commit(h)
  PROVE  LogsInv'
<1>0. StoreTypeOK /\ LogInv /\ ListInv
  BY DEF StoreInv, LogsInv
<1>1. ASSUME NEW s \in Slots, NEW bytes \in Sizes, PutNew(s, bytes, clock)
      PROVE  LogsInv'
  BY <1>0, <1>1, WriteDocumentLog, WriteDocumentList DEF PutNew, LogsInv
<1>2. ASSUME NEW s \in Slots, NEW bytes \in Sizes, NEW r, Put(s, bytes, r, clock)
      PROVE  LogsInv'
  BY <1>0, <1>2, WriteDocumentLog, WriteDocumentList DEF Put, LogsInv
<1>3. ASSUME NEW s \in Slots, NEW r, Delete(s, r, clock)
      PROVE  LogsInv'
  BY <1>0, <1>3, DeleteLog, DeleteList DEF LogsInv
<1>4. ASSUME NEW c, ClearCollection(c, clock)
      PROVE  LogsInv'
  BY <1>0, <1>4, ClearCollectionLog, ClearCollectionList DEF LogsInv
<1> QED  BY <1>1, <1>2, <1>3, <1>4 DEF Commit

\* A row that a transaction keeps keeps its place in the list.
LEMMA CommitRows ==
  ASSUME StoreTypeOK, NEW h, Commit(h), NEW s \in Slots,
         documents[s] # Absent, documents'[s] # Absent
  PROVE  createdSequence'[s] = createdSequence[s]
<1>0. documents \in States /\ createdSequence \in [Slots -> 0..lastSequence]
  BY DEF StoreTypeOK, States
<1>1. ASSUME NEW t \in Slots, NEW bytes \in Sizes, PutNew(t, bytes, clock)
      PROVE  createdSequence'[s] = createdSequence[s]
  BY <1>0, <1>1 DEF PutNew
<1>2. ASSUME NEW t \in Slots, NEW bytes \in Sizes, NEW r, Put(t, bytes, r, clock)
      PROVE  createdSequence'[s] = createdSequence[s]
  BY <1>2 DEF Put
<1>3. ASSUME NEW t \in Slots, NEW r, Delete(t, r, clock)
      PROVE  createdSequence'[s] = createdSequence[s]
  <2>1. documents' = [documents EXCEPT ![t] = Absent]
        /\ createdSequence' = [createdSequence EXCEPT ![t] = 0]
    BY <1>3 DEF Delete
  <2>2. s # t
    BY <1>0, <2>1 DEF States
  <2> QED BY <1>0, <2>1, <2>2
<1>4. ASSUME NEW c, ClearCollection(c, clock)
      PROVE  createdSequence'[s] = createdSequence[s]
  <2>1. /\ documents' = [t \in Slots |-> IF t \in StoredIn(documents, c) THEN Absent
                                                                        ELSE documents[t]]
        /\ createdSequence' = [t \in Slots |-> IF t \in StoredIn(documents, c) THEN 0
                                                                    ELSE createdSequence[t]]
    BY <1>4 DEF ClearCollection
  <2> QED BY <2>1
<1> QED  BY <1>1, <1>2, <1>3, <1>4 DEF Commit

\* What waits with a handler is the last of the changes, in order.
Pending ==
  \A h \in Handlers :
    /\ Len(unpublished[h]) <= lastSequence
    /\ \A i \in DOMAIN unpublished[h] :
         unpublished[h][i] = ChangeEvent(history, lastSequence - Len(unpublished[h]) + i)

\* The events of a channel are published changes to the collection its client
\* watches, in order, and for a live stream with none missing.
Queued(c) ==
  /\ \A i \in DOMAIN queue[c] :
       /\ queue[c][i].sequence \in 1..lastSequence
       /\ queue[c][i] = ChangeEvent(history, queue[c][i].sequence)
       /\ queue[c][i].slot[1] = Interest[c]
       /\ \A h \in Handlers :
            queue[c][i].sequence <= lastSequence - Len(unpublished[h])
       /\ \A j \in DOMAIN queue[c] : i < j => queue[c][i].sequence < queue[c][j].sequence
  /\ mode[c] = "live" =>
       \A i \in DOMAIN queue[c] : \A n \in (position[c] + 1)..queue[c][i].sequence :
         ChangeEvent(history, n).slot[1] = Interest[c] =>
           \E j \in DOMAIN queue[c] : queue[c][j] = ChangeEvent(history, n)

Placed(c) ==
  /\ cursor[c] <= lastSequence
  /\ mode[c] \in Streaming => cursor[c] <= position[c] /\ position[c] <= lastSequence
  /\ mode[c] = "paging" =>
       cursor[c] <= paging[c].watermark /\ paging[c].watermark <= lastSequence

\* What the pages read so far hold, and what they will.
PagesCover(c, watermark, after, found, s) ==
  \/ \E m \in watermark..lastSequence : found[s] = history[m][s]
  \/ /\ found[s] = Absent /\ documents[s] # Absent
     /\ after < createdSequence[s] /\ createdSequence[s] <= watermark

Paged(c) ==
  mode[c] = "paging" =>
    \A s \in Watched(c) :
      PagesCover(c, paging[c].watermark, paging[c].after, paging[c].found, s)

ShownCurrent(c) ==
  \A s \in Watched(c) : \E m \in Reached(c)..lastSequence : replica[c][s] = history[m][s]

ClientInv(c) == Queued(c) /\ Placed(c) /\ Paged(c) /\ ShownCurrent(c)

OneWriterInv ==
  LiveInv /\ NothingLost /\ LogsInv /\ Pending /\ \A c \in Clients : ClientInv(c)

LEMMA ClientTypes ==
  ASSUME LiveInv, NEW c \in Clients
  PROVE  /\ cursor[c] \in Nat /\ position[c] \in Nat /\ lastSequence \in Nat
         /\ queue[c] \in Seq(Event)
         /\ mode[c] \in {"list", "paging", "connect", "subscribed", "backlog", "live"}
         /\ paging[c].watermark \in Nat /\ paging[c].after \in Nat
BY DEF LiveInv, StoreInv, StoreTypeOK, HubTyped, ClientsTyped, Streaming

\* What a client shows is never older than its cursor.
LEMMA AtCursor ==
  ASSUME LiveInv, NEW c \in Clients, Placed(c), ShownCurrent(c), NEW s \in Watched(c)
  PROVE  \E m \in cursor[c]..lastSequence : replica[c][s] = history[m][s]
<1>1. /\ Reached(c) \in Nat /\ Reached(c) >= cursor[c] /\ cursor[c] \in Nat
      /\ lastSequence \in Nat
  BY ClientTypes DEF Placed, Reached
<1>2. PICK m \in Reached(c)..lastSequence : replica[c][s] = history[m][s]
  BY DEF ShownCurrent
<1>3. m \in cursor[c]..lastSequence
  BY <1>1
<1> QED BY <1>2, <1>3

\* A client without a stream and a list keeps what it shows and its cursor.
LEMMA Rests ==
  ASSUME LiveInv, NEW c \in Clients, ClientInv(c), UNCHANGED storeVars,
         mode'[c] \in {"list", "connect"}
         \/ (mode'[c] = "subscribed" /\ position'[c] = cursor[c]),
         queue'[c] = <<>>, replica'[c] = replica[c], cursor'[c] = cursor[c]
  PROVE  ClientInv(c)'
<1>1. UNCHANGED <<history, lastSequence>> /\ cursor[c] <= lastSequence /\ cursor[c] \in Nat
  BY ClientTypes DEF storeVars, ClientInv, Placed
<1>2. Queued(c)'
  BY DEF Queued
<1>3. Placed(c)' /\ Paged(c)'
  BY <1>1 DEF Placed, Paged, Streaming
<1>4. Reached(c)' = cursor[c]
  BY DEF Reached, Streaming
<1>5. ShownCurrent(c)'
  <2>1. ASSUME NEW s \in Watched(c)
        PROVE  \E m \in cursor[c]..lastSequence : replica[c][s] = history[m][s]
    BY AtCursor DEF ClientInv
  <2> QED BY <1>1, <1>4, <2>1 DEF ShownCurrent, Watched
<1> QED BY <1>2, <1>3, <1>5 DEF ClientInv

\* What another client does does not concern this one.
LEMMA Untouched ==
  ASSUME NEW c \in Clients, ClientInv(c), UNCHANGED <<storeVars, unpublished>>,
         mode'[c] = mode[c], paging'[c] = paging[c], replica'[c] = replica[c],
         cursor'[c] = cursor[c], position'[c] = position[c], queue'[c] = queue[c]
  PROVE  ClientInv(c)'
<1>1. UNCHANGED <<history, lastSequence, documents, createdSequence, unpublished>>
  BY DEF storeVars
<1>2. Queued(c)'
  BY <1>1 DEF ClientInv, Queued
<1>3. Placed(c)'
  BY <1>1 DEF ClientInv, Placed
<1>4. Paged(c)'
  BY <1>1 DEF ClientInv, Paged, PagesCover, Watched
<1>5. ShownCurrent(c)'
  BY <1>1 DEF ClientInv, ShownCurrent, Reached, Watched
<1> QED BY <1>2, <1>3, <1>4, <1>5 DEF ClientInv

LEMMA StoreKept ==
  ASSUME LogsInv, Pending, UNCHANGED <<storeVars, unpublished>>
  PROVE  LogsInv' /\ Pending'
<1>1. LogsInv'
  BY DEF LogsInv, LogInv, ListInv, Suffix, Stored, storeVars
<1>2. Pending'
  BY DEF Pending, storeVars
<1> QED BY <1>1, <1>2

LEMMA CommitClients ==
  ASSUME OneAtATime', LiveInv, LogsInv, Pending, NEW h \in Handlers, Commit(h)
  PROVE  /\ Pending' /\ \A c \in Clients : ClientInv(c) => ClientInv(c)'
<1>1. /\ StoreInv' /\ lastSequence \in Nat /\ lastSequence' \in Nat
      /\ lastSequence' >= lastSequence
      /\ \A n \in 0..lastSequence : history'[n] = history[n]
  BY CommitStore DEF LiveInv
<1>2. \A n \in 1..lastSequence : ChangeEvent(history', n) = ChangeEvent(history, n)
  <2> TAKE n \in 1..lastSequence
  <2>1. n \in 0..lastSequence /\ n - 1 \in 0..lastSequence
    BY <1>1
  <2> QED BY <1>1, <2>1, SameEvent
<1> DEFINE k == lastSequence' - lastSequence
           new == [i \in 1..k |-> ChangeEvent(history', lastSequence + i)]
<1>3. /\ unpublished' = [unpublished EXCEPT ![h] = new] /\ unpublished[h] = <<>>
      /\ UNCHANGED <<mode, paging, replica, cursor, position, queue, registered>>
  BY DEF Commit
<1>4. k \in Nat /\ lastSequence + k = lastSequence' /\ lastSequence' - k = lastSequence
      /\ k <= lastSequence'
  BY <1>1, Difference
<1>5. unpublished \in [Handlers -> Seq(Event)]
  BY DEF LiveInv, HubTyped
<1>6. /\ unpublished'[h] = new /\ Len(new) = k /\ DOMAIN new = 1..k
      /\ \A i \in 1..k : new[i] = ChangeEvent(history', lastSequence + i)
  <2>1. unpublished'[h] = new
    BY <1>3, <1>5
  <2>2. DOMAIN new = 1..k /\ \A i \in 1..k : new[i] = ChangeEvent(history', lastSequence + i)
    OBVIOUS
  <2>3. Len(new) = k
    <3> HIDE DEF k
    <3> QED BY <1>4
  <2> QED BY <2>1, <2>2, <2>3
<1> HIDE DEF new, k
<1>13. ASSUME NEW g \in Handlers, g # h
       PROVE  /\ unpublished'[g] = unpublished[g]
              /\ k = 0 \/ unpublished[g] = <<>>
  <2>1. unpublished'[g] = unpublished[g]
    BY <1>3, <1>5, <1>13
  <2>2. CASE k # 0
    <3>1. unpublished'[h] # <<>>
      BY <1>4, <1>6, <2>2
    <3> QED BY <1>13, <2>1, <3>1 DEF OneAtATime
  <2> QED BY <2>1, <2>2
<1>14. ASSUME NEW g \in Handlers
       PROVE  /\ Len(unpublished'[g]) \in Nat
              /\ Len(unpublished'[g]) <= lastSequence'
              /\ lastSequence' - Len(unpublished'[g]) >= lastSequence - Len(unpublished[g])
              /\ \A i \in DOMAIN unpublished'[g] :
                   unpublished'[g][i] =
                     ChangeEvent(history', lastSequence' - Len(unpublished'[g]) + i)
  <2>1. CASE g = h
    BY <1>1, <1>3, <1>4, <1>6, <2>1
  <2>2. CASE g # h /\ unpublished[g] = <<>>
    BY <1>1, <1>13, <2>2
  <2>3. CASE g # h /\ k = 0
    <3> DEFINE v == unpublished[g]
    <3>1. unpublished'[g] = v /\ lastSequence' = lastSequence /\ v \in Seq(Event)
      <4>1. lastSequence' = lastSequence
        BY <1>1, <1>4, <2>3
      <4> QED BY <1>5, <1>13, <2>3, <4>1
    <3>2. Len(v) \in Nat /\ DOMAIN v = 1..Len(v) /\ Len(v) <= lastSequence
      BY <3>1 DEF Pending
    <3>3. ASSUME NEW i \in DOMAIN v
          PROVE  v[i] = ChangeEvent(history', lastSequence - Len(v) + i)
      <4>1. v[i] = ChangeEvent(history, lastSequence - Len(v) + i)
        BY DEF Pending
      <4>2. lastSequence - Len(v) + i \in 1..lastSequence
        BY <1>1, <3>2
      <4> QED BY <1>2, <4>1, <4>2
    <3> HIDE DEF v
    <3>4. lastSequence - Len(v) >= lastSequence - Len(v)
      BY <1>1, <3>2
    <3> QED BY <3>1, <3>2, <3>3, <3>4 DEF v
  <2> QED BY <1>13, <2>1, <2>2, <2>3
<1>7. Pending'
  BY <1>14 DEF Pending
<1> SUFFICES ASSUME NEW c \in Clients, ClientInv(c) PROVE ClientInv(c)'
  BY <1>7
<1>8. Queued(c)'
  <2>1. ASSUME NEW i \in DOMAIN queue[c]
        PROVE  /\ queue[c][i].sequence \in 1..lastSequence'
               /\ queue[c][i] = ChangeEvent(history', queue[c][i].sequence)
               /\ queue[c][i].slot[1] = Interest[c]
               /\ \A g \in Handlers : queue[c][i].sequence <= lastSequence' - Len(unpublished'[g])
               /\ \A j \in DOMAIN queue[c] : i < j => queue[c][i].sequence < queue[c][j].sequence
    <3>1. queue[c][i].sequence \in 1..lastSequence
      BY DEF ClientInv, Queued
    <3>2. queue[c][i].sequence \in 1..lastSequence' /\ queue[c][i].sequence <= lastSequence
      BY <1>1, <3>1
    <3>3. ASSUME NEW g \in Handlers
          PROVE  queue[c][i].sequence <= lastSequence' - Len(unpublished'[g])
      <4>1. queue[c][i].sequence <= lastSequence - Len(unpublished[g])
        BY DEF ClientInv, Queued
      <4>2. Len(unpublished[g]) \in Nat /\ Len(unpublished'[g]) \in Nat
            /\ queue[c][i].sequence \in Nat
        BY <1>5, <1>14, <3>1
      <4> QED BY <1>1, <1>14, <4>1, <4>2
    <3> QED BY <1>2, <3>1, <3>2, <3>3 DEF ClientInv, Queued
  <2>2. ASSUME mode[c] = "live", NEW i \in DOMAIN queue[c],
               NEW n \in (position[c] + 1)..queue[c][i].sequence,
               ChangeEvent(history', n).slot[1] = Interest[c]
        PROVE  \E j \in DOMAIN queue[c] : queue[c][j] = ChangeEvent(history', n)
    <3>1. position[c] \in Nat /\ queue[c][i].sequence \in 1..lastSequence
      BY ClientTypes DEF ClientInv, Queued
    <3>2. n \in 1..lastSequence
      BY <1>1, <3>1
    <3> QED BY <1>2, <2>2, <3>2 DEF ClientInv, Queued
  <2> QED BY <1>3, <2>1, <2>2 DEF Queued
<1>9. Placed(c)'
  BY <1>1, <1>3, ClientTypes DEF ClientInv, Placed
<1>10. ASSUME NEW a \in Nat, NEW d, NEW s, \E m \in a..lastSequence : d = history[m][s]
       PROVE  \E m \in a..lastSequence' : d = history'[m][s]
  <2>1. PICK m \in a..lastSequence : d = history[m][s]
    BY <1>10
  <2>2. m \in 0..lastSequence /\ m \in a..lastSequence'
    BY <1>1
  <2> QED BY <1>1, <2>1, <2>2
<1>11. Paged(c)'
  <2> SUFFICES ASSUME mode[c] = "paging", NEW s \in Watched(c)
               PROVE  PagesCover(c, paging[c].watermark, paging[c].after, paging[c].found, s)'
    BY <1>3 DEF Paged, Watched
  <2>1. /\ PagesCover(c, paging[c].watermark, paging[c].after, paging[c].found, s)
        /\ paging[c].watermark \in Nat /\ paging[c].watermark <= lastSequence
        /\ s \in Slots
    BY ClientTypes DEF ClientInv, Paged, Placed, Watched
  <2>2. CASE \E m \in paging[c].watermark..lastSequence : paging[c].found[s] = history[m][s]
    <3>1. \E m \in paging[c].watermark..lastSequence' : paging[c].found[s] = history'[m][s]
      BY <1>10, <2>1, <2>2
    <3> QED BY <1>3, <3>1 DEF PagesCover
  <2>3. CASE /\ paging[c].found[s] = Absent /\ documents[s] # Absent
             /\ paging[c].after < createdSequence[s]
             /\ createdSequence[s] <= paging[c].watermark
    <3>1. CASE documents'[s] = Absent
      <4>1. lastSequence' \in paging[c].watermark..lastSequence'
            /\ history'[lastSequence'] = documents'
        BY <1>1, <2>1 DEF StoreInv, Stepwise
      <4> QED BY <1>3, <2>3, <3>1, <4>1 DEF PagesCover
    <3>2. CASE documents'[s] # Absent
      <4>1. createdSequence'[s] = createdSequence[s]
        BY <2>1, <2>3, <3>2, CommitRows DEF LiveInv, StoreInv
      <4> QED BY <1>3, <2>3, <3>2, <4>1 DEF PagesCover
    <3> QED BY <3>1, <3>2
  <2> QED BY <2>1, <2>2, <2>3 DEF PagesCover
<1>12. ShownCurrent(c)'
  <2>1. Reached(c) \in Nat /\ Reached(c)' = Reached(c)
    BY <1>3, ClientTypes DEF Reached
  <2>2. ASSUME NEW s \in Watched(c)
        PROVE  \E m \in Reached(c)..lastSequence' : replica[c][s] = history'[m][s]
    <3> DEFINE r == Reached(c)
               d == replica[c][s]
    <3>1. r \in Nat /\ \E m \in r..lastSequence : d = history[m][s]
      BY <2>1 DEF ClientInv, ShownCurrent
    <3> HIDE DEF r, d
    <3>2. \E m \in r..lastSequence' : d = history'[m][s]
      BY <1>10, <3>1
    <3> QED BY <3>2 DEF r, d
  <2> QED BY <1>3, <2>1, <2>2 DEF ShownCurrent, Watched
<1> QED BY <1>8, <1>9, <1>11, <1>12 DEF ClientInv

LEMMA PublishClients ==
  ASSUME OneAtATime, LiveInv, NothingLost, Pending, NEW h \in Handlers, Publish(h)
  PROVE  /\ Pending' /\ \A c \in Clients : ClientInv(c) => ClientInv(c)'
<1> DEFINE u == unpublished[h]
           n0 == lastSequence - Len(u) + 1
           event == Head(u)
<1>1. /\ UNCHANGED <<history, lastSequence, documents, createdSequence, mode, paging,
                     replica, cursor, position>>
      /\ unpublished' = [unpublished EXCEPT ![h] = Tail(u)] /\ u # <<>>
      /\ IF event.kind = "reset" THEN PublishReset ELSE PublishChange(event)
  BY DEF Publish, storeVars
<1>2. /\ unpublished \in [Handlers -> Seq(Event)] /\ queue \in [Clients -> Seq(Event)]
      /\ u \in Seq(Event) /\ lastSequence \in Nat
      /\ \A g \in Handlers : g # h => unpublished[g] = <<>>
  BY <1>1 DEF OneAtATime, LiveInv, HubTyped, StoreInv, StoreTypeOK
<1>3. /\ Len(u) <= lastSequence
      /\ \A i \in DOMAIN u : u[i] = ChangeEvent(history, lastSequence - Len(u) + i)
  BY DEF Pending
<1>4. unpublished'[h] = Tail(u)
  BY <1>1, <1>2
<1> HIDE DEF u
<1>5. /\ Len(u) \in Nat \ {0} /\ DOMAIN u = 1..Len(u) /\ event = u[1]
      /\ Len(Tail(u)) = Len(u) - 1 /\ DOMAIN Tail(u) = 1..(Len(u) - 1)
      /\ \A i \in 1..(Len(u) - 1) : Tail(u)[i] = u[i + 1]
  BY <1>1, <1>2
<1>6. n0 \in 1..lastSequence /\ event = ChangeEvent(history, n0)
  BY <1>2, <1>3, <1>5
<1>7. event.sequence = n0 /\ event \in Event /\ PublishChange(event)
  BY <1>1, <1>6, EventFacts DEF LiveInv, Tells
<1>8. Pending'
  <2>1. ASSUME NEW i \in DOMAIN Tail(u)
        PROVE  Tail(u)[i] = ChangeEvent(history, lastSequence - Len(Tail(u)) + i)
    <3>1. i + 1 \in DOMAIN u /\ Tail(u)[i] = u[i + 1]
          /\ lastSequence - Len(Tail(u)) + i = lastSequence - Len(u) + (i + 1)
      BY <1>2, <1>5
    <3> QED BY <1>3, <3>1
  <2>2. Len(Tail(u)) <= lastSequence
    BY <1>2, <1>3, <1>5
  <2>3. \A g \in Handlers : g # h => unpublished'[g] = <<>>
    BY <1>1, <1>2
  <2> QED BY <1>1, <1>2, <1>4, <2>1, <2>2, <2>3 DEF Pending
<1>16. ASSUME NEW g \in Handlers
       PROVE  lastSequence - Len(unpublished'[g]) >= n0
              /\ lastSequence - Len(unpublished'[g]) \in Int
  <2>1. CASE g = h
    <3> DEFINE l == Len(u)
               m == Len(unpublished'[g])
    <3>1. m = l - 1 /\ l \in Nat /\ lastSequence \in Nat
      BY <1>2, <1>4, <1>5, <2>1
    <3>2. n0 = lastSequence - l + 1
      BY DEF n0
    <3> HIDE DEF l, m, n0
    <3>3. lastSequence - m >= n0 /\ lastSequence - m \in Int
      BY <3>1, <3>2
    <3> QED BY <3>3 DEF m
  <2>2. CASE g # h
    <3>1. unpublished'[g] = <<>>
      BY <1>1, <1>2, <2>2
    <3> QED BY <1>2, <1>5, <3>1
  <2> QED BY <2>1, <2>2
<1> HIDE DEF event, n0
<1> SUFFICES ASSUME NEW c \in Clients, ClientInv(c) PROVE ClientInv(c)'
  BY <1>8
<1>9. Placed(c)' /\ Paged(c)' /\ ShownCurrent(c)'
  BY <1>1 DEF ClientInv, Placed, Paged, PagesCover, ShownCurrent, Reached, Watched
<1> DEFINE q == queue[c]
<1>10. /\ q \in Seq(Event) /\ Len(q) \in Nat /\ DOMAIN q = 1..Len(q)
       /\ DOMAIN Append(q, event) = 1..(Len(q) + 1)
       /\ \A i \in DOMAIN q : Append(q, event)[i] = q[i]
       /\ Append(q, event)[Len(q) + 1] = event
  BY <1>2, <1>7
<1>11. /\ \A i \in DOMAIN q :
            /\ q[i].sequence \in 1..lastSequence
            /\ q[i] = ChangeEvent(history, q[i].sequence)
            /\ q[i].slot[1] = Interest[c]
            /\ q[i].sequence <= lastSequence - Len(u)
            /\ \A j \in DOMAIN q : i < j => q[i].sequence < q[j].sequence
       /\ mode[c] = "live" =>
            \A i \in DOMAIN q : \A n \in (position[c] + 1)..q[i].sequence :
              ChangeEvent(history, n).slot[1] = Interest[c] =>
                \E j \in DOMAIN q : q[j] = ChangeEvent(history, n)
  BY DEF ClientInv, Queued, u
<1>12. ASSUME NEW m \in Int, m <= n0
       PROVE  \A g \in Handlers : m <= lastSequence - Len(unpublished'[g])
  BY <1>6, <1>12, <1>16
<1>13. n0 > lastSequence - Len(u) /\ n0 \in Nat
  BY <1>2, <1>5, <1>6 DEF n0
<1>14. CASE queue'[c] = q
  <2>1. \A i \in DOMAIN q : q[i].sequence <= n0
    BY <1>2, <1>5, <1>11, <1>13
  <2> HIDE DEF q
  <2> QED BY <1>1, <1>9, <1>11, <1>12, <1>14, <2>1 DEF ClientInv, Queued
<1>15. CASE queue'[c] = Append(q, event) /\ registered[c] /\ event.slot[1] = Interest[c]
  <2> DEFINE r == Append(q, event)
  <2>1. ASSUME NEW i \in DOMAIN r
        PROVE  (i \in DOMAIN q /\ r[i] = q[i]) \/ (i = Len(q) + 1 /\ r[i] = event)
    BY <1>10
  <2>2. ASSUME NEW i \in DOMAIN r
        PROVE  /\ r[i].sequence \in 1..lastSequence
               /\ r[i] = ChangeEvent(history, r[i].sequence)
               /\ r[i].slot[1] = Interest[c]
               /\ r[i].sequence <= n0
               /\ \A j \in DOMAIN r : i < j => r[i].sequence < r[j].sequence
    <3>1. CASE i \in DOMAIN q /\ r[i] = q[i]
      <4>1. q[i].sequence < n0 /\ q[i].sequence <= n0
        BY <1>2, <1>5, <1>11, <1>13, <3>1
      <4>2. ASSUME NEW j \in DOMAIN r, i < j
            PROVE  r[i].sequence < r[j].sequence
        <5> HIDE DEF r, q
        <5> QED BY <1>7, <1>11, <2>1, <3>1, <4>1, <4>2
      <4> HIDE DEF r, q
      <4> QED BY <1>11, <3>1, <4>1, <4>2
    <3>2. CASE i = Len(q) + 1 /\ r[i] = event
      <4>1. \A j \in DOMAIN r : ~(i < j)
        BY <1>10, <3>2
      <4>2. n0 <= n0
        BY <1>13
      <4> HIDE DEF r, q
      <4> QED BY <1>6, <1>7, <1>15, <3>2, <4>1, <4>2
    <3> QED BY <2>1, <3>1, <3>2
  <2>3. ASSUME mode[c] = "live", NEW i \in DOMAIN r,
               NEW n \in (position[c] + 1)..r[i].sequence,
               ChangeEvent(history, n).slot[1] = Interest[c]
        PROVE  \E j \in DOMAIN r : r[j] = ChangeEvent(history, n)
    <3>1. CASE \E j \in DOMAIN q : q[j] = ChangeEvent(history, n)
      BY <1>10, <3>1
    <3>2. CASE i \in DOMAIN q /\ r[i] = q[i]
      <4>1. n \in (position[c] + 1)..q[i].sequence
        BY <3>2
      <4>2. \E j \in DOMAIN q : q[j] = ChangeEvent(history, n)
        <5> HIDE DEF q, r
        <5> QED BY <1>11, <2>3, <3>2, <4>1
      <4> QED BY <3>1, <4>2
    <3>3. CASE i = Len(q) + 1 /\ r[i] = event
      <4>1. position[c] \in Nat /\ n \in (position[c] + 1)..n0
        BY <1>7, <3>3, ClientTypes
      <4>2. n \in (position[c] + 1)..lastSequence /\ n \in 1..lastSequence /\ n <= n0
        BY <1>2, <1>6, <4>1
      <4>3. Waits(ChangeEvent(history, n), c)
        BY <1>15, <2>3, <4>2, Owed
      <4>4. ASSUME NEW k \in DOMAIN u, u[k] = ChangeEvent(history, n)
            PROVE  k = 1
        <5>1. lastSequence - Len(u) + k \in 1..lastSequence
          BY <1>2, <1>3, <1>5
        <5>2. u[k].sequence = n
          BY <4>2, <4>4, EventFacts DEF LiveInv, Tells
        <5>3. u[k].sequence = lastSequence - Len(u) + k
          BY <1>3, <5>1, EventFacts DEF LiveInv, Tells
        <5> QED BY <1>2, <1>5, <4>2, <5>2, <5>3 DEF n0
      <4>5. CASE \E g \in Handlers : \E k \in DOMAIN unpublished[g] :
                   unpublished[g][k] = ChangeEvent(history, n)
        <5>1. PICK k \in DOMAIN u : u[k] = ChangeEvent(history, n)
          <6>1. \A g \in Handlers : DOMAIN unpublished[g] # {} => g = h
            BY <1>2
          <6> QED BY <4>5, <6>1 DEF u
        <5>2. event = ChangeEvent(history, n)
          BY <1>5, <4>4, <5>1
        <5> QED BY <1>10, <5>2
      <4> QED BY <3>1, <4>3, <4>5 DEF Waits
    <3> QED BY <2>1, <3>2, <3>3
  <2> HIDE DEF r, q
  <2>4. queue'[c] = r
    BY <1>15 DEF r
  <2> QED BY <1>1, <1>9, <1>12, <2>2, <2>3, <2>4 DEF ClientInv, Queued
<1> QED BY <1>7, <1>14, <1>15 DEF PublishChange

LEMMA ReadPageClient ==
  ASSUME LiveInv, LogsInv, NEW c \in Clients, ClientInv(c),
         NEW W \in Nat, NEW A \in Nat, NEW found, ReadPage(c, W, A, found),
         \A s \in Watched(c) : PagesCover(c, W, A, found, s),
         cursor[c] <= W, W <= lastSequence, UNCHANGED <<storeVars, streamVars, unpublished>>
  PROVE  ClientInv(c)'
<1> DEFINE sofar == [s \in Slots |-> IF s \in Page(c, W, A) THEN documents[s] ELSE found[s]]
<1>1. /\ UNCHANGED <<history, lastSequence, documents, createdSequence, unpublished,
                     position, queue>>
      /\ history[lastSequence] = documents /\ lastSequence \in Nat
      /\ cursor[c] \in Nat
  BY ClientTypes DEF storeVars, streamVars, LiveInv, StoreInv, Stepwise
<1>2. /\ Page(c, W, A) \subseteq Listed(c, W, A) /\ Listed(c, W, A) \subseteq Slots
      /\ Page(c, W, A) # Listed(c, W, A) =>
           \A s \in Listed(c, W, A) \ Page(c, W, A) : PageEnd(c, W, A) < createdSequence[s]
  BY PageFacts DEF LiveInv
<1>3. ASSUME NEW s \in Watched(c)
      PROVE  \/ \E m \in W..lastSequence : sofar[s] = history[m][s]
             \/ /\ sofar[s] = Absent /\ documents[s] # Absent
                /\ createdSequence[s] <= W /\ s \in Listed(c, W, A) \ Page(c, W, A)
  <2>1. s \in Slots /\ s[1] = Interest[c] /\ PagesCover(c, W, A, found, s)
    BY DEF Watched
  <2>2. CASE s \in Page(c, W, A)
    <3>1. sofar[s] = history[lastSequence][s] /\ lastSequence \in W..lastSequence
      BY <1>1, <2>1, <2>2
    <3> QED BY <3>1
  <2>3. CASE s \notin Page(c, W, A)
    <3>1. sofar[s] = found[s]
      BY <2>1, <2>3
    <3>2. s \in Listed(c, W, A)
            <=> documents[s] # Absent /\ A < createdSequence[s] /\ createdSequence[s] <= W
      BY <2>1 DEF Listed, StoredIn, Stored
    <3> HIDE DEF sofar
    <3> QED BY <2>1, <2>3, <3>1, <3>2 DEF PagesCover
  <2> QED BY <2>2, <2>3
<1>4. CASE /\ Page(c, W, A) = Listed(c, W, A)
           /\ replica' = [replica EXCEPT ![c] = sofar]
           /\ cursor' = [cursor EXCEPT ![c] = W]
           /\ mode' = [mode EXCEPT ![c] = "connect"]
  <2> HIDE DEF sofar
  <2>1. replica'[c] = sofar /\ cursor'[c] = W /\ mode'[c] = "connect"
    BY <1>4 DEF LiveInv, ClientsTyped
  <2>2. Reached(c)' = W
    BY <2>1 DEF Reached, Streaming
  <2>3. ShownCurrent(c)'
    BY <1>1, <1>3, <1>4, <2>1, <2>2 DEF ShownCurrent, Watched
  <2>4. Placed(c)' /\ Paged(c)'
    BY <1>1, <2>1 DEF Placed, Paged, Streaming
  <2>5. Queued(c)'
    BY <1>1, <2>1 DEF ClientInv, Queued
  <2> QED BY <2>3, <2>4, <2>5 DEF ClientInv
<1>5. CASE /\ Page(c, W, A) # Listed(c, W, A)
           /\ mode' = [mode EXCEPT ![c] = "paging"]
           /\ paging' = [paging EXCEPT ![c] = [watermark |-> W, found |-> sofar,
                                               after |-> PageEnd(c, W, A)]]
           /\ UNCHANGED <<replica, cursor>>
  <2> DEFINE read == [watermark |-> W, found |-> sofar, after |-> PageEnd(c, W, A)]
  <2>1. paging'[c] = read /\ mode'[c] = "paging"
    BY <1>5 DEF LiveInv, ClientsTyped
  <2>2. read.watermark = W /\ read.found = sofar /\ read.after = PageEnd(c, W, A)
    OBVIOUS
  <2> HIDE DEF sofar, read
  <2>3. Reached(c)' = cursor[c]
    BY <1>5, <2>1 DEF Reached, Streaming
  <2>4. ShownCurrent(c)'
    <3>1. \A s \in Watched(c) : \E m \in cursor[c]..lastSequence : replica[c][s] = history[m][s]
      BY AtCursor DEF ClientInv
    <3> QED BY <1>1, <1>5, <2>3, <3>1 DEF ShownCurrent, Watched
  <2>5. Placed(c)'
    BY <1>1, <1>5, <2>1, <2>2 DEF ClientInv, Placed, Streaming
  <2>6. Paged(c)'
    BY <1>1, <1>2, <1>3, <1>5, <2>1, <2>2 DEF Paged, PagesCover, Watched
  <2>7. Queued(c)'
    BY <1>1, <2>1 DEF ClientInv, Queued
  <2> QED BY <2>4, <2>5, <2>6, <2>7 DEF ClientInv
<1> QED  BY <1>4, <1>5 DEF ReadPage, Page, Listed, PageEnd

LEMMA FirstPageCovers ==
  ASSUME LiveInv, LogsInv, NEW c \in Clients, NEW s \in Watched(c)
  PROVE  PagesCover(c, lastSequence, 0, NoDocuments, s)
<1>1. s \in Slots /\ lastSequence \in Nat /\ history[lastSequence] = documents
      /\ NoDocuments[s] = Absent
  BY DEF Watched, LiveInv, StoreInv, StoreTypeOK, Stepwise, NoDocuments
<1>2. CASE documents[s] = Absent
  BY <1>1, <1>2 DEF PagesCover
<1>3. CASE documents[s] # Absent
  <2>1. createdSequence[s] \in 1..lastSequence
    BY <1>1, <1>3 DEF LogsInv, ListInv, Stored
  <2> QED BY <1>1, <1>3, <2>1 DEF PagesCover
<1> QED BY <1>2, <1>3

LEMMA ReadBacklogClient ==
  ASSUME LiveInv, LogsInv, NEW c \in Clients, ClientInv(c), ReadBacklog(c)
  PROVE  ClientInv(c)' /\ cursor'[c] \in Nat /\ cursor'[c] >= cursor[c]
<1> DEFINE p == position[c]
           end == IF LogPage(c) = Wanted(c) THEN lastSequence ELSE Max(LogPage(c))
           shown == [s \in Slots |-> IF LatestOf(c, s) = {} THEN replica[c][s]
                                     ELSE changes[Max(LatestOf(c, s))].document]
           sent == IF LogPage(c) = {} THEN cursor[c] ELSE Max(LogPage(c))
           next == IF LogPage(c) = Wanted(c) THEN "live" ELSE "backlog"
<1>1. /\ replica'[c] = shown /\ cursor'[c] = sent /\ position'[c] = end /\ mode'[c] = next
      /\ UNCHANGED <<history, lastSequence, unpublished, queue, paging>>
      /\ mode[c] \in Streaming /\ ~CursorExpired(p)
  BY DEF ReadBacklog, LogPage, Wanted, LatestOf, LiveInv, ClientsTyped, Streaming, storeVars
<1>2. /\ p \in Nat /\ lastSequence \in Nat /\ cursor[c] \in Nat
      /\ cursor[c] <= p /\ p <= lastSequence
  BY <1>1, ClientTypes DEF ClientInv, Placed
<1>3. \A n \in (p + 1)..lastSequence :
        n \in ChangesAfter(p) /\ history[n] = Apply(history[n - 1], changes[n])
  <2>1. Resumable
    BY LogIsResumable DEF LiveInv, StoreInv, LogsInv
  <2>2. p \in 0..lastSequence
    BY <1>2
  <2> QED BY <1>1, <2>1, <2>2 DEF Resumable
<1>4. /\ LogPage(c) \subseteq Wanted(c) /\ Wanted(c) \subseteq DOMAIN changes
      /\ Wanted(c) \subseteq (p + 1)..lastSequence
      /\ \A n \in LogPage(c), m \in Wanted(c) \ LogPage(c) : n < m
      /\ LogPage(c) # Wanted(c) => LogPage(c) # {}
      /\ \A S \in SUBSET LogPage(c) :
           S # {} => Max(S) \in S /\ \A n \in S : n <= Max(S)
  BY <1>2, LogPageFacts DEF LiveInv
<1>5. LogPage(c) # {} => Max(LogPage(c)) \in (p + 1)..lastSequence
                         /\ \A n \in LogPage(c) : n <= Max(LogPage(c))
  BY <1>4
<1>6. /\ end \in Nat /\ p <= end /\ end <= lastSequence /\ sent \in Nat
      /\ cursor[c] <= sent /\ sent <= end
  BY <1>2, <1>4, <1>5
<1>7. \A n \in Wanted(c) : n <= end => n \in LogPage(c)
  <2> SUFFICES ASSUME NEW n \in Wanted(c), n <= end, n \notin LogPage(c) PROVE FALSE
    OBVIOUS
  <2>1. LogPage(c) # Wanted(c) /\ LogPage(c) # {} /\ end = Max(LogPage(c))
    BY <1>4
  <2>2. Max(LogPage(c)) \in LogPage(c)
    BY <1>4, <2>1
  <2>3. Max(LogPage(c)) < n /\ n \in Nat /\ Max(LogPage(c)) \in Nat
    BY <1>2, <1>4, <2>2
  <2> HIDE DEF end
  <2> QED BY <2>1, <2>3
<1> HIDE DEF end, sent, next
\* No change after m and up to the end of the page, of a slot that is watched,
\* but those of the page.
<1>8. ASSUME NEW s \in Watched(c), NEW m \in Nat, m >= p,
             \A n \in LatestOf(c, s) : n <= m
      PROVE  \A n \in (m + 1)..end : history[n][s] = history[n - 1][s]
  <2> SUFFICES ASSUME NEW n \in (m + 1)..end, history[n][s] # history[n - 1][s] PROVE FALSE
    OBVIOUS
  <2>1. n \in (p + 1)..lastSequence /\ n > m /\ n <= end /\ n \in Nat
    BY <1>2, <1>6, <1>8
  <2>2. n \in ChangesAfter(p) /\ history[n] = Apply(history[n - 1], changes[n])
    BY <1>3, <2>1
  <2>3. history[n - 1] \in [Slots -> Document \cup {Absent}]
    <3>1. n - 1 \in 0..lastSequence
      BY <1>2, <2>1
    <3> QED BY <3>1 DEF LiveInv, StoreInv, StoreTypeOK
  <2>4. changes[n].slot = s
    BY <2>2, <2>3 DEF Apply, Watched
  <2>5. n \in Wanted(c)
    BY <2>2, <2>4 DEF Wanted, Watched
  <2>6. n \in LatestOf(c, s)
    BY <1>7, <2>1, <2>4, <2>5 DEF LatestOf
  <2> QED BY <1>8, <2>1, <2>6
<1>9. ASSUME NEW s \in Watched(c)
      PROVE  \E m \in end..lastSequence : shown[s] = history[m][s]
  <2>1. s \in Slots
    BY DEF Watched
  <2>2. CASE LatestOf(c, s) = {}
    <3>1. shown[s] = replica[c][s]
      BY <2>1, <2>2
    <3>2. \E m \in p..lastSequence : replica[c][s] = history[m][s]
      BY <1>1 DEF ClientInv, ShownCurrent, Reached
    <3>3. \A n \in (p + 1)..end : history[n][s] = history[n - 1][s]
      <4>1. p >= p /\ \A n \in LatestOf(c, s) : n <= p
        BY <1>2, <2>2
      <4> QED BY <1>2, <1>8, <4>1
    <3> HIDE DEF shown, p
    <3>4. HeldFrom(replica[c][s], s, p) /\ Still(s, p, end)
      BY <3>2, <3>3 DEF HeldFrom, Still
    <3>5. HeldFrom(replica[c][s], s, end)
      BY <1>2, <1>6, <3>4, CarriedOn
    <3> QED BY <3>1, <3>5 DEF HeldFrom
  <2>3. CASE LatestOf(c, s) # {}
    <3> DEFINE x == Max(LatestOf(c, s))
    <3>1. LatestOf(c, s) \in SUBSET LogPage(c)
      BY DEF LatestOf
    <3>2. x \in LatestOf(c, s) /\ \A n \in LatestOf(c, s) : n <= x
      BY <1>4, <2>3, <3>1
    <3>3. shown[s] = changes[x].document /\ changes[x].slot = s
      BY <2>1, <2>3, <3>2 DEF LatestOf
    <3> HIDE DEF x
    <3>4. x \in (p + 1)..lastSequence /\ x <= end
      <4>1. x \in LogPage(c)
        BY <3>1, <3>2
      <4>2. x <= Max(LogPage(c)) /\ x \in (p + 1)..lastSequence
        BY <1>4, <1>5, <4>1
      <4> QED BY <4>2 DEF end
    <3>5. history[x] = Apply(history[x - 1], changes[x]) /\ x - 1 \in 0..lastSequence
          /\ x \in Nat /\ x >= p
      BY <1>2, <1>3, <3>4
    <3>6. history[x - 1] \in [Slots -> Document \cup {Absent}]
      BY <3>5 DEF LiveInv, StoreInv, StoreTypeOK
    <3>7. history[x][s] = shown[s]
      BY <2>1, <3>3, <3>5, <3>6 DEF Apply
    <3>8. \A n \in (x + 1)..end : history[n][s] = history[n - 1][s]
      BY <1>8, <3>2, <3>5
    <3>9. history[x][s] = history[end][s]
      BY <1>6, <3>4, <3>5, <3>8, Unchanging
    <3>10. end \in end..lastSequence
      BY <1>2, <1>6
    <3> QED BY <3>7, <3>9, <3>10
  <2> QED BY <2>2, <2>3
<1> HIDE DEF shown
<1>10. mode'[c] \in Streaming /\ mode'[c] # "paging" /\ Reached(c)' = end
  BY <1>1 DEF next, Streaming, Reached
<1>11. ShownCurrent(c)'
  BY <1>1, <1>9, <1>10 DEF ShownCurrent, Watched
<1>12. Placed(c)' /\ Paged(c)'
  BY <1>1, <1>2, <1>6, <1>10 DEF Placed, Paged
<1>13. Queued(c)'
  <2>1. ASSUME mode'[c] = "live", NEW i \in DOMAIN queue[c]
        PROVE  (end + 1)..queue[c][i].sequence = {}
    <3>1. end = lastSequence /\ queue[c][i].sequence \in 1..lastSequence
      BY <1>1, <2>1 DEF next, end, ClientInv, Queued
    <3> QED BY <1>2, <3>1
  <2> QED BY <1>1, <2>1 DEF ClientInv, Queued
<1> QED BY <1>1, <1>6, <1>11, <1>12, <1>13 DEF ClientInv

\* The first event of a channel is taken; the stream comes to place e, at or
\* after the event.
LEMMA TakeQueued ==
  ASSUME LiveInv, NEW c \in Clients, ClientInv(c), NEW e \in Nat, e >= position[c],
         UNCHANGED <<storeVars, unpublished>>, mode[c] = "live", mode'[c] = "live",
         queue[c] # <<>>, queue'[c] = Tail(queue[c]), position'[c] = e,
         Head(queue[c]).sequence <= e
  PROVE  Queued(c)'
<1> DEFINE q == queue[c]
           r == Tail(q)
<1>1. UNCHANGED <<history, lastSequence, unpublished>> /\ lastSequence \in Nat
      /\ position[c] \in Nat /\ q \in Seq(Event) /\ q # <<>>
  BY ClientTypes DEF storeVars
<1>2. /\ \A i \in DOMAIN q :
            /\ q[i].sequence \in 1..lastSequence
            /\ q[i] = ChangeEvent(history, q[i].sequence)
            /\ q[i].slot[1] = Interest[c]
            /\ \A h \in Handlers : q[i].sequence <= lastSequence - Len(unpublished[h])
            /\ \A j \in DOMAIN q : i < j => q[i].sequence < q[j].sequence
      /\ \A i \in DOMAIN q : \A n \in (position[c] + 1)..q[i].sequence :
           ChangeEvent(history, n).slot[1] = Interest[c] =>
             \E j \in DOMAIN q : q[j] = ChangeEvent(history, n)
  BY DEF ClientInv, Queued
<1>3. Head(q).sequence <= e /\ queue'[c] = r
  OBVIOUS
<1> HIDE DEF q
<1>4. /\ Len(q) \in Nat \ {0} /\ DOMAIN q = 1..Len(q) /\ Head(q) = q[1]
      /\ DOMAIN r = 1..(Len(q) - 1) /\ \A i \in 1..(Len(q) - 1) : r[i] = q[i + 1]
  BY <1>1
<1>5. \A i \in DOMAIN r : i \in Nat /\ i + 1 \in DOMAIN q /\ r[i] = q[i + 1]
  BY <1>4
<1> HIDE DEF r
<1>6. ASSUME NEW i \in DOMAIN r
      PROVE  /\ r[i].sequence \in 1..lastSequence
             /\ r[i] = ChangeEvent(history, r[i].sequence)
             /\ r[i].slot[1] = Interest[c]
             /\ \A h \in Handlers : r[i].sequence <= lastSequence - Len(unpublished[h])
             /\ \A j \in DOMAIN r : i < j => r[i].sequence < r[j].sequence
  <2>1. \A j \in DOMAIN r : i < j => i + 1 < j + 1
    BY <1>5
  <2> QED BY <1>2, <1>5, <2>1
<1>7. ASSUME NEW i \in DOMAIN r, NEW n \in (e + 1)..r[i].sequence,
             ChangeEvent(history, n).slot[1] = Interest[c]
      PROVE  \E j \in DOMAIN r : r[j] = ChangeEvent(history, n)
  <2>1. r[i].sequence \in 1..lastSequence
    BY <1>6
  <2>2. n \in (position[c] + 1)..r[i].sequence /\ n \in 1..lastSequence /\ n > e
    BY <1>1, <2>1
  <2>3. PICK j \in DOMAIN q : q[j] = ChangeEvent(history, n)
    BY <1>2, <1>5, <1>7, <2>2
  <2>4. q[j].sequence = n
    BY <2>2, <2>3, EventFacts DEF LiveInv, Tells
  <2>5. j # 1
    BY <1>3, <1>4, <2>2, <2>4
  <2>6. j - 1 \in 1..(Len(q) - 1) /\ (j - 1) + 1 = j
    BY <1>4, <2>5
  <2>7. j - 1 \in DOMAIN r /\ r[j - 1] = q[j]
    BY <1>4, <2>6
  <2> QED BY <2>3, <2>7
<1> QED BY <1>1, <1>3, <1>6, <1>7 DEF Queued

LEMMA SkipEventClient ==
  ASSUME LiveInv, NEW c \in Clients, ClientInv(c), SkipEvent(c)
  PROVE  ClientInv(c)'
<1>1. /\ UNCHANGED <<storeVars, unpublished, mode, paging, replica, cursor, position>>
      /\ mode[c] = "live" /\ queue[c] # <<>> /\ queue'[c] = Tail(queue[c])
      /\ Head(queue[c]).sequence <= position[c]
  BY DEF SkipEvent, LiveInv, HubTyped
<1>2. UNCHANGED <<history, lastSequence, documents, createdSequence>>
      /\ position[c] \in Nat /\ position[c] >= position[c]
  BY <1>1, ClientTypes DEF storeVars
<1>3. Queued(c)'
  BY <1>1, <1>2, TakeQueued
<1>4. Placed(c)' /\ Paged(c)' /\ ShownCurrent(c)'
  BY <1>1, <1>2 DEF ClientInv, Placed, Paged, PagesCover, ShownCurrent, Reached, Watched
<1> QED BY <1>3, <1>4 DEF ClientInv

LEMMA SendEventClient ==
  ASSUME LiveInv, NEW c \in Clients, ClientInv(c), SendEvent(c)
  PROVE  ClientInv(c)' /\ cursor'[c] \in Nat /\ cursor'[c] >= cursor[c]
<1> DEFINE q == queue[c]
           event == Head(q)
           e == event.sequence
           p == position[c]
<1>1. /\ UNCHANGED <<storeVars, unpublished, mode, paging>>
      /\ mode[c] = "live" /\ q # <<>> /\ queue'[c] = Tail(q)
      /\ e > p /\ cursor'[c] = e /\ position'[c] = e
      /\ replica'[c] = [replica[c] EXCEPT ![event.slot] = event.document]
  BY DEF SendEvent, LiveInv, HubTyped, ClientsTyped
<1>2. /\ UNCHANGED <<history, lastSequence>> /\ lastSequence \in Nat /\ p \in Nat
      /\ q \in Seq(Event) /\ cursor[c] \in Nat /\ cursor[c] <= p /\ p <= lastSequence
      /\ replica[c] \in [Slots -> Document \cup {Absent}]
  BY <1>1, ClientTypes DEF storeVars, ClientInv, Placed, Streaming, LiveInv, ClientsTyped
<1>3. /\ \A i \in DOMAIN q : /\ q[i].sequence \in 1..lastSequence
                             /\ q[i] = ChangeEvent(history, q[i].sequence)
                             /\ \A j \in DOMAIN q : i < j => q[i].sequence < q[j].sequence
      /\ \A i \in DOMAIN q : \A n \in (p + 1)..q[i].sequence :
           ChangeEvent(history, n).slot[1] = Interest[c] =>
             \E j \in DOMAIN q : q[j] = ChangeEvent(history, n)
  BY <1>1 DEF ClientInv, Queued
<1>4. 1 \in DOMAIN q /\ event = q[1] /\ \A j \in DOMAIN q : j \in Nat /\ (j = 1 \/ 1 < j)
  <2> HIDE DEF q
  <2> QED BY <1>1, <1>2
<1> HIDE DEF q
<1>5. /\ e \in 1..lastSequence /\ event = ChangeEvent(history, e)
      /\ \A j \in DOMAIN q : e <= q[j].sequence
  BY <1>2, <1>3, <1>4
<1>6. Tells(event, history, e)
  BY <1>5, EventFacts DEF LiveInv
<1> HIDE DEF event, p
<1>7. Queued(c)'
  <2>1. e \in Nat /\ e >= position[c] /\ Head(queue[c]).sequence <= e
    BY <1>1, <1>2, <1>5 DEF p, event, q
  <2> HIDE DEF e
  <2> QED BY <1>1, <2>1, TakeQueued DEF q
<1> HIDE DEF e
\* Between the place of the stream and the event, nothing the client watches
\* has changed.
<1>8. ASSUME NEW s \in Watched(c)
      PROVE  Still(s, p, e - 1)
  <2> SUFFICES ASSUME NEW n \in (p + 1)..(e - 1), history[n][s] # history[n - 1][s] PROVE FALSE
    BY DEF Still
  <2>1. n \in 1..lastSequence /\ n < e
    BY <1>1, <1>2, <1>5
  <2>2. Tells(ChangeEvent(history, n), history, n)
    BY <2>1, EventFacts DEF LiveInv
  <2>3. ChangeEvent(history, n).slot = s /\ s[1] = Interest[c]
    BY <2>2 DEF Tells, Watched
  <2>4. n \in (p + 1)..q[1].sequence
    BY <1>2, <1>4, <1>5, <2>1 DEF e
  <2>5. PICK j \in DOMAIN q : q[j] = ChangeEvent(history, n)
    BY <1>3, <1>4, <2>3, <2>4
  <2>6. q[j].sequence = n /\ e <= q[j].sequence
    BY <1>5, <2>2, <2>5 DEF Tells
  <2> QED BY <1>5, <2>1, <2>6
<1>9. ASSUME NEW s \in Watched(c)
      PROVE  HeldFrom(replica'[c][s], s, e)
  <2>1. s \in Slots /\ e \in Nat /\ e \in e..lastSequence
    BY <1>5 DEF Watched
  <2>2. CASE s = event.slot
    <3>1. replica'[c][s] = history[e][s]
      BY <1>1, <1>2, <1>6, <2>1, <2>2 DEF Tells
    <3> QED BY <2>1, <3>1 DEF HeldFrom
  <2>3. CASE s # event.slot
    <3>1. replica'[c][s] = replica[c][s] /\ history[e][s] = history[e - 1][s]
      BY <1>1, <1>2, <1>6, <2>1, <2>3 DEF Tells
    <3>2. HeldFrom(replica[c][s], s, p)
      BY <1>1 DEF ClientInv, ShownCurrent, Reached, HeldFrom, Streaming, p
    <3>3. e - 1 \in Nat /\ p <= e - 1 /\ e - 1 <= lastSequence
          /\ \A m \in (e - 1)..lastSequence : m = e - 1 \/ m \in e..lastSequence
      BY <1>1, <1>2, <1>5
    <3>4. HeldFrom(replica[c][s], s, e - 1)
      BY <1>2, <1>8, <3>2, <3>3, CarriedOn
    <3> QED BY <2>1, <3>1, <3>3, <3>4 DEF HeldFrom
  <2> QED BY <2>2, <2>3
<1>10. Reached(c)' = e
  BY <1>1 DEF Reached, Streaming
<1>11. ShownCurrent(c)'
  BY <1>2, <1>9, <1>10 DEF ShownCurrent, HeldFrom, Watched
<1>12. Placed(c)' /\ Paged(c)'
  BY <1>1, <1>2, <1>5 DEF Placed, Paged
<1> QED BY <1>1, <1>2, <1>5, <1>7, <1>11, <1>12 DEF ClientInv

LEMMA EndStreamClient ==
  ASSUME LiveInv, NEW c \in Clients, ClientInv(c), NEW m \in {"list", "connect"},
         EndStream(c, m)
  PROVE  ClientInv(c)'
BY Rests DEF EndStream, LiveInv, HubTyped, ClientsTyped

\* A step of client c: its own place never moves back, the others are untouched.
LEMMA ClientClients ==
  ASSUME LiveInv, LogsInv, Pending, \A d \in Clients : ClientInv(d), NEW c \in Clients,
         ClientStep(c) \/ Disconnect(c)
  PROVE  /\ LogsInv' /\ Pending' /\ \A d \in Clients : ClientInv(d)'
         /\ cursor'[c] \in cursor[c]..lastSequence /\ UNCHANGED storeVars
         /\ \A d \in Clients \ {c} : replica'[d] = replica[d] /\ cursor'[d] = cursor[d]
<1>0. /\ HubTyped /\ ClientsTyped /\ cursor[c] \in Nat /\ lastSequence \in Nat
      /\ cursor[c] <= lastSequence
  BY ClientTypes DEF LiveInv, ClientInv, Placed
<1>1. UNCHANGED <<storeVars, unpublished>>
  BY DEF ClientStep, Disconnect, FirstPage, NextPage, RefusePage, Subscribe, ReadBacklog,
         RefuseCursor, ResetExpired, SkipEvent, SendEvent, SendReset, EndStream, streamVars
<1>2. \A d \in Clients \ {c} :
        /\ mode'[d] = mode[d] /\ paging'[d] = paging[d] /\ replica'[d] = replica[d]
        /\ cursor'[d] = cursor[d] /\ position'[d] = position[d] /\ queue'[d] = queue[d]
  <2>1. ASSUME NEW W, NEW A, NEW found, ReadPage(c, W, A, found), UNCHANGED streamVars,
               NEW d \in Clients \ {c}
        PROVE  /\ mode'[d] = mode[d] /\ paging'[d] = paging[d] /\ replica'[d] = replica[d]
               /\ cursor'[d] = cursor[d] /\ position'[d] = position[d] /\ queue'[d] = queue[d]
    <3>1. UNCHANGED <<position, queue>>
      BY <2>1 DEF streamVars
    <3>2. \/ \E r, w, p : /\ replica' = [replica EXCEPT ![c] = r]
                          /\ cursor' = [cursor EXCEPT ![c] = w]
                          /\ mode' = [mode EXCEPT ![c] = "connect"]
                          /\ paging' = [paging EXCEPT ![c] = p]
          \/ \E p : /\ mode' = [mode EXCEPT ![c] = "paging"]
                    /\ paging' = [paging EXCEPT ![c] = p]
                    /\ UNCHANGED <<replica, cursor>>
      BY <2>1 DEF ReadPage
    <3> QED BY <1>0, <3>1, <3>2 DEF ClientsTyped
  <2>2. CASE Subscribe(c)
    BY <1>0, <2>2 DEF Subscribe, ClientsTyped, HubTyped
  <2>3. CASE ReadBacklog(c)
    <3> DEFINE shown == [s \in Slots |-> IF LatestOf(c, s) = {} THEN replica[c][s]
                                         ELSE changes[Max(LatestOf(c, s))].document]
    <3>1. /\ replica' = [replica EXCEPT ![c] = shown]
          /\ \E w : cursor' = [cursor EXCEPT ![c] = w]
          /\ \E w : position' = [position EXCEPT ![c] = w]
          /\ \E w : mode' = [mode EXCEPT ![c] = w]
          /\ UNCHANGED <<paging, queue>>
      BY <2>3 DEF ReadBacklog, LogPage, Wanted, LatestOf
    <3> HIDE DEF shown
    <3> QED BY <1>0, <3>1 DEF ClientsTyped
  <2>4. CASE SkipEvent(c) \/ SendEvent(c)
    <3>1. CASE SkipEvent(c)
      BY <1>0, <3>1 DEF SkipEvent, ClientsTyped, HubTyped
    <3>2. CASE SendEvent(c)
      BY <1>0, <3>2 DEF SendEvent, ClientsTyped, HubTyped
    <3> QED BY <2>4, <3>1, <3>2
  <2>5. ASSUME NEW m, EndStream(c, m), NEW d \in Clients \ {c}
        PROVE  /\ mode'[d] = mode[d] /\ paging'[d] = paging[d] /\ replica'[d] = replica[d]
               /\ cursor'[d] = cursor[d] /\ position'[d] = position[d] /\ queue'[d] = queue[d]
    BY <1>0, <2>5 DEF EndStream, ClientsTyped, HubTyped
  <2> QED BY <2>1, <2>2, <2>3, <2>4, <2>5
      DEF ClientStep, FirstPage, NextPage, RefusePage, RefuseCursor, ResetExpired, SendReset,
          Disconnect
<1>3. \A d \in Clients \ {c} : ClientInv(d)'
  BY <1>1, <1>2, Untouched
<1>4. ClientInv(c)' /\ cursor'[c] \in Nat /\ cursor'[c] >= cursor[c]
  <2>1. ASSUME NEW W, NEW A, NEW found, ReadPage(c, W, A, found), W \in Nat, cursor[c] <= W
        PROVE  cursor'[c] \in Nat /\ cursor'[c] >= cursor[c]
    <3>1. cursor' = [cursor EXCEPT ![c] = W] \/ cursor' = cursor
      BY <2>1 DEF ReadPage
    <3> QED BY <1>0, <2>1, <3>1 DEF ClientsTyped
  <2>2. CASE FirstPage(c)
    <3>1. ReadPage(c, lastSequence, 0, NoDocuments)
          /\ UNCHANGED <<storeVars, streamVars, unpublished>>
          /\ lastSequence <= lastSequence
      BY <1>0, <2>2 DEF FirstPage
    <3>2. \A s \in Watched(c) : PagesCover(c, lastSequence, 0, NoDocuments, s)
      BY FirstPageCovers
    <3> QED BY <1>0, <2>1, <3>1, <3>2, ReadPageClient
  <2>3. CASE NextPage(c)
    <3> DEFINE W == paging[c].watermark
               A == paging[c].after
               found == paging[c].found
    <3>1. /\ ReadPage(c, W, A, found) /\ UNCHANGED <<storeVars, streamVars, unpublished>>
          /\ mode[c] = "paging"
      BY <2>3 DEF NextPage
    <3>2. /\ W \in Nat /\ A \in Nat /\ cursor[c] <= W /\ W <= lastSequence
          /\ \A s \in Watched(c) : PagesCover(c, W, A, found, s)
      BY <3>1, ClientTypes DEF ClientInv, Placed, Paged
    <3> HIDE DEF W, A, found
    <3> QED BY <2>1, <3>1, <3>2, ReadPageClient
  <2>4. CASE Subscribe(c)
    BY <1>0, <2>4, Rests DEF Subscribe, ClientsTyped, HubTyped
  <2>5. CASE ReadBacklog(c)
    BY <2>5, ReadBacklogClient
  <2>6. CASE SkipEvent(c)
    <3>1. cursor'[c] = cursor[c]
      BY <2>6 DEF SkipEvent
    <3> QED BY <1>0, <2>6, <3>1, SkipEventClient
  <2>7. CASE SendEvent(c)
    BY <2>7, SendEventClient
  <2>8. ASSUME NEW m \in {"list", "connect"}, EndStream(c, m)
        PROVE  ClientInv(c)' /\ cursor'[c] \in Nat /\ cursor'[c] >= cursor[c]
    <3>1. cursor'[c] = cursor[c]
      BY <2>8 DEF EndStream
    <3> QED BY <1>0, <2>8, <3>1, EndStreamClient
  <2> QED BY <2>2, <2>3, <2>4, <2>5, <2>6, <2>7, <2>8
      DEF ClientStep, RefusePage, RefuseCursor, ResetExpired, SendReset, Disconnect
<1>5. cursor'[c] <= lastSequence
  BY <1>1, <1>4 DEF ClientInv, Placed, storeVars
<1> QED BY <1>0, <1>1, <1>2, <1>3, <1>4, <1>5, StoreKept

LEMMA RestartClients ==
  ASSUME LiveInv, LogsInv, \A c \in Clients : ClientInv(c), Restart
  PROVE  LogsInv' /\ Pending' /\ \A c \in Clients : ClientInv(c)'
<1>1. LogsInv'
  BY DEF Restart, LogsInv, LogInv, ListInv, Suffix, Stored, storeVars
<1>2. Pending'
  BY DEF Restart, Pending, LiveInv, StoreInv, StoreTypeOK, storeVars
<1>3. ASSUME NEW c \in Clients
      PROVE  ClientInv(c)'
  <2>1. mode'[c] \in {"list", "connect"}
    BY ClientTypes DEF Restart, Streaming
  <2> QED BY <2>1, Rests DEF Restart
<1> QED BY <1>1, <1>2, <1>3

LEMMA NextOneWriter ==
  ASSUME OneAtATime, OneAtATime', OneWriterInv, [Next]_vars
  PROVE  OneWriterInv'
<1>1. /\ LiveInv /\ NothingLost /\ LogsInv /\ Pending /\ (\A c \in Clients : ClientInv(c))
      /\ LiveInv' /\ NothingLost'
  BY NextTyped, NextOwes DEF OneWriterInv
<1>2. ASSUME NEW h \in Handlers, Commit(h)
      PROVE  LogsInv' /\ Pending' /\ \A c \in Clients : ClientInv(c)'
  BY <1>1, <1>2, CommitLogsInv, CommitClients DEF LiveInv
<1>3. ASSUME NEW h \in Handlers, Purge(h)
      PROVE  FALSE
  <2>1. purges = 0 /\ purges' = 0 /\ purges' = purges + 1
    BY <1>3 DEF Purge, OneAtATime
  <2> QED BY <2>1
<1>4. ASSUME NEW h \in Handlers, Publish(h)
      PROVE  LogsInv' /\ Pending' /\ \A c \in Clients : ClientInv(c)'
  <2>1. LogsInv'
    BY <1>1, <1>4 DEF Publish, LogsInv, LogInv, ListInv, Suffix, Stored, storeVars
  <2> QED BY <1>1, <1>4, <2>1, PublishClients
<1>5. CASE UNCHANGED vars
  <2>1. /\ UNCHANGED <<storeVars, unpublished>>
        /\ UNCHANGED <<mode, paging, replica, cursor, position, queue>>
    BY <1>5 DEF vars, liveVars
  <2>2. \A c \in Clients : ClientInv(c)'
    BY <1>1, <2>1, Untouched
  <2> QED BY <1>1, <2>1, <2>2, StoreKept DEF OneWriterInv
<1> QED  BY <1>1, <1>2, <1>3, <1>4, <1>5, ClientClients, RestartClients DEF Next, OneWriterInv

LEMMA InitOneWriter == Init => OneWriterInv
<1> SUFFICES ASSUME Init PROVE OneWriterInv
  OBVIOUS
<1>1. LiveInv /\ NothingLost
  BY InitTyped DEF Init, NothingLost
<1>2. LogsInv
  BY InitLog DEF Init, StoreInit, LogsInv, ListInv, Stored, NoDocuments
<1>3. Pending
  BY DEF Init, StoreInit, Pending
<1>4. ASSUME NEW c \in Clients
      PROVE  ClientInv(c)
  <2>1. /\ mode[c] = "list" /\ cursor[c] = 0 /\ queue[c] = <<>> /\ lastSequence = 0
        /\ replica[c] = NoDocuments /\ history[0] = NoDocuments
    BY DEF Init, StoreInit
  <2>2. 0 \in 0..0
    OBVIOUS
  <2> QED BY <2>1, <2>2
      DEF ClientInv, Queued, Placed, Paged, ShownCurrent, Reached, Streaming
<1> QED BY <1>1, <1>2, <1>3, <1>4 DEF OneWriterInv

LEMMA OneWriterHolds == Spec /\ []OneAtATime => []OneWriterInv
<1>1. OneAtATime /\ OneAtATime' /\ OneWriterInv /\ [Next]_vars => OneWriterInv'
  BY NextOneWriter
<1> QED  BY <1>1, InitOneWriter, PTL DEF Spec

\* As long as handlers write one at a time and nothing is purged, no client ever
\* lacks a change behind its place in the sequence, whatever is paged, queued,
\* dropped, resumed or restarted (listState, Subscribe, the SSE handler,
\* changeHub.publish).
THEOREM ClientsStayCurrent == Spec /\ []OneAtATime => []ReplicaCurrent
<1>1. OneWriterInv => ReplicaCurrent
  BY DEF OneWriterInv, ClientInv, ShownCurrent, ReplicaCurrent
<1> QED  BY <1>1, OneWriterHolds, PTL

LEMMA StepFollows ==
  ASSUME OneAtATime, OneAtATime', OneWriterInv, OneWriterInv', [Next]_vars
  PROVE  [Followed!Next]_<<history, lastSequence, replica, cursor>>
<1>0. /\ LiveInv /\ NothingLost /\ LogsInv /\ Pending /\ \A c \in Clients : ClientInv(c)
      /\ LiveInv' /\ \A c \in Clients : ClientInv(c)'
  BY DEF OneWriterInv
<1>1. ASSUME NEW h \in Handlers, Commit(h)
      PROVE  [Followed!Next]_<<history, lastSequence, replica, cursor>>
  <2>1. /\ lastSequence \in Nat /\ lastSequence' \in Nat /\ lastSequence' >= lastSequence
        /\ \A n \in 0..lastSequence : history'[n] = history[n]
        /\ UNCHANGED <<replica, cursor>>
    BY <1>0, <1>1, CommitStore DEF LiveInv, Commit
  <2>2. CASE lastSequence' > lastSequence
    BY <2>1, <2>2 DEF Followed!Next, Followed!Grow
  <2>3. CASE lastSequence' = lastSequence
    <3>1. history' = history
      BY <1>0, <2>1, <2>3 DEF LiveInv, StoreInv, StoreTypeOK
    <3> QED BY <2>1, <2>3, <3>1
  <2> QED BY <2>1, <2>2, <2>3
<1>2. ASSUME NEW c \in Clients, ClientStep(c) \/ Disconnect(c)
      PROVE  [Followed!Next]_<<history, lastSequence, replica, cursor>>
  <2>1. /\ cursor'[c] \in cursor[c]..lastSequence /\ UNCHANGED <<history, lastSequence>>
        /\ \A d \in Clients \ {c} : replica'[d] = replica[d] /\ cursor'[d] = cursor[d]
    BY <1>0, <1>2, ClientClients DEF storeVars
  <2>2. \A s \in Watched(c) :
          \E m \in cursor'[c]..lastSequence' : replica'[c][s] = history'[m][s]
    <3>1. /\ Reached(c)' \in Nat /\ Reached(c)' >= cursor'[c] /\ cursor'[c] \in Nat
          /\ lastSequence' \in Nat /\ ShownCurrent(c)'
      <4>1. ClientInv(c)' /\ LiveInv'
        BY <1>0
      <4>2. /\ cursor'[c] \in Nat /\ position'[c] \in Nat /\ lastSequence' \in Nat
        BY <4>1 DEF LiveInv, StoreInv, StoreTypeOK, ClientsTyped
      <4> QED BY <4>1, <4>2 DEF ClientInv, Placed, Reached
    <3> SUFFICES ASSUME NEW s \in Watched(c)
                 PROVE  \E m \in cursor'[c]..lastSequence' : replica'[c][s] = history'[m][s]
      OBVIOUS
    <3>2. PICK m \in Reached(c)'..lastSequence' : replica'[c][s] = history'[m][s]
      BY <3>1 DEF ShownCurrent, Watched
    <3>3. m \in cursor'[c]..lastSequence'
      BY <3>1
    <3> QED BY <3>2, <3>3
  <2>3. Followed!Catch(c)
    BY <2>1, <2>2 DEF Followed!Catch, Followed!Current
  <2> QED BY <2>3 DEF Followed!Next
<1>3. ASSUME NEW h \in Handlers, Purge(h)
      PROVE  FALSE
  <2>1. purges = 0 /\ purges' = 0 /\ purges' = purges + 1
    BY <1>3 DEF Purge, OneAtATime
  <2> QED BY <2>1
<1>4. CASE (\E h \in Handlers : Publish(h)) \/ Restart \/ UNCHANGED vars
  BY <1>4 DEF Publish, Restart, vars, storeVars, liveVars
<1> QED  BY <1>1, <1>2, <1>3, <1>4 DEF Next

\* As long as handlers write one at a time and nothing is purged, the clients
\* follow the log of the store as LogFollowers says: each step of the hub, the
\* handlers, the streams and the clients is a step of it or none.
THEOREM ClientsFollowTheLog == Spec /\ []OneAtATime => FollowsLog
<1>1. Init => Followed!Init
  BY DEF Init, StoreInit, Followed!Init
<1>2. /\ OneAtATime /\ OneAtATime' /\ OneWriterInv /\ OneWriterInv' /\ [Next]_vars
      => [Followed!Next]_<<history, lastSequence, replica, cursor>>
  BY StepFollows
<1> QED  BY <1>1, <1>2, OneWriterHolds, PTL DEF Spec, FollowsLog, Followed!Spec

\* A behaviour of SerialWriters whose constant promises it has handlers that write
\* one at a time.
LEMMA SerialHolds == SerialSpec => [](serial => OneAtATime /\ OneWriterInv)
<1> DEFINE SInv == serial => OneAtATime /\ OneWriterInv
<1>1. SerialInit => SInv
  BY InitOneWriter DEF SerialInit, OneAtATime, Init
<1>2. SInv /\ [SerialNext]_<<vars, serial>> => SInv'
  <2> SUFFICES ASSUME serial', SInv, [SerialNext]_<<vars, serial>>
               PROVE  OneAtATime' /\ OneWriterInv'
    OBVIOUS
  <2>1. OneAtATime /\ OneWriterInv /\ [Next]_vars
    BY DEF SerialNext
  <2>2. OneAtATime'
    BY <2>1 DEF SerialNext, OneAtATime, vars, liveVars
  <2> QED BY <2>1, <2>2, NextOneWriter
<1> QED  BY <1>1, <1>2, PTL DEF SerialSpec

\* What the run live checks of two handlers and one client holds of any: clients
\* stay current.
THEOREM OneWriterStaysCurrent == SerialSpec => []OneWriterCurrent
<1>1. (serial => OneAtATime /\ OneWriterInv) => OneWriterCurrent
  BY DEF OneWriterCurrent, OneWriterInv, ClientInv, ShownCurrent, ReplicaCurrent
<1> QED  BY <1>1, SerialHolds, PTL

\* And they follow the log of the store.
THEOREM OneWriterIsFollowed == SerialSpec => OneWriterFollowsLog
<1> DEFINE SInv == serial => OneAtATime /\ OneWriterInv
           Step == serial => Followed!Next
<1>1. SerialInit => Followed!Init
  BY DEF SerialInit, Init, StoreInit, Followed!Init
<1>2. SInv /\ SInv' /\ [SerialNext]_<<vars, serial>>
        => [Step]_<<history, lastSequence, replica, cursor>>
  <2> SUFFICES ASSUME SInv, SInv', [SerialNext]_<<vars, serial>>, serial
               PROVE  [Followed!Next]_<<history, lastSequence, replica, cursor>>
    OBVIOUS
  <2>1. serial' /\ [Next]_vars
    BY DEF SerialNext
  <2> QED BY <2>1, StepFollows
<1> QED  BY <1>1, <1>2, SerialHolds, PTL DEF SerialSpec, OneWriterFollowsLog
=============================================================================
