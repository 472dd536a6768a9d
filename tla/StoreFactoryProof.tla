--------------------------- MODULE StoreFactoryProof ---------------------------
(***************************************************************************)
(* Proofs about StoreFactory, for any requests, keys and bound.  They are  *)
(* about Spec: what is safe does not depend on anybody going on.           *)
(***************************************************************************)
EXTENDS StoreFactory, FiniteSetTheorems, TLAPS

Holding == {"opening", "opened", "waiting", "using"}

\* Requests that the entry of key k counts.
Holders(k) == {p \in Requests : pc[p] \in Holding /\ wants[p].key = k}

\* A database is open for the entry of key k, or for the request that opens it.
HasHandle(k) ==
  \/ entry[k] = "ready"
  \/ \E p \in Requests : pc[p] = "opened" /\ wants[p].key = k /\ outcome[p] = "ready"

\* The types of FactoryTypeOK, without the bounds of the two counters.
Typing ==
  /\ entry \in [StoreKeys -> {"none", "opening", "ready"}]
  /\ refs \in [StoreKeys -> Int]
  /\ handles \in [StoreKeys -> Int]
  /\ closed \in BOOLEAN
  /\ pc \in [Requests -> Places]
  /\ wants \in [Requests -> [key : StoreKeys, create : BOOLEAN]]
  /\ outcome \in [Requests -> {"none", "ready", "notfound", "error"}]

\* An entry counts its requests, so that an idle one has none.
Counted == \A k \in StoreKeys : refs[k] = Cardinality(Holders(k))

\* Where a request is tells what its entry holds.
Placed ==
  \A p \in Requests :
    /\ pc[p] \in {"opening", "opened"} => entry[wants[p].key] = "opening"
    /\ pc[p] = "waiting" => entry[wants[p].key] # "none"
    /\ pc[p] = "using" => entry[wants[p].key] = "ready"

\* One request opens the store of an entry.
OneOpener ==
  \A p, q \in Requests :
    /\ pc[p] \in {"opening", "opened"} /\ pc[q] \in {"opening", "opened"}
    /\ wants[p].key = wants[q].key
    => p = q

Handled == \A k \in StoreKeys : handles[k] = IF HasHandle(k) THEN 1 ELSE 0

\* A create that made its own attempt did not find that there is no store.
Answered ==
  \A p \in Requests :
    /\ pc[p] # "misled"
    /\ pc[p] = "opened" => outcome[p] # "none" /\ ~(outcome[p] = "notfound" /\ wants[p].create)

Bounded == Cardinality(Cached) <= MaxOpen

\* The inductive invariant.
FactoryInv ==
  Typing /\ Counted /\ Placed /\ OneOpener /\ Handled /\ Answered /\ Bounded

---------------------------------------------------------------------------
\* Lemmas about the parts of the actions.

LEMMA HoldersFinite ==
  ASSUME NEW k
  PROVE  /\ IsFiniteSet(Holders(k))
         /\ Cardinality(Holders(k)) \in 0..Cardinality(Requests)
<1>1. Holders(k) \in SUBSET Requests
  BY DEF Holders
<1> QED
  BY <1>1, FS_Subset, FS_CardinalityType, FactoryAssumption

\* A request moves, and nobody else does.
LEMMA HoldersMove ==
  ASSUME Typing, NEW p \in Requests, NEW place, NEW want,
         pc' = [pc EXCEPT ![p] = place], wants' = [wants EXCEPT ![p] = want]
  PROVE  \A k : Holders(k)' = (Holders(k) \ {p}) \cup
                  (IF place \in Holding /\ want.key = k THEN {p} ELSE {})
<1>1. /\ \A q \in Requests : pc'[q] = IF q = p THEN place ELSE pc[q]
      /\ \A q \in Requests : wants'[q] = IF q = p THEN want ELSE wants[q]
  BY DEF Typing
<1> QED
  BY <1>1 DEF Holders

\* An idle store is open, and nobody holds it.
LEMMA IdleFree ==
  ASSUME Typing, Counted, NEW k \in Idle
  PROVE  /\ k \in StoreKeys /\ entry[k] = "ready"
         /\ Holders(k) = {}
         /\ \A p \in Requests : pc[p] \in Holding => wants[p].key # k
<1>1. k \in StoreKeys /\ entry[k] = "ready" /\ refs[k] = 0
  BY DEF Idle
<1>2. Holders(k) = {}
  BY <1>1, HoldersFinite, FS_EmptySet DEF Counted
<1> QED
  BY <1>1, <1>2 DEF Holders

\* What is left when keys have gone.
LEMMA Without ==
  ASSUME Typing, NEW gone
  PROVE  /\ EntriesWithout(gone) \in [StoreKeys -> {"none", "opening", "ready"}]
         /\ HandlesWithout(gone) \in [StoreKeys -> Int]
         /\ \A k \in StoreKeys :
              /\ EntriesWithout(gone)[k] = IF k \in gone THEN "none" ELSE entry[k]
              /\ HandlesWithout(gone)[k] =
                   IF k \in gone THEN handles[k] - 1 ELSE handles[k]
BY DEF EntriesWithout, HandlesWithout, Typing

\* The cache does not grow.
LEMMA CachedShrinks ==
  ASSUME Bounded, Cached' \subseteq Cached
  PROVE  Bounded'
<1>1. Cached \in SUBSET StoreKeys /\ Cached' \in SUBSET Cached
  BY DEF Cached
<1>2. /\ IsFiniteSet(Cached) /\ Cardinality(Cached) \in Nat
      /\ Cardinality(Cached') \in Nat /\ Cardinality(Cached') <= Cardinality(Cached)
  BY <1>1, FS_Subset, FS_CardinalityType, FactoryAssumption
<1> QED
  BY <1>2, FactoryAssumption DEF Bounded

LEMMA NothingType == Nothing \in [key : StoreKeys, create : BOOLEAN]
BY FactoryAssumption DEF Nothing

LEMMA AfterType ==
  ASSUME NEW want, NEW value
  PROVE  After(want, value) \in {"idle", "misled"}
BY DEF After

LEMMA InitInv == Init => FactoryInv
<1> SUFFICES ASSUME Init PROVE FactoryInv
  OBVIOUS
<1>a. closed \in BOOLEAN /\ wants \in [Requests -> [key : StoreKeys, create : BOOLEAN]]
  BY NothingType, Zenon DEF Init
<1>1. Typing
  BY <1>a DEF Init, Typing, Places
<1>2. \A k \in StoreKeys : Holders(k) = {}
  BY DEF Init, Holders, Holding
<1>3. Counted
  BY <1>2, FS_EmptySet DEF Init, Counted
<1>4. Cached = {}
  BY DEF Init, Cached
<1>5. Bounded
  BY <1>4, FS_EmptySet, FactoryAssumption DEF Bounded
<1> QED
  BY <1>1, <1>3, <1>5 DEF Init, FactoryInv, Placed, OneOpener, Handled, HasHandle, Answered

---------------------------------------------------------------------------
\* Open.  In these four lemmas a request that holds nothing calls Open.

LEMMA ReturnInv ==
  ASSUME FactoryInv, NEW p \in Requests, NEW want, NEW value, pc[p] \notin Holding,
         Return(p, want, value), UNCHANGED cache,
         ~(value = "notfound" /\ want.create)
  PROVE  FactoryInv'
<1>1. /\ pc' = [pc EXCEPT ![p] = "idle"] /\ wants' = [wants EXCEPT ![p] = Nothing]
      /\ outcome' = [outcome EXCEPT ![p] = "none"]
      /\ entry' = entry /\ refs' = refs /\ handles' = handles /\ closed' = closed
  BY DEF Return, After, cache
<1>2. Typing'
  <2>1. wants' \in [Requests -> [key : StoreKeys, create : BOOLEAN]]
    BY <1>1, NothingType DEF FactoryInv, Typing
  <2> QED
    BY <1>1, <2>1 DEF FactoryInv, Typing, Places
<1>3. /\ \A q \in Requests : pc'[q] = IF q = p THEN "idle" ELSE pc[q]
      /\ \A q \in Requests : q # p => wants'[q] = wants[q] /\ outcome'[q] = outcome[q]
  BY <1>1 DEF FactoryInv, Typing
<1>4. \A k : Holders(k)' = Holders(k)
  BY <1>3 DEF Holders, Holding
<1>5. Counted'
  BY <1>1, <1>4 DEF FactoryInv, Counted
<1>6. Placed' /\ OneOpener' /\ Answered'
  BY <1>1, <1>3 DEF FactoryInv, Placed, OneOpener, Answered
<1>7. Handled'
  <2>1. \A k : HasHandle(k)' <=> HasHandle(k)
    BY <1>1, <1>3 DEF HasHandle, Holding
  <2> QED
    BY <1>1, <2>1 DEF FactoryInv, Handled
<1>8. Bounded'
  BY <1>1 DEF FactoryInv, Bounded, Cached
<1> QED
  BY <1>2, <1>5, <1>6, <1>7, <1>8 DEF FactoryInv

\* A request holds the entry of its key from now on.
LEMMA Joined ==
  ASSUME Typing, NEW p \in Requests, pc[p] \notin Holding,
         NEW place \in Holding, NEW want \in [key : StoreKeys, create : BOOLEAN],
         pc' = [pc EXCEPT ![p] = place], wants' = [wants EXCEPT ![p] = want]
  PROVE  /\ \A q \in Requests : pc'[q] = IF q = p THEN place ELSE pc[q]
         /\ \A q \in Requests : wants'[q] = IF q = p THEN want ELSE wants[q]
         /\ \A k : k # want.key => Holders(k)' = Holders(k)
         /\ Cardinality(Holders(want.key)') = Cardinality(Holders(want.key)) + 1
<1>1. /\ \A q \in Requests : pc'[q] = IF q = p THEN place ELSE pc[q]
      /\ \A q \in Requests : wants'[q] = IF q = p THEN want ELSE wants[q]
  BY DEF Typing
<1>2. \A k : Holders(k)' = Holders(k) \cup (IF want.key = k THEN {p} ELSE {})
  BY <1>1 DEF Holders
<1>3. p \notin Holders(want.key) /\ Holders(want.key)' = Holders(want.key) \cup {p}
  BY <1>2 DEF Holders
<1>4. Cardinality(Holders(want.key) \cup {p}) = Cardinality(Holders(want.key)) + 1
  BY <1>3, HoldersFinite, FS_AddElement
<1> QED
  BY <1>1, <1>2, <1>3, <1>4

LEMMA OpenSharedInv ==
  ASSUME FactoryInv, NEW p \in Requests, pc[p] \notin Holding,
         NEW want \in [key : StoreKeys, create : BOOLEAN], OpenShared(p, want)
  PROVE  FactoryInv'
<1> USE DEF FactoryInv
<1>1. PICK pruned \in SUBSET (Idle \ {want.key}) :
        entry' = EntriesWithout(pruned) /\ handles' = HandlesWithout(pruned)
  BY DEF OpenShared
<1>2. /\ pc' = [pc EXCEPT ![p] = "waiting"] /\ wants' = [wants EXCEPT ![p] = want]
      /\ refs' = [refs EXCEPT ![want.key] = @ + 1]
      /\ closed' = closed /\ outcome' = outcome
      /\ want.key \in StoreKeys /\ entry[want.key] # "none"
  BY DEF OpenShared, Found
<1>3. /\ \A q \in Requests : pc'[q] = IF q = p THEN "waiting" ELSE pc[q]
      /\ \A q \in Requests : wants'[q] = IF q = p THEN want ELSE wants[q]
      /\ \A k : k # want.key => Holders(k)' = Holders(k)
      /\ Cardinality(Holders(want.key)') = Cardinality(Holders(want.key)) + 1
  BY <1>2, Joined DEF Holding
<1>4. \A k \in StoreKeys :
        /\ entry'[k] = IF k \in pruned THEN "none" ELSE entry[k]
        /\ handles'[k] = IF k \in pruned THEN handles[k] - 1 ELSE handles[k]
  BY <1>1, Without
<1>5. \A k \in pruned : k # want.key /\ k \in StoreKeys /\ entry[k] = "ready"
        /\ \A q \in Requests : pc[q] \in Holding => wants[q].key # k
  BY <1>1, IdleFree
<1>6. Typing'
  BY <1>1, <1>2, Without DEF Typing, Places
<1>7. Counted'
  BY <1>2, <1>3 DEF Counted, Typing
<1>8. Placed'
  <2>1. \A q \in Requests : wants'[q].key \in StoreKeys
    BY <1>6 DEF Typing
  <2> QED
    BY <1>2, <1>3, <1>4, <1>5, <2>1 DEF Placed, Holding
<1>9. OneOpener' /\ Answered'
  BY <1>2, <1>3 DEF OneOpener, Answered
<1>10. Handled'
  <2>1. \A k \in StoreKeys \ pruned : HasHandle(k)' <=> HasHandle(k)
    BY <1>2, <1>3, <1>4 DEF HasHandle, Holding
  <2>2. \A k \in pruned : HasHandle(k) /\ ~HasHandle(k)'
    BY <1>2, <1>3, <1>4, <1>5 DEF HasHandle, Holding
  <2> QED
    BY <1>4, <2>1, <2>2 DEF Handled
<1>11. Bounded'
  BY <1>4, CachedShrinks DEF Cached
<1> QED
  BY <1>6, <1>7, <1>8, <1>9, <1>10, <1>11

LEMMA OpenNewInv ==
  ASSUME FactoryInv, NEW p \in Requests, pc[p] \notin Holding,
         NEW want \in [key : StoreKeys, create : BOOLEAN], OpenNew(p, want)
  PROVE  FactoryInv'
<1> USE DEF FactoryInv
<1>1. PICK pruned \in SUBSET Idle, evicted \in SUBSET Idle :
        /\ ~Found(want.key) \/ want.key \in pruned
        /\ ~Full(Cached \ (pruned \cup evicted))
        /\ entry' = [EntriesWithout(pruned \cup evicted) EXCEPT ![want.key] = "opening"]
        /\ handles' = HandlesWithout(pruned \cup evicted)
  BY DEF OpenNew
<1> DEFINE gone == pruned \cup evicted
<1>2. /\ pc' = [pc EXCEPT ![p] = "opening"] /\ wants' = [wants EXCEPT ![p] = want]
      /\ refs' = [refs EXCEPT ![want.key] = 1]
      /\ closed' = closed /\ outcome' = outcome /\ want.key \in StoreKeys
  BY DEF OpenNew
<1>3. /\ \A q \in Requests : pc'[q] = IF q = p THEN "opening" ELSE pc[q]
      /\ \A q \in Requests : wants'[q] = IF q = p THEN want ELSE wants[q]
      /\ \A k : k # want.key => Holders(k)' = Holders(k)
      /\ Cardinality(Holders(want.key)') = Cardinality(Holders(want.key)) + 1
  BY <1>2, Joined DEF Holding
<1>4. \A k \in StoreKeys :
        /\ entry'[k] = IF k = want.key THEN "opening"
                       ELSE IF k \in gone THEN "none" ELSE entry[k]
        /\ handles'[k] = IF k \in gone THEN handles[k] - 1 ELSE handles[k]
  BY <1>1, Without
<1>5. \A k \in gone : k \in StoreKeys /\ entry[k] = "ready"
        /\ \A q \in Requests : pc[q] \in Holding => wants[q].key # k
  BY <1>1, IdleFree
\* Nobody holds the key: there is no entry for it, or an idle one that is pruned.
<1>6. \A q \in Requests : pc[q] \in Holding => wants[q].key # want.key
  BY <1>1, <1>5 DEF Found, Placed, Holding
<1>7. Typing'
  BY <1>1, <1>2, Without DEF Typing, Places
<1>8. Counted'
  <2>1. Holders(want.key) = {}
    BY <1>6 DEF Holders
  <2>2. Cardinality(Holders(want.key)) = 0
    BY <2>1, FS_EmptySet
  <2> QED
    BY <1>2, <1>3, <2>2 DEF Counted, Typing
<1>9. Placed'
  <2>1. \A q \in Requests : wants'[q].key \in StoreKeys
    BY <1>7 DEF Typing
  <2> QED
    BY <1>2, <1>3, <1>4, <1>5, <1>6, <2>1 DEF Placed, Holding
<1>10. OneOpener' /\ Answered'
  BY <1>2, <1>3, <1>6 DEF OneOpener, Answered, Holding
<1>11. Handled'
  <2>1. ASSUME NEW k \in StoreKeys, k \notin gone, k # want.key
        PROVE  HasHandle(k)' <=> HasHandle(k)
    BY <1>2, <1>3, <1>4, <2>1 DEF HasHandle, Holding
  <2>2. ASSUME NEW k \in gone
        PROVE  HasHandle(k) /\ ~HasHandle(k)'
    BY <1>2, <1>3, <1>4, <1>5, <2>2 DEF HasHandle, Holding
  <2>3. ASSUME want.key \notin gone
        PROVE  ~HasHandle(want.key) /\ ~HasHandle(want.key)'
    <3>1. entry[want.key] = "none"
      BY <1>1, <2>3 DEF Found
    <3> QED
      BY <1>2, <1>3, <1>4, <1>6, <3>1 DEF HasHandle, Holding
  <2> QED
    BY <1>4, <2>1, <2>2, <2>3 DEF Handled
<1>12. Bounded'
  <2>1. Cached' = (Cached \ gone) \cup {want.key}
    BY <1>2, <1>4 DEF Cached
  <2>2. (Cached \ gone) \in SUBSET StoreKeys
    BY DEF Cached
  <2>3. IsFiniteSet(Cached \ gone) /\ Cardinality(Cached \ gone) \in Nat
    BY <2>2, FS_Subset, FS_CardinalityType, FactoryAssumption
  <2>4. Cardinality(Cached \ gone) < MaxOpen
    BY <1>1, <2>3, FactoryAssumption DEF Full
  <2>a. Cardinality((Cached \ gone) \cup {want.key}) =
          IF want.key \in Cached \ gone THEN Cardinality(Cached \ gone)
                                       ELSE Cardinality(Cached \ gone) + 1
    BY <2>3, FS_AddElement
  <2>5. Cardinality((Cached \ gone) \cup {want.key}) <= Cardinality(Cached \ gone) + 1
    BY <2>3, <2>a
  <2>6. IsFiniteSet((Cached \ gone) \cup {want.key})
    BY <2>3, FS_AddElement
  <2>7. Cardinality((Cached \ gone) \cup {want.key}) <= MaxOpen
    BY <2>3, <2>4, <2>5, <2>6, FS_CardinalityType, FactoryAssumption
  <2> QED
    BY <2>1, <2>7 DEF Bounded
<1> QED
  BY <1>7, <1>8, <1>9, <1>10, <1>11, <1>12

LEMMA OpenInv ==
  ASSUME FactoryInv, NEW p \in Requests, pc[p] \notin Holding,
         NEW want \in [key : StoreKeys, create : BOOLEAN], Open(p, want)
  PROVE  FactoryInv'
<1>1. CASE OpenClosed(p, want)
  BY <1>1, ReturnInv DEF OpenClosed
<1>2. CASE OpenShared(p, want)
  BY <1>2, OpenSharedInv
<1>3. CASE OpenNew(p, want)
  BY <1>3, OpenNewInv
<1>4. CASE OpenRefused(p, want)
  BY <1>4, ReturnInv DEF OpenRefused
<1> QED
  BY <1>1, <1>2, <1>3, <1>4 DEF Open

---------------------------------------------------------------------------
\* The other steps.

LEMMA OpenStoreInv ==
  ASSUME FactoryInv, NEW p \in Requests, OpenStore(p)
  PROVE  FactoryInv'
<1> USE DEF FactoryInv
<1>k. PICK key \in StoreKeys : key = wants[p].key
  BY DEF Typing
<1>1. /\ pc[p] = "opening" /\ pc' = [pc EXCEPT ![p] = "opened"]
      /\ entry' = entry /\ refs' = refs /\ closed' = closed /\ wants' = wants
      /\ key \in StoreKeys
  BY <1>k DEF OpenStore
<1>2. /\ outcome'[p] \in {"ready", "notfound", "error"}
      /\ outcome' = [outcome EXCEPT ![p] = outcome'[p]]
      /\ handles' = [handles EXCEPT ![key] = IF outcome'[p] = "ready" THEN @ + 1 ELSE @]
      /\ outcome'[p] = "notfound" => ~wants[p].create
  <2> USE DEF Typing
  <2>1. CASE /\ handles' = [handles EXCEPT ![key] = @ + 1]
             /\ outcome' = [outcome EXCEPT ![p] = "ready"]
    BY <2>1
  <2>2. CASE /\ ~wants[p].create /\ handles' = handles
             /\ outcome' = [outcome EXCEPT ![p] = "notfound"]
    BY <2>2
  <2>3. CASE handles' = handles /\ outcome' = [outcome EXCEPT ![p] = "error"]
    BY <2>3
  <2> QED
    BY <1>k, <2>1, <2>2, <2>3 DEF OpenStore
<1>3. \A q \in Requests : /\ pc'[q] = IF q = p THEN "opened" ELSE pc[q]
                          /\ q # p => outcome'[q] = outcome[q]
  BY <1>1, <1>2 DEF Typing
<1>4. Typing'
  BY <1>1, <1>2 DEF Typing, Places
<1>5. \A k : Holders(k)' = Holders(k)
  BY <1>1, <1>3 DEF Holders, Holding
<1>6. Counted' /\ Placed' /\ OneOpener' /\ Bounded'
  BY <1>1, <1>3, <1>5 DEF Counted, Placed, OneOpener, Bounded, Cached
<1>7. Answered'
  BY <1>1, <1>2, <1>3 DEF Answered
<1>8. Handled'
  <2>1. \A k \in StoreKeys : k # key => (HasHandle(k)' <=> HasHandle(k))
    BY <1>k, <1>1, <1>3 DEF HasHandle
  <2>2. ~HasHandle(key)
    BY <1>k, <1>1 DEF HasHandle, Placed, OneOpener
  <2>3. HasHandle(key)' <=> outcome'[p] = "ready"
    <3>1. \A q \in Requests : pc[q] = "opened" => wants[q].key # key
      BY <1>k, <1>1 DEF OneOpener
    <3>2. entry[key] = "opening"
      BY <1>k, <1>1 DEF Placed
    <3> QED
      BY <1>k, <1>1, <1>3, <3>1, <3>2 DEF HasHandle
  <2>4. handles[key] = 0
    BY <1>1, <2>2 DEF Handled
  <2>5. \A k \in StoreKeys : handles'[k] =
          IF k = key /\ outcome'[p] = "ready" THEN handles[k] + 1 ELSE handles[k]
    BY <1>2 DEF Typing
  <2> QED
    BY <2>1, <2>2, <2>3, <2>4, <2>5 DEF Handled
<1> QED
  BY <1>4, <1>6, <1>7, <1>8

LEMMA PublishStoreInv ==
  ASSUME FactoryInv, NEW p \in Requests, PublishStore(p)
  PROVE  FactoryInv'
<1> USE DEF FactoryInv
<1> DEFINE key == wants[p].key
<1>1. /\ pc[p] = "opened" /\ outcome[p] = "ready"
      /\ pc' = [pc EXCEPT ![p] = "using"] /\ entry' = [entry EXCEPT ![key] = "ready"]
      /\ outcome' = [outcome EXCEPT ![p] = "none"]
      /\ refs' = refs /\ handles' = handles /\ closed' = closed /\ wants' = wants
      /\ key \in StoreKeys /\ entry[key] = "opening"
  BY DEF PublishStore, Typing, Placed
<1>2. \A q \in Requests : /\ pc'[q] = IF q = p THEN "using" ELSE pc[q]
                          /\ q # p => outcome'[q] = outcome[q]
  BY <1>1 DEF Typing
<1>3. \A k \in StoreKeys : entry'[k] = IF k = key THEN "ready" ELSE entry[k]
  BY <1>1 DEF Typing
<1>4. Typing'
  BY <1>1 DEF Typing, Places
<1>5. \A k : Holders(k)' = Holders(k)
  BY <1>1, <1>2 DEF Holders, Holding
<1>6. Counted' /\ OneOpener' /\ Answered'
  BY <1>1, <1>2, <1>5 DEF Counted, OneOpener, Answered
<1>7. Placed'
  <2>1. \A q \in Requests : wants[q].key \in StoreKeys
    BY DEF Typing
  <2>2. \A q \in Requests : pc[q] \in {"opening", "opened"} /\ q # p => wants[q].key # key
    BY <1>1 DEF OneOpener
  <2> QED
    BY <1>1, <1>2, <1>3, <2>1, <2>2 DEF Placed
<1>8. Handled'
  <2>1. \A k \in StoreKeys : k # key => (HasHandle(k)' <=> HasHandle(k))
    BY <1>1, <1>2, <1>3 DEF HasHandle
  <2>2. HasHandle(key) /\ HasHandle(key)'
    BY <1>1, <1>3 DEF HasHandle
  <2> QED
    BY <1>1, <2>1, <2>2 DEF Handled
<1>9. Bounded'
  BY <1>1, <1>3, CachedShrinks DEF Cached
<1> QED
  BY <1>4, <1>6, <1>7, <1>8, <1>9

LEMMA PublishFailureInv ==
  ASSUME FactoryInv, NEW p \in Requests, PublishFailure(p)
  PROVE  FactoryInv'
<1> USE DEF FactoryInv
<1>k. PICK key \in StoreKeys : key = wants[p].key
  BY DEF Typing
<1>1. /\ pc[p] = "opened" /\ outcome[p] # "ready"
      /\ entry' = [entry EXCEPT ![key] = "none"] /\ refs' = [refs EXCEPT ![key] = 0]
      /\ wants' = [wants EXCEPT ![p] = Nothing]
      /\ handles' = handles /\ closed' = closed
      /\ key \in StoreKeys /\ entry[key] = "opening"
  BY <1>k DEF PublishFailure, Placed
<1>2. After(wants[p], outcome[p]) = "idle"
  BY <1>1 DEF After, Answered
<1>3. /\ outcome' = [q \in Requests |-> IF q \in Waiting(key) THEN outcome[p]
                                        ELSE IF q = p THEN "none" ELSE outcome[q]]
      /\ pc' = [q \in Requests |-> IF q \in Waiting(key) THEN "failed"
                                   ELSE IF q # p THEN pc[q] ELSE "idle"]
  BY <1>k, <1>2 DEF PublishFailure, Wake
<1>4. /\ \A q \in Requests : q # p => wants'[q] = wants[q]
      /\ pc'[p] = "idle"
      /\ \A q \in Requests :
           pc'[q] \in Holding => /\ q # p /\ wants[q].key # key
                                /\ pc'[q] = pc[q] /\ outcome'[q] = outcome[q]
  <2>1. p \notin Waiting(key)
    BY <1>1 DEF Waiting
  <2>2. \A q \in Requests : q # p => wants'[q] = wants[q]
    BY <1>1 DEF Typing
  <2>3. pc'[p] = "idle"
    BY <1>3, <2>1
  <2>4. ASSUME NEW q \in Requests, pc'[q] \in Holding
        PROVE  q # p /\ q \notin Waiting(key) /\ pc'[q] = pc[q] /\ outcome'[q] = outcome[q]
    BY <1>3, <2>1, <2>4 DEF Holding
  <2>5. ASSUME NEW q \in Requests, pc'[q] \in Holding
        PROVE  wants[q].key # key
    <3>1. q # p /\ q \notin Waiting(key) /\ pc[q] \in Holding
      BY <2>4, <2>5
    <3> QED
      BY <1>k, <1>1, <3>1 DEF Waiting, Placed, OneOpener, Holding
  <2> QED
    BY <2>2, <2>3, <2>4, <2>5
<1>5. \A k \in StoreKeys : entry'[k] = IF k = key THEN "none" ELSE entry[k]
  BY <1>1 DEF Typing
<1>6. Typing'
  <2>1. wants' \in [Requests -> [key : StoreKeys, create : BOOLEAN]]
    BY <1>1, NothingType DEF Typing
  <2>2. pc' \in [Requests -> Places]
    BY <1>3 DEF Typing, Places
  <2>3. outcome' \in [Requests -> {"none", "ready", "notfound", "error"}]
    BY <1>3 DEF Typing
  <2> QED
    BY <1>1, <2>1, <2>2, <2>3 DEF Typing
<1>7. Counted'
  <2>1. Holders(key)' = {}
    BY <1>4 DEF Holders
  <2>2. ASSUME NEW k \in StoreKeys, k # key
        PROVE  Holders(k)' = Holders(k)
    <3>1. \A q \in Requests : q # p /\ wants[q].key # key => pc'[q] = pc[q]
      BY <1>3 DEF Waiting
    <3> QED
      BY <1>k, <1>4, <2>2, <3>1 DEF Holders, Holding
  <2> QED
    BY <1>1, <2>1, <2>2, FS_EmptySet DEF Counted, Typing
<1>8. Placed'
  <2>1. \A q \in Requests : wants[q].key \in StoreKeys
    BY DEF Typing
  <2> QED
    BY <1>4, <1>5, <2>1 DEF Placed, Holding
<1>9. OneOpener'
  BY <1>4 DEF OneOpener, Holding
<1>10. Answered'
  <2>1. \A q \in Requests : pc'[q] # "misled"
    BY <1>3 DEF Answered
  <2> QED
    BY <1>4, <2>1 DEF Answered, Holding
<1>11. Handled'
  <2>1. ASSUME NEW k \in StoreKeys, k # key
        PROVE  HasHandle(k)' <=> HasHandle(k)
    <3>1. \A q \in Requests : wants[q].key = k /\ q # p =>
                             pc'[q] = pc[q] /\ outcome'[q] = outcome[q]
      BY <1>3, <2>1 DEF Waiting
    <3> QED
      BY <1>k, <1>4, <1>5, <2>1, <3>1 DEF HasHandle, Holding
  <2>2. ~HasHandle(key) /\ ~HasHandle(key)'
    <3>1. \A q \in Requests : pc[q] = "opened" /\ wants[q].key = key => q = p
      BY <1>k, <1>1 DEF OneOpener
    <3> QED
      BY <1>1, <1>4, <1>5, <3>1 DEF HasHandle, Holding
  <2> QED
    BY <1>1, <2>1, <2>2 DEF Handled
<1>12. Bounded'
  BY <1>1, <1>5, CachedShrinks DEF Cached
<1> QED
  BY <1>6, <1>7, <1>8, <1>9, <1>10, <1>11, <1>12

\* A request stops holding its entry: it gives up waiting or closes its lease.
LEMMA LeaveInv ==
  ASSUME FactoryInv, NEW p \in Requests, pc[p] \in {"waiting", "using"},
         NEW value, value # "notfound",
         Release(wants[p].key), Return(p, wants[p], value), closed' = closed
  PROVE  FactoryInv'
<1> USE DEF FactoryInv
<1>k. PICK key \in StoreKeys : key = wants[p].key
  BY DEF Typing
<1> DEFINE gone == {j \in {key} : closed /\ refs[j] = 1 /\ entry[j] = "ready"}
<1>1. /\ pc' = [pc EXCEPT ![p] = "idle"] /\ wants' = [wants EXCEPT ![p] = Nothing]
      /\ outcome' = [outcome EXCEPT ![p] = "none"]
      /\ refs' = [refs EXCEPT ![key] = @ - 1]
      /\ entry' = EntriesWithout(gone) /\ handles' = HandlesWithout(gone)
  BY <1>k DEF Return, After, Release
<1> HIDE DEF gone
<1>2. \A q \in Requests : /\ pc'[q] = IF q = p THEN "idle" ELSE pc[q]
                          /\ q # p => wants'[q] = wants[q] /\ outcome'[q] = outcome[q]
  BY <1>1 DEF Typing
<1>3. \A k \in StoreKeys :
        /\ entry'[k] = IF k \in gone THEN "none" ELSE entry[k]
        /\ handles'[k] = IF k \in gone THEN handles[k] - 1 ELSE handles[k]
  BY <1>1, Without
<1>4. /\ Holders(key)' = Holders(key) \ {p} /\ p \in Holders(key)
      /\ \A k : k # key => Holders(k)' = Holders(k)
  BY <1>k, <1>2 DEF Holders, Holding
<1>5. Cardinality(Holders(key) \ {p}) = Cardinality(Holders(key)) - 1
  BY <1>4, HoldersFinite, FS_RemoveElement
\* The last reference is its own.
<1>6. \A k \in gone : /\ k = key /\ entry[k] = "ready"
                      /\ \A q \in Requests : q # p /\ pc[q] \in Holding => wants[q].key # k
  <2>1. SUFFICES ASSUME NEW k \in gone
                 PROVE  /\ k = key /\ entry[k] = "ready"
                        /\ \A q \in Requests : q # p /\ pc[q] \in Holding => wants[q].key # k
    OBVIOUS
  <2>2. k = key /\ entry[k] = "ready" /\ refs[key] = 1
    BY DEF gone
  <2>3. Cardinality(Holders(key)) = 1
    BY <2>2 DEF Counted
  <2>4. PICK h : Holders(key) = {h}
    BY <2>3, HoldersFinite, FS_Singleton
  <2>5. \A q \in Holders(key) : q = p
    BY <2>4, <1>4
  <2> QED
    BY <2>2, <2>5 DEF Holders
<1>7. Typing'
  <2>1. wants' \in [Requests -> [key : StoreKeys, create : BOOLEAN]]
    BY <1>1, NothingType DEF Typing
  <2> QED
    BY <1>1, <2>1, Without DEF Typing, Places
<1>8. Counted'
  <2>1. Cardinality(Holders(key)') = refs'[key]
    BY <1>1, <1>4, <1>5 DEF Counted, Typing
  <2> QED
    BY <1>1, <1>4, <2>1 DEF Counted, Typing
<1>9. Placed'
  <2>1. \A q \in Requests : wants[q].key \in StoreKeys
    BY DEF Typing
  <2> QED
    BY <1>2, <1>3, <1>6, <2>1 DEF Placed, Holding
<1>10. OneOpener' /\ Answered'
  BY <1>2 DEF OneOpener, Answered
<1>11. Handled'
  <2>1. \A k \in StoreKeys \ gone : HasHandle(k)' <=> HasHandle(k)
    BY <1>2, <1>3 DEF HasHandle
  <2>2. \A k \in gone : HasHandle(k) /\ ~HasHandle(k)'
    BY <1>2, <1>3, <1>6 DEF HasHandle, Holding
  <2> QED
    BY <1>3, <2>1, <2>2 DEF Handled
<1>12. Bounded'
  BY <1>3, CachedShrinks DEF Cached
<1> QED
  BY <1>7, <1>8, <1>9, <1>10, <1>11, <1>12

LEMMA WaitDoneInv ==
  ASSUME FactoryInv, NEW p \in Requests, WaitDone(p)
  PROVE  FactoryInv'
<1> USE DEF FactoryInv
<1>1. /\ pc[p] = "waiting" /\ entry[wants[p].key] = "ready"
      /\ pc' = [pc EXCEPT ![p] = "using"]
      /\ entry' = entry /\ refs' = refs /\ handles' = handles /\ closed' = closed
      /\ wants' = wants /\ outcome' = outcome
  BY DEF WaitDone, cache
<1>2. \A q \in Requests : pc'[q] = IF q = p THEN "using" ELSE pc[q]
  BY <1>1 DEF Typing
<1>3. Typing'
  BY <1>1 DEF Typing, Places
<1>4. \A k : Holders(k)' = Holders(k) /\ (HasHandle(k)' <=> HasHandle(k))
  BY <1>1, <1>2 DEF Holders, HasHandle, Holding
<1>5. Counted' /\ Handled' /\ Bounded'
  BY <1>1, <1>4 DEF Counted, Handled, Bounded, Cached
<1>6. Placed' /\ OneOpener' /\ Answered'
  BY <1>1, <1>2 DEF Placed, OneOpener, Answered
<1> QED
  BY <1>3, <1>5, <1>6

LEMMA CloseInv ==
  ASSUME FactoryInv, Close
  PROVE  FactoryInv'
<1> USE DEF FactoryInv
<1>1. /\ entry' = EntriesWithout(Idle) /\ handles' = HandlesWithout(Idle)
      /\ closed' = TRUE /\ refs' = refs /\ pc' = pc /\ wants' = wants /\ outcome' = outcome
  BY DEF Close
<1>2. \A k \in StoreKeys :
        /\ entry'[k] = IF k \in Idle THEN "none" ELSE entry[k]
        /\ handles'[k] = IF k \in Idle THEN handles[k] - 1 ELSE handles[k]
  BY <1>1, Without
<1>3. Typing'
  BY <1>1, Without DEF Typing
<1>4. Counted' /\ OneOpener' /\ Answered'
  BY <1>1 DEF Counted, Holders, OneOpener, Answered
<1>5. Placed'
  <2>1. \A q \in Requests : wants[q].key \in StoreKeys
    BY DEF Typing
  <2> QED
    BY <1>1, <1>2, <2>1, IdleFree DEF Placed, Holding
<1>6. Handled'
  <2>1. \A k \in StoreKeys \ Idle : HasHandle(k)' <=> HasHandle(k)
    BY <1>1, <1>2 DEF HasHandle
  <2>2. \A k \in Idle : k \in StoreKeys /\ HasHandle(k) /\ ~HasHandle(k)'
    BY <1>1, <1>2, IdleFree DEF HasHandle, Holding
  <2> QED
    BY <1>2, <2>1, <2>2 DEF Handled
<1>7. Bounded'
  BY <1>2, CachedShrinks DEF Cached
<1> QED
  BY <1>3, <1>4, <1>5, <1>6, <1>7

LEMMA NextInv == FactoryInv /\ [Next]_vars => FactoryInv'
<1> SUFFICES ASSUME FactoryInv, [Next]_vars PROVE FactoryInv'
  OBVIOUS
<1>1. ASSUME NEW p \in Requests, Arrive(p) PROVE FactoryInv'
  <2>1. PICK want \in [key : StoreKeys, create : BOOLEAN] : Open(p, want)
    BY <1>1 DEF Arrive
  <2> QED
    BY <1>1, <2>1, OpenInv DEF Arrive, Holding
<1>2. ASSUME NEW p \in Requests, WaitFailed(p) PROVE FactoryInv'
  <2>1. pc[p] \notin Holding /\ wants[p] \in [key : StoreKeys, create : BOOLEAN]
    BY <1>2 DEF WaitFailed, Holding, FactoryInv, Typing
  <2>2. CASE Open(p, wants[p])
    BY <2>1, <2>2, OpenInv
  <2>3. CASE /\ ~(wants[p].create /\ outcome[p] = "notfound")
             /\ Return(p, wants[p], outcome[p]) /\ UNCHANGED cache
    BY <2>1, <2>3, ReturnInv
  <2> QED
    BY <1>2, <2>2, <2>3 DEF WaitFailed
<1>3. ASSUME NEW p \in Requests, Cancel(p) PROVE FactoryInv'
  <2>1. Return(p, wants[p], "error") /\ closed' = closed
    BY <1>3 DEF Cancel
  <2>2. CASE pc[p] = "waiting" /\ Release(wants[p].key)
    BY <2>1, <2>2, LeaveInv
  <2>3. CASE pc[p] = "failed" /\ UNCHANGED <<entry, refs, handles>>
    BY <2>1, <2>3, ReturnInv DEF cache, Holding
  <2> QED
    BY <1>3, <2>2, <2>3 DEF Cancel
<1>4. ASSUME NEW p \in Requests, CloseLease(p) PROVE FactoryInv'
  BY <1>4, LeaveInv DEF CloseLease
<1>5. CASE UNCHANGED vars
  BY <1>5 DEF vars, cache, FactoryInv, Typing, Counted, Holders, Placed, OneOpener,
              Handled, HasHandle, Answered, Bounded, Cached
<1> QED
  BY <1>1, <1>2, <1>3, <1>4, <1>5, OpenStoreInv, PublishStoreInv, PublishFailureInv,
     WaitDoneInv, CloseInv DEF Next, Step

---------------------------------------------------------------------------
\* What follows from it.

LEMMA InvHolds == Spec => []FactoryInv
BY InitInv, NextInv, PTL DEF Spec

\* The cache and the places of the requests keep their types; no entry counts
\* more requests than there are, and none is released more often than taken.
THEOREM FactoryTypeCorrect == Spec => []FactoryTypeOK
<1>1. FactoryInv => FactoryTypeOK
  <2> SUFFICES ASSUME FactoryInv PROVE FactoryTypeOK
    OBVIOUS
  <2>1. refs \in [StoreKeys -> 0..Cardinality(Requests)]
    BY HoldersFinite DEF FactoryInv, Typing, Counted
  <2>2. handles \in [StoreKeys -> Nat]
    BY DEF FactoryInv, Typing, Handled
  <2> QED
    BY <2>1, <2>2 DEF FactoryInv, Typing, FactoryTypeOK
<1> QED
  BY <1>1, InvHolds, PTL

\* No store is closed under a request that uses it, by whatever eviction, prune,
\* cancellation, release or closing of the factory goes on at the same time.
THEOREM UsedStoresOpen == Spec => []InUseOpen
<1>1. FactoryInv => InUseOpen
  BY DEF FactoryInv, Typing, Placed, Handled, HasHandle, InUseOpen
<1> QED
  BY <1>1, InvHolds, PTL

\* No database is open twice: the store's transactions run one at a time because
\* its only handle has one connection.
THEOREM HandlesUnique == Spec => []OneHandle
<1>1. FactoryInv => OneHandle
  BY DEF FactoryInv, Handled, OneHandle
<1> QED
  BY <1>1, InvHolds, PTL

\* At most MaxOpen databases are open, whatever is being opened, evicted or
\* still in use after the factory was closed.
THEOREM OpenBounded == Spec => []HandlesBounded
<1>1. FactoryInv => HandlesBounded
  <2> SUFFICES ASSUME FactoryInv PROVE HandlesBounded
    OBVIOUS
  <2> DEFINE held == {k \in StoreKeys : handles[k] # 0}
  <2>1. held \in SUBSET Cached /\ Cached \in SUBSET StoreKeys
    BY DEF FactoryInv, Handled, HasHandle, Placed, Cached
  <2>2. /\ Cardinality(Cached) \in Nat /\ Cardinality(held) \in Nat
        /\ Cardinality(held) <= Cardinality(Cached)
    BY <2>1, FS_Subset, FS_CardinalityType, FactoryAssumption
  <2> QED
    BY <2>2, FactoryAssumption DEF FactoryInv, Bounded, HandlesBounded
<1> QED
  BY <1>1, InvHolds, PTL

\* A create is never answered that there is no such store.
THEOREM CreateFinds == Spec => []CreateNeverNotFound
<1>1. FactoryInv => CreateNeverNotFound
  BY DEF FactoryInv, Answered, CreateNeverNotFound
<1> QED
  BY <1>1, InvHolds, PTL

---------------------------------------------------------------------------
\* The factory lends stores.

\* What lies behind "after Close, the last reference closes the store".
NoneIdle == closed => Idle = {}

\* A reference is counted.
LEMMA HolderCounted ==
  ASSUME Typing, Counted, NEW p \in Requests, pc[p] \in Holding
  PROVE  refs[wants[p].key] # 0
<1>1. p \in Holders(wants[p].key) /\ wants[p].key \in StoreKeys
  BY DEF Holders, Typing
<1> QED
  BY <1>1, HoldersFinite, FS_EmptySet DEF Counted

LEMMA ReleaseNoneIdle ==
  ASSUME Typing, NoneIdle, NEW k \in StoreKeys, Release(k), closed' = closed
  PROVE  NoneIdle'
<1> DEFINE gone == {j \in {k} : closed /\ refs[j] = 1 /\ entry[j] = "ready"}
<1>1. /\ refs' = [refs EXCEPT ![k] = @ - 1]
      /\ \A j \in StoreKeys : entry'[j] = IF j \in gone THEN "none" ELSE entry[j]
  BY Without DEF Release
<1>2. ASSUME closed, NEW j \in StoreKeys, entry'[j] = "ready", refs'[j] = 0 PROVE FALSE
  <2>1. entry[j] = "ready" /\ j \notin gone
    BY <1>1, <1>2
  <2>2. CASE j = k
    <3>1. refs[k] = 1
      BY <1>1, <1>2, <2>2 DEF Typing
    <3> QED BY <1>2, <2>1, <2>2, <3>1
  <2>3. CASE j # k
    <3>1. refs[j] = 0
      BY <1>1, <1>2, <2>3 DEF Typing
    <3> QED BY <1>2, <2>1, <3>1 DEF NoneIdle, Idle
  <2> QED BY <2>2, <2>3
<1> QED
  BY <1>2 DEF NoneIdle, Idle

LEMMA OpenNoneIdle ==
  ASSUME NoneIdle, NEW p \in Requests, NEW want, Open(p, want)
  PROVE  NoneIdle'
<1>1. CASE closed
  BY <1>1 DEF Open, OpenClosed, OpenShared, OpenNew, OpenRefused, cache, NoneIdle, Idle
<1>2. CASE ~closed
  <2>1. closed' = closed
    BY DEF Open, OpenClosed, OpenShared, OpenNew, OpenRefused, cache
  <2> QED BY <1>2, <2>1 DEF NoneIdle
<1> QED BY <1>1, <1>2

\* A closed factory keeps no store that nobody refers to.
LEMMA NextNoneIdle ==
  ASSUME FactoryInv, NoneIdle, [Next]_vars
  PROVE  NoneIdle'
<1> USE DEF FactoryInv
<1>1. ASSUME NEW p \in Requests, Arrive(p) PROVE NoneIdle'
  BY <1>1, OpenNoneIdle DEF Arrive
<1>2. ASSUME NEW p \in Requests, WaitFailed(p) PROVE NoneIdle'
  <2>1. CASE Open(p, wants[p])
    BY <2>1, OpenNoneIdle
  <2>2. CASE UNCHANGED cache
    BY <2>2 DEF cache, NoneIdle, Idle
  <2> QED BY <1>2, <2>1, <2>2 DEF WaitFailed
<1>3. ASSUME NEW p \in Requests, Cancel(p) \/ CloseLease(p) PROVE NoneIdle'
  <2>1. wants[p].key \in StoreKeys /\ closed' = closed
    BY <1>3 DEF Typing, Cancel, CloseLease
  <2>2. CASE Release(wants[p].key)
    BY <2>1, <2>2, ReleaseNoneIdle
  <2>3. CASE UNCHANGED <<entry, refs, handles>>
    BY <2>1, <2>3 DEF NoneIdle, Idle
  <2> QED BY <1>3, <2>2, <2>3 DEF Cancel, CloseLease
<1>4. ASSUME NEW p \in Requests, PublishStore(p) PROVE NoneIdle'
  <2>1. /\ entry' = [entry EXCEPT ![wants[p].key] = "ready"]
        /\ refs' = refs /\ closed' = closed /\ refs[wants[p].key] # 0
    BY <1>4, HolderCounted DEF PublishStore, Holding
  <2> QED BY <2>1 DEF NoneIdle, Idle, Typing
<1>5. ASSUME NEW p \in Requests, PublishFailure(p) PROVE NoneIdle'
  <2>1. /\ entry' = [entry EXCEPT ![wants[p].key] = "none"]
        /\ refs' = [refs EXCEPT ![wants[p].key] = 0] /\ closed' = closed
    BY <1>5 DEF PublishFailure
  <2> QED BY <2>1 DEF NoneIdle, Idle, Typing
<1>6. ASSUME NEW p \in Requests, OpenStore(p) \/ WaitDone(p) PROVE NoneIdle'
  BY <1>6 DEF OpenStore, WaitDone, cache, NoneIdle, Idle
<1>7. CASE Close
  <2>1. refs' = refs /\ \A k \in StoreKeys : entry'[k] = IF k \in Idle THEN "none" ELSE entry[k]
    BY <1>7, Without DEF Close
  <2> QED BY <2>1 DEF NoneIdle, Idle
<1>8. CASE UNCHANGED vars
  BY <1>8 DEF vars, cache, NoneIdle, Idle
<1> QED
  BY <1>1, <1>2, <1>3, <1>4, <1>5, <1>6, <1>7, <1>8 DEF Next, Step

\* Claims and leases, when one request moves.
LEMMA ClaimsMove ==
  ASSUME NEW p \in Requests, NEW place, NEW want,
         \A q \in Requests : pc'[q] = IF q = p THEN place ELSE pc[q],
         \A q \in Requests : wants'[q] = IF q = p THEN want ELSE wants[q]
  PROVE  /\ Claims' = [Claims EXCEPT ![p] = IF place \in Holding THEN {want.key} ELSE {}]
         /\ Leases' = [Leases EXCEPT ![p] = IF place = "using" THEN {want.key} ELSE {}]
BY DEF Claims, Leases, Holding

LEMMA ClaimsOf ==
  ASSUME NEW p \in Requests
  PROVE  /\ Claims[p] = IF pc[p] \in Holding THEN {wants[p].key} ELSE {}
         /\ Leases[p] = IF pc[p] = "using" THEN {wants[p].key} ELSE {}
BY DEF Claims, Leases, Holding

\* What is claimed, and what is connected, in the terms of the invariant.
LEMMA ClaimedAre ==
  Lent!Claimed = {wants[p].key : p \in {q \in Requests : pc[q] \in Holding}}
<1>1. \A p \in Requests : Claims[p] = IF pc[p] \in Holding THEN {wants[p].key} ELSE {}
  BY ClaimsOf
<1> QED
  BY <1>1 DEF Lent!Claimed

LEMMA ConnectedAre ==
  ASSUME Handled
  PROVE  Lent!Connected = {k \in StoreKeys : HasHandle(k)}
BY DEF Handled, Lent!Connected

\* An idle store is connected, and nobody claims it.
LEMMA IdleUnclaimed ==
  ASSUME FactoryInv
  PROVE  Idle \subseteq Lent!Connected \ Lent!Claimed
<1> SUFFICES ASSUME NEW k \in Idle PROVE k \in Lent!Connected /\ k \notin Lent!Claimed
  OBVIOUS
<1>1. /\ k \in StoreKeys /\ entry[k] = "ready"
      /\ \A p \in Requests : pc[p] \in Holding => wants[p].key # k
  BY IdleFree DEF FactoryInv
<1> QED
  BY <1>1, ClaimedAre, ConnectedAre DEF FactoryInv, HasHandle

\* StoreLeases counts with its own instance of FiniteSets.
LEMMA SameCardinality ==
  ASSUME NEW S
  PROVE  Lent!Cardinality(S) = Cardinality(S)
BY DEF Lent!Cardinality, Cardinality, Lent!IsFiniteSet, IsFiniteSet

LEMMA GoneDisconnects ==
  ASSUME NEW gone \in SUBSET Lent!Connected, handles' = HandlesWithout(gone)
  PROVE  Lent!Disconnect(gone)
BY DEF HandlesWithout, Lent!Disconnect

LentStep == [Lent!Next]_(Lent!leaseVars)

LEMMA ReturnLent ==
  ASSUME FactoryInv, NEW p \in Requests, NEW want, NEW value, pc[p] \notin Holding,
         Return(p, want, value), UNCHANGED cache
  PROVE  LentStep
<1> DEFINE place == After(want, value)
<1>1. place \in {"idle", "misled"}
  BY AfterType
<1>2. /\ \A q \in Requests : pc'[q] = IF q = p THEN place ELSE pc[q]
      /\ \A q \in Requests : wants'[q] = IF q = p THEN Nothing ELSE wants[q]
  BY DEF Return, FactoryInv, Typing
<1> HIDE DEF place
<1>3. Claims' = Claims /\ Leases' = Leases
  BY <1>1, <1>2 DEF Claims, Leases, Holding
<1> QED
  BY <1>3 DEF cache, LentStep, Lent!leaseVars

\* A request that refers to no store calls Open.
LEMMA OpenLent ==
  ASSUME FactoryInv, NEW p \in Requests, pc[p] \notin Holding,
         NEW want \in [key : StoreKeys, create : BOOLEAN], Open(p, want)
  PROVE  LentStep
<1>1. CASE OpenClosed(p, want) \/ OpenRefused(p, want)
  BY <1>1, ReturnLent DEF OpenClosed, OpenRefused
<1>2. ASSUME NEW gone \in SUBSET Idle, NEW place \in {"waiting", "opening"}, ~closed,
             handles' = HandlesWithout(gone), closed' = closed,
             wants' = [wants EXCEPT ![p] = want], pc' = [pc EXCEPT ![p] = place]
      PROVE  LentStep
  <2>1. /\ \A q \in Requests : pc'[q] = IF q = p THEN place ELSE pc[q]
        /\ \A q \in Requests : wants'[q] = IF q = p THEN want ELSE wants[q]
    BY <1>2 DEF FactoryInv, Typing
  <2>2. /\ Claims' = [Claims EXCEPT ![p] = {want.key}]
        /\ Leases' = [Leases EXCEPT ![p] = {}]
    BY <2>1, ClaimsMove DEF Holding
  <2>3. Claims[p] = {} /\ Leases[p] = {} /\ Leases' = Leases
    <3>1. Claims[p] = {} /\ Leases[p] = {}
      BY ClaimsOf DEF Holding
    <3> QED BY <2>2, <3>1 DEF Leases
  <2>4. gone \in SUBSET (Lent!Connected \ Lent!Claimed)
    BY IdleUnclaimed
  <2>5. Lent!Disconnect(gone)
    BY <1>2, <2>4, GoneDisconnects
  <2>6. Lent!Claim(p, want.key)
    BY <1>2, <2>2, <2>3, <2>4, <2>5 DEF Lent!Claim
  <2> QED
    BY <2>6 DEF LentStep, Lent!Next
<1>3. CASE OpenShared(p, want)
  BY <1>2, <1>3 DEF OpenShared
<1>4. CASE OpenNew(p, want)
  <2>1. PICK pruned \in SUBSET Idle, evicted \in SUBSET Idle :
          handles' = HandlesWithout(pruned \cup evicted)
    BY <1>4 DEF OpenNew
  <2>2. pruned \cup evicted \in SUBSET Idle
    BY <2>1
  <2> QED
    BY <1>2, <1>4, <2>1, <2>2 DEF OpenNew
<1> QED
  BY <1>1, <1>3, <1>4 DEF Open

LEMMA OpenStoreLent ==
  ASSUME FactoryInv, HandlesBounded', NEW p \in Requests, OpenStore(p)
  PROVE  LentStep
<1> DEFINE k == wants[p].key
<1>1. /\ pc[p] = "opening" /\ pc' = [pc EXCEPT ![p] = "opened"]
      /\ wants' = wants /\ closed' = closed /\ k \in StoreKeys
  BY DEF OpenStore, FactoryInv, Typing
<1>2. Claims' = Claims /\ Leases' = Leases /\ k \in Claims[p]
  BY <1>1 DEF Claims, Leases, FactoryInv, Typing
<1>3. CASE handles' = handles
  BY <1>1, <1>2, <1>3 DEF LentStep, Lent!leaseVars
<1>4. CASE handles' = [handles EXCEPT ![k] = @ + 1]
  <2>1. ~HasHandle(k)
    <3>1. entry[k] = "opening"
      BY <1>1 DEF FactoryInv, Placed
    <3>2. \A q \in Requests : pc[q] = "opened" /\ wants[q].key = k => q = p
      BY <1>1 DEF FactoryInv, OneOpener
    <3> QED BY <1>1, <3>1, <3>2 DEF HasHandle
  <2>2. handles[k] = 0
    BY <1>1, <2>1 DEF FactoryInv, Handled
  <2>3. handles' = [handles EXCEPT ![k] = 1]
    BY <1>4, <2>2
  <2>4. Lent!Cardinality(Lent!Connected') <= MaxOpen
    BY SameCardinality DEF HandlesBounded, Lent!Connected
  <2>5. Lent!Connect(p)
    BY <1>1, <1>2, <2>2, <2>3, <2>4 DEF Lent!Connect
  <2> QED
    BY <2>5 DEF LentStep, Lent!Next
<1> QED
  BY <1>3, <1>4 DEF OpenStore

\* A store is handed to a request that has waited for it or opened it.
LEMMA GrantLent ==
  ASSUME FactoryInv, NEW p \in Requests, PublishStore(p) \/ WaitDone(p)
  PROVE  LentStep
<1> DEFINE k == wants[p].key
<1>1. /\ pc[p] \in {"opened", "waiting"} /\ pc' = [pc EXCEPT ![p] = "using"]
      /\ wants' = wants /\ closed' = closed /\ handles' = handles /\ k \in StoreKeys
  BY DEF PublishStore, WaitDone, cache, FactoryInv, Typing
<1>2. HasHandle(k)
  BY DEF PublishStore, WaitDone, HasHandle
<1>3. handles[k] = 1
  BY <1>1, <1>2 DEF FactoryInv, Handled
<1>4. Claims' = Claims /\ k \in Claims[p] /\ Leases[p] = {}
      /\ Leases' = [Leases EXCEPT ![p] = {k}]
  BY <1>1 DEF Claims, Leases, FactoryInv, Typing
<1>5. Lent!Grant(p)
  BY <1>1, <1>3, <1>4 DEF Lent!Grant
<1> QED
  BY <1>5 DEF LentStep, Lent!Next

LEMMA FailLent ==
  ASSUME FactoryInv, NEW p \in Requests, PublishFailure(p)
  PROVE  LentStep
<1> DEFINE k == wants[p].key
<1>1. /\ pc[p] = "opened" /\ outcome[p] # "ready" /\ k \in StoreKeys
      /\ handles' = handles /\ closed' = closed /\ entry[k] = "opening"
  BY DEF PublishFailure, FactoryInv, Typing, Placed
<1>2. ~HasHandle(k)
  <2>1. \A q \in Requests : pc[q] = "opened" /\ wants[q].key = k => q = p
    BY <1>1 DEF FactoryInv, OneOpener
  <2> QED BY <1>1, <2>1 DEF HasHandle
<1>3. handles[k] = 0
  BY <1>1, <1>2 DEF FactoryInv, Handled
<1>4. \A q \in Requests : /\ pc'[q] = IF q \in Waiting(k) THEN "failed"
                                      ELSE IF q # p THEN pc[q] ELSE After(wants[p], outcome[p])
                          /\ q # p => wants'[q] = wants[q]
  BY DEF PublishFailure, Wake, FactoryInv, Typing
<1>5. pc'[p] \notin Holding
  BY <1>1, <1>4, AfterType DEF Waiting, Holding
\* Nobody uses a store that is being opened, and nobody else opens it.
<1>6. \A q \in Requests \ {p} : pc[q] \in Holding /\ wants[q].key = k => q \in Waiting(k)
  BY <1>1 DEF Holding, Waiting, FactoryInv, Placed, OneOpener
<1>7. \A q \in Requests \ {p} :
        /\ q \in Waiting(k) => pc[q] = "waiting" /\ wants[q].key = k /\ pc'[q] = "failed"
        /\ q \notin Waiting(k) => pc'[q] = pc[q]
        /\ wants'[q] = wants[q]
  BY <1>4 DEF Waiting
<1>8. Claims' = [q \in Requests |-> Claims[q] \ {k}]
  <2>1. \A q \in Requests : Claims'[q] = Claims[q] \ {k}
    <3> SUFFICES ASSUME NEW q \in Requests PROVE Claims'[q] = Claims[q] \ {k}
      OBVIOUS
    <3>1. /\ Claims[q] = IF pc[q] \in Holding THEN {wants[q].key} ELSE {}
          /\ Claims'[q] = IF pc'[q] \in Holding THEN {wants'[q].key} ELSE {}
      BY DEF Claims, Holding
    <3>2. CASE q = p
      BY <1>1, <1>5, <3>1, <3>2 DEF Holding
    <3>3. CASE q # p /\ q \in Waiting(k)
      BY <1>7, <3>1, <3>3 DEF Holding
    <3>4. CASE q # p /\ q \notin Waiting(k)
      BY <1>6, <1>7, <3>1, <3>4
    <3> QED BY <3>2, <3>3, <3>4
  <2> QED BY <2>1 DEF Claims
<1>9. Leases' = Leases
  <2>1. \A q \in Requests : Leases'[q] = Leases[q]
    <3> SUFFICES ASSUME NEW q \in Requests PROVE Leases'[q] = Leases[q]
      OBVIOUS
    <3>1. /\ Leases[q] = IF pc[q] = "using" THEN {wants[q].key} ELSE {}
          /\ Leases'[q] = IF pc'[q] = "using" THEN {wants'[q].key} ELSE {}
      BY DEF Leases
    <3>2. CASE q = p
      BY <1>1, <1>5, <3>1, <3>2 DEF Holding
    <3>3. CASE q # p
      BY <1>7, <3>1, <3>3
    <3> QED BY <3>2, <3>3
  <2> QED BY <2>1 DEF Leases
<1>10. Lent!Fail(k)
  BY <1>1, <1>3, <1>8, <1>9 DEF Lent!Fail
<1> QED
  BY <1>1, <1>10 DEF LentStep, Lent!Next

\* A request gives its reference up.  Once the factory is closed, the store
\* that goes with the last one is the only one nobody claims.
LEMMA LeaveLent ==
  ASSUME FactoryInv, FactoryInv', NoneIdle, NoneIdle', NEW p \in Requests,
         pc[p] \in {"waiting", "using"}, Release(wants[p].key),
         NEW value \in {"ready", "error"}, Return(p, wants[p], value), closed' = closed
  PROVE  LentStep
<1>0. PICK k \in StoreKeys : k = wants[p].key
  BY DEF FactoryInv, Typing
<1> DEFINE gone == {j \in {k} : closed /\ refs[j] = 1 /\ entry[j] = "ready"}
<1>1. /\ handles' = HandlesWithout(gone)
      /\ \A q \in Requests : pc'[q] = IF q = p THEN "idle" ELSE pc[q]
      /\ \A q \in Requests : wants'[q] = IF q = p THEN Nothing ELSE wants[q]
      /\ \A q \in Requests : outcome'[q] = IF q = p THEN "none" ELSE outcome[q]
      /\ \A j \in StoreKeys : entry'[j] = IF j \in gone THEN "none" ELSE entry[j]
      /\ refs' = [refs EXCEPT ![k] = @ - 1]
  BY <1>0, Without DEF Release, Return, After, FactoryInv, Typing
<1> HIDE DEF gone
<1>a. /\ \A q \in Requests : pc'[q] = IF q = p THEN "idle" ELSE pc[q]
      /\ \A q \in Requests : wants'[q] = IF q = p THEN Nothing ELSE wants[q]
  BY <1>1
<1>2. /\ Claims' = [Claims EXCEPT ![p] = {}]
      /\ Leases' = [Leases EXCEPT ![p] = {}] /\ Claims[p] # {}
  <2>1. /\ Claims' = [Claims EXCEPT ![p] = IF "idle" \in Holding THEN {Nothing.key} ELSE {}]
        /\ Leases' = [Leases EXCEPT ![p] = IF "idle" = "using" THEN {Nothing.key} ELSE {}]
    BY <1>a, ClaimsMove
  <2>2. Claims[p] # {}
    BY ClaimsOf DEF Holding
  <2> QED BY <2>1, <2>2 DEF Holding
<1>3. \A j : j \in Lent!Claimed' <=> \E q \in Requests : pc'[q] \in Holding /\ wants'[q].key = j
  <2>1. \A q \in Requests : Claims'[q] = IF pc'[q] \in Holding THEN {wants'[q].key} ELSE {}
    BY DEF Claims, Holding
  <2> QED BY <2>1 DEF Lent!Claimed
<1>4. CASE ~closed
  <2>1. gone = {}
    BY <1>4 DEF gone
  <2>2. Lent!Disconnect({})
    <3> QED BY <1>1, <2>1, GoneDisconnects
  <2> QED
    BY <1>2, <1>4, <2>2 DEF LentStep, Lent!Next, Lent!Leave
<1>5. CASE closed
  <2>1. gone \subseteq Lent!Connected \ Lent!Claimed'
    <3> SUFFICES ASSUME k \in gone PROVE k \in Lent!Connected /\ k \notin Lent!Claimed'
      BY DEF gone
    <3>1. entry[k] = "ready" /\ refs[k] = 1
      BY DEF gone
    <3>2. k \in Lent!Connected
      BY <1>1, <3>1, ConnectedAre DEF FactoryInv, HasHandle
    <3>3. Holders(k)' = {}
      <4>1. Holders(k) \ {p} = Holders(k)'
        BY <1>a DEF Holders, Holding
      <4>2. Cardinality(Holders(k)) = 1 /\ p \in Holders(k)
        BY <1>0, <3>1 DEF FactoryInv, Counted, Holders, Holding
      <4>3. PICK h : Holders(k) = {h}
        BY <4>2, HoldersFinite, FS_Singleton
      <4> QED BY <4>1, <4>2, <4>3
    <3> QED BY <1>3, <3>2, <3>3 DEF Holders
  <2>2. Lent!Connected \ Lent!Claimed' \subseteq gone
    <3> SUFFICES ASSUME NEW j \in StoreKeys, HasHandle(j), j \notin gone
                 PROVE  j \in Lent!Claimed'
      BY ConnectedAre DEF FactoryInv
    <3>1. CASE entry[j] = "ready"
      <4>1. entry'[j] = "ready"
        BY <1>1, <3>1
      <4>2. refs'[j] # 0
        BY <1>5, <4>1 DEF NoneIdle, Idle
      <4>3. Holders(j)' # {}
        <5>1. refs'[j] = Cardinality(Holders(j)')
          BY DEF FactoryInv, Counted
        <5> QED BY <4>2, <5>1, FS_EmptySet
      <4> QED BY <1>3, <4>3 DEF Holders
    <3>2. ASSUME NEW q \in Requests, pc[q] = "opened", wants[q].key = j
          PROVE  j \in Lent!Claimed'
      <4>1. pc'[q] = "opened" /\ wants'[q].key = j
        BY <1>1, <3>2
      <4> QED BY <1>3, <4>1 DEF Holding
    <3> QED BY <3>1, <3>2 DEF HasHandle
  <2>3. Lent!Disconnect(Lent!Connected \ Lent!Claimed')
    <3>1. gone = Lent!Connected \ Lent!Claimed'
      BY <2>1, <2>2
    <3> QED BY <1>1, <3>1, GoneDisconnects
  <2> QED
    BY <1>2, <1>5, <2>3 DEF LentStep, Lent!Next, Lent!Leave
<1> QED BY <1>4, <1>5

LEMMA CloseLent ==
  ASSUME FactoryInv, FactoryInv', NoneIdle', Close
  PROVE  LentStep
<1>1. /\ ~closed /\ closed' = TRUE /\ handles' = HandlesWithout(Idle)
      /\ entry' = EntriesWithout(Idle) /\ refs' = refs /\ pc' = pc /\ wants' = wants
  BY DEF Close
<1>2. Claims' = Claims /\ Leases' = Leases
  BY <1>1 DEF Claims, Leases
<1>3. Idle = Lent!Connected \ Lent!Claimed
  <2>1. ASSUME NEW k \in StoreKeys, HasHandle(k), k \notin Lent!Claimed PROVE k \in Idle
    <3>1. Holders(k) = {}
      BY <2>1, ClaimedAre DEF Holders
    <3>2. entry[k] = "ready"
      BY <2>1, ClaimedAre DEF HasHandle, Holding
    <3>3. refs[k] = 0
      BY <3>1, FS_EmptySet DEF FactoryInv, Counted
    <3> QED BY <3>2, <3>3 DEF Idle
  <2> QED BY <2>1, IdleUnclaimed, ConnectedAre DEF FactoryInv
<1>4. Lent!Disconnect(Lent!Connected \ Lent!Claimed)
  BY <1>1, <1>3, GoneDisconnects
<1>5. Lent!ShutDown
  BY <1>1, <1>2, <1>4 DEF Lent!ShutDown
<1> QED
  BY <1>5 DEF LentStep, Lent!Next

LEMMA NextLent ==
  ASSUME FactoryInv, FactoryInv', NoneIdle, NoneIdle', HandlesBounded', [Next]_vars
  PROVE  LentStep
<1>1. ASSUME NEW p \in Requests, Arrive(p) PROVE LentStep
  <2>1. PICK want \in [key : StoreKeys, create : BOOLEAN] : Open(p, want)
    BY <1>1 DEF Arrive
  <2> QED BY <1>1, <2>1, OpenLent DEF Arrive, Holding
<1>2. ASSUME NEW p \in Requests, WaitFailed(p) PROVE LentStep
  <2>1. pc[p] \notin Holding /\ wants[p] \in [key : StoreKeys, create : BOOLEAN]
    BY <1>2 DEF WaitFailed, Holding, FactoryInv, Typing
  <2>2. CASE Open(p, wants[p])
    BY <2>1, <2>2, OpenLent
  <2>3. CASE Return(p, wants[p], outcome[p]) /\ UNCHANGED cache
    BY <2>1, <2>3, ReturnLent
  <2> QED BY <1>2, <2>2, <2>3 DEF WaitFailed
<1>3. ASSUME NEW p \in Requests, Cancel(p) PROVE LentStep
  <2>1. Return(p, wants[p], "error") /\ closed' = closed
    BY <1>3 DEF Cancel
  <2>2. CASE pc[p] = "waiting" /\ Release(wants[p].key)
    BY <2>1, <2>2, LeaveLent
  <2>3. CASE pc[p] = "failed" /\ UNCHANGED <<entry, refs, handles>>
    BY <2>1, <2>3, ReturnLent DEF cache, Holding
  <2> QED BY <1>3, <2>2, <2>3 DEF Cancel
<1>4. ASSUME NEW p \in Requests, CloseLease(p) PROVE LentStep
  BY <1>4, LeaveLent DEF CloseLease
<1>5. CASE UNCHANGED vars
  BY <1>5 DEF vars, cache, Claims, Leases, LentStep, Lent!leaseVars
<1> QED
  BY <1>1, <1>2, <1>3, <1>4, <1>5, OpenStoreLent, GrantLent, FailLent, CloseLent
  DEF Next, Step

\* The factory lends stores as StoreLeases has it, for any requests, keys and
\* bound: the cache, its waiting and its evictions are invisible to those who
\* hold leases, and a factory that was closed keeps no store nobody refers to.
THEOREM StoresAreLent == Spec => LendsStores
<1>1. Init => NoneIdle
  BY DEF Init, NoneIdle
<1>2. FactoryInv /\ NoneIdle /\ [Next]_vars => NoneIdle'
  BY NextNoneIdle
<1>3. Init => Lent!Init
  BY DEF Init, Lent!Init, Claims, Leases
<1>4. /\ FactoryInv /\ FactoryInv' /\ NoneIdle /\ NoneIdle' /\ HandlesBounded' /\ [Next]_vars
      => [Lent!Next]_(Lent!leaseVars)
  BY NextLent DEF LentStep
<1> QED
  BY <1>1, <1>2, <1>3, <1>4, InvHolds, OpenBounded, PTL DEF Spec, LendsStores, Lent!Spec
=============================================================================
