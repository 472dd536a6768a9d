----------------------------- MODULE StoreLeases -----------------------------
(***************************************************************************)
(* What the store factory promises, without entries, waiting and eviction. *)
(* A request first claims a store, which gives it no more than that nobody *)
(* disconnects the store from then on; a request with a lease uses the     *)
(* store; both end together.  A store is connected by one that claims it,  *)
(* once and within the bound.  After the factory is shut down no store     *)
(* stays connected that nobody claims.                                     *)
(***************************************************************************)
EXTENDS Integers, FiniteSets

CONSTANTS Requests, StoreKeys, MaxOpen

VARIABLES
  connections,  \* key -> how many times its database is open
  claim,        \* request -> the store it claims, a set of one key at most
  lease,        \* request -> the store it uses, likewise
  down

leaseVars == <<connections, claim, lease, down>>

Connected == {k \in StoreKeys : connections[k] # 0}
Claimed == UNION {claim[p] : p \in Requests}

Init ==
  /\ connections = [k \in StoreKeys |-> 0]
  /\ claim = [p \in Requests |-> {}]
  /\ lease = [p \in Requests |-> {}]
  /\ down = FALSE

Disconnect(gone) ==
  /\ gone \subseteq Connected
  /\ connections' = [k \in StoreKeys |-> IF k \in gone THEN connections[k] - 1
                                         ELSE connections[k]]

\* A request begins to claim a store; some that are not claimed make room.
Claim(p, k) ==
  /\ ~down
  /\ claim[p] = {}
  /\ claim' = [claim EXCEPT ![p] = {k}]
  /\ \E gone \in SUBSET (Connected \ Claimed) : Disconnect(gone)
  /\ UNCHANGED <<lease, down>>

Connect(p) ==
  /\ \E k \in claim[p] :
       /\ connections[k] = 0
       /\ connections' = [connections EXCEPT ![k] = 1]
  /\ Cardinality(Connected') <= MaxOpen
  /\ UNCHANGED <<claim, lease, down>>

\* The request may use its store.
Grant(p) ==
  /\ \E k \in claim[p] :
       /\ connections[k] = 1
       /\ lease[p] = {}
       /\ lease' = [lease EXCEPT ![p] = {k}]
  /\ UNCHANGED <<connections, claim, down>>

\* The request is done with its store, or gave up waiting for it.
Leave(p) ==
  /\ claim[p] # {}
  /\ claim' = [claim EXCEPT ![p] = {}]
  /\ lease' = [lease EXCEPT ![p] = {}]
  /\ Disconnect(IF down THEN Connected \ Claimed' ELSE {})
  /\ UNCHANGED down

\* A store could not be connected: all claims to it end.
Fail(k) ==
  /\ connections[k] = 0
  /\ claim' = [p \in Requests |-> claim[p] \ {k}]
  /\ UNCHANGED <<connections, lease, down>>

ShutDown ==
  /\ ~down
  /\ down' = TRUE
  /\ Disconnect(Connected \ Claimed)
  /\ UNCHANGED <<claim, lease>>

Next ==
  \/ \E p \in Requests :
       Connect(p) \/ Grant(p) \/ Leave(p) \/ \E k \in StoreKeys : Claim(p, k)
  \/ \E k \in StoreKeys : Fail(k)
  \/ ShutDown

Spec == Init /\ [][Next]_leaseVars
=============================================================================
