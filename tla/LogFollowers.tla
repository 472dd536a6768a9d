---------------------------- MODULE LogFollowers ----------------------------
(***************************************************************************)
(* What a live collection promises, without streams, queues or retries: a  *)
(* log of states that only grows, and followers that each hold a view and  *)
(* a place in the log.  A view is a mix of states at or after its place:   *)
(* it may run ahead in some documents, it never lacks a change that lies   *)
(* behind its place, and the place never moves back.                       *)
(***************************************************************************)
EXTENDS Integers

CONSTANTS Followers, Slots, Watches(_, _), Start

VARIABLES log, last, view, place

Current(f, v, p, l, upto) ==
  \A s \in Slots : Watches(f, s) => \E m \in p..upto : v[s] = l[m][s]

Init ==
  /\ last = 0
  /\ log = [n \in {0} |-> Start]
  /\ view = [f \in Followers |-> Start]
  /\ place = [f \in Followers |-> 0]

Grow ==
  /\ last' > last
  /\ \A n \in 0..last : log'[n] = log[n]
  /\ UNCHANGED <<view, place>>

Catch(f) ==
  /\ place'[f] \in place[f]..last
  /\ Current(f, view'[f], place'[f], log, last)
  /\ \A g \in Followers \ {f} : view'[g] = view[g] /\ place'[g] = place[g]
  /\ UNCHANGED <<log, last>>

Next == Grow \/ \E f \in Followers : Catch(f)

Spec == Init /\ [][Next]_<<log, last, view, place>>
=============================================================================
