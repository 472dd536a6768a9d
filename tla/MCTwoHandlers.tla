---------------------------- MODULE MCTwoHandlers ----------------------------
(***************************************************************************)
(* SerialWriters for one run: two handlers that write in turn while a      *)
(* client follows them through faults, and two handlers that overlap, one  *)
(* of which may purge.                                                     *)
(***************************************************************************)
EXTENDS SerialWriters, MCWispistLive

\* Behaviours that are not serial are kept shorter: one fault, one collection.
Bounded ==
  serial \/ /\ faults' <= 1
            /\ lastSequence' < MaxSequence /\ lastRevision' < MaxRevision
            /\ StoredIn(documents', c2) = {}

\* What OneAtATime and Bounded forbid are mutations, faults and purges, of which
\* nothing is expected to happen.
MCSpec ==
  /\ SerialInit /\ [][SerialNext /\ Bounded]_<<vars, serial>>
  /\ \A h \in Handlers : WF_vars(Publish(h))
  /\ \A c \in Clients : WF_vars(ClientStep(c))
=============================================================================
