---------------------------- MODULE MCWispistLive ----------------------------
(***************************************************************************)
(* WispistLive on small instances.                                         *)
(***************************************************************************)
EXTENDS WispistLive, TLC

CONSTANTS c1, c2, a

\* The client watches one of two collections; a change to the other one still
\* takes a sequence number.
MCInterest == [c \in Clients |-> c1]
=============================================================================
