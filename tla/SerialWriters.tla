---------------------------- MODULE SerialWriters ----------------------------
(***************************************************************************)
(* WispistLive, when handlers do not overtake each other.                  *)
(*                                                                         *)
(* A handler commits in one transaction and publishes afterwards, without  *)
(* a lock; that two of them publish in the other order is possible, and is *)
(* the run two_writers.  What subscribers can rely on otherwise is stated  *)
(* here, of any number of handlers: the constant of a behaviour, serial,   *)
(* says whether in all of it a handler publishes what it committed before  *)
(* another commits, and nothing is purged.                                 *)
(***************************************************************************)
EXTENDS WispistLive

VARIABLE serial

\* One handler at most has something to publish, and nothing was purged.
OneAtATime ==
  /\ purges = 0
  /\ \A g, h \in Handlers : unpublished[g] # <<>> /\ unpublished[h] # <<>> => g = h

SerialInit == Init /\ serial \in BOOLEAN
SerialNext == Next /\ (serial => OneAtATime') /\ UNCHANGED serial
SerialSpec == SerialInit /\ [][SerialNext]_<<vars, serial>>

\* With one handler at a time and no purge, no client ever lacks a change behind
\* its place in the sequence (ReplicaCurrent).
OneWriterCurrent == serial => ReplicaCurrent

\* With one handler at a time and no purge, every client comes to show what is
\* stored (Converges).
OneWriterConverges == serial => Converges

\* With one handler at a time and no purge, clients follow the log of the store:
\* every step is one of LogFollowers (FollowsLog).
OneWriterFollowsLog ==
  /\ Followed!Init
  /\ [][serial => Followed!Next]_<<history, lastSequence, replica, cursor>>
=============================================================================
