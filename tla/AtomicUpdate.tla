---------------------------- MODULE AtomicUpdate ----------------------------
(***************************************************************************)
(* What an update promises to those who are served, without files, markers *)
(* and restarts.  The new version is let serve on trial, once, over the    *)
(* whole state it made of the old one.  Either the installation settles on *)
(* it, for good, or what it did on trial is gone with it: the next to      *)
(* serve is the old version, over the whole state it left, and only such a *)
(* service can lead to another trial.                                      *)
(***************************************************************************)
CONSTANTS Before, After, StateOf(_)

VARIABLES
  phase,     \* "settled", or how far an update has come
  settled,   \* the version the installation has settled on
  served     \* the version that serves and the state it has, or <<>>

Init == phase = "settled" /\ settled = Before /\ served = <<Before, StateOf(Before)>>

\* The version settled on stops to serve, or serves.
Stop == phase = "settled" /\ served' = <<>> /\ UNCHANGED <<phase, settled>>
Resume ==
  /\ phase = "settled" /\ served = <<>>
  /\ served' = <<settled, StateOf(settled)>>
  /\ UNCHANGED <<phase, settled>>

\* The old version is stopped for an update.
Apply ==
  /\ phase = "settled" /\ served = <<Before, StateOf(Before)>>
  /\ phase' = "applying" /\ served' = <<>>
  /\ UNCHANGED settled

Try ==
  /\ phase = "applying"
  /\ phase' = "trial" /\ served' = <<After, StateOf(After)>>
  /\ UNCHANGED settled

\* The trial is over, or is not to begin.
GiveUp ==
  /\ phase \in {"applying", "trial"}
  /\ phase' = "returning" /\ served' = <<>>
  /\ UNCHANGED settled

Return ==
  /\ phase \in {"applying", "returning"}
  /\ phase' = "settled"
  /\ UNCHANGED <<settled, served>>

\* Only a version that was tried is settled on.  It goes on serving, unless it
\* was stopped meanwhile.
Settle ==
  /\ phase \in {"trial", "returning"}
  /\ phase' = "settled" /\ settled' = After
  /\ served' \in {served, <<>>}

Next == Stop \/ Resume \/ Apply \/ Try \/ GiveUp \/ Return \/ Settle

Spec == Init /\ [][Next]_<<phase, settled, served>>
=============================================================================
