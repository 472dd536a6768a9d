----------------------------- MODULE UpdateProof -----------------------------
(***************************************************************************)
(* Proofs about Update, for any number of updates and at most one fault:   *)
(* wherever a step fails or the process is killed, what a version opens is *)
(* whole, there is a way back, and what was confirmed stays.  With a       *)
(* second fault the first of these is false (the run two_crashes).  The    *)
(* invariant says, for each place of the process, which of five situations *)
(* the disk is in.                                                         *)
(*                                                                         *)
(* Then about UpdateManager, for any releases, policy changes and queued   *)
(* actions.  That the manager never does two things at once holds for any  *)
(* faults; that the policy stands, for at most one, as what Update         *)
(* promises does.                                                          *)
(***************************************************************************)
EXTENDS UpdateManager, TLAPS


SingleFault == MaxFaults <= 1

Whole(v) == state = Written(v)
BackedUp == backup = Written("old")

\* Version v is installed, and no update is under way.
AtRest(v) == executable = v /\ previous # v /\ marker = "none" /\ Whole(v)
\* An update is prepared, the executables are not exchanged.
Ready ==
  executable = "old" /\ previous # "old" /\ marker = "prepared" /\ Whole("old") /\ BackedUp
\* The new version is installed and not confirmed.
Trial ==
  /\ executable = "new" /\ previous = "old" /\ marker # "none" /\ BackedUp
  /\ Whole("old") \/ (Whole("new") /\ marker = "activated" /\ attempts = 1)
Tried == Trial /\ marker = "activated" /\ attempts = 1
\* The old executable is back, and the state may be half restored.
Returned == executable = "old" /\ previous = "new" /\ BackedUp
Half == Returned /\ marker = "activated" /\ faults = 1

\* What a version may find when it is started.
Found ==
  \/ AtRest("old") \/ AtRest("new") \/ Ready \/ Half
  \/ Trial /\ (marker = "prepared" => faults = 1)

\* The targets before the n-th are restored.
Restored(n) == \A i \in 1..3 : i < n => state[Targets[i]] = backup[Targets[i]]
\* Of the state of version v the targets before the n-th are moved aside.
Aside(v, n) ==
  \A i \in 1..3 :
    IF i < n THEN saved[Targets[i]] = Written(v)[Targets[i]]
             ELSE saved[Targets[i]] = "none" /\ state[Targets[i]] = Written(v)[Targets[i]]
\* A restore that has not met a fault can be undone.
Traced(n) ==
  marker = "activated" /\ attempts = 1 /\ recovery = "fresh" /\ \E v \in Versions : Aside(v, n)

Serves == pc = "serve" => recovery = "none" /\ AtRest(running)

Activates ==
  /\ pc \in {"backup", "stage", "mark", "exchange", "activate", "exec"} =>
       running = "old" /\ recovery = "none"
  /\ pc \in {"backup", "stage", "mark"} => AtRest("old")
  /\ pc \in {"stage", "mark"} => BackedUp
  /\ pc \in {"mark", "exchange"} => previous = "new"
  /\ pc = "exchange" => Ready
  /\ pc \in {"activate", "exec", "undoExchange"} => Trial /\ Whole("old")
  /\ pc = "exec" => marker = "activated"

Undoes ==
  /\ pc \in {"undoExchange", "undoMarker", "undoPrevious"} => faults = 1
  /\ pc = "undoMarker" => Returned /\ Whole("old")
  /\ pc = "undoPrevious" => AtRest("old") \/ Ready

Starts ==
  /\ pc \in {"down", "key", "begin"} => Found
  /\ pc \in {"key", "begin", "forgetPrevious", "forgetMarker", "open"} => running = executable
  /\ pc \in {"key", "begin", "forgetPrevious", "forgetMarker"} => recovery = "none"
  /\ pc \in {"forgetPrevious", "forgetMarker"} => Ready
  /\ pc = "open" => \/ recovery = "none" /\ AtRest(running)
                    \/ recovery = "fresh" /\ Tried
  /\ pc \in {"probe", "confirmMarker", "confirmPrevious"} => running = "new" /\ recovery = "fresh"
  /\ pc \in {"probe", "confirmMarker"} => Tried /\ Whole("new")
  /\ pc = "confirmPrevious" => AtRest("new") /\ BackedUp

RollsBack ==
  /\ pc = "rollback" =>
       \/ recovery = "fresh" /\ Tried
       \/ recovery = "fresh" /\ faults = 1 /\ (Trial \/ (AtRest("new") /\ BackedUp))
       \/ recovery = "restored" /\ Half
  /\ pc \in {"moveAside", "install"} => Returned /\ next <= 3 /\ Restored(next)
  /\ pc = "moveAside" => faults = 1 \/ Traced(next)
  /\ pc = "install" => faults = 1 \/ Traced(next + 1)
  /\ pc \in {"revert", "returnBinary"} =>
       faults = 1 /\ Returned /\ marker = "activated" /\ attempts = 1
  /\ pc = "revert" => Traced(next) \/ Traced(next + 1)
  /\ pc = "returnBinary" => Whole("old") \/ Whole("new")
  /\ pc = "clearMarker" => Returned /\ Whole("old") /\ (faults = 1 \/ marker = "activated")
  /\ pc \in {"clearPrevious", "restart"} => AtRest("old")

Situation == Serves /\ Activates /\ Undoes /\ Starts /\ RollsBack
UpdateInv == UpdateTypeOK /\ Situation

Interrupted == pc = "serve" /\ Fail("serve") /\ UNCHANGED <<disk, restoring, recovery>>

USE UpdateAssumption
USE DEF disk, process, restoring, Goto, Exchange

-----------------------------------------------------------------------------
(* The first fault is the only one *)

LEMMA OneFault ==
  ASSUME NEW l, SingleFault, UpdateTypeOK, Fail(l)
  PROVE  faults = 0 /\ faults' = 1 /\ faults' \in 0..MaxFaults /\ MaxFaults = 1
  BY DEF SingleFault, UpdateTypeOK, Fail

LEMMA WrittenIs ==
  /\ \A v \in Versions : Written(v) \in [Names -> Contents]
  /\ \A v : Written(v)["database"] = v /\ Written(v)["authKey"] = "key"
            /\ Written(v)["wispist"] = v
  /\ Written("old") # Written("new")
<1>1. \A v : Written(v)["database"] = v /\ Written(v)["authKey"] = "key"
            /\ Written(v)["wispist"] = v
  BY DEF Written, Names
<1>2. \A v \in Versions : Written(v) \in [Names -> Contents]
  BY DEF Written, Names, Versions, Contents
<1> QED  BY <1>1, <1>2

-----------------------------------------------------------------------------
(* Activate *)

LEMMA ApplyKeeps ==
  ASSUME UpdateInv, SingleFault, Apply
  PROVE  UpdateInv'
<1> USE OneFault
<1>1. UpdateTypeOK'
  BY DEF UpdateInv, UpdateTypeOK, Apply, Places, Versions, Fail
<1>2. Situation'
  BY DEF UpdateInv, UpdateTypeOK, Situation, Serves, Activates, Undoes, Starts, RollsBack,
         Apply, Fail, AtRest, Whole, Found
<1> QED  BY <1>1, <1>2 DEF UpdateInv

LEMMA CreateBackupKeeps ==
  ASSUME UpdateInv, SingleFault, CreateBackup
  PROVE  UpdateInv'
<1> USE OneFault, WrittenIs
<1>1. UpdateTypeOK'
  BY DEF UpdateInv, UpdateTypeOK, CreateBackup, Places, Versions, Fail
<1>2. Situation'
  BY DEF UpdateInv, UpdateTypeOK, Situation, Serves, Activates, Undoes, Starts, RollsBack,
         CreateBackup, Fail, AtRest, Whole, BackedUp, Ready, Trial, Tried, Returned, Half,
         Found
<1> QED  BY <1>1, <1>2 DEF UpdateInv

LEMMA StageNextToExecutableKeeps ==
  ASSUME UpdateInv, SingleFault, StageNextToExecutable
  PROVE  UpdateInv'
<1> USE OneFault
<1>1. UpdateTypeOK'
  BY DEF UpdateInv, UpdateTypeOK, StageNextToExecutable, Places, Versions, Fail
<1>2. Situation'
  BY DEF UpdateInv, UpdateTypeOK, Situation, Serves, Activates, Undoes, Starts, RollsBack,
         StageNextToExecutable, Fail, AtRest, Whole, BackedUp, Ready, Trial, Tried,
         Returned, Half, Found
<1> QED  BY <1>1, <1>2 DEF UpdateInv

LEMMA MarkPreparedKeeps ==
  ASSUME UpdateInv, SingleFault, MarkPrepared
  PROVE  UpdateInv'
<1> USE OneFault
<1>1. UpdateTypeOK'
  BY DEF UpdateInv, UpdateTypeOK, MarkPrepared, Places, Versions, Fail
<1>2. Situation'
  BY DEF UpdateInv, UpdateTypeOK, Situation, Serves, Activates, Undoes, Starts, RollsBack,
         MarkPrepared, Fail, AtRest, Whole, BackedUp, Ready, Trial, Tried, Returned, Half,
         Found
<1> QED  BY <1>1, <1>2 DEF UpdateInv

LEMMA ExchangeFilesKeeps ==
  ASSUME UpdateInv, SingleFault, ExchangeFiles
  PROVE  UpdateInv'
<1> USE OneFault
<1>1. UpdateTypeOK'
  BY DEF UpdateInv, UpdateTypeOK, ExchangeFiles, Places, Versions, Fail, Situation,
         Activates, Undoes, RollsBack,
     Trial, Tried, Returned, Ready, Half, AtRest
<1>2. Situation'
  BY DEF UpdateInv, UpdateTypeOK, Situation, Serves, Activates, Undoes, Starts, RollsBack,
         ExchangeFiles, Fail, AtRest, Whole, BackedUp, Ready, Trial, Tried, Returned, Half,
         Found
<1> QED  BY <1>1, <1>2 DEF UpdateInv

LEMMA MarkActivatedKeeps ==
  ASSUME UpdateInv, SingleFault, MarkActivated
  PROVE  UpdateInv'
<1> USE OneFault
<1>1. UpdateTypeOK'
  BY DEF UpdateInv, UpdateTypeOK, MarkActivated, Places, Versions, Fail
<1>2. Situation'
  BY DEF UpdateInv, UpdateTypeOK, Situation, Serves, Activates, Undoes, Starts, RollsBack,
         MarkActivated, Fail, AtRest, Whole, BackedUp, Ready, Trial, Tried, Returned, Half,
         Found
<1> QED  BY <1>1, <1>2 DEF UpdateInv

LEMMA UndoKeeps ==
  ASSUME UpdateInv, SingleFault, Undo
  PROVE  UpdateInv'
<1> USE OneFault
<1>1. UpdateTypeOK'
  BY DEF UpdateInv, UpdateTypeOK, Undo, Places, Versions, Fail, Situation, Activates,
         Undoes, RollsBack,
     Trial, Tried, Returned, Ready, Half, AtRest
<1>2. Situation'
  BY DEF UpdateInv, UpdateTypeOK, Situation, Serves, Activates, Undoes, Starts, RollsBack,
         Undo, Fail, AtRest, Whole, BackedUp, Ready, Trial, Tried, Returned, Half, Found
<1> QED  BY <1>1, <1>2 DEF UpdateInv

LEMMA ExecKeeps ==
  ASSUME UpdateInv, SingleFault, Exec
  PROVE  UpdateInv'
<1> USE OneFault
<1>1. UpdateTypeOK'
  BY DEF UpdateInv, UpdateTypeOK, Exec, Places, Versions, Fail
<1>2. Situation'
  BY DEF UpdateInv, UpdateTypeOK, Situation, Serves, Activates, Undoes, Starts, RollsBack,
         Exec, Fail, AtRest, Whole, BackedUp, Ready, Trial, Tried, Returned, Half, Found
<1> QED  BY <1>1, <1>2 DEF UpdateInv

-----------------------------------------------------------------------------
(* Startup *)

LEMMA StartKeeps ==
  ASSUME UpdateInv, SingleFault, Start
  PROVE  UpdateInv'
<1> USE OneFault
<1>1. UpdateTypeOK'
  BY DEF UpdateInv, UpdateTypeOK, Start, Places, Versions, Fail
<1>2. Situation'
  BY DEF UpdateInv, UpdateTypeOK, Situation, Serves, Activates, Undoes, Starts, RollsBack,
         Start, Fail, AtRest, Whole, BackedUp, Ready, Trial, Tried, Returned, Half, Found
<1> QED  BY <1>1, <1>2 DEF UpdateInv

LEMMA EnsureKeyKeeps ==
  ASSUME UpdateInv, SingleFault, EnsureKey
  PROVE  UpdateInv'
<1> USE OneFault, WrittenIs
<1>1. UpdateTypeOK'
  BY DEF UpdateInv, UpdateTypeOK, EnsureKey, Places, Versions, Fail, Contents, Names
<1>2. Situation'
  BY DEF UpdateInv, UpdateTypeOK, Situation, Serves, Activates, Undoes, Starts, RollsBack,
         EnsureKey, Fail, AtRest, Whole, BackedUp, Ready, Trial, Tried, Returned, Half,
         Found
<1> QED  BY <1>1, <1>2 DEF UpdateInv

LEMMA BeginStartupKeeps ==
  ASSUME UpdateInv, SingleFault, BeginStartup
  PROVE  UpdateInv'
<1> USE OneFault, WrittenIs
<1>1. UpdateTypeOK'
  BY DEF UpdateInv, UpdateTypeOK, BeginStartup, Places, Versions, Fail
<1>2. Situation'
  BY DEF UpdateInv, UpdateTypeOK, Situation, Serves, Activates, Undoes, Starts, RollsBack,
         BeginStartup, Fail, AtRest, Whole, BackedUp, Ready, Trial, Tried, Returned, Half,
         Found
<1> QED  BY <1>1, <1>2 DEF UpdateInv

LEMMA ForgetKeeps ==
  ASSUME UpdateInv, SingleFault, Forget
  PROVE  UpdateInv'
<1> USE OneFault
<1>1. UpdateTypeOK'
  BY DEF UpdateInv, UpdateTypeOK, Forget, Places, Versions, Fail
<1>2. Situation'
  BY DEF UpdateInv, UpdateTypeOK, Situation, Serves, Activates, Undoes, Starts, RollsBack,
         Forget, Fail, AtRest, Whole, BackedUp, Ready, Trial, Tried, Returned, Half, Found
<1> QED  BY <1>1, <1>2 DEF UpdateInv

LEMMA OpenKeeps ==
  ASSUME UpdateInv, SingleFault, Open
  PROVE  UpdateInv'
<1>1. UpdateTypeOK'
  BY OneFault, WrittenIs DEF UpdateInv, UpdateTypeOK, Open, Places, Versions, Fail,
     Contents, Names, AfterError, Opens, Opened
<1> SUFFICES Situation'
  BY <1>1 DEF UpdateInv
<1>2. pc = "open" /\ UpdateTypeOK
  BY DEF UpdateInv, Open
<1>3. CASE recovery = "none" /\ AtRest(running)
  <2>1. state' = state
    BY <1>2, <1>3, WrittenIs DEF Open, Opens, Opened, AtRest, Whole, Written, Names, UpdateTypeOK,
       Versions
  <2>2. /\ pc' \in {"serve", "down"} /\ running' \in {"old", "new"}
        /\ UNCHANGED <<executable, running, recovery>>
    BY <1>2, <1>3 DEF Open, AfterError, Fail, UpdateTypeOK, Versions
  <2>3. AtRest(running)'
    BY <1>2, <1>3, <2>1, <2>2 DEF Open, AtRest, Whole
  <2> QED  BY <1>2, <1>3, <2>2, <2>3 DEF Situation, Serves, Activates, Undoes, Starts,
        RollsBack, Found, AtRest,
       Whole
<1>4. CASE recovery = "fresh" /\ Tried
  <2>1. UNCHANGED <<executable, previous, marker, attempts, backup, running, recovery>>
    BY DEF Open, Fail
  <2>2. running = "new"
    BY <1>2, <1>4 DEF UpdateInv, Situation, Starts, Tried, Trial
  <2>3. CASE state' = state /\ pc' \in {"rollback", "down"}
    <3>1. Tried' /\ Found' /\ recovery' = "fresh"
      BY <1>4, <2>1, <2>3 DEF Tried, Trial, Found, Whole, BackedUp
    <3> QED  BY <2>3, <3>1 DEF Situation, Serves, Activates, Undoes, Starts, RollsBack
  <2>4. CASE Whole("new")' /\ pc' = "probe"
    <3>1. Tried' /\ recovery' = "fresh" /\ running' = "new"
      BY <1>4, <2>1, <2>2, <2>4 DEF Tried, Trial, Whole, BackedUp
    <3> QED  BY <2>4, <3>1 DEF Situation, Serves, Activates, Undoes, Starts, RollsBack
  <2>5. Opens => \A t \in Names : t # "authKey" => state[t] \notin {"absent", "empty"}
    BY <1>4, WrittenIs DEF Tried, Trial, Whole, Written, Names
  <2>6. state["authKey"] = "key"
    BY <1>4, WrittenIs DEF Tried, Trial, Whole, Written, Names
  <2>7. (state' = state /\ pc' \in {"rollback", "down"}) \/ (Whole("new")' /\ pc' = "probe")
    BY <1>2, <1>4, <2>2, <2>5, <2>6 DEF Open, Opened, Fail, AfterError, Whole, Written, Names
  <2> QED  BY <2>3, <2>4, <2>7
<1> QED  BY <1>2, <1>3, <1>4 DEF UpdateInv, Situation, Starts

LEMMA ProbeKeeps ==
  ASSUME UpdateInv, SingleFault, Probe
  PROVE  UpdateInv'
<1> USE OneFault
<1>1. UpdateTypeOK'
  BY DEF UpdateInv, UpdateTypeOK, Probe, Places, Versions, Fail
<1>2. Situation'
  BY DEF UpdateInv, UpdateTypeOK, Situation, Serves, Activates, Undoes, Starts, RollsBack,
         Probe, Fail, AtRest, Whole, BackedUp, Ready, Trial, Tried, Returned, Half, Found
<1> QED  BY <1>1, <1>2 DEF UpdateInv

LEMMA ConfirmStartupKeeps ==
  ASSUME UpdateInv, SingleFault, ConfirmStartup
  PROVE  UpdateInv'
<1> USE OneFault
<1>1. UpdateTypeOK'
  BY DEF UpdateInv, UpdateTypeOK, ConfirmStartup, Places, Versions, Fail
<1>2. Situation'
  BY DEF UpdateInv, UpdateTypeOK, Situation, Serves, Activates, Undoes, Starts, RollsBack,
         ConfirmStartup, Fail, AtRest, Whole, BackedUp, Ready, Trial, Tried, Returned,
         Half, Found
<1> QED  BY <1>1, <1>2 DEF UpdateInv

-----------------------------------------------------------------------------
(* Rollback *)

LEMMA RollbackExchangeKeeps ==
  ASSUME UpdateInv, SingleFault, RollbackExchange
  PROVE  UpdateInv'
<1> USE OneFault
<1>1. UpdateTypeOK'
  BY WrittenIs DEF UpdateInv, UpdateTypeOK, RollbackExchange, Places, Versions, Fail,
     Situation, Activates, Undoes, RollsBack,
     Trial, Tried, Returned, Ready, Half, AtRest, Targets, Names, Contents, NothingSaved
<1> SUFFICES Situation'
  BY <1>1 DEF UpdateInv
<1>2. \/ recovery = "fresh" /\ Tried
      \/ recovery = "fresh" /\ faults = 1 /\ (Trial \/ (AtRest("new") /\ BackedUp))
      \/ recovery = "restored" /\ Half
  BY DEF UpdateInv, Situation, RollsBack, RollbackExchange
<1>3. UNCHANGED <<marker, attempts, state, backup, recovery>>
  BY DEF RollbackExchange
<1>4. CASE pc' = "down" /\ previous = "none" /\ UNCHANGED <<executable, previous>>
  <2>1. AtRest("new")
    BY <1>2, <1>4 DEF Tried, Trial, Half, Returned
  <2>2. AtRest("new")'
    BY <2>1, <1>3, <1>4 DEF AtRest, Whole
  <2> QED  BY <1>4, <2>2 DEF Situation, Serves, Activates, Undoes, Starts, RollsBack, Found
<1>5. CASE pc' = "down" /\ faults = 0 /\ UNCHANGED <<executable, previous>>
  <2>1. Tried
    BY <1>2, <1>5 DEF Half
  <2>2. Tried'
    BY <2>1, <1>3, <1>5 DEF Tried, Trial, Whole, BackedUp
  <2> QED  BY <1>5, <2>2 DEF Situation, Serves, Activates, Undoes, Starts, RollsBack,
        Found, Tried
<1>6. CASE /\ pc' = "moveAside" /\ previous # "none" /\ faults' = faults
           /\ IF recovery = "fresh" THEN Exchange ELSE UNCHANGED <<executable, previous>>
           /\ saved' = NothingSaved /\ next' = 1
  <2>1. Returned'
    BY <1>2, <1>3, <1>6 DEF Tried, Trial, AtRest, Half, Returned, BackedUp, UpdateInv,
       UpdateTypeOK,
       Versions
  <2>2. Restored(next)'
    BY <1>6 DEF Restored
  <2>3. faults' = 1 \/ Traced(next)'
    <3>1. CASE recovery = "fresh" /\ Tried
      <4>1. PICK v \in Versions : Whole(v)
        BY <3>1 DEF Tried, Trial, Versions
      <4>2. Aside(v, 1)'
        BY <1>3, <1>6, <4>1 DEF Aside, Whole, NothingSaved, Names, Targets
      <4> QED  BY <1>3, <1>6, <3>1, <4>2 DEF Traced, Tried
    <3> QED  BY <1>2, <1>6, <3>1 DEF Half
  <2> QED  BY <1>6, <2>1, <2>2, <2>3 DEF Situation, Serves, Activates, Undoes, Starts,
        RollsBack
<1> QED  BY <1>4, <1>5, <1>6 DEF RollbackExchange, Fail, UpdateInv

LEMMA MoveAsideKeeps ==
  ASSUME UpdateInv, SingleFault, MoveAside
  PROVE  UpdateInv'
<1> USE OneFault
<1>1. UpdateTypeOK'
  BY WrittenIs DEF UpdateInv, UpdateTypeOK, MoveAside, Places, Versions, Fail, Targets,
     Names, Contents, NothingSaved
<1> SUFFICES Situation'
  BY <1>1 DEF UpdateInv
<1> DEFINE t == Targets[next]
<1>2. Returned /\ next \in 1..3 /\ Restored(next) /\ (faults = 1 \/ Traced(next))
  BY DEF UpdateInv, UpdateTypeOK, Situation, RollsBack, MoveAside
<1>3. UNCHANGED <<executable, previous, marker, attempts, backup, next, recovery>>
  BY DEF MoveAside
<1>4. Returned'
  BY <1>2, <1>3 DEF Returned, BackedUp
<1>5. CASE pc' = "revert" /\ faults = 0 /\ faults' = 1 /\ UNCHANGED <<saved, state>>
  <2>1. Traced(next)'
    BY <1>2, <1>3, <1>5 DEF Traced, Aside
  <2> QED  BY <1>4, <1>5, <2>1 DEF Situation, Serves, Activates, Undoes, Starts, RollsBack,
        Traced
<1>6. CASE /\ pc' = "install" /\ faults' = faults
           /\ saved' = [saved EXCEPT ![t] = IF state[t] = "absent" THEN "none" ELSE state[t]]
           /\ state' = [state EXCEPT ![t] = "absent"]
  <2>1. Restored(next)'
    BY <1>2, <1>3, <1>6 DEF Restored, UpdateInv, UpdateTypeOK, Targets, Names
  <2>2. faults' = 1 \/ Traced(next + 1)'
    <3>1. SUFFICES ASSUME Traced(next)  PROVE Traced(next + 1)'
      BY <1>2, <1>6
    <3>2. PICK v \in Versions : Aside(v, next)
      BY <3>1 DEF Traced
    <3>3. Aside(v, next + 1)'
      BY <1>2, <1>3, <1>6, <3>2, WrittenIs DEF Aside, UpdateInv, UpdateTypeOK, Targets,
         Names, Versions
    <3> QED  BY <1>3, <3>1, <3>3 DEF Traced
  <2> QED  BY <1>2, <1>3, <1>4, <1>6, <2>1, <2>2 DEF Situation, Serves, Activates, Undoes,
        Starts, RollsBack
<1> QED  BY <1>5, <1>6 DEF MoveAside, Fail, UpdateInv

LEMMA InstallKeeps ==
  ASSUME UpdateInv, SingleFault, Install
  PROVE  UpdateInv'
<1> USE OneFault, WrittenIs
<1> DEFINE t == Targets[next]
<1>2. Returned /\ next \in 1..3 /\ Restored(next) /\ (faults = 1 \/ Traced(next + 1))
  BY DEF UpdateInv, UpdateTypeOK, Situation, RollsBack, Install
<1>1. UpdateTypeOK'
  BY <1>2, WrittenIs
  DEF UpdateInv, UpdateTypeOK, Install, Places, Versions, Fail, Returned, BackedUp,
      Targets, Names
<1> SUFFICES Situation'
  BY <1>1 DEF UpdateInv
<1>3. UNCHANGED <<executable, previous, marker, attempts, backup, saved, recovery>>
  BY DEF Install
<1>4. Returned'
  BY <1>2, <1>3 DEF Returned, BackedUp
<1>5. CASE pc' = "revert" /\ faults = 0 /\ faults' = 1 /\ UNCHANGED <<state, next>>
  <2>1. Traced(next + 1)'
    BY <1>2, <1>3, <1>5 DEF Traced, Aside
  <2> QED  BY <1>4, <1>5, <2>1 DEF Situation, Serves, Activates, Undoes, Starts, RollsBack,
        Traced
<1>6. ASSUME next' = next + 1, state' = [state EXCEPT ![t] = backup[t]]
      PROVE  /\ Restored(next)'
             /\ Traced(next + 1) => Traced(next)'
             /\ next = 3 => Whole("old")'
  <2>1. Restored(next)'
    BY <1>2, <1>3, <1>6 DEF Restored, UpdateInv, UpdateTypeOK, Targets, Names
  <2>2. ASSUME Traced(next + 1)  PROVE Traced(next)'
    <3>1. PICK v \in Versions : Aside(v, next + 1)
      BY <2>2 DEF Traced
    <3>2. Aside(v, next)'
      BY <1>2, <1>3, <1>6, <3>1 DEF Aside, UpdateInv, UpdateTypeOK, Targets, Names
    <3> QED  BY <1>3, <2>2, <3>2 DEF Traced
  <2>3. ASSUME next = 3  PROVE Whole("old")'
    <3>1. \A x \in Names : state'[x] = Written("old")[x]
      BY <1>2, <1>3, <1>6, <2>1, <2>3 DEF Restored, Returned, BackedUp, Targets, Names
    <3> QED  BY <1>1, <3>1, WrittenIs DEF Whole, Written, UpdateTypeOK
  <2> QED  BY <2>1, <2>2, <2>3
<1>7. CASE /\ faults' = faults /\ next' = next + 1
           /\ state' = [state EXCEPT ![t] = backup[t]]
           /\ pc' = IF next = 3 THEN "clearMarker" ELSE "moveAside"
  <2>1. /\ Restored(next)' /\ (next = 3 => Whole("old")')
        /\ faults' = 1 \/ Traced(next)'
    BY <1>2, <1>6, <1>7
  <2>2. CASE next = 3
    BY <1>3, <1>4, <1>7, <2>1, <2>2 DEF Situation, Serves, Activates, Undoes, Starts,
       RollsBack, Traced
  <2>3. CASE next # 3
    BY <1>2, <1>4, <1>7, <2>1, <2>3 DEF Situation, Serves, Activates, Undoes, Starts,
       RollsBack
  <2> QED  BY <2>2, <2>3
<1>8. CASE /\ faults = 0 /\ faults' = 1 /\ next = 3 /\ next' = next + 1
           /\ state' = [state EXCEPT ![t] = backup[t]]
           /\ pc' \in {"revert", "returnBinary"}
  <2>1. Traced(next)' /\ Whole("old")'
    BY <1>2, <1>6, <1>8
  <2>2. marker' = "activated" /\ attempts' = 1
    BY <2>1 DEF Traced
  <2> QED  BY <1>4, <1>8, <2>1, <2>2 DEF Situation, Serves, Activates, Undoes, Starts,
        RollsBack
<1> QED  BY <1>5, <1>7, <1>8 DEF Install, Fail, UpdateInv, Targets

LEMMA RevertKeeps ==
  ASSUME UpdateInv, SingleFault, Revert
  PROVE  UpdateInv'
<1> USE OneFault
<1>1. UpdateTypeOK'
  BY WrittenIs DEF UpdateInv, UpdateTypeOK, Revert, Places, Versions, Fail, Targets, Names,
     Contents, NothingSaved
<1> SUFFICES Situation'
  BY <1>1 DEF UpdateInv
<1>2. /\ faults = 1 /\ Returned /\ marker = "activated" /\ attempts = 1 /\ next \in 1..4
      /\ Traced(next) \/ Traced(next + 1)
  BY DEF UpdateInv, UpdateTypeOK, Situation, RollsBack, Revert, Targets
<1>3. PICK v \in Versions, n \in {next, next + 1} : Aside(v, n)
  BY <1>2 DEF Traced
<1>4. Whole(v)'
  BY <1>2, <1>3, <1>1, WrittenIs DEF Whole, Aside, Revert, Written, Names, Targets, Versions
<1>5. pc' = "returnBinary" /\ UNCHANGED <<executable, previous, marker, attempts, backup, faults>>
  BY DEF Revert
<1>6. Returned' /\ (Whole("old")' \/ Whole("new")')
  BY <1>2, <1>4, <1>5 DEF Returned, BackedUp, Versions
<1> QED  BY <1>2, <1>5, <1>6 DEF Situation, Serves, Activates, Undoes, Starts, RollsBack

LEMMA ReturnBinaryKeeps ==
  ASSUME UpdateInv, SingleFault, ReturnBinary
  PROVE  UpdateInv'
<1> USE OneFault, WrittenIs
<1>1. UpdateTypeOK'
  BY DEF UpdateInv, UpdateTypeOK, ReturnBinary, Places, Versions, Fail, Situation,
         Activates, Undoes, RollsBack,
     Trial, Tried, Returned, Ready, Half, AtRest
<1>2. Situation'
  BY DEF UpdateInv, UpdateTypeOK, Situation, Serves, Activates, Undoes, Starts, RollsBack,
         ReturnBinary, Fail, AtRest, Whole, BackedUp, Ready, Trial, Tried, Returned, Half,
         Found,
         Restored, Aside, Traced, Targets, Versions
<1> QED  BY <1>1, <1>2 DEF UpdateInv

LEMMA RollbackClearKeeps ==
  ASSUME UpdateInv, SingleFault, RollbackClear
  PROVE  UpdateInv'
<1> USE OneFault
<1>1. UpdateTypeOK'
  BY DEF UpdateInv, UpdateTypeOK, RollbackClear, Places, Versions, Fail
<1>2. Situation'
  BY DEF UpdateInv, UpdateTypeOK, Situation, Serves, Activates, Undoes, Starts, RollsBack,
         RollbackClear, Fail, AtRest, Whole, BackedUp, Ready, Trial, Tried, Returned, Half,
         Found,
         Restored, Aside, Traced, Targets, Versions
<1> QED  BY <1>1, <1>2 DEF UpdateInv

LEMMA RestartKeeps ==
  ASSUME UpdateInv, SingleFault, Restart
  PROVE  UpdateInv'
<1> USE OneFault
<1>1. UpdateTypeOK'
  BY DEF UpdateInv, UpdateTypeOK, Restart, Places, Versions, Fail
<1>2. Situation'
  BY DEF UpdateInv, UpdateTypeOK, Situation, Serves, Activates, Undoes, Starts, RollsBack,
         Restart, Fail, AtRest, Whole, BackedUp, Ready, Trial, Tried, Returned, Half,
         Found, Traced
<1> QED  BY <1>1, <1>2 DEF UpdateInv

LEMMA CrashKeeps ==
  ASSUME UpdateInv, SingleFault, Crash
  PROVE  UpdateInv'
<1> USE OneFault
<1>1. UpdateTypeOK'
  BY DEF UpdateInv, UpdateTypeOK, Crash, Places, Versions, Fail
<1>2. pc # "down" /\ faults = 0 /\ faults' = 1 /\ pc' = "down"
  BY DEF UpdateInv, Crash, Fail
<1>3. UNCHANGED <<executable, previous, marker, attempts, state, backup>>
  BY DEF Crash
<1>4. Found \/ Trial \/ (Returned /\ marker = "activated")
  <2>1. pc \in {"backup", "stage", "mark", "exchange", "activate", "exec", "serve", "key", "begin",
               "forgetPrevious", "forgetMarker", "open", "probe", "confirmMarker",
               "confirmPrevious"} => Found \/ Trial
    BY <1>2 DEF UpdateInv, UpdateTypeOK, Versions, Situation, Serves, Activates, Starts,
       Found, Tried
  <2>2. pc \in {"rollback", "moveAside", "install", "clearMarker", "clearPrevious", "restart"} =>
          Found \/ Trial \/ (Returned /\ marker = "activated")
    BY <1>2 DEF UpdateInv, Situation, RollsBack, Found, Tried, Traced
  <2>3. pc \notin {"undoExchange", "undoMarker", "undoPrevious", "revert", "returnBinary"}
    BY <1>2 DEF UpdateInv, Situation, Undoes, RollsBack
  <2> QED  BY <1>2, <2>1, <2>2, <2>3 DEF UpdateInv, UpdateTypeOK, Places
<1>5. Found'
  BY <1>2, <1>3, <1>4 DEF Found, AtRest, Whole, BackedUp, Ready, Trial, Tried, Returned,
     Half
<1>6. Situation'
  BY <1>2, <1>5 DEF Situation, Serves, Activates, Undoes, Starts, RollsBack
<1> QED  BY <1>1, <1>6 DEF UpdateInv

LEMMA InterruptedKeeps ==
  ASSUME UpdateInv, SingleFault, Interrupted
  PROVE  UpdateInv'
<1> USE OneFault
<1>1. UpdateTypeOK'
  BY DEF UpdateInv, UpdateTypeOK, Interrupted, Places, Versions, Fail
<1>2. Situation'
  BY DEF UpdateInv, UpdateTypeOK, Situation, Serves, Activates, Undoes, Starts, RollsBack,
         Interrupted, Fail, AtRest, Whole, BackedUp, Ready, Trial, Tried, Returned, Half,
         Found, Traced
<1> QED  BY <1>1, <1>2 DEF UpdateInv

-----------------------------------------------------------------------------
(* What the invariant gives *)

LEMMA InitEstablishes ==
  Init => UpdateInv
BY WrittenIs DEF Init, UpdateInv, UpdateTypeOK, Situation, Serves, Activates, Undoes,
   Starts,
     RollsBack, AtRest, Whole, NothingSaved, Versions, Places, Contents, Names, Targets

LEMMA NextKeeps ==
  ASSUME UpdateInv, SingleFault, Next
  PROVE  UpdateInv'
BY ApplyKeeps, CreateBackupKeeps, StageNextToExecutableKeeps, MarkPreparedKeeps,
   ExchangeFilesKeeps,
   MarkActivatedKeeps, UndoKeeps, ExecKeeps, StartKeeps, EnsureKeyKeeps, BeginStartupKeeps,
   ForgetKeeps, OpenKeeps, ProbeKeeps, ConfirmStartupKeeps, RollbackExchangeKeeps,
   MoveAsideKeeps,
   InstallKeeps, RevertKeeps, ReturnBinaryKeeps, RollbackClearKeeps, RestartKeeps,
   CrashKeeps
   DEF Next, Activate, Startup, Rollback

LEMMA StutteringKeeps ==
  ASSUME UpdateInv, UNCHANGED vars
  PROVE  UpdateInv'
BY DEF UpdateInv, UpdateTypeOK, Situation, Serves, Activates, Undoes, Starts, RollsBack,
       AtRest,
   Whole, BackedUp, Ready, Trial, Tried, Returned, Half, Found, Restored, Aside, Traced,
   vars

LEMMA OpensTheWhole == UpdateInv => OpensWhole
BY DEF UpdateInv, UpdateTypeOK, Situation, Starts, OpensWhole, AtRest, Tried, Trial, Whole,
       Versions

LEMMA HasWayBack == UpdateInv => WayBack
<1> SUFFICES ASSUME UpdateInv PROVE WayBack
  OBVIOUS
<1>1. ASSUME executable = "new", marker # "none"
      PROVE  previous = "old" /\ BackedUp
  BY <1>1 DEF UpdateInv, UpdateTypeOK, Places, Situation, Serves, Activates, Undoes, Starts,
     RollsBack, AtRest, Ready, Trial, Tried, Returned, Half, Found, Versions
<1>2. ASSUME pc = "open", running = "new", Whole("old")
      PROVE  marker # "none" /\ previous = "old" /\ BackedUp
  BY <1>2, WrittenIs DEF UpdateInv, Situation, Starts, AtRest, Tried, Trial, Whole
<1> QED  BY <1>1, <1>2 DEF WayBack, Whole, BackedUp

LEMMA InvariantHolds ==
  ASSUME SingleFault
  PROVE  Spec => []UpdateInv
<1>1. UpdateInv /\ [Next]_vars => UpdateInv'
  BY NextKeeps, StutteringKeeps
<1> QED  BY <1>1, InitEstablishes, PTL DEF Spec

\* Every variable holds values of its type: executables, marker, state and backup
\* are what activate.go and restore.go put there, with at most one fault.
THEOREM UpdateTypeCorrect ==
  ASSUME SingleFault
  PROVE  Spec => []UpdateTypeOK
BY InvariantHolds, PTL DEF UpdateInv

\* Wherever one step fails or one crash happens, a version that goes on to open
\* the installation state finds all of it.
THEOREM WholeIsOpened ==
  ASSUME SingleFault
  PROVE  Spec => []OpensWhole
BY InvariantHolds, OpensTheWhole, PTL

\* Under the same, an unconfirmed update can be rolled back at any time.
THEOREM WayBackStays ==
  ASSUME SingleFault
  PROVE  Spec => []WayBack
BY InvariantHolds, HasWayBack, PTL

\* The new version has been confirmed.
Confirmed ==
  /\ AtRest("new") /\ pc \in {"down", "key", "begin", "open", "serve"}
  /\ pc # "down" => running = "new" /\ recovery = "none"

LEMMA ConfirmedStep ==
  ASSUME UpdateInv, Confirmed, [Next]_vars
  PROVE  Confirmed'
<1>1. CASE UNCHANGED vars
  BY <1>1 DEF Confirmed, AtRest, Whole, vars
<1>2. CASE Start
  BY <1>2 DEF Start, Confirmed, AtRest, Whole
<1>3. CASE EnsureKey
  BY <1>3, WrittenIs DEF EnsureKey, Confirmed, AtRest, Whole, Fail
<1>4. CASE BeginStartup
  BY <1>4 DEF BeginStartup, Confirmed, AtRest, Whole, Fail
<1>5. CASE Open
  <2>1. state' = state
    BY <1>5, WrittenIs DEF Open, Opens, Opened, Confirmed, AtRest, Whole, Written, Names
  <2> QED  BY <1>5, <2>1 DEF Open, Confirmed, AtRest, Whole, Fail, AfterError
<1>6. CASE Crash
  BY <1>6 DEF Crash, Confirmed, AtRest, Whole, Fail
<1> QED
  BY <1>1, <1>2, <1>3, <1>4, <1>5, <1>6
  DEF Confirmed, Next, Activate, Startup, Rollback, Apply, CreateBackup,
      StageNextToExecutable,
      MarkPrepared, ExchangeFiles, MarkActivated, Undo, Exec, Forget, Probe, ConfirmStartup,
      RollbackExchange, MoveAside, Install, Revert, ReturnBinary, RollbackClear, Restart

\* What the new version has come to serve is not rolled back.
THEOREM ConfirmedIsKept ==
  ASSUME SingleFault
  PROVE  Spec => ConfirmedStays
<1>1. UpdateInv /\ pc = "serve" /\ running = "new" => Confirmed
  BY DEF UpdateInv, Situation, Serves, Confirmed
<1>2. Confirmed => executable = "new" /\ state["database"] = "new"
  BY WrittenIs DEF Confirmed, AtRest, Whole
<1>3. UpdateInv /\ Confirmed /\ [Next]_vars => Confirmed'
  BY ConfirmedStep
<1> QED  BY <1>1, <1>2, <1>3, InvariantHolds, PTL DEF Spec, ConfirmedStays

-----------------------------------------------------------------------------
(* An update happens as a whole or not at all *)

AtomicStep == [Atomic!Next]_<<Phase, Settled, Served>>

\* How far the update is, from the place of the process and the marker.
PhaseIs(p) ==
  \/ /\ pc \in {"probe", "confirmMarker", "confirmPrevious"} /\ p = "trial"
  \/ /\ pc \in {"backup", "stage", "mark"} /\ p = "applying"
  \/ /\ pc \notin {"probe", "confirmMarker", "confirmPrevious", "backup", "stage", "mark"}
     /\ \/ marker # "none" /\ (attempts = 0 \/ pc = "open") /\ p = "applying"
        \/ marker # "none" /\ attempts # 0 /\ pc # "open" /\ p = "returning"
        \/ /\ marker = "none" /\ p = "returning"
           /\ pc \in {"rollback", "moveAside", "install", "revert", "returnBinary", "clearMarker"}
        \/ /\ marker = "none" /\ p = "settled"
           /\ pc \notin {"rollback", "moveAside", "install", "revert", "returnBinary",
                         "clearMarker"}

ServedIs(x) ==
  \/ /\ pc = "serve"
     /\ x = <<running, Written(running)>> /\ executable = running /\ marker = "none"
  \/ /\ pc \in {"probe", "confirmMarker", "confirmPrevious"}
     /\ x = <<"new", Written("new")>> /\ executable = "new"
  \/ /\ pc \notin {"serve", "probe", "confirmMarker", "confirmPrevious"} /\ x = <<>>

SettledIs(x) == x = IF Phase = "settled" /\ executable = "new" THEN "new" ELSE "old"

Mapped == PhaseIs(Phase) /\ ServedIs(Served) /\ SettledIs(Settled)

LEMMA MappedNow == UpdateInv => Mapped
<1> SUFFICES ASSUME UpdateInv  PROVE Mapped
  OBVIOUS
<1>1. PhaseIs(Phase)
  BY DEF PhaseIs, Phase, OnTrial, Applying, Returning, Serving, UpdateInv, UpdateTypeOK, Situation,
     Serves, AtRest
<1>2. ServedIs(Served)
  BY DEF ServedIs, Served, Serving, UpdateInv, Situation, Serves, Starts, AtRest, Tried, Trial,
     Whole
<1> QED BY <1>1, <1>2 DEF Mapped, SettledIs, Settled

LEMMA MappedNext == UpdateInv' => Mapped'
BY MappedNow, PTL

LEMMA NextAtomic ==
  ASSUME UpdateInv, UpdateInv', SingleFault, [Next]_vars
  PROVE  AtomicStep
<1> USE OneFault
    DEF Mapped, PhaseIs, ServedIs, SettledIs, UpdateInv, UpdateTypeOK, Situation, Versions,
        AtomicStep, Atomic!Next, Atomic!Stop, Atomic!Resume, Atomic!Apply, Atomic!Try, Atomic!GiveUp,
        Atomic!Return, Atomic!Settle
<1>1. Mapped /\ Mapped'
  BY MappedNow, MappedNext
<1>2. CASE UNCHANGED vars
  BY <1>2 DEF vars, Phase, OnTrial, Applying, Returning, Serving, Settled, Served
<1>3. CASE Apply
  BY <1>1, <1>3 DEF Apply, Activates
<1>4. CASE CreateBackup
  BY <1>1, <1>4 DEF CreateBackup, Fail, Activates, AtRest
<1>5. CASE StageNextToExecutable
  BY <1>1, <1>5 DEF StageNextToExecutable, Fail, Activates, AtRest
<1>6. CASE MarkPrepared
  BY <1>1, <1>6 DEF MarkPrepared, Fail, Activates, AtRest
<1>7. CASE ExchangeFiles
  BY <1>1, <1>7 DEF ExchangeFiles, Fail, Activates, Ready
<1>8. CASE MarkActivated
  BY <1>1, <1>8 DEF MarkActivated, Fail, Activates, Trial
<1>9. CASE Undo
  BY <1>1, <1>9 DEF Undo, Fail, Undoes, Returned, Ready, Trial, Activates
<1>10. CASE Exec
  BY <1>1, <1>10 DEF Exec, Fail, Activates, Trial
<1>11. CASE Start
  BY <1>1, <1>11 DEF Start
<1>12. CASE EnsureKey
  BY <1>1, <1>12 DEF EnsureKey, Fail
<1>13. CASE BeginStartup
  BY <1>1, <1>13 DEF BeginStartup, Fail, Starts, Found, AtRest, Ready, Half, Returned, Trial
<1>14. CASE Forget
  BY <1>1, <1>14 DEF Forget, Fail, Starts, Ready
<1>15. CASE Open
  BY <1>1, <1>15 DEF Open, Fail, AfterError, Whole, Starts, AtRest, Tried, Trial
<1>16. CASE Probe
  BY <1>1, <1>16 DEF Probe, Fail, Starts, Tried, Trial
<1>17. CASE ConfirmStartup
  BY <1>1, <1>17 DEF ConfirmStartup, Fail, Starts, AtRest, Tried, Trial, Whole
<1>18. CASE RollbackExchange
  BY <1>1, <1>18 DEF RollbackExchange, Fail, RollsBack, Tried, Trial, Half, Returned, AtRest
<1>19. CASE MoveAside
  BY <1>1, <1>19 DEF MoveAside, Fail, RollsBack
<1>20. CASE Install
  BY <1>1, <1>20 DEF Install, Fail, RollsBack
<1>21. CASE Revert
  BY <1>1, <1>21 DEF Revert, Fail, RollsBack
<1>22. CASE ReturnBinary
  BY <1>1, <1>22 DEF ReturnBinary, Fail, RollsBack
<1>23. CASE RollbackClear
  BY <1>1, <1>23 DEF RollbackClear, Fail, RollsBack, Returned
<1>24. CASE Restart
  BY <1>1, <1>24 DEF Restart, Fail, RollsBack
<1>25. CASE Crash
  BY <1>1, <1>25 DEF Crash, Fail, Serves, Activates, Undoes, Starts, RollsBack, AtRest, Tried, Trial
<1> QED
  BY <1>2, <1>3, <1>4, <1>5, <1>6, <1>7, <1>8, <1>9, <1>10, <1>11, <1>12, <1>13, <1>14, <1>15,
     <1>16, <1>17, <1>18, <1>19, <1>20, <1>21, <1>22, <1>23, <1>24, <1>25
  DEF Next, Activate, Startup, Rollback

LEMMA InitAtomic == Init => Atomic!Init
BY DEF Init, Atomic!Init, Phase, OnTrial, Applying, Returning, Serving, Settled, Served

\* Wherever one step fails or one crash happens, visitors meet the new version
\* unconfirmed once an update, over the whole state it migrated; the installation
\* settles on it for good, or the next to serve is the old version with the
\* whole state of before the update.
THEOREM UpdatesAreAtomic ==
  ASSUME SingleFault
  PROVE  Spec => UpdatesAtomically
<1>1. UpdateInv /\ UpdateInv' /\ [Next]_vars =>
        [Atomic!Next]_<<Phase, Settled, Served>>
  BY NextAtomic DEF AtomicStep
<1> QED
  BY <1>1, InitAtomic, InvariantHolds, PTL DEF Spec, UpdatesAtomically, Atomic!Spec

-----------------------------------------------------------------------------
(* The manager *)


USE ManagerAssumption
USE DEF IdleLoop, Looping, disk, process, restoring

-----------------------------------------------------------------------------
(* The manager's memory *)

NumbersTyped ==
  /\ {published, latest, target, applyRequests} \subseteq Releases
  /\ changes \in 0..MaxChanges

PolicyTyped ==
  /\ policy \in [database : Settings, backup : Settings, aside : Settings]
  /\ settings \in Settings /\ agreed \in Settings /\ confirmed \in BOOLEAN

LoopTyped ==
  /\ checking \in BOOLEAN /\ applying \in BOOLEAN
  /\ loop \in [at : {"idle", "checking", "deciding", "staging"}, release : Releases]

ActionsTyped == actions \in Seq({"check", "apply"}) /\ Len(actions) <= MaxActions

HandlerTyped ==
  handler \in [at : {"none", "saving", "saved"}, kind : {"none", "mode", "skip", "clear"},
               settings : Settings]

MemoryTyped == NumbersTyped /\ PolicyTyped /\ LoopTyped /\ ActionsTyped /\ HandlerTyped

LEMMA SettingsAre ==
  /\ Default \in Settings /\ 0 \in Releases
  /\ \A old \in Settings, mode \in Modes : [old EXCEPT !.mode = mode] \in Settings
  /\ \A old \in Settings, release \in Releases : [old EXCEPT !.skipped = release] \in Settings
BY DEF Settings, Default, Modes, Releases

LEMMA NoHandlerTyped ==
  NoHandler \in [at : {"none", "saving", "saved"}, kind : {"none", "mode", "skip", "clear"},
                 settings : Settings]
BY SettingsAre DEF NoHandler

\* What is staged is a release.
StagesRelease == loop.at = "staging" => loop.release # 0

WorkInv == MemoryTyped /\ OneWorker /\ StagesRelease

LEMMA QueuedTyped ==
  ASSUME MemoryTyped, NEW kind \in {"check", "apply"}
  PROVE  Queued(kind) \in Seq({"check", "apply"}) /\ Len(Queued(kind)) <= MaxActions
BY DEF MemoryTyped, ActionsTyped, Queued

LEMMA BeginsWorks ==
  ASSUME NEW found \in Settings, Begins(found), WorkInv,
         published' \in Releases, target' \in Releases, changes' \in 0..MaxChanges,
         policy' \in [database : Settings, backup : Settings, aside : Settings],
         agreed' \in Settings, confirmed' \in BOOLEAN
  PROVE  WorkInv'
<1>1. MemoryTyped'
  <2>1. NumbersTyped' /\ PolicyTyped'
    BY SettingsAre DEF Begins, NumbersTyped, PolicyTyped
  <2>2. LoopTyped' /\ HandlerTyped'
    BY SettingsAre, NoHandlerTyped DEF Begins, LoopTyped, HandlerTyped
  <2>3. ActionsTyped'
    BY DEF Begins, ActionsTyped
  <2> QED  BY <2>1, <2>2, <2>3 DEF MemoryTyped
<1>2. OneWorker' /\ StagesRelease'
  BY DEF Begins, OneWorker, StagesRelease
<1> QED  BY <1>1, <1>2 DEF WorkInv

LEMMA SameWork ==
  ASSUME WorkInv, MemoryTyped', UNCHANGED <<checking, applying, loop, applyRequests>>
  PROVE  WorkInv'
BY DEF WorkInv, OneWorker, StagesRelease

LEMMA HandleWorks ==
  ASSUME WorkInv, Handle
  PROVE  WorkInv'
<1>0. MemoryTyped
  BY DEF WorkInv
<1>1. ASSUME NEW kind \in {"check", "apply"}, QueueAction(kind)  PROVE WorkInv'
  <2>1. ActionsTyped'
    BY <1>0, <1>1, QueuedTyped DEF QueueAction, ActionsTyped
  <2>2. (NumbersTyped /\ PolicyTyped /\ LoopTyped /\ HandlerTyped)'
    BY <1>0, <1>1 DEF QueueAction, MemoryTyped, NumbersTyped, PolicyTyped, LoopTyped,
       HandlerTyped
  <2> QED  BY <1>1, <2>1, <2>2, SameWork DEF QueueAction, MemoryTyped
<1>2. ASSUME NEW kind \in {"mode", "skip", "clear"}, NEW changed \in Settings, Change(kind, changed)
      PROVE  WorkInv'
  <2>1. HandlerTyped'
    BY <1>2 DEF Change, HandlerTyped
  <2>2. NumbersTyped'
    BY <1>0, <1>2 DEF Change, MemoryTyped, NumbersTyped
  <2>3. (PolicyTyped /\ LoopTyped /\ ActionsTyped)'
    BY <1>0, <1>2 DEF Change, MemoryTyped, PolicyTyped, LoopTyped, ActionsTyped
  <2> QED  BY <1>2, <2>1, <2>2, <2>3, SameWork DEF Change, MemoryTyped
<1>3. ASSUME NEW mode \in Modes, SetMode(mode)  PROVE WorkInv'
  BY <1>0, <1>2, <1>3, SettingsAre DEF SetMode, MemoryTyped, PolicyTyped
<1>4. ASSUME SkipLatest  PROVE WorkInv'
  BY <1>0, <1>2, <1>4, SettingsAre DEF SkipLatest, MemoryTyped, PolicyTyped, NumbersTyped
<1>5. ASSUME ClearSkipped  PROVE WorkInv'
  BY <1>0, <1>2, <1>5, SettingsAre DEF ClearSkipped, MemoryTyped, PolicyTyped
<1>6. ASSUME Save  PROVE WorkInv'
  <2>1. handler.settings \in Settings
    BY <1>0 DEF MemoryTyped, HandlerTyped
  <2>2. PolicyTyped'
    BY <1>0, <1>6, <2>1 DEF Save, MemoryTyped, PolicyTyped
  <2>3. HandlerTyped'
    BY <1>0, <1>6, NoHandlerTyped DEF Save, MemoryTyped, HandlerTyped
  <2>4. (NumbersTyped /\ LoopTyped /\ ActionsTyped)'
    BY <1>0, <1>6 DEF Save, MemoryTyped, NumbersTyped, LoopTyped, ActionsTyped
  <2> QED  BY <1>6, <2>2, <2>3, <2>4, SameWork DEF Save, MemoryTyped
<1>7. ASSUME Adopt  PROVE WorkInv'
  <2>1. handler.settings \in Settings
    BY <1>0 DEF MemoryTyped, HandlerTyped
  <2>2. PolicyTyped' /\ HandlerTyped'
    BY <1>0, <1>7, <2>1, NoHandlerTyped DEF Adopt, MemoryTyped, PolicyTyped, HandlerTyped
  <2>3. ActionsTyped'
    BY <1>0, <1>7, QueuedTyped DEF Adopt, MemoryTyped, ActionsTyped
  <2>4. (NumbersTyped /\ LoopTyped)'
    BY <1>0, <1>7 DEF Adopt, MemoryTyped, NumbersTyped, LoopTyped
  <2> QED  BY <1>7, <2>2, <2>3, <2>4, SameWork DEF Adopt, MemoryTyped
<1> QED  BY <1>1, <1>3, <1>4, <1>5, <1>6, <1>7 DEF Handle

LEMMA BeginCheckWorks ==
  ASSUME WorkInv, loop.at = "idle", BeginCheck, UNCHANGED applyRequests
  PROVE  LoopTyped' /\ OneWorker' /\ StagesRelease'
<1>1. CASE UNCHANGED <<checking, applying, loop>>
  BY <1>1 DEF WorkInv, MemoryTyped, LoopTyped, OneWorker, StagesRelease
<1>2. CASE /\ ~applying
           /\ checking' = TRUE /\ applying' = FALSE /\ loop' = [at |-> "checking", release |-> 0]
  <2>1. LoopTyped'
    BY <1>2, SettingsAre DEF LoopTyped
  <2>2. applyRequests = 0
    BY <1>2 DEF WorkInv, OneWorker
  <2>3. loop'.at = "checking" /\ checking' /\ ~applying' /\ applyRequests' = 0
    BY <1>2, <2>2
  <2> QED  BY <2>1, <2>3 DEF OneWorker, StagesRelease
<1> QED  BY <1>1, <1>2 DEF BeginCheck

LEMMA BeginApplyWorks ==
  ASSUME WorkInv, loop.at \in {"idle", "deciding"}, BeginApply, UNCHANGED applyRequests
  PROVE  LoopTyped' /\ OneWorker' /\ StagesRelease'
<1>1. CASE /\ Available /\ ~applying
           /\ applying' = TRUE /\ checking' = FALSE
           /\ loop' = [at |-> "staging", release |-> latest]
  <2>1. latest \in Releases /\ latest # 0
    BY <1>1 DEF Available, WorkInv, MemoryTyped, NumbersTyped
  <2>2. LoopTyped'
    BY <1>1, <2>1 DEF LoopTyped
  <2>3. applyRequests = 0
    BY <1>1 DEF WorkInv, OneWorker
  <2>4. loop'.at = "staging" /\ loop'.release # 0 /\ applying' /\ ~checking' /\ applyRequests' = 0
    BY <1>1, <2>1, <2>3
  <2> QED  BY <2>2, <2>4 DEF OneWorker, StagesRelease
<1>2. CASE loop' = IdleLoop /\ UNCHANGED <<checking, applying>>
  <2>1. LoopTyped'
    BY <1>2, SettingsAre DEF WorkInv, MemoryTyped, LoopTyped
  <2>2. loop'.at = "idle"
    BY <1>2
  <2> QED  BY <1>2, <2>1, <2>2 DEF WorkInv, OneWorker, StagesRelease
<1> QED  BY <1>1, <1>2 DEF BeginApply

LEMMA LoopWorks ==
  ASSUME WorkInv, Loop
  PROVE  WorkInv'
<1>0. MemoryTyped
  BY DEF WorkInv
<1> DEFINE Others == NumbersTyped /\ PolicyTyped /\ HandlerTyped
<1>1. ASSUME Tick  PROVE WorkInv'
  <2>1. Others' /\ ActionsTyped'
    BY <1>0, <1>1 DEF Tick, MemoryTyped, NumbersTyped, PolicyTyped, HandlerTyped,
       ActionsTyped
  <2> QED  BY <1>1, <2>1, BeginCheckWorks DEF Tick, WorkInv, MemoryTyped
<1>2. ASSUME TakeAction  PROVE WorkInv'
  <2>1. ActionsTyped'
    BY <1>0, <1>2 DEF TakeAction, MemoryTyped, ActionsTyped
  <2>2. Others'
    BY <1>0, <1>2 DEF TakeAction, MemoryTyped, NumbersTyped, PolicyTyped, HandlerTyped
  <2>3. (LoopTyped /\ OneWorker /\ StagesRelease)'
    BY <1>2, BeginCheckWorks, BeginApplyWorks DEF TakeAction
  <2> QED  BY <2>1, <2>2, <2>3 DEF WorkInv, MemoryTyped
<1>3. ASSUME FinishCheck  PROVE WorkInv'
  <2>1. (PolicyTyped /\ HandlerTyped /\ ActionsTyped)'
    BY <1>0, <1>3 DEF FinishCheck, MemoryTyped, PolicyTyped, HandlerTyped, ActionsTyped
  <2>2. checking' = FALSE /\ UNCHANGED <<applying, applyRequests>> /\ loop.at = "checking"
        /\ loop' \in {IdleLoop, [at |-> "deciding", release |-> 0]}
        /\ latest' \in {latest, published, 0} /\ UNCHANGED <<published, target, changes>>
    BY <1>3 DEF FinishCheck
  <2>3. NumbersTyped' /\ LoopTyped'
    <3>1. NumbersTyped'
      BY <1>0, <2>2, SettingsAre DEF MemoryTyped, NumbersTyped
    <3>2. LoopTyped'
      <4>1. IdleLoop.at = "idle" /\ 0 \in Releases
        BY SettingsAre
      <4>2. CASE loop' = IdleLoop
        BY <1>0, <2>2, <4>1, <4>2 DEF MemoryTyped, LoopTyped
      <4>3. CASE loop' = [at |-> "deciding", release |-> 0]
        BY <1>0, <2>2, <4>1, <4>3 DEF MemoryTyped, LoopTyped
      <4> QED  BY <2>2, <4>2, <4>3
    <3> QED  BY <3>1, <3>2
  <2>4. loop'.at \in {"idle", "deciding"}
    BY <2>2
  <2> QED  BY <2>1, <2>2, <2>3, <2>4 DEF WorkInv, MemoryTyped, OneWorker, StagesRelease
<1>4. ASSUME ApplyFound  PROVE WorkInv'
  <2>1. Others' /\ ActionsTyped'
    BY <1>0, <1>4 DEF ApplyFound, MemoryTyped, NumbersTyped, PolicyTyped, HandlerTyped,
       ActionsTyped
  <2> QED  BY <1>4, <2>1, BeginApplyWorks DEF ApplyFound, WorkInv, MemoryTyped
<1>5. ASSUME FinishStage  PROVE WorkInv'
  <2>1. (PolicyTyped /\ HandlerTyped /\ ActionsTyped)'
    BY <1>0, <1>5 DEF FinishStage, MemoryTyped, PolicyTyped, HandlerTyped, ActionsTyped
  <2>2. /\ loop.at = "staging" /\ loop' = IdleLoop
        /\ UNCHANGED <<checking, latest, published, target, changes>>
    BY <1>5 DEF FinishStage
  <2>3. loop.release # 0 /\ loop.release \in Releases /\ applyRequests = 0 /\ applying /\ ~checking
    BY <1>0, <2>2 DEF WorkInv, OneWorker, StagesRelease, MemoryTyped, LoopTyped
  <2>4. \/ applyRequests' = loop.release /\ applying' = applying
        \/ applyRequests' = 0 /\ applying' = FALSE
    BY <1>5, <2>3 DEF FinishStage
  <2>5. NumbersTyped' /\ LoopTyped'
    BY <1>0, <2>2, <2>3, <2>4, SettingsAre DEF MemoryTyped, NumbersTyped, LoopTyped
  <2>6. loop'.at = "idle"
    BY <2>2
  <2>7. CASE applyRequests' = loop.release /\ applying' = applying
    BY <2>1, <2>2, <2>3, <2>5, <2>6, <2>7 DEF WorkInv, MemoryTyped, OneWorker, StagesRelease
  <2>8. CASE applyRequests' = 0 /\ applying' = FALSE
    BY <2>1, <2>2, <2>3, <2>5, <2>6, <2>8 DEF WorkInv, MemoryTyped, OneWorker, StagesRelease
  <2> QED  BY <2>4, <2>7, <2>8
<1> QED  BY <1>1, <1>2, <1>3, <1>4, <1>5 DEF Loop

\* Where the row of the policy may come from in a step.
LEMMA PolicyMoves ==
  ASSUME PolicyFollows
  PROVE  \/ policy' = policy
         \/ pc = "backup" /\ pc' = "stage" /\ policy' = [policy EXCEPT !.backup = policy.database]
         \/ pc = "moveAside" /\ policy' = [policy EXCEPT !.aside = policy.database]
         \/ pc = "install" /\ policy' = [policy EXCEPT !.database = policy.backup]
         \/ pc = "revert" /\ policy' = [policy EXCEPT !.database = policy.aside]
         \/ /\ pc = "open" /\ state["database"] = "absent"
            /\ policy' = [policy EXCEPT !.database = Default]
BY DEF PolicyFollows

LEMMA ProceedWorks ==
  ASSUME WorkInv, Proceed
  PROVE  WorkInv'
<1>0. MemoryTyped
  BY DEF WorkInv
<1>1. policy' \in [database : Settings, backup : Settings, aside : Settings]
  BY <1>0, PolicyMoves, SettingsAre DEF Proceed, MemoryTyped, PolicyTyped
<1>2. agreed' \in Settings /\ confirmed' \in BOOLEAN
  BY <1>0 DEF Proceed, AgreedFollows, MemoryTyped, PolicyTyped
<1>3. CASE UNCHANGED memory
  <2>1. MemoryTyped'
    BY <1>0, <1>1, <1>2, <1>3 DEF memory, Proceed, MemoryTyped, NumbersTyped, PolicyTyped,
       LoopTyped, ActionsTyped, HandlerTyped
  <2> QED  BY <1>3, <2>1, SameWork DEF memory
<1>4. CASE \E found \in Settings : Begins(found)
  BY <1>0, <1>1, <1>2, <1>4, BeginsWorks DEF Proceed, MemoryTyped, NumbersTyped
<1>5. policy'.database \in Settings /\ Default \in Settings
  BY <1>1, SettingsAre
<1> QED  BY <1>3, <1>4, <1>5 DEF Proceed, MemoryFollows

LEMMA ManagerNextWorks ==
  ASSUME WorkInv, [ManagerNext]_allVars
  PROVE  WorkInv'
<1>0. MemoryTyped /\ Default \in Settings
  BY SettingsAre DEF WorkInv
<1>1. ASSUME HandOver  PROVE WorkInv'
  BY <1>0, <1>1, BeginsWorks DEF HandOver, MemoryTyped, NumbersTyped, PolicyTyped
<1>2. ASSUME Killed  PROVE WorkInv'
  BY <1>0, <1>2, BeginsWorks DEF Killed, MemoryTyped, NumbersTyped, PolicyTyped
<1>3. ASSUME PublishRelease  PROVE WorkInv'
  <2>1. MemoryTyped'
    <3>1. NumbersTyped'
      BY <1>0, <1>3 DEF PublishRelease, memory, MemoryTyped, NumbersTyped, Releases
    <3> QED
      BY <1>0, <1>3, <3>1
      DEF PublishRelease, memory, MemoryTyped, PolicyTyped, LoopTyped, ActionsTyped,
          HandlerTyped
  <2> QED  BY <1>3, <2>1, SameWork DEF PublishRelease, memory
<1>4. ASSUME UNCHANGED allVars  PROVE WorkInv'
  <2>1. MemoryTyped'
    BY <1>0, <1>4 DEF allVars, managerVars, memory, MemoryTyped, NumbersTyped, PolicyTyped,
       LoopTyped, ActionsTyped, HandlerTyped
  <2> QED  BY <1>4, <2>1, SameWork DEF allVars, managerVars, memory
<1> QED
  BY <1>1, <1>2, <1>3, <1>4, HandleWorks, LoopWorks, ProceedWorks DEF ManagerNext

LEMMA ManagerInitWorks == ManagerInit => WorkInv
<1> SUFFICES ASSUME ManagerInit PROVE WorkInv
  OBVIOUS
<1>1. MemoryTyped
  <2>1. NumbersTyped
    BY SettingsAre DEF ManagerInit, NumbersTyped
  <2>2. PolicyTyped
    BY SettingsAre DEF ManagerInit, PolicyTyped
  <2>3. LoopTyped /\ HandlerTyped
    BY SettingsAre, NoHandlerTyped DEF ManagerInit, LoopTyped, HandlerTyped
  <2>4. ActionsTyped
    BY DEF ManagerInit, ActionsTyped
  <2> QED  BY <2>1, <2>2, <2>3, <2>4 DEF MemoryTyped
<1>2. OneWorker /\ StagesRelease
  BY DEF ManagerInit, OneWorker, StagesRelease
<1> QED  BY <1>1, <1>2 DEF WorkInv

LEMMA WorkHolds == ManagerSpec => []WorkInv
BY ManagerInitWorks, ManagerNextWorks, PTL DEF ManagerSpec

\* The flags of the manager tell what it is doing, and it never has a second
\* release in hand while one waits for the server, whatever fails.
THEOREM OneWorkerOnly == ManagerSpec => []OneWorker
BY WorkHolds, PTL DEF WorkInv

-----------------------------------------------------------------------------
(* The policy *)

\* The database has the agreed policy, or the backup has it.
Stored == policy.database = agreed
Kept == policy.backup = agreed

\* Where the agreed policy is while the process is at work ...
StoredWhere ==
  /\ pc \in {"serve", "backup", "stage", "mark", "exchange", "activate", "exec", "undoExchange",
            "undoMarker", "undoPrevious", "forgetPrevious", "forgetMarker", "clearMarker",
            "clearPrevious", "restart"} => Stored
  /\ pc = "open" /\ recovery = "none" /\ running = "old" => Stored
  /\ pc \in {"moveAside", "install"} /\ next > 1 => Stored

KeptWhere ==
  /\ pc \in {"stage", "mark", "exchange", "activate", "exec", "probe", "confirmMarker",
            "confirmPrevious", "rollback", "moveAside", "install", "revert", "returnBinary",
            "clearMarker"} => Kept
  /\ pc = "open" /\ recovery = "fresh" => Kept

\* ... and when it is started or stopped.
FoundWhere ==
  pc \in {"down", "key", "begin"} =>
    /\ executable = "old" /\ marker # "activated" => Stored
    /\ (executable = "new" \/ marker = "activated") /\ marker # "none" => Kept

ConfirmedWhere ==
  /\ confirmed => Confirmed /\ Stored
  /\ pc = "serve" /\ running = "new" => confirmed

RowInv == StoredWhere /\ KeptWhere /\ FoundWhere /\ ConfirmedWhere

\* The manager's copy differs from the row only while a handler has stored its
\* settings and not handed them over.
CopyInv ==
  Serving =>
    /\ settings = policy.database \/ handler.at = "saved"
    /\ handler.at = "saved" => handler.settings = policy.database

LEMMA RowMoves ==
  ASSUME UpdateInv, MemoryTyped, PolicyFollows,
         pc \notin {"backup", "moveAside", "install", "revert"}
  PROVE  policy' = policy
<1>1. pc = "open" => state["database"] # "absent"
  BY OpensTheWhole, WrittenIs DEF OpensWhole
<1> QED  BY <1>1, PolicyMoves

LEMMA AgreedStays ==
  ASSUME MemoryTyped, AgreedFollows, pc' # "serve" \/ running # "new" \/ confirmed
  PROVE  confirmed' = confirmed /\ agreed' = agreed
<1>1. confirmed \in BOOLEAN
  BY DEF MemoryTyped, PolicyTyped
<1>2. confirmed' = confirmed
  BY <1>1 DEF AgreedFollows
<1> QED  BY <1>1, <1>2 DEF AgreedFollows

LEMMA StageNextToExecutableRow ==
  ASSUME UpdateInv, SingleFault, MemoryTyped, RowInv, StageNextToExecutable,
         PolicyFollows, AgreedFollows
  PROVE  RowInv'
<1>1. pc \in {"stage"} /\ pc' # "serve"
  BY DEF StageNextToExecutable, Goto, Fail
<1>2. policy' = policy /\ confirmed' = confirmed /\ agreed' = agreed
  BY <1>1, RowMoves, AgreedStays
<1>3. (Stored' <=> Stored) /\ (Kept' <=> Kept)
  BY <1>2 DEF Stored, Kept
<1>4. ~confirmed
  BY <1>1 DEF RowInv, ConfirmedWhere, Confirmed
<1>5. executable = "old" /\ marker = "none"
  BY <1>1 DEF UpdateInv, Situation, Serves, Activates, Undoes, Starts, RollsBack, AtRest,
     Ready, Trial, Tried, Returned, Half, Found, Traced
<1>6. StoredWhere' /\ KeptWhere' /\ FoundWhere'
  BY <1>1, <1>3, <1>5, OneFault
  DEF RowInv, StoredWhere, KeptWhere, FoundWhere, StageNextToExecutable, Fail, Goto,
      Exchange, UpdateInv
<1>7. ConfirmedWhere'
  BY <1>1, <1>2, <1>4 DEF ConfirmedWhere
<1> QED  BY <1>6, <1>7 DEF RowInv

LEMMA MarkPreparedRow ==
  ASSUME UpdateInv, SingleFault, MemoryTyped, RowInv, MarkPrepared, PolicyFollows, AgreedFollows
  PROVE  RowInv'
<1>1. pc \in {"mark"} /\ pc' # "serve"
  BY DEF MarkPrepared, Goto, Fail
<1>2. policy' = policy /\ confirmed' = confirmed /\ agreed' = agreed
  BY <1>1, RowMoves, AgreedStays
<1>3. (Stored' <=> Stored) /\ (Kept' <=> Kept)
  BY <1>2 DEF Stored, Kept
<1>4. ~confirmed
  BY <1>1 DEF RowInv, ConfirmedWhere, Confirmed
<1>5. executable = "old" /\ marker = "none"
  BY <1>1 DEF UpdateInv, Situation, Serves, Activates, Undoes, Starts, RollsBack, AtRest,
     Ready, Trial, Tried, Returned, Half, Found, Traced
<1>6. StoredWhere' /\ KeptWhere' /\ FoundWhere'
  BY <1>1, <1>3, <1>5, OneFault
  DEF RowInv, StoredWhere, KeptWhere, FoundWhere, MarkPrepared, Fail, Goto, Exchange,
      UpdateInv
<1>7. ConfirmedWhere'
  BY <1>1, <1>2, <1>4 DEF ConfirmedWhere
<1> QED  BY <1>6, <1>7 DEF RowInv

LEMMA ExchangeFilesRow ==
  ASSUME UpdateInv, SingleFault, MemoryTyped, RowInv, ExchangeFiles, PolicyFollows, AgreedFollows
  PROVE  RowInv'
<1>1. pc \in {"exchange"} /\ pc' # "serve"
  BY DEF ExchangeFiles, Goto, Fail
<1>2. policy' = policy /\ confirmed' = confirmed /\ agreed' = agreed
  BY <1>1, RowMoves, AgreedStays
<1>3. (Stored' <=> Stored) /\ (Kept' <=> Kept)
  BY <1>2 DEF Stored, Kept
<1>4. ~confirmed
  BY <1>1 DEF RowInv, ConfirmedWhere, Confirmed
<1>5. executable = "old" /\ marker = "prepared"
  BY <1>1 DEF UpdateInv, Situation, Serves, Activates, Undoes, Starts, RollsBack, AtRest,
     Ready, Trial, Tried, Returned, Half, Found, Traced
<1>6. StoredWhere' /\ KeptWhere' /\ FoundWhere'
  BY <1>1, <1>3, <1>5, OneFault
  DEF RowInv, StoredWhere, KeptWhere, FoundWhere, ExchangeFiles, Fail, Goto, Exchange,
      UpdateInv
<1>7. ConfirmedWhere'
  BY <1>1, <1>2, <1>4 DEF ConfirmedWhere
<1> QED  BY <1>6, <1>7 DEF RowInv

LEMMA MarkActivatedRow ==
  ASSUME UpdateInv, SingleFault, MemoryTyped, RowInv, MarkActivated, PolicyFollows, AgreedFollows
  PROVE  RowInv'
<1>1. pc \in {"activate"} /\ pc' # "serve"
  BY DEF MarkActivated, Goto, Fail
<1>2. policy' = policy /\ confirmed' = confirmed /\ agreed' = agreed
  BY <1>1, RowMoves, AgreedStays
<1>3. (Stored' <=> Stored) /\ (Kept' <=> Kept)
  BY <1>2 DEF Stored, Kept
<1>4. ~confirmed
  BY <1>1 DEF RowInv, ConfirmedWhere, Confirmed
<1>5. executable = "new"
  BY <1>1 DEF UpdateInv, Situation, Serves, Activates, Undoes, Starts, RollsBack, AtRest,
     Ready, Trial, Tried, Returned, Half, Found, Traced
<1>6. StoredWhere' /\ KeptWhere' /\ FoundWhere'
  BY <1>1, <1>3, <1>5, OneFault
  DEF RowInv, StoredWhere, KeptWhere, FoundWhere, MarkActivated, Fail, Goto, Exchange,
      UpdateInv
<1>7. ConfirmedWhere'
  BY <1>1, <1>2, <1>4 DEF ConfirmedWhere
<1> QED  BY <1>6, <1>7 DEF RowInv

LEMMA UndoRow ==
  ASSUME UpdateInv, SingleFault, MemoryTyped, RowInv, Undo, PolicyFollows, AgreedFollows
  PROVE  RowInv'
<1>1. pc \in {"undoExchange", "undoMarker", "undoPrevious"} /\ pc' # "serve"
  BY DEF Undo, Goto, Fail
<1>2. policy' = policy /\ confirmed' = confirmed /\ agreed' = agreed
  BY <1>1, RowMoves, AgreedStays
<1>3. (Stored' <=> Stored) /\ (Kept' <=> Kept)
  BY <1>2 DEF Stored, Kept
<1>4. ~confirmed
  BY <1>1 DEF RowInv, ConfirmedWhere, Confirmed
<1>5. /\ faults = 1
      /\ pc = "undoPrevious" => executable = "old" /\ marker # "activated"
  BY <1>1 DEF UpdateInv, Situation, Serves, Activates, Undoes, Starts, RollsBack, AtRest,
     Ready, Trial, Tried, Returned, Half, Found, Traced
<1>6. StoredWhere' /\ KeptWhere' /\ FoundWhere'
  BY <1>1, <1>3, <1>5, OneFault
  DEF RowInv, StoredWhere, KeptWhere, FoundWhere, Undo, Fail, Goto, Exchange, UpdateInv
<1>7. ConfirmedWhere'
  BY <1>1, <1>2, <1>4 DEF ConfirmedWhere
<1> QED  BY <1>6, <1>7 DEF RowInv

LEMMA ExecRow ==
  ASSUME UpdateInv, SingleFault, MemoryTyped, RowInv, Exec, PolicyFollows, AgreedFollows
  PROVE  RowInv'
<1>1. pc \in {"exec"} /\ pc' # "serve"
  BY DEF Exec, Goto, Fail
<1>2. policy' = policy /\ confirmed' = confirmed /\ agreed' = agreed
  BY <1>1, RowMoves, AgreedStays
<1>3. (Stored' <=> Stored) /\ (Kept' <=> Kept)
  BY <1>2 DEF Stored, Kept
<1>4. ~confirmed
  BY <1>1 DEF RowInv, ConfirmedWhere, Confirmed
<1>5. executable = "new" /\ marker = "activated"
  BY <1>1 DEF UpdateInv, Situation, Serves, Activates, Undoes, Starts, RollsBack, AtRest,
     Ready, Trial, Tried, Returned, Half, Found, Traced
<1>6. StoredWhere' /\ KeptWhere' /\ FoundWhere'
  BY <1>1, <1>3, <1>5, OneFault
  DEF RowInv, StoredWhere, KeptWhere, FoundWhere, Exec, Fail, Goto, Exchange, UpdateInv
<1>7. ConfirmedWhere'
  BY <1>1, <1>2, <1>4 DEF ConfirmedWhere
<1> QED  BY <1>6, <1>7 DEF RowInv

LEMMA ProbeRow ==
  ASSUME UpdateInv, SingleFault, MemoryTyped, RowInv, Probe, PolicyFollows, AgreedFollows
  PROVE  RowInv'
<1>1. pc \in {"probe"} /\ pc' # "serve"
  BY DEF Probe, Goto, Fail
<1>2. policy' = policy /\ confirmed' = confirmed /\ agreed' = agreed
  BY <1>1, RowMoves, AgreedStays
<1>3. (Stored' <=> Stored) /\ (Kept' <=> Kept)
  BY <1>2 DEF Stored, Kept
<1>4. ~confirmed
  BY <1>1 DEF RowInv, ConfirmedWhere, Confirmed
<1>5. executable = "new" /\ marker = "activated"
  BY <1>1 DEF UpdateInv, Situation, Serves, Activates, Undoes, Starts, RollsBack, AtRest,
     Ready, Trial, Tried, Returned, Half, Found, Traced
<1>6. StoredWhere' /\ KeptWhere' /\ FoundWhere'
  BY <1>1, <1>3, <1>5, OneFault
  DEF RowInv, StoredWhere, KeptWhere, FoundWhere, Probe, Fail, Goto, Exchange, UpdateInv
<1>7. ConfirmedWhere'
  BY <1>1, <1>2, <1>4 DEF ConfirmedWhere
<1> QED  BY <1>6, <1>7 DEF RowInv

LEMMA RollbackExchangeRow ==
  ASSUME UpdateInv, SingleFault, MemoryTyped, RowInv, RollbackExchange, PolicyFollows, AgreedFollows
  PROVE  RowInv'
<1>1. pc \in {"rollback"} /\ pc' # "serve"
  BY DEF RollbackExchange, Goto, Fail
<1>2. policy' = policy /\ confirmed' = confirmed /\ agreed' = agreed
  BY <1>1, RowMoves, AgreedStays
<1>3. (Stored' <=> Stored) /\ (Kept' <=> Kept)
  BY <1>2 DEF Stored, Kept
<1>4. ~confirmed
  BY <1>1 DEF RowInv, ConfirmedWhere, Confirmed
<1>5. /\ faults = 1 \/ (executable = "new" /\ marker = "activated")
      /\ previous = "none" => executable = "new" /\ marker = "none"
  BY <1>1 DEF UpdateInv, Situation, Serves, Activates, Undoes, Starts, RollsBack, AtRest,
     Ready, Trial, Tried, Returned, Half, Found, Traced
<1>6. StoredWhere' /\ KeptWhere' /\ FoundWhere'
  BY <1>1, <1>3, <1>5, OneFault
  DEF RowInv, StoredWhere, KeptWhere, FoundWhere, RollbackExchange, Fail, Goto, Exchange,
      UpdateInv
<1>7. ConfirmedWhere'
  BY <1>1, <1>2, <1>4 DEF ConfirmedWhere
<1> QED  BY <1>6, <1>7 DEF RowInv

LEMMA ReturnBinaryRow ==
  ASSUME UpdateInv, SingleFault, MemoryTyped, RowInv, ReturnBinary, PolicyFollows, AgreedFollows
  PROVE  RowInv'
<1>1. pc \in {"returnBinary"} /\ pc' # "serve"
  BY DEF ReturnBinary, Goto, Fail
<1>2. policy' = policy /\ confirmed' = confirmed /\ agreed' = agreed
  BY <1>1, RowMoves, AgreedStays
<1>3. (Stored' <=> Stored) /\ (Kept' <=> Kept)
  BY <1>2 DEF Stored, Kept
<1>4. ~confirmed
  BY <1>1 DEF RowInv, ConfirmedWhere, Confirmed
<1>5. faults = 1 /\ previous = "new"
  BY <1>1 DEF UpdateInv, Situation, Serves, Activates, Undoes, Starts, RollsBack, AtRest,
     Ready, Trial, Tried, Returned, Half, Found, Traced
<1>6. StoredWhere' /\ KeptWhere' /\ FoundWhere'
  BY <1>1, <1>3, <1>5, OneFault
  DEF RowInv, StoredWhere, KeptWhere, FoundWhere, ReturnBinary, Fail, Goto, Exchange,
      UpdateInv
<1>7. ConfirmedWhere'
  BY <1>1, <1>2, <1>4 DEF ConfirmedWhere
<1> QED  BY <1>6, <1>7 DEF RowInv

LEMMA RestartRow ==
  ASSUME UpdateInv, SingleFault, MemoryTyped, RowInv, Restart, PolicyFollows, AgreedFollows
  PROVE  RowInv'
<1>1. pc \in {"restart"} /\ pc' # "serve"
  BY DEF Restart, Goto, Fail
<1>2. policy' = policy /\ confirmed' = confirmed /\ agreed' = agreed
  BY <1>1, RowMoves, AgreedStays
<1>3. (Stored' <=> Stored) /\ (Kept' <=> Kept)
  BY <1>2 DEF Stored, Kept
<1>4. ~confirmed
  BY <1>1 DEF RowInv, ConfirmedWhere, Confirmed
<1>5. executable = "old" /\ marker = "none"
  BY <1>1 DEF UpdateInv, Situation, Serves, Activates, Undoes, Starts, RollsBack, AtRest,
     Ready, Trial, Tried, Returned, Half, Found, Traced
<1>6. StoredWhere' /\ KeptWhere' /\ FoundWhere'
  BY <1>1, <1>3, <1>5, OneFault
  DEF RowInv, StoredWhere, KeptWhere, FoundWhere, Restart, Fail, Goto, Exchange, UpdateInv
<1>7. ConfirmedWhere'
  BY <1>1, <1>2, <1>4 DEF ConfirmedWhere
<1> QED  BY <1>6, <1>7 DEF RowInv

LEMMA RollbackClearRow ==
  ASSUME UpdateInv, SingleFault, MemoryTyped, RowInv, RollbackClear, PolicyFollows, AgreedFollows
  PROVE  RowInv'
<1>1. pc \in {"clearMarker", "clearPrevious"} /\ pc' # "serve"
  BY DEF RollbackClear, Goto, Fail
<1>2. policy' = policy /\ confirmed' = confirmed /\ agreed' = agreed
  BY <1>1, RowMoves, AgreedStays
<1>3. (Stored' <=> Stored) /\ (Kept' <=> Kept)
  BY <1>2 DEF Stored, Kept
<1>4. ~confirmed
  BY <1>1 DEF RowInv, ConfirmedWhere, Confirmed
<1>5. /\ executable = "old"
      /\ pc = "clearMarker" => faults = 1 \/ marker = "activated"
      /\ pc = "clearPrevious" => marker = "none"
  BY <1>1 DEF UpdateInv, Situation, Serves, Activates, Undoes, Starts, RollsBack, AtRest,
     Ready, Trial, Tried, Returned, Half, Found, Traced
<1>6. StoredWhere' /\ KeptWhere' /\ FoundWhere'
  BY <1>1, <1>3, <1>5, OneFault
  DEF RowInv, StoredWhere, KeptWhere, FoundWhere, RollbackClear, Fail, Goto, Exchange,
      UpdateInv
<1>7. ConfirmedWhere'
  BY <1>1, <1>2, <1>4 DEF ConfirmedWhere
<1> QED  BY <1>6, <1>7 DEF RowInv

LEMMA StartRow ==
  ASSUME UpdateInv, SingleFault, MemoryTyped, RowInv, Start, PolicyFollows, AgreedFollows
  PROVE  RowInv'
<1>1. pc \in {"down"} /\ pc' # "serve"
  BY DEF Start, Goto, Fail
<1>2. policy' = policy /\ confirmed' = confirmed /\ agreed' = agreed
  BY <1>1, RowMoves, AgreedStays
<1>3. (Stored' <=> Stored) /\ (Kept' <=> Kept)
  BY <1>2 DEF Stored, Kept
<1>4. confirmed => Confirmed'
  BY ConfirmedStep DEF RowInv, ConfirmedWhere, Next, Activate, Startup, Rollback
<1>5. executable \in Versions
  BY <1>1 DEF UpdateInv, UpdateTypeOK, Versions, Situation, Serves, Activates, Undoes,
     Starts, RollsBack, AtRest, Ready, Trial, Tried, Returned, Half, Found, Traced
<1>6. StoredWhere' /\ KeptWhere' /\ FoundWhere'
  BY <1>1, <1>3, <1>5, OneFault
  DEF RowInv, StoredWhere, KeptWhere, FoundWhere, Start, Fail, Goto, UpdateInv
<1>7. ConfirmedWhere'
  BY <1>1, <1>2, <1>3, <1>4 DEF RowInv, ConfirmedWhere
<1> QED  BY <1>6, <1>7 DEF RowInv

LEMMA EnsureKeyRow ==
  ASSUME UpdateInv, SingleFault, MemoryTyped, RowInv, EnsureKey, PolicyFollows, AgreedFollows
  PROVE  RowInv'
<1>1. pc \in {"key"} /\ pc' # "serve"
  BY DEF EnsureKey, Goto, Fail
<1>2. policy' = policy /\ confirmed' = confirmed /\ agreed' = agreed
  BY <1>1, RowMoves, AgreedStays
<1>3. (Stored' <=> Stored) /\ (Kept' <=> Kept)
  BY <1>2 DEF Stored, Kept
<1>4. confirmed => Confirmed'
  BY ConfirmedStep DEF RowInv, ConfirmedWhere, Next, Activate, Startup, Rollback
<1>5. running = executable
  BY <1>1 DEF UpdateInv, UpdateTypeOK, Versions, Situation, Serves, Activates, Undoes,
     Starts, RollsBack, AtRest, Ready, Trial, Tried, Returned, Half, Found, Traced
<1>6. StoredWhere' /\ KeptWhere' /\ FoundWhere'
  BY <1>1, <1>3, <1>5, OneFault
  DEF RowInv, StoredWhere, KeptWhere, FoundWhere, EnsureKey, Fail, Goto, UpdateInv
<1>7. ConfirmedWhere'
  BY <1>1, <1>2, <1>3, <1>4 DEF RowInv, ConfirmedWhere
<1> QED  BY <1>6, <1>7 DEF RowInv

LEMMA BeginStartupRow ==
  ASSUME UpdateInv, SingleFault, MemoryTyped, RowInv, BeginStartup, PolicyFollows, AgreedFollows
  PROVE  RowInv'
<1>1. pc \in {"begin"} /\ pc' # "serve"
  BY DEF BeginStartup, Goto, Fail
<1>2. policy' = policy /\ confirmed' = confirmed /\ agreed' = agreed
  BY <1>1, RowMoves, AgreedStays
<1>3. (Stored' <=> Stored) /\ (Kept' <=> Kept)
  BY <1>2 DEF Stored, Kept
<1>4. confirmed => Confirmed'
  BY ConfirmedStep DEF RowInv, ConfirmedWhere, Next, Activate, Startup, Rollback
<1>5. running = executable /\ recovery = "none"
  BY <1>1 DEF UpdateInv, UpdateTypeOK, Versions, Situation, Serves, Activates, Undoes,
     Starts, RollsBack, AtRest, Ready, Trial, Tried, Returned, Half, Found, Traced
<1>6. StoredWhere' /\ KeptWhere' /\ FoundWhere'
  BY <1>1, <1>3, <1>5, OneFault
  DEF RowInv, StoredWhere, KeptWhere, FoundWhere, BeginStartup, Fail, Goto, UpdateInv
<1>7. ConfirmedWhere'
  BY <1>1, <1>2, <1>3, <1>4 DEF RowInv, ConfirmedWhere
<1> QED  BY <1>6, <1>7 DEF RowInv

LEMMA ForgetRow ==
  ASSUME UpdateInv, SingleFault, MemoryTyped, RowInv, Forget, PolicyFollows, AgreedFollows
  PROVE  RowInv'
<1>1. pc \in {"forgetPrevious", "forgetMarker"} /\ pc' # "serve"
  BY DEF Forget, Goto, Fail
<1>2. policy' = policy /\ confirmed' = confirmed /\ agreed' = agreed
  BY <1>1, RowMoves, AgreedStays
<1>3. (Stored' <=> Stored) /\ (Kept' <=> Kept)
  BY <1>2 DEF Stored, Kept
<1>4. confirmed => Confirmed'
  BY ConfirmedStep DEF RowInv, ConfirmedWhere, Next, Activate, Startup, Rollback
<1>5. executable = "old" /\ marker = "prepared" /\ running = "old" /\ recovery = "none"
  BY <1>1 DEF UpdateInv, UpdateTypeOK, Versions, Situation, Serves, Activates, Undoes,
     Starts, RollsBack, AtRest, Ready, Trial, Tried, Returned, Half, Found, Traced
<1>6. StoredWhere' /\ KeptWhere' /\ FoundWhere'
  BY <1>1, <1>3, <1>5, OneFault
  DEF RowInv, StoredWhere, KeptWhere, FoundWhere, Forget, Fail, Goto, UpdateInv
<1>7. ConfirmedWhere'
  BY <1>1, <1>2, <1>3, <1>4 DEF RowInv, ConfirmedWhere
<1> QED  BY <1>6, <1>7 DEF RowInv

LEMMA OpenRow ==
  ASSUME UpdateInv, SingleFault, MemoryTyped, RowInv, Open, PolicyFollows, AgreedFollows
  PROVE  RowInv'
<1>1. pc = "open" /\ UNCHANGED <<executable, marker, recovery, running>>
  BY DEF Open, Goto, Fail
<1>2. policy' = policy
  BY <1>1, RowMoves
<1>3. confirmed => Confirmed'
  BY ConfirmedStep DEF RowInv, ConfirmedWhere, Next, Startup
<1>4. /\ confirmed \in BOOLEAN
      /\ running \in {"old", "new"}
  BY DEF MemoryTyped, PolicyTyped, UpdateInv, UpdateTypeOK, Versions
<1>5. confirmed => recovery = "none" /\ running = "new" /\ executable = "new" /\ marker = "none"
  BY <1>1 DEF RowInv, ConfirmedWhere, Confirmed, AtRest
<1>6. CASE recovery = "none"
  <2>1. executable = running /\ marker = "none"
    BY <1>1, <1>6 DEF UpdateInv, Situation, Starts, AtRest
  <2>2. pc' \in {"serve", "down"}
    BY <1>6 DEF Open, Goto, Fail, AfterError
  <2>3. CASE pc' = "serve" /\ running = "new" /\ ~confirmed
    <3>1. confirmed' /\ agreed' = policy.database
      BY <1>1, <1>4, <2>3 DEF AgreedFollows
    <3>2. Confirmed'
      BY <1>1, <2>3, <1>6, OpenKeeps DEF UpdateInv, Situation, Serves, Confirmed
    <3> QED
      BY <1>1, <1>2, <2>3, <3>1, <3>2
      DEF RowInv, StoredWhere, KeptWhere, FoundWhere, ConfirmedWhere, Stored
  <2>4. CASE pc' # "serve" \/ running # "new" \/ confirmed
    <3>1. confirmed' = confirmed /\ agreed' = agreed
      BY <2>4, AgreedStays
    <3>2. (Stored' <=> Stored) /\ (Kept' <=> Kept)
      BY <1>2, <3>1 DEF Stored, Kept
    <3> QED
      BY <1>1, <1>3, <1>4, <1>6, <2>1, <2>2, <2>4, <3>1, <3>2
      DEF RowInv, StoredWhere, KeptWhere, FoundWhere, ConfirmedWhere
  <2> QED  BY <2>3, <2>4
<1>7. CASE recovery # "none"
  <2>1. recovery = "fresh" /\ executable = "new" /\ marker = "activated"
    BY <1>1, <1>7 DEF UpdateInv, Situation, Starts, Tried, Trial
  <2>2. pc' \in {"probe", "rollback", "down"}
    BY <1>7 DEF Open, Goto, Fail, AfterError
  <2>3. confirmed' = confirmed /\ agreed' = agreed /\ ~confirmed
    BY <1>5, <1>7, <2>2, AgreedStays
  <2>4. (Stored' <=> Stored) /\ (Kept' <=> Kept)
    BY <1>2, <2>3 DEF Stored, Kept
  <2> QED
    BY <1>1, <2>1, <2>2, <2>3, <2>4
    DEF RowInv, StoredWhere, KeptWhere, FoundWhere, ConfirmedWhere
<1> QED  BY <1>6, <1>7

LEMMA ConfirmStartupRow ==
  ASSUME UpdateInv, SingleFault, MemoryTyped, RowInv, ConfirmStartup, PolicyFollows,
         AgreedFollows
  PROVE  RowInv'
<1>1. /\ pc \in {"confirmMarker", "confirmPrevious"}
      /\ pc' \in {"confirmPrevious", "rollback", "serve"}
      /\ running' = running
  BY DEF ConfirmStartup, Goto, Fail
<1>2. policy' = policy
  BY <1>1, RowMoves
<1>3. confirmed = FALSE
  BY <1>1 DEF RowInv, ConfirmedWhere, Confirmed, MemoryTyped, PolicyTyped
<1>4. running = "new"
  BY <1>1 DEF UpdateInv, Situation, Starts
<1>5. CASE pc' = "serve"
  <2>1. confirmed' /\ agreed' = policy.database
    BY <1>3, <1>4, <1>5 DEF AgreedFollows
  <2>2. Confirmed'
    BY <1>1, <1>4, <1>5, ConfirmStartupKeeps DEF UpdateInv, Situation, Serves, Confirmed
  <2> QED
    BY <1>2, <1>5, <2>1, <2>2
    DEF RowInv, StoredWhere, KeptWhere, FoundWhere, ConfirmedWhere, Stored
<1>6. CASE pc' # "serve"
  <2>1. confirmed' = confirmed /\ agreed' = agreed
    BY <1>6, AgreedStays
  <2>2. Kept' <=> Kept
    BY <1>2, <2>1 DEF Kept
  <2> QED
    BY <1>1, <1>3, <1>6, <2>1, <2>2
    DEF RowInv, StoredWhere, KeptWhere, FoundWhere, ConfirmedWhere
<1> QED  BY <1>5, <1>6

LEMMA CreateBackupRow ==
  ASSUME UpdateInv, SingleFault, MemoryTyped, RowInv, CreateBackup, PolicyFollows, AgreedFollows
  PROVE  RowInv'
<1>1. pc = "backup" /\ pc' \in {"stage", "down"} /\ UNCHANGED <<executable, marker>>
  BY DEF CreateBackup, Goto, Fail
<1>2. confirmed = FALSE /\ confirmed' = confirmed /\ agreed' = agreed
  BY <1>1, AgreedStays DEF RowInv, ConfirmedWhere, Confirmed, MemoryTyped, PolicyTyped
<1>3. executable = "old" /\ marker = "none" /\ Stored
  BY <1>1 DEF UpdateInv, Situation, Activates, AtRest, RowInv, StoredWhere
<1>4. policy' = IF pc' = "stage" THEN [policy EXCEPT !.backup = policy.database] ELSE policy
  BY <1>1 DEF PolicyFollows
<1>5. Stored' /\ (pc' = "stage" => Kept')
  BY <1>2, <1>3, <1>4 DEF Stored, Kept, MemoryTyped, PolicyTyped
<1> QED
  BY <1>1, <1>2, <1>3, <1>5 DEF RowInv, StoredWhere, KeptWhere, FoundWhere, ConfirmedWhere

LEMMA MoveAsideRow ==
  ASSUME UpdateInv, SingleFault, MemoryTyped, RowInv, MoveAside, PolicyFollows, AgreedFollows
  PROVE  RowInv'
<1>1. pc = "moveAside" /\ pc' \in {"install", "revert"} /\ next' = next
  BY DEF MoveAside, Goto, Fail
<1>2. confirmed = FALSE /\ confirmed' = confirmed /\ agreed' = agreed
  BY <1>1, AgreedStays DEF RowInv, ConfirmedWhere, Confirmed, MemoryTyped, PolicyTyped
<1>3. policy'.database = policy.database /\ policy'.backup = policy.backup
  BY <1>1, PolicyMoves DEF MemoryTyped, PolicyTyped
<1>4. (Stored' <=> Stored) /\ (Kept' <=> Kept)
  BY <1>2, <1>3 DEF Stored, Kept
<1> QED
  BY <1>1, <1>2, <1>4 DEF RowInv, StoredWhere, KeptWhere, FoundWhere, ConfirmedWhere

LEMMA InstallRow ==
  ASSUME UpdateInv, SingleFault, MemoryTyped, RowInv, Install, PolicyFollows, AgreedFollows
  PROVE  RowInv'
<1>1. pc = "install" /\ pc' \in {"moveAside", "clearMarker", "revert", "returnBinary"}
  BY DEF Install, Goto, Fail
<1>2. confirmed = FALSE /\ confirmed' = confirmed /\ agreed' = agreed
  BY <1>1, AgreedStays DEF RowInv, ConfirmedWhere, Confirmed, MemoryTyped, PolicyTyped
<1>3. next \in 1..3 /\ Kept /\ (next > 1 => Stored)
  BY <1>1 DEF UpdateInv, UpdateTypeOK, Situation, RollsBack, RowInv, KeptWhere, StoredWhere
<1>4. policy' = policy \/ policy' = [policy EXCEPT !.database = policy.backup]
  BY <1>1, PolicyMoves
<1>5. Kept'
  BY <1>2, <1>3, <1>4 DEF Kept, MemoryTyped, PolicyTyped
<1>6. CASE pc' \in {"revert", "returnBinary"}
  BY <1>2, <1>5, <1>6 DEF RowInv, StoredWhere, KeptWhere, FoundWhere, ConfirmedWhere
<1>7. CASE pc' \notin {"revert", "returnBinary"}
  <2>1. next' = next + 1
    BY <1>7 DEF Install, Fail
  <2>2. next = 1 => policy' = [policy EXCEPT !.database = policy.backup]
    BY <1>1, <2>1 DEF PolicyFollows, Targets
  <2>3. Stored'
    BY <1>2, <1>3, <1>4, <2>2 DEF Stored, Kept, MemoryTyped, PolicyTyped
  <2> QED
    BY <1>1, <1>2, <1>5, <1>7, <2>3
    DEF RowInv, StoredWhere, KeptWhere, FoundWhere, ConfirmedWhere
<1> QED  BY <1>6, <1>7

LEMMA RevertRow ==
  ASSUME UpdateInv, SingleFault, MemoryTyped, RowInv, Revert, PolicyFollows, AgreedFollows
  PROVE  RowInv'
<1>1. pc = "revert" /\ pc' = "returnBinary"
  BY DEF Revert, Goto
<1>2. confirmed = FALSE /\ confirmed' = confirmed /\ agreed' = agreed
  BY <1>1, AgreedStays DEF RowInv, ConfirmedWhere, Confirmed, MemoryTyped, PolicyTyped
<1>3. policy'.backup = policy.backup
  BY <1>1, PolicyMoves DEF MemoryTyped, PolicyTyped
<1>4. Kept' <=> Kept
  BY <1>2, <1>3 DEF Kept
<1> QED
  BY <1>1, <1>2, <1>4 DEF RowInv, StoredWhere, KeptWhere, FoundWhere, ConfirmedWhere

LEMMA ProceedRow ==
  ASSUME UpdateInv, SingleFault, MemoryTyped, RowInv, Proceed
  PROVE  RowInv'
BY StageNextToExecutableRow, MarkPreparedRow, ExchangeFilesRow, MarkActivatedRow, UndoRow,
   ExecRow, StartRow, EnsureKeyRow, BeginStartupRow, ForgetRow, OpenRow, ProbeRow,
   ConfirmStartupRow, RollbackExchangeRow, MoveAsideRow, InstallRow, RevertRow,
   ReturnBinaryRow, RollbackClearRow, RestartRow, CreateBackupRow
DEF Proceed, Activate, Startup, Rollback

LEMMA HandOverRow ==
  ASSUME UpdateInv, SingleFault, RowInv, HandOver
  PROVE  RowInv'
<1>1. pc = "serve" /\ running = "old" /\ pc' \in {"backup", "down"}
      /\ UNCHANGED <<executable, marker, policy, agreed, confirmed>>
  BY DEF HandOver, Apply
<1>2. executable = "old" /\ marker = "none" /\ ~confirmed /\ Stored
  BY <1>1 DEF UpdateInv, Situation, Serves, AtRest, RowInv, StoredWhere, ConfirmedWhere,
              Confirmed
<1>3. Stored'
  BY <1>1, <1>2 DEF Stored
<1> QED
  BY <1>1, <1>2, <1>3 DEF RowInv, StoredWhere, KeptWhere, FoundWhere, ConfirmedWhere

LEMMA KilledRow ==
  ASSUME UpdateInv, SingleFault, RowInv, Killed
  PROVE  RowInv'
<1>1. pc # "down" /\ pc' = "down" /\ UNCHANGED <<executable, marker, policy, agreed, confirmed>>
  BY DEF Killed, Crash, Fail
<1>2. faults = 0 /\ pc \in Places
  BY OneFault DEF Killed, Crash, UpdateInv, UpdateTypeOK
<1>3. (Stored' <=> Stored) /\ (Kept' <=> Kept)
  BY <1>1 DEF Stored, Kept
<1>4. confirmed => Confirmed'
  BY ConfirmedStep DEF RowInv, ConfirmedWhere, Killed, Next
<1>5. executable = "old" /\ marker # "activated" => Stored
  <2> SUFFICES ASSUME executable = "old", marker # "activated"
               PROVE  Stored
    OBVIOUS
  <2>1. pc \notin {"activate", "exec", "undoExchange", "probe", "confirmMarker",
                  "confirmPrevious", "rollback", "moveAside", "install", "revert",
                  "returnBinary"}
    BY <1>2 DEF UpdateInv, Situation, Activates, Undoes, Starts, RollsBack, Trial, Tried,
                AtRest, Half, Traced
  <2>2. pc = "open" => recovery = "none" /\ running = "old"
    BY DEF UpdateInv, Situation, Starts, Tried, Trial, AtRest
  <2> QED
    BY <1>2, <2>1, <2>2 DEF RowInv, StoredWhere, FoundWhere, Places
<1>6. (executable = "new" \/ marker = "activated") /\ marker # "none" => Kept
  <2> SUFFICES ASSUME executable = "new" \/ marker = "activated", marker # "none"
               PROVE  Kept
    OBVIOUS
  <2>1. pc \notin {"serve", "backup", "undoExchange", "undoMarker", "undoPrevious",
                  "forgetPrevious", "forgetMarker", "clearPrevious", "restart"}
    BY <1>2 DEF UpdateInv, Situation, Serves, Activates, Undoes, Starts, RollsBack, Ready,
                AtRest
  <2>2. pc = "open" => recovery = "fresh"
    BY DEF UpdateInv, Situation, Starts, AtRest
  <2> QED
    BY <1>2, <2>1, <2>2 DEF RowInv, KeptWhere, FoundWhere, Places
<1> QED
  BY <1>1, <1>3, <1>4, <1>5, <1>6
  DEF RowInv, StoredWhere, KeptWhere, FoundWhere, ConfirmedWhere

\* A step that moves neither the process nor the row.
LEMMA SameRow ==
  ASSUME RowInv,
         UNCHANGED <<executable, previous, marker, state, pc, running, recovery, next, policy,
                     agreed, confirmed>>
  PROVE  RowInv'
BY DEF RowInv, StoredWhere, KeptWhere, FoundWhere, ConfirmedWhere, Stored, Kept, Confirmed,
       AtRest,
       Whole

LEMMA SaveRow ==
  ASSUME UpdateInv, MemoryTyped, RowInv, Save
  PROVE  RowInv'
<1>1. /\ pc \in {"probe", "confirmMarker", "confirmPrevious", "serve"}
      /\ UNCHANGED <<executable, previous, marker, state, pc, running, recovery, next, confirmed>>
  BY DEF Save, Serving, vars
<1>2. CASE UNCHANGED <<policy, agreed>>
  BY <1>1, <1>2, SameRow
<1>3. CASE /\ policy' = [policy EXCEPT !.database = handler.settings]
           /\ agreed' = IF recovery = "none" THEN handler.settings ELSE agreed
  <2>1. policy'.database = handler.settings /\ policy'.backup = policy.backup
    BY <1>3 DEF MemoryTyped, PolicyTyped
  <2>2. CASE pc = "serve"
    <3>1. Stored'
      BY <1>3, <2>1, <2>2 DEF Stored, UpdateInv, Situation, Serves
    <3>2. confirmed => Confirmed'
      BY <1>1 DEF RowInv, ConfirmedWhere, Confirmed, AtRest, Whole
    <3> QED
      BY <1>1, <2>2, <3>1, <3>2 DEF RowInv, StoredWhere, KeptWhere, FoundWhere,
         ConfirmedWhere
  <2>3. CASE pc # "serve"
    <3>1. agreed' = agreed /\ ~confirmed
      BY <1>1, <1>3, <2>3
      DEF UpdateInv, Situation, Starts, RowInv, ConfirmedWhere, Confirmed
    <3>2. Kept' <=> Kept
      BY <2>1, <3>1 DEF Kept
    <3> QED
      BY <1>1, <2>3, <3>1, <3>2 DEF RowInv, StoredWhere, KeptWhere, FoundWhere,
         ConfirmedWhere
  <2> QED  BY <2>2, <2>3
<1> QED  BY <1>2, <1>3 DEF Save

LEMMA ManagerNextRow ==
  ASSUME UpdateInv, SingleFault, MemoryTyped, RowInv, [ManagerNext]_allVars
  PROVE  RowInv'
<1>1. CASE Handle
  <2>1. CASE Save
    BY <2>1, SaveRow
  <2>2. CASE ~Save
    BY <1>1, <2>2, SameRow
    DEF Handle, QueueAction, SetMode, SkipLatest, ClearSkipped, Change, Adopt, vars
  <2> QED  BY <2>1, <2>2
<1>2. CASE Loop
  BY <1>2, SameRow DEF Loop, Tick, TakeAction, FinishCheck, ApplyFound, FinishStage, vars,
     Fail
<1>3. CASE PublishRelease
  BY <1>3, SameRow DEF PublishRelease, vars
<1>4. CASE UNCHANGED allVars
  BY <1>4, SameRow DEF allVars, vars, managerVars
<1> QED
  BY <1>1, <1>2, <1>3, <1>4, HandOverRow, ProceedRow, KilledRow DEF ManagerNext

-----------------------------------------------------------------------------
(* The copy of the policy *)

LEMMA BeginsCopied ==
  ASSUME NEW found, Begins(found), Serving' => found = policy'.database
  PROVE  CopyInv'
BY DEF Begins, CopyInv, NoHandler

LEMMA HandleCopied ==
  ASSUME HandlerTyped, PolicyTyped, CopyInv, Handle
  PROVE  CopyInv'
<1>1. CASE \E kind \in {"check", "apply"} : QueueAction(kind)
  BY <1>1 DEF QueueAction, CopyInv, Serving, vars
<1>2. ASSUME NEW kind \in {"mode", "skip", "clear"}, NEW changed, Change(kind, changed)
      PROVE  CopyInv'
  BY <1>2 DEF Change, CopyInv, Serving, vars, NoHandler
<1>3. CASE Save
  <2>1. CASE handler'.at = "saved" /\ policy'.database = handler'.settings
    BY <2>1 DEF CopyInv
  <2>2. CASE handler' = NoHandler /\ policy' = policy
    BY <1>3, <2>2 DEF Save, CopyInv, Serving, vars, NoHandler
  <2>3. ASSUME handler' = [handler EXCEPT !.at = "saved"],
               policy' = [policy EXCEPT !.database = handler.settings]
        PROVE  handler'.at = "saved" /\ policy'.database = handler'.settings
    BY <2>3 DEF HandlerTyped, PolicyTyped
  <2> QED  BY <1>3, <2>1, <2>2, <2>3 DEF Save
<1>4. CASE Adopt
  BY <1>4 DEF Adopt, CopyInv, Serving, vars, NoHandler
<1> QED  BY <1>1, <1>2, <1>3, <1>4 DEF Handle, SetMode, SkipLatest, ClearSkipped

LEMMA ManagerNextCopied ==
  ASSUME UpdateInv, MemoryTyped, CopyInv, [ManagerNext]_allVars
  PROVE  CopyInv'
<1>1. CASE Handle
  BY <1>1, HandleCopied DEF MemoryTyped
<1>2. CASE Loop
  BY <1>2 DEF Loop, Tick, TakeAction, FinishCheck, ApplyFound, FinishStage, CopyInv,
     Serving,
              vars, Fail
<1>3. CASE HandOver
  BY <1>3, BeginsCopied DEF HandOver, Apply, Serving
<1>4. CASE Proceed
  <2>1. CASE Serving /\ Serving'
    <3>1. policy' = policy
      BY <1>4, <2>1, RowMoves DEF Proceed, Serving
    <3> QED  BY <1>4, <2>1, <3>1 DEF Proceed, MemoryFollows, memory, CopyInv
  <2>2. CASE ~(Serving /\ Serving')
    BY <1>4, <2>2, BeginsCopied DEF Proceed, MemoryFollows
  <2> QED  BY <2>1, <2>2
<1>5. CASE Killed
  BY <1>5, BeginsCopied DEF Killed, Crash, Fail, Serving
<1>6. CASE PublishRelease
  BY <1>6 DEF PublishRelease, CopyInv, Serving, vars, memory
<1>7. CASE UNCHANGED allVars
  BY <1>7 DEF allVars, CopyInv, Serving, vars, memory, managerVars
<1> QED  BY <1>1, <1>2, <1>3, <1>4, <1>5, <1>6, <1>7 DEF ManagerNext

-----------------------------------------------------------------------------
(* What the manager leaves of Update's promises *)

\* A step of the manager is one of Update, a fault at the release source, or
\* none.
LEMMA ManagerStep ==
  ASSUME [ManagerNext]_allVars
  PROVE  Next \/ Interrupted \/ UNCHANGED vars
<1>1. CASE Handle
  BY <1>1 DEF Handle, QueueAction, SetMode, SkipLatest, ClearSkipped, Change, Save, Adopt
<1>2. CASE Loop
  BY <1>2 DEF Loop, Tick, TakeAction, FinishCheck, ApplyFound, FinishStage, Interrupted
<1> QED
  BY <1>1, <1>2 DEF ManagerNext, HandOver, Proceed, Killed, PublishRelease, Next, allVars

PolicyInv == UpdateInv /\ MemoryTyped /\ RowInv /\ CopyInv

LEMMA PolicyHolds ==
  ASSUME SingleFault
  PROVE  ManagerSpec => []PolicyInv
<1>1. ManagerInit => PolicyInv
  <2> SUFFICES ASSUME ManagerInit
               PROVE  PolicyInv
    OBVIOUS
  <2>1. UpdateInv /\ MemoryTyped
    BY InitEstablishes, ManagerInitWorks DEF ManagerInit, WorkInv
  <2>2. RowInv
    BY DEF ManagerInit, Init, RowInv, StoredWhere, KeptWhere, FoundWhere, ConfirmedWhere,
           Stored
  <2>3. CopyInv
    BY DEF ManagerInit, CopyInv, NoHandler
  <2> QED  BY <2>1, <2>2, <2>3 DEF PolicyInv
<1>2. PolicyInv /\ MemoryTyped' /\ [ManagerNext]_allVars => PolicyInv'
  <2> SUFFICES ASSUME PolicyInv, MemoryTyped', [ManagerNext]_allVars
               PROVE  PolicyInv'
    OBVIOUS
  <2>1. UpdateInv'
    BY ManagerStep, NextKeeps, InterruptedKeeps, StutteringKeeps DEF PolicyInv
  <2> QED  BY <2>1, ManagerNextRow, ManagerNextCopied DEF PolicyInv
<1>3. WorkInv => MemoryTyped
  BY DEF WorkInv
<1> QED  BY <1>1, <1>2, <1>3, WorkHolds, PTL DEF ManagerSpec

\* Whatever the manager is doing: every variable has its type.
THEOREM ManagerTypeCorrect ==
  ASSUME SingleFault
  PROVE  ManagerSpec => []ManagerTypeOK
<1>1. PolicyInv => ManagerTypeOK
  BY DEF PolicyInv, UpdateInv, MemoryTyped, NumbersTyped, PolicyTyped, LoopTyped,
         ActionsTyped,
         HandlerTyped, ManagerTypeOK
<1> QED  BY <1>1, PolicyHolds, PTL

\* A server at work has the policy a confirmed one last stored, in its database
\* and, but for a handler on its way, in its memory.
THEOREM PolicyAlwaysStands ==
  ASSUME SingleFault
  PROVE  ManagerSpec => []PolicyStands
<1>1. PolicyInv => PolicyStands
  BY DEF PolicyInv, RowInv, StoredWhere, CopyInv, Stored, Serving, PolicyStands
<1> QED  BY <1>1, PolicyHolds, PTL

LEMMA ConfirmedManaged ==
  ASSUME UpdateInv, Confirmed, [ManagerNext]_allVars
  PROVE  Confirmed'
<1>1. CASE Next \/ UNCHANGED vars
  BY <1>1, ConfirmedStep
<1>2. CASE Interrupted
  BY <1>2 DEF Interrupted, Fail, Confirmed, AtRest, Whole
<1> QED  BY <1>1, <1>2, ManagerStep

\* The manager's own steps, and the faults of the release source, are nothing to
\* those who are served: the new version is tried once, over a whole state, and
\* settled on for good or left for the old one with the whole state of before.
THEOREM ManagedUpdatesAreAtomic ==
  ASSUME SingleFault
  PROVE  ManagerSpec => UpdatesAtomically
<1>1. PolicyInv /\ PolicyInv' /\ [ManagerNext]_allVars =>
        [Atomic!Next]_<<Phase, Settled, Served>>
  <2> SUFFICES ASSUME PolicyInv, PolicyInv', [ManagerNext]_allVars PROVE AtomicStep
    BY DEF AtomicStep
  <2>1. CASE Next \/ UNCHANGED vars
    BY <2>1, NextAtomic DEF PolicyInv
  <2>2. CASE Interrupted
    BY <2>2
    DEF Interrupted, Fail, Phase, OnTrial, Applying, Returning, Serving, Settled, Served, AtomicStep
  <2> QED BY <2>1, <2>2, ManagerStep
<1>2. ManagerInit => Init
  BY DEF ManagerInit
<1> QED
  BY <1>1, <1>2, InitAtomic, PolicyHolds, PTL DEF ManagerSpec, UpdatesAtomically, Atomic!Spec

\* The manager at work does not harm what an update promises: the state that a
\* version opens is whole, until the new version is confirmed there is a way
\* back, and then it is never rolled back.
THEOREM ManagedUpdatesAreSafe ==
  ASSUME SingleFault
  PROVE  ManagerSpec => [](OpensWhole /\ WayBack) /\ ConfirmedStays
<1>1. PolicyInv => OpensWhole /\ WayBack
  BY OpensTheWhole, HasWayBack DEF PolicyInv
<1>2. PolicyInv /\ pc = "serve" /\ running = "new" => Confirmed
  BY DEF PolicyInv, UpdateInv, Situation, Serves, Confirmed
<1>3. Confirmed => executable = "new" /\ state["database"] = "new"
  BY WrittenIs DEF Confirmed, AtRest, Whole
<1>4. PolicyInv /\ Confirmed /\ [ManagerNext]_allVars => Confirmed'
  BY ConfirmedManaged DEF PolicyInv
<1> QED  BY <1>1, <1>2, <1>3, <1>4, PolicyHolds, PTL DEF ManagerSpec, ConfirmedStays
=============================================================================
