-------------------------------- MODULE Update --------------------------------
(***************************************************************************)
(* The activation of an update and its recovery (internal/updater,         *)
(* internal/installation, cmd/wispdeck): what is on disk, and the process  *)
(* that changes it one durable step at a time.                             *)
(*                                                                         *)
(* The process may be killed between any two steps; a service manager then *)
(* starts whatever the executable path holds.  A step may also fail and    *)
(* return an error.  Both are faults, and their number is bounded.         *)
(*                                                                         *)
(* Contents are named after the version that wrote them; a version that    *)
(* opens the installation state migrates it, and the old version refuses a *)
(* control database of the new one.  The database stands for itself and    *)
(* its side files.                                                         *)
(***************************************************************************)
EXTENDS Naturals, Sequences

CONSTANTS
  MaxUpdates,   \* how often the update is requested
  MaxFaults     \* how many steps fail or are cut off by a crash

ASSUME UpdateAssumption == {MaxUpdates, MaxFaults} \subseteq Nat

VARIABLES
  executable,   \* what the executable path holds
  previous,     \* what the staged file beside it holds, or "none"
  marker,       \* the recovery marker's phase, or "none"
  attempts,     \* its StartAttempts
  state,        \* the installation state, by restore target
  backup,       \* what the pre-update backup holds
  pc,           \* what the process is about to do, or "down"
  running,      \* the version that is running
  recovery,     \* what Rollback or ConfirmStartup was handed, or "none"
  saved,        \* restore: the prior state moved aside so far
  next,         \* restore: the target that is replaced next
  healthy,      \* whether the new version reaches readiness; one that does not
                \* returns an error or dies, as often as it is started
  updates, faults

disk == <<executable, previous, marker, attempts, state, backup>>
process == <<pc, running, recovery>>
restoring == <<saved, next>>
vars == <<disk, process, restoring, healthy, updates, faults>>

Names == {"database", "authKey", "wispist"}
\* Broken variant of Targets: the stores of the sites are not restored.
TargetsInstalled == <<"database", "authKey">>
\* prepareReplacements: the targets in the order they are replaced.
Targets == <<"database", "authKey", "wispist">>
\* The state that version v leaves; no version changes the key.
Written(v) == [t \in Names |-> IF t = "authKey" THEN "key" ELSE v]
NothingSaved == [t \in Names |-> "none"]

Init ==
  /\ executable = "old" /\ previous = "none"
  /\ marker = "none" /\ attempts = 0
  /\ state = Written("old")
  /\ backup = NothingSaved
  /\ pc = "serve" /\ running = "old" /\ recovery = "none"
  /\ saved = NothingSaved /\ next = 1
  /\ healthy \in BOOLEAN
  /\ updates = 0 /\ faults = 0

Goto(l) == pc' = l /\ UNCHANGED <<running, healthy, updates, faults>>
\* The same, as a step that failed.
Fail(l) ==
  /\ faults < MaxFaults /\ faults' = faults + 1
  /\ pc' = l /\ UNCHANGED <<running, healthy, updates>>

Exchange == executable' = previous /\ previous' = executable

---------------------------------------------------------------------------
\* Activate.

\* The server has shut down and closed its databases.
Apply ==
  /\ pc = "serve" /\ running = "old"
  /\ updates < MaxUpdates /\ updates' = updates + 1
  /\ pc' = IF marker = "none" THEN "backup" ELSE "down"
  /\ UNCHANGED <<disk, restoring, running, recovery, healthy, faults>>

CreateBackup ==
  /\ pc = "backup"
  /\ \/ backup' = state /\ Goto("stage")
     \/ backup' = backup /\ Fail("down")
  /\ UNCHANGED <<executable, previous, marker, attempts, state, restoring, recovery>>

StageNextToExecutable ==
  /\ pc = "stage"
  /\ \/ previous' = "new" /\ Goto("mark")
     \/ previous' = previous /\ Fail("down")
  /\ UNCHANGED <<executable, marker, attempts, state, backup, restoring, recovery>>

\* Broken variant of MarkPrepared: the marker is written after the exchange only.
MarkLater ==
  /\ pc = "mark"
  /\ Goto("exchange")
  /\ attempts' = 0
  /\ UNCHANGED <<executable, previous, marker, state, backup, restoring, recovery>>

\* A write that fails in its final directory sync leaves the marker behind.
MarkPrepared ==
  /\ pc = "mark"
  /\ \/ marker' = "prepared" /\ Goto("exchange")
     \/ marker' \in {"none", "prepared"} /\ Fail("undoPrevious")
  /\ attempts' = 0
  /\ UNCHANGED <<executable, previous, state, backup, restoring, recovery>>

ExchangeFiles ==
  /\ pc = "exchange"
  /\ \/ Exchange /\ Goto("activate")
     \/ UNCHANGED <<executable, previous>> /\ Fail("undoMarker")
  /\ UNCHANGED <<marker, attempts, state, backup, restoring, recovery>>

MarkActivated ==
  /\ pc = "activate"
  /\ \/ marker' = "activated" /\ Goto("exec")
     \/ marker' \in {"prepared", "activated"} /\ Fail("undoExchange")
  /\ UNCHANGED <<executable, previous, attempts, state, backup, restoring, recovery>>

\* The deferred functions of a failed Activate, last one first; an error of
\* theirs is ignored.
Undo ==
  \/ /\ pc = "undoExchange"
     /\ \/ Exchange /\ Goto("undoMarker")
        \/ UNCHANGED <<executable, previous>> /\ Fail("undoMarker")
     /\ UNCHANGED <<marker, attempts, state, backup, restoring, recovery>>
  \/ /\ pc = "undoMarker"
     /\ \/ marker' = "none" /\ Goto("undoPrevious")
        \/ marker' = marker /\ Fail("undoPrevious")
     /\ UNCHANGED <<executable, previous, attempts, state, backup, restoring, recovery>>
  \/ /\ pc = "undoPrevious"
     /\ \/ previous' = "none" /\ Goto("down")
        \/ previous' = previous /\ Fail("down")
     /\ UNCHANGED <<executable, marker, attempts, state, backup, restoring, recovery>>

\* execWispdeck: the process becomes what the executable path holds; if that
\* fails, the update is rolled back.
Exec ==
  /\ pc = "exec"
  /\ \/ /\ pc' = "key" /\ running' = executable /\ recovery' = "none"
        /\ UNCHANGED <<healthy, updates, faults>>
     \/ Fail("rollback") /\ recovery' = "fresh"
  /\ UNCHANGED <<disk, restoring>>

---------------------------------------------------------------------------
\* Startup.

\* The service manager starts the process again.
Start ==
  /\ pc = "down"
  /\ pc' = "key" /\ running' = executable /\ recovery' = "none"
  /\ UNCHANGED <<disk, restoring, healthy, updates, faults>>

\* ensureServeInstallationKey
EnsureKey ==
  /\ pc = "key"
  /\ IF state["authKey"] = "absent"
     THEN IF state["database"] = "absent"
          THEN state' = [state EXCEPT !["authKey"] = "fresh"] /\ Goto("begin")
          ELSE state' = state /\ Goto("down")
     ELSE state' = state /\ Goto("begin")
  /\ UNCHANGED <<executable, previous, marker, attempts, backup, restoring, recovery>>

\* Broken variant of BeginStartup: an attempt is not counted.
BeginUncounted ==
  /\ pc = "begin"
  /\ \/ /\ marker = "none"
        /\ Goto("open") /\ UNCHANGED <<attempts, recovery>>
     \/ /\ marker = "prepared" /\ running = "old"
        /\ Goto("forgetPrevious") /\ UNCHANGED <<attempts, recovery>>
     \/ /\ marker = "prepared" /\ running = "new"
        /\ recovery' = "fresh" /\ Goto("rollback") /\ UNCHANGED attempts
     \/ /\ marker = "activated" /\ running = "old"
        /\ recovery' = "restored" /\ Goto("rollback") /\ UNCHANGED attempts
     \/ /\ marker = "activated" /\ running = "new"
        /\ recovery' = "fresh" /\ Goto("open") /\ UNCHANGED attempts
  /\ UNCHANGED <<executable, previous, marker, state, backup, restoring>>

\* Broken variant of BeginStartup: the old version takes any marker for one of
\* an update that never happened.
BeginForgetting ==
  /\ pc = "begin"
  /\ \/ /\ marker = "none"
        /\ Goto("open") /\ UNCHANGED <<attempts, recovery>>
     \/ /\ marker # "none" /\ running = "old"
        /\ Goto("forgetPrevious") /\ UNCHANGED <<attempts, recovery>>
     \/ /\ marker = "prepared" /\ running = "new"
        /\ recovery' = "fresh" /\ Goto("rollback") /\ UNCHANGED attempts
     \/ /\ marker = "activated" /\ running = "new" /\ attempts >= 1
        /\ recovery' = "fresh" /\ Goto("rollback") /\ UNCHANGED attempts
     \/ /\ marker = "activated" /\ running = "new" /\ attempts = 0
        /\ attempts' = 1 /\ recovery' = "fresh" /\ Goto("open")
  /\ UNCHANGED <<executable, previous, marker, state, backup, restoring>>

\* BeginStartup: what the marker asks of the version that finds it.
BeginStartup ==
  /\ pc = "begin"
  /\ \/ /\ marker = "none"
        /\ Goto("open") /\ UNCHANGED <<attempts, recovery>>
     \/ /\ marker = "prepared" /\ running = "old"
        /\ Goto("forgetPrevious") /\ UNCHANGED <<attempts, recovery>>
     \/ /\ marker = "prepared" /\ running = "new"
        /\ recovery' = "fresh" /\ Goto("rollback") /\ UNCHANGED attempts
     \/ /\ marker = "activated" /\ running = "old"
        /\ recovery' = "restored" /\ Goto("rollback") /\ UNCHANGED attempts
     \/ /\ marker = "activated" /\ running = "new" /\ attempts >= 1
        /\ recovery' = "fresh" /\ Goto("rollback") /\ UNCHANGED attempts
     \/ /\ marker = "activated" /\ running = "new" /\ attempts = 0
        /\ \/ attempts' = 1 /\ recovery' = "fresh" /\ Goto("open")
           \/ attempts' \in {0, 1} /\ UNCHANGED recovery /\ Fail("down")
  /\ UNCHANGED <<executable, previous, marker, state, backup, restoring>>

\* The old version finds an update that was never exchanged.
Forget ==
  \/ /\ pc = "forgetPrevious"
     /\ \/ previous' = "none" /\ Goto("forgetMarker")
        \/ previous' = previous /\ Fail("forgetMarker")
     /\ UNCHANGED <<executable, marker, attempts, state, backup, restoring, recovery>>
  \/ /\ pc = "forgetMarker"
     /\ \/ marker' = "none" /\ Goto("open")
        \/ marker' = marker /\ Fail("down")
     /\ UNCHANGED <<executable, previous, attempts, state, backup, restoring, recovery>>

\* An error of serve while an update is unconfirmed asks for its rollback.
AfterError == IF recovery = "none" THEN "down" ELSE "rollback"

\* The old version refuses a database of the new one, both need the key.
Opens == state["authKey"] = "key" /\ ~(running = "old" /\ state["database"] = "new")

\* OpenSQLite and the Wispist stores create what is missing; the new version
\* migrates what it finds.
Opened(t) ==
  IF t = "authKey" THEN state[t]
  ELSE IF state[t] \in {"absent", "empty"} THEN "empty"
  ELSE IF running = "new" THEN "new" ELSE state[t]

Open ==
  /\ pc = "open"
  /\ \/ /\ Opens
        /\ state' = [t \in Names |-> Opened(t)]
        /\ Goto(IF recovery = "none" THEN "serve" ELSE "probe")
     \/ /\ ~Opens \/ (running = "new" /\ ~healthy)
        /\ state' = state
        /\ Goto(AfterError)
     \/ running = "new" /\ ~healthy /\ state' = state /\ Goto("down")
     \/ state' = state /\ Fail(AfterError)
  /\ UNCHANGED <<executable, previous, marker, attempts, backup, restoring, recovery>>

\* probeHealth
Probe ==
  /\ pc = "probe"
  /\ \/ (running = "new" => healthy) /\ Goto("confirmMarker")
     \/ running = "new" /\ ~healthy /\ (Goto("rollback") \/ Goto("down"))
     \/ Fail("rollback")
  /\ UNCHANGED <<disk, restoring, recovery>>

\* Broken variant of ConfirmStartup: the update counts as confirmed, and the
\* marker and the previous executable stay.
ConfirmInMemory ==
  /\ pc = "confirmMarker"
  /\ recovery' = "none" /\ Goto("serve")
  /\ UNCHANGED <<disk, restoring>>

\* ConfirmStartup: a sync that fails after a removal is an error all the same.
ConfirmStartup ==
  \/ /\ pc = "confirmMarker"
     /\ \/ marker' = "none" /\ Goto("confirmPrevious")
        \/ marker' \in {marker, "none"} /\ Fail("rollback")
     /\ UNCHANGED <<executable, previous, attempts, state, backup, restoring, recovery>>
  \/ /\ pc = "confirmPrevious"
     /\ \/ previous' = "none" /\ recovery' = "none" /\ Goto("serve")
        \/ previous' \in {previous, "none"} /\ UNCHANGED recovery /\ Fail("rollback")
     /\ UNCHANGED <<executable, marker, attempts, state, backup, restoring>>

\* The listener is up, and visitors are served, before the new version is probed
\* and its start confirmed.
Serving == pc \in {"probe", "confirmMarker", "confirmPrevious", "serve"}

---------------------------------------------------------------------------
\* Rollback and RestoreBackup.

RollbackExchange ==
  /\ pc = "rollback"
  /\ \/ /\ previous = "none"
        /\ Goto("down") /\ UNCHANGED <<executable, previous, restoring>>
     \/ /\ previous # "none"
        /\ \/ /\ IF recovery = "fresh" THEN Exchange ELSE UNCHANGED <<executable, previous>>
              /\ saved' = NothingSaved /\ next' = 1
              /\ Goto("moveAside")
           \/ /\ Fail("down") /\ UNCHANGED <<executable, previous, restoring>>
  /\ UNCHANGED <<marker, attempts, state, backup, recovery>>

\* One target: the prior state is renamed aside, then the restored one renamed
\* into its place.
MoveAside ==
  /\ pc = "moveAside"
  /\ LET t == Targets[next]
     IN  \/ /\ saved' = [saved EXCEPT ![t] = IF state[t] = "absent" THEN "none" ELSE state[t]]
            /\ state' = [state EXCEPT ![t] = "absent"]
            /\ Goto("install")
         \/ UNCHANGED <<saved, state>> /\ Fail("revert")
  /\ UNCHANGED <<executable, previous, marker, attempts, backup, next, recovery>>

\* With the last target in its place the directories are synced, then the prior
\* state is removed and they are synced once more: an error of the first sync puts
\* the prior state back, a later one leaves the restored state and is returned.
Install ==
  /\ pc = "install"
  /\ LET t == Targets[next]
     IN  \/ /\ state' = [state EXCEPT ![t] = backup[t]]
            /\ next' = next + 1
            /\ IF next = Len(Targets)
               THEN Goto("clearMarker") \/ Fail("revert") \/ Fail("returnBinary")
               ELSE Goto("moveAside")
         \/ UNCHANGED <<state, next>> /\ Fail("revert")
  /\ UNCHANGED <<executable, previous, marker, attempts, backup, saved, recovery>>

\* rollbackReplacements puts the prior state back, as one step; the process
\* then returns to the updated executable and exits.
Revert ==
  /\ pc = "revert"
  /\ state' = [t \in Names |->
       IF saved[t] # "none" THEN saved[t]
       ELSE IF \E i \in 1..(next - 1) : Targets[i] = t THEN "absent" ELSE state[t]]
  /\ Goto("returnBinary")
  /\ UNCHANGED <<executable, previous, marker, attempts, backup, restoring, recovery>>

ReturnBinary ==
  /\ pc = "returnBinary"
  /\ \/ Exchange /\ Goto("down")
     \/ UNCHANGED <<executable, previous>> /\ Fail("down")
  /\ UNCHANGED <<marker, attempts, state, backup, restoring, recovery>>

\* The marker goes once the state is restored, the updated executable after it.
RollbackClear ==
  \/ /\ pc = "clearMarker"
     /\ \/ marker' = "none" /\ Goto("clearPrevious")
        \/ marker' = marker /\ Fail("down")
     /\ UNCHANGED <<executable, previous, attempts, state, backup, restoring, recovery>>
  \/ /\ pc = "clearPrevious"
     /\ \/ previous' = "none" /\ Goto("restart")
        \/ previous' = previous /\ Fail("restart")
     /\ UNCHANGED <<executable, marker, attempts, state, backup, restoring, recovery>>

\* The prior version is executed in the place of this process.
Restart ==
  /\ pc = "restart"
  /\ \/ /\ pc' = "key" /\ running' = executable /\ recovery' = "none"
        /\ UNCHANGED <<healthy, updates, faults>>
     \/ Fail("down") /\ UNCHANGED recovery
  /\ UNCHANGED <<disk, restoring>>

---------------------------------------------------------------------------
Crash ==
  /\ pc # "down"
  /\ Fail("down")
  /\ UNCHANGED <<disk, restoring, recovery>>

Activate == CreateBackup \/ StageNextToExecutable \/ MarkPrepared \/ ExchangeFiles
              \/ MarkActivated \/ Undo \/ Exec
Startup == Start \/ EnsureKey \/ BeginStartup \/ Forget \/ Open \/ Probe \/ ConfirmStartup
Rollback == RollbackExchange \/ MoveAside \/ Install \/ Revert \/ ReturnBinary
              \/ RollbackClear \/ Restart

Next == Apply \/ Activate \/ Startup \/ Rollback \/ Crash

Spec == Init /\ [][Next]_vars

\* A process that is running goes on, and the service manager restarts one that
\* has exited; nobody has to request an update.
FairSpec == Spec /\ WF_vars(Activate \/ Startup \/ Rollback)

---------------------------------------------------------------------------
\* Properties.

Versions == {"old", "new"}
Contents == Versions \cup {"key", "fresh", "empty", "absent"}
Places ==
  {"backup", "stage", "mark", "exchange", "activate", "exec",
   "undoExchange", "undoMarker", "undoPrevious",
   "down", "key", "begin", "forgetPrevious", "forgetMarker", "open", "probe",
   "confirmMarker", "confirmPrevious", "serve",
   "rollback", "moveAside", "install", "revert", "returnBinary",
   "clearMarker", "clearPrevious", "restart"}

UpdateTypeOK ==
  /\ executable \in Versions /\ previous \in Versions \cup {"none"}
  /\ marker \in {"none", "prepared", "activated"} /\ attempts \in 0..1
  /\ state \in [Names -> Contents]
  /\ backup \in [Names -> Contents \cup {"none"}]
  /\ saved \in [Names -> Contents \cup {"none"}]
  /\ next \in 1..(Len(Targets) + 1)
  /\ pc \in Places /\ running \in Versions
  /\ recovery \in {"none", "fresh", "restored"}
  /\ healthy \in BOOLEAN
  /\ updates \in 0..MaxUpdates /\ faults \in 0..MaxFaults

\* A version that goes on to open the installation state finds all of it, as
\* one version left it: never the halves of two, never nothing where there was
\* an installation, never the state of a later version.
OpensWhole ==
  pc = "open" => state = Written("old") \/ (running = "new" /\ state = Written("new"))

\* Until the new version has been confirmed there is a way back: when it is
\* about to touch the old state for the first time, the marker, the old
\* executable and a whole backup are there.
WayBack ==
  (executable = "new" /\ marker # "none")
      \/ (pc = "open" /\ running = "new" /\ state = Written("old")) =>
    marker # "none" /\ previous = "old" /\ backup = Written("old")

\* What has been confirmed is never rolled back: the state the new version
\* serves is not replaced by the backup, whatever crashes later.
ConfirmedStays ==
  [](pc = "serve" /\ running = "new" =>
       [](executable = "new" /\ state["database"] = "new"))

\* How far an update has come.  It is on trial until the previous executable is
\* gone, as a confirmation that fails before that is rolled back.
OnTrial == Serving /\ pc # "serve"
Applying ==
  \/ pc \in {"backup", "stage", "mark"}
  \/ marker # "none" /\ (attempts = 0 \/ pc = "open")
Returning ==
  marker # "none" \/ pc \in {"rollback", "moveAside", "install", "revert", "returnBinary",
                            "clearMarker"}
Phase == IF OnTrial THEN "trial" ELSE IF Applying THEN "applying"
         ELSE IF Returning THEN "returning" ELSE "settled"
Settled == IF Phase = "settled" /\ executable = "new" THEN "new" ELSE "old"
Served == IF Serving THEN <<running, state>> ELSE <<>>

\* An update happens as a whole or not at all (AtomicUpdate).  The new version
\* serves unconfirmed, but once only, over the whole state it migrated; then it
\* is settled on for good, or the next to serve is the old version with the whole
\* state of before the update, which lacks what visitors wrote meanwhile.
Atomic == INSTANCE AtomicUpdate WITH
  Before <- "old", After <- "new", StateOf <- Written,
  phase <- Phase, settled <- Settled, served <- Served
UpdatesAtomically == Atomic!Spec

\* Without a new update or a fault some version comes to serve for good.
Settles == <>[](pc = "serve")

\* The same, unless the authentication key is gone.
SettlesWithKey == Settles \/ <>[](state["authKey"] = "absent")
=============================================================================
