---------------------------- MODULE UpdateManager ----------------------------
(***************************************************************************)
(* The update manager of a serving process (internal/updater/manager.go,   *)
(* internal/web/updates.go), over the activation and recovery of Update.   *)
(*                                                                         *)
(* One loop serves the timers and the queued actions; it talks to the      *)
(* release source without a lock.  Meanwhile the handlers of superusers    *)
(* change the policy, one at a time (policyMu): the row of the database    *)
(* first, the manager's copy of it afterwards.  The row travels with the   *)
(* database: a backup takes it along, and a rollback brings the one of the *)
(* backup back.                                                            *)
(*                                                                         *)
(* Releases are numbered; the running "old" version is release 0 and the   *)
(* "new" one is the release that was handed over.  A failing request to    *)
(* the release source is one of Update's faults.                           *)
(***************************************************************************)
EXTENDS Update

CONSTANTS
  MaxReleases, \* releases that the source comes to offer
  MaxActions,  \* capacity of Manager.actions
  MaxChanges   \* bound on policy changes

ASSUME ManagerAssumption ==
  /\ {MaxReleases, MaxChanges} \subseteq Nat
  /\ MaxActions \in Nat \ {0}

VARIABLES
  published,     \* the newest release of the source, 0 for none
  policy,        \* update_settings: in the database, the backup, the state set aside
  settings,      \* Manager.settings
  latest,        \* Manager.latest, 0 for none
  checking, applying, \* Manager.checking, Manager.applying
  actions,       \* Manager.actions
  loop,          \* what the loop is doing, and with which release
  handler,       \* the handler that holds policyMu, and the settings it saves
  applyRequests, \* the channel to the server: a release, or 0
  target,        \* the release that the "new" executable is
  agreed,        \* history: the policy a confirmed server last stored
  confirmed,     \* history: the new version has come to serve
  changes        \* counter for the bound

memory == <<settings, latest, checking, applying, actions, loop, handler, applyRequests>>
managerVars == <<published, policy, memory, target, agreed, confirmed, changes>>
allVars == <<vars, managerVars>>

Modes == {"notify", "automatic", "disabled"}
Releases == 0..MaxReleases
Settings == [mode : Modes, skipped : Releases]
Default == [mode |-> "notify", skipped |-> 0]

IdleLoop == [at |-> "idle", release |-> 0]
NoHandler == [at |-> "none", kind |-> "none", settings |-> Default]

\* A process begins with the settings it finds, and with nothing else.
Begins(found) ==
  /\ settings' = found
  /\ latest' = 0 /\ checking' = FALSE /\ applying' = FALSE
  /\ actions' = <<>> /\ applyRequests' = 0
  /\ loop' = IdleLoop /\ handler' = NoHandler

ManagerInit ==
  /\ Init
  /\ published = 0 /\ target = 0 /\ changes = 0
  /\ policy = [database |-> Default, backup |-> Default, aside |-> Default]
  /\ settings = Default /\ agreed = Default /\ confirmed = FALSE
  /\ latest = 0 /\ checking = FALSE /\ applying = FALSE
  /\ actions = <<>> /\ applyRequests = 0
  /\ loop = IdleLoop /\ handler = NoHandler

Current == IF running = "new" THEN target ELSE 0

-----------------------------------------------------------------------------
(* Handlers: they are served before the start is confirmed, the loop is started *)
(* afterwards.                                                                  *)

\* A full channel drops the action.
Queued(kind) == IF Len(actions) < MaxActions THEN Append(actions, kind) ELSE actions

\* QueueCheck and QueueApply; the page that offered the update may be old.
QueueAction(kind) ==
  /\ Serving
  /\ actions' = Queued(kind)
  /\ UNCHANGED <<vars, published, policy, settings, latest, checking, applying, loop,
                 handler, applyRequests, target, agreed, confirmed, changes>>

\* A handler has policyMu and has copied the settings.
Change(kind, changed) ==
  /\ Serving /\ handler = NoHandler
  /\ changes < MaxChanges /\ changes' = changes + 1
  /\ handler' = [at |-> "saving", kind |-> kind, settings |-> changed]
  /\ UNCHANGED <<vars, published, policy, settings, latest, checking, applying, actions,
                 loop, applyRequests, target, agreed, confirmed>>

SetMode(mode) == Change("mode", [settings EXCEPT !.mode = mode])
SkipLatest == latest # 0 /\ Change("skip", [settings EXCEPT !.skipped = latest])
ClearSkipped == settings.skipped # 0 /\ Change("clear", [settings EXCEPT !.skipped = 0])

\* Broken variant of Save: the manager takes over the settings before they are
\* stored.
SaveAdopted ==
  /\ Serving /\ handler.at = "saving"
  /\ settings' = handler.settings
  /\ \/ /\ handler' = [handler EXCEPT !.at = "saved"]
        /\ policy' = [policy EXCEPT !.database = handler.settings]
        /\ agreed' = IF recovery = "none" THEN handler.settings ELSE agreed
     \/ handler' = NoHandler /\ UNCHANGED <<policy, agreed>>
  /\ UNCHANGED <<vars, published, latest, checking, applying, actions, loop,
                 applyRequests, target, confirmed, changes>>

\* SaveUpdateSettings: the transaction commits, or the handler fails.
Save ==
  /\ Serving /\ handler.at = "saving"
  /\ \/ /\ handler' = [handler EXCEPT !.at = "saved"]
        /\ policy' = [policy EXCEPT !.database = handler.settings]
        /\ agreed' = IF recovery = "none" THEN handler.settings ELSE agreed
     \/ handler' = NoHandler /\ UNCHANGED <<policy, agreed>>
  /\ UNCHANGED <<vars, published, settings, latest, checking, applying, actions, loop,
                 applyRequests, target, confirmed, changes>>

\* The manager takes over what was saved; a mode other than disabled also asks
\* for a check.
Adopt ==
  /\ Serving /\ handler.at = "saved"
  /\ settings' = handler.settings
  /\ actions' = IF handler.kind = "mode" /\ handler.settings.mode # "disabled"
                THEN Queued("check") ELSE actions
  /\ handler' = NoHandler
  /\ UNCHANGED <<vars, published, policy, latest, checking, applying, loop, applyRequests,
                 target, agreed, confirmed, changes>>

-----------------------------------------------------------------------------
(* The loop *)

Looping(at) == pc = "serve" /\ loop.at = at

\* check, up to the request to the release source.
BeginCheck ==
  IF settings.mode = "disabled" \/ checking \/ applying
    THEN UNCHANGED <<checking, applying, loop>>
    ELSE /\ checking' = TRUE /\ applying' = FALSE
         /\ loop' = [at |-> "checking", release |-> 0]

\* apply, up to the download.
Available == latest # 0 /\ latest # settings.skipped /\ settings.mode # "disabled"
BeginApply ==
  IF Available /\ ~applying /\ ~checking
    THEN /\ applying' = TRUE /\ checking' = FALSE
         /\ loop' = [at |-> "staging", release |-> latest]
    ELSE loop' = IdleLoop /\ UNCHANGED <<checking, applying>>

\* A timer fires.
Tick ==
  /\ Looping("idle")
  /\ BeginCheck
  /\ UNCHANGED <<vars, published, policy, settings, latest, actions, handler,
                 applyRequests, target, agreed, confirmed, changes>>

TakeAction ==
  /\ Looping("idle") /\ actions # <<>>
  /\ actions' = Tail(actions)
  /\ IF Head(actions) = "check" THEN BeginCheck ELSE BeginApply
  /\ UNCHANGED <<vars, published, policy, settings, latest, handler, applyRequests,
                 target, agreed, confirmed, changes>>

\* Broken variant of FinishCheck: a check that fails leaves the flag set.
FinishCheckUnlessFailed ==
  /\ Looping("checking")
  /\ \/ /\ checking' = FALSE
        /\ latest' = IF published > Current THEN published ELSE 0
        /\ loop' = IF latest' # 0 /\ settings.mode = "automatic" /\ settings.skipped # latest'
                   THEN [at |-> "deciding", release |-> 0] ELSE IdleLoop
        /\ UNCHANGED vars
     \/ /\ UNCHANGED <<checking, latest>> /\ loop' = IdleLoop
        /\ Fail("serve") /\ UNCHANGED <<disk, restoring, recovery>>
  /\ UNCHANGED <<published, policy, settings, applying, actions, handler, applyRequests,
                 target, agreed, confirmed, changes>>

\* The source answers.  Releases no newer than the running one are not offered;
\* in automatic mode an offered one is applied at once.
FinishCheck ==
  /\ Looping("checking")
  /\ checking' = FALSE
  /\ \/ /\ latest' = IF published > Current THEN published ELSE 0
        /\ loop' = IF latest' # 0 /\ settings.mode = "automatic" /\ settings.skipped # latest'
                   THEN [at |-> "deciding", release |-> 0] ELSE IdleLoop
        /\ UNCHANGED vars
     \/ /\ latest' = latest /\ loop' = IdleLoop
        /\ Fail("serve") /\ UNCHANGED <<disk, restoring, recovery>>
  /\ UNCHANGED <<published, policy, settings, applying, actions, handler, applyRequests,
                 target, agreed, confirmed, changes>>

\* The settings are read again: a handler may have changed them meanwhile.
ApplyFound ==
  /\ Looping("deciding")
  /\ BeginApply
  /\ UNCHANGED <<vars, published, policy, settings, latest, actions, handler,
                 applyRequests, target, agreed, confirmed, changes>>

\* Broken variant of FinishStage: a download that fails leaves the flag set.
FinishStageUnlessFailed ==
  /\ Looping("staging")
  /\ loop' = IdleLoop
  /\ \/ /\ applyRequests = 0
        /\ applyRequests' = loop.release /\ UNCHANGED <<applying, vars>>
     \/ /\ applyRequests # 0
        /\ UNCHANGED <<applying, applyRequests, vars>>
     \/ /\ UNCHANGED <<applying, applyRequests>>
        /\ Fail("serve") /\ UNCHANGED <<disk, restoring, recovery>>
  /\ UNCHANGED <<published, policy, settings, latest, checking, actions, handler,
                 target, agreed, confirmed, changes>>

\* The candidate is downloaded, verified and handed to the server, or not.  Once
\* it is handed over, applying stays TRUE until the process ends.
FinishStage ==
  /\ Looping("staging")
  /\ loop' = IdleLoop
  /\ \/ /\ applyRequests = 0
        /\ applyRequests' = loop.release /\ UNCHANGED <<applying, vars>>
     \/ /\ applyRequests # 0
        /\ applying' = FALSE /\ UNCHANGED <<applyRequests, vars>>
     \/ /\ applying' = FALSE /\ UNCHANGED applyRequests
        /\ Fail("serve") /\ UNCHANGED <<disk, restoring, recovery>>
  /\ UNCHANGED <<published, policy, settings, latest, checking, actions, handler,
                 target, agreed, confirmed, changes>>

-----------------------------------------------------------------------------
(* The process and its database *)

\* NewManager loads the settings of the database that was opened; a process
\* that ends leaves nothing.
MemoryFollows ==
  IF Serving /\ Serving'
    THEN UNCHANGED memory
    ELSE Begins(IF Serving' THEN policy'.database ELSE Default)

\* The row is where the database is.
PolicyFollows ==
  policy' =
    CASE pc = "backup" /\ pc' = "stage" -> [policy EXCEPT !.backup = policy.database]
      [] pc = "moveAside" /\ pc' = "install" /\ Targets[next] = "database" ->
           [policy EXCEPT !.aside = policy.database]
      [] pc = "install" /\ next' = next + 1 /\ Targets[next] = "database" ->
           [policy EXCEPT !.database = policy.backup]
      [] pc = "revert" /\ saved["database"] # "none" ->
           [policy EXCEPT !.database = policy.aside]
      [] pc = "open" /\ Serving' /\ state["database"] = "absent" ->
           [policy EXCEPT !.database = Default]
      [] OTHER -> policy

\* What was stored before the start was confirmed is agreed once the new version
\* serves for the first time.
AgreedFollows ==
  /\ confirmed' = (confirmed \/ (pc' = "serve" /\ running = "new"))
  /\ agreed' = IF confirmed' /\ ~confirmed THEN policy.database ELSE agreed

\* The server takes the request, shuts down and activates the release.
HandOver ==
  /\ applyRequests # 0
  /\ Apply
  /\ target' = applyRequests
  /\ Begins(Default)
  /\ UNCHANGED <<published, policy, agreed, confirmed, changes>>

Proceed ==
  /\ Activate \/ Startup \/ Rollback
  /\ PolicyFollows /\ AgreedFollows /\ MemoryFollows
  /\ UNCHANGED <<published, target, changes>>

Killed ==
  /\ Crash
  /\ Begins(Default)
  /\ UNCHANGED <<published, policy, target, agreed, confirmed, changes>>

\* The release source offers another release.
PublishRelease ==
  /\ published < MaxReleases
  /\ published' = published + 1
  /\ UNCHANGED <<vars, policy, memory, target, agreed, confirmed, changes>>

Handle ==
  \/ \E kind \in {"check", "apply"} : QueueAction(kind)
  \/ \E mode \in Modes : SetMode(mode)
  \/ SkipLatest \/ ClearSkipped \/ Save \/ Adopt

Loop == Tick \/ TakeAction \/ FinishCheck \/ ApplyFound \/ FinishStage

ManagerNext == Handle \/ Loop \/ HandOver \/ Proceed \/ Killed \/ PublishRelease

ManagerSpec == ManagerInit /\ [][ManagerNext]_allVars

\* The loop goes on, its ticker ticks, the source answers, a request is taken,
\* and the process proceeds or is restarted; nobody has to change the policy, ask
\* for anything or publish a release.
ManagerFairSpec ==
  /\ ManagerSpec
  /\ WF_allVars(Tick) /\ WF_allVars(TakeAction) /\ WF_allVars(ApplyFound)
  /\ WF_allVars(FinishCheck) /\ WF_allVars(FinishStage)
  /\ WF_allVars(HandOver) /\ WF_allVars(Proceed) /\ WF_allVars(Save) /\ WF_allVars(Adopt)

-----------------------------------------------------------------------------
(* Properties *)

ManagerTypeOK ==
  /\ UpdateTypeOK
  /\ published \in Releases /\ latest \in Releases
  /\ target \in Releases /\ applyRequests \in Releases
  /\ policy \in [database : Settings, backup : Settings, aside : Settings]
  /\ settings \in Settings /\ agreed \in Settings /\ confirmed \in BOOLEAN
  /\ checking \in BOOLEAN /\ applying \in BOOLEAN
  /\ actions \in Seq({"check", "apply"}) /\ Len(actions) <= MaxActions
  /\ loop \in [at : {"idle", "checking", "deciding", "staging"}, release : Releases]
  /\ handler \in [at : {"none", "saving", "saved"}, kind : {"none", "mode", "skip", "clear"},
                  settings : Settings]
  /\ changes \in 0..MaxChanges

\* The two flags tell what the manager is doing, whatever failed before: one
\* that stayed set would keep it from ever checking or applying again, and one
\* reset too early would let it hand a second release to the server.
OneWorker ==
  /\ checking <=> loop.at = "checking"
  /\ applying <=> loop.at = "staging" \/ applyRequests # 0
  /\ loop.at = "staging" => applyRequests = 0

\* Policy and skipped version survive restarts (docs/operations.md:137): a server
\* at work has in its database, and but for a handler on its way in its memory,
\* what was last stored by a confirmed one, through backups, updates, rollbacks
\* and crashes.
PolicyStands ==
  pc = "serve" =>
    /\ policy.database = agreed
    /\ settings = agreed \/ handler.at = "saved"

\* In automatic mode a release that comes up is installed: once it is offered
\* for good, not skipped and not held up by faults, it comes to serve.
Wanted == agreed.mode = "automatic" /\ published = MaxReleases /\ agreed.skipped # published
AutomaticInstalls ==
  (healthy /\ MaxReleases > 0 /\ <>[]Wanted) => <>(pc = "serve" /\ running = "new")
=============================================================================
