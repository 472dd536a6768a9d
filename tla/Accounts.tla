------------------------------ MODULE Accounts ------------------------------
(***************************************************************************)
(* Accounts, sessions and second factors: the services of internal/auth    *)
(* and the web handlers that call them (internal/web/server.go), over the  *)
(* transactions of AuthStore.                                              *)
(*                                                                         *)
(* A request reads, works (a password hash takes long) and writes, each in *)
(* a transaction of its own, so what it read may be stale when it writes:  *)
(* the session it was let in with, the account whose password it verified, *)
(* the factors it counted.  Any request may end early (a refusal, an       *)
(* error, a client gone), and the process may stop between any two steps.  *)
(*                                                                         *)
(* Reads that only refuse early what the write refuses again are part of   *)
(* the write.  Left out: the age of a session's authentication (within ten *)
(* minutes every check on it passes), pages that only read, the rate       *)
(* limiters (LoginLimiter), names and their spelling.                      *)
(***************************************************************************)
EXTENDS AuthStore

CONSTANT Requests \* requests being served at the same time

VARIABLES
  request,    \* what each request being served has read so far
  initialized \* Server.initialized

accountVars == <<request, initialized>>
vars == <<storeVars, accountVars>>

Stages == {"idle", "onboarding", "session", "registering", "verified", "counted",
           "second", "answered", "checked", "matched", "grant"}
RequestStates ==
  [at: Stages, user: Users \union {None}, token: SessionTokens \union LoginTokens \union {None},
   role: Roles \union {None}, assurance: Assurances \union {None},
   secret: Authenticators \union {None}, counter: Counters \union {None}]

Idle == [at |-> "idle", user |-> None, token |-> None, role |-> None, assurance |-> None,
         secret |-> None, counter |-> None]
For(u, stage) == [Idle EXCEPT !.at = stage, !.user = u]
Granted(u, a, t) == [For(u, "grant") EXCEPT !.assurance = a, !.token = t]

Init == StoreInit /\ request = [r \in Requests |-> Idle] /\ initialized = FALSE

Becomes(r, state) == request' = [request EXCEPT ![r] = state]
Done(r) == Becomes(r, Idle) /\ UNCHANGED initialized
Continues(r, state) == Becomes(r, state) /\ UNCHANGED <<storeVars, initialized>>

\* Tokens are drawn at random: never one that is still held.
HeldTokens ==
  {s.token : s \in sessions} \union {x.token : x \in transactions}
    \union {c.binding : c \in ceremonies} \union {e.binding : e \in enrollments}
    \union {request[r].token : r \in Requests}

\* So are the secrets of authenticators; that of an enrolment is drawn when it is
\* confirmed, as nothing asks for it before.
HeldSecrets == {totp[u].secret : u \in Users} \union {request[r].secret : r \in Requests}

\* onboardingBoundary: before the installation has an account, every path leads
\* to the onboarding form.
Served(r) == request[r] = Idle /\ initialized

-----------------------------------------------------------------------------
(* Onboarding and setup links *)

StartOnboarding(r) ==
  /\ request[r] = Idle
  /\ ~initialized
  /\ Continues(r, [Idle EXCEPT !.at = "onboarding"])

CompleteOnboarding(r, u) ==
  /\ request[r].at = "onboarding"
  /\ initialized' = TRUE
  /\ \/ CreateInitialUser(u) /\ Becomes(r, Granted(u, "bootstrap", None))
     \/ InstallationInitialized /\ Becomes(r, Idle) /\ UNCHANGED storeVars

\* The link carries the authority, no session is needed.
CompleteSetup(u) == initialized /\ CompleteUserSetup(u) /\ UNCHANGED accountVars

-----------------------------------------------------------------------------
(* Signing in *)

\* The password matches the hash just read.
VerifyCredentials(r, u) ==
  /\ Served(r)
  /\ status[u] = "active"
  /\ Continues(r, [For(u, "verified") EXCEPT
       !.assurance = IF mfaSkipped[u] THEN "password" ELSE "bootstrap"])

\* AfterPassword, statement by statement.
CountPasskeys(r) ==
  LET q == request[r] IN
  /\ q.at = "verified"
  /\ Continues(r, IF passkeys[q.user] = {} THEN [q EXCEPT !.at = "counted"]
                                           ELSE For(q.user, "second"))

CheckTOTP(r) ==
  LET q == request[r] IN
  /\ q.at = "counted"
  /\ Continues(r, IF totp[q.user] = NotConfigured THEN Granted(q.user, q.assurance, None)
                                                  ELSE For(q.user, "second"))

StartSecondFactor(r) ==
  /\ request[r].at = "second"
  /\ \E t \in LoginTokens \ HeldTokens : CreateLoginTransaction(request[r].user, t)
  /\ Done(r)

\* NewSession: the last step of every way to sign in.
NewSession(r) ==
  LET q == request[r] IN
  /\ q.at = "grant"
  /\ \E t \in SessionTokens \ HeldTokens : CreateSession(q.user, q.assurance, t)
  /\ Done(r)

BeginLogin(x) ==
  /\ initialized
  /\ passkeys[x.user] # {}
  /\ CreateCeremony(x.token, x.user, "passkey_login")
  /\ UNCHANGED accountVars

\* FinishLogin: the ceremony is consumed before the assertion is checked, the
\* transaction after the passkey's counter is stored.
FinishLogin(r, x) ==
  /\ Served(r)
  /\ ConsumeCeremony(x.token, x.user, "passkey_login")
  /\ Becomes(r, [For(x.user, "answered") EXCEPT !.token = x.token])
  /\ UNCHANGED initialized

UpdatePasskey(r) ==
  /\ request[r].at = "answered"
  /\ passkeys[request[r].user] # {}
  /\ Continues(r, [request[r] EXCEPT !.at = "checked"])

SpendTransaction(r) ==
  LET q == request[r] IN
  /\ q.at = "checked"
  /\ ConsumeLoginTransaction([token |-> q.token, user |-> q.user])
  /\ Becomes(r, Granted(q.user, "mfa", q.token))
  /\ UNCHANGED initialized

\* VerifyLogin: the code matches the secret just read, at a time step near now ...
MatchTOTP(r, x, counter) ==
  /\ Served(r)
  /\ totp[x.user] # NotConfigured
  /\ Continues(r, [For(x.user, "matched") EXCEPT
       !.token = x.token, !.secret = totp[x.user].secret, !.counter = counter])

\* ... and the time step is consumed, whichever authenticator is stored by then.
VerifyLogin(r) ==
  LET q == request[r] IN
  /\ q.at = "matched"
  /\ ConsumeTOTPLogin([token |-> q.token, user |-> q.user], q.secret, q.counter)
  /\ Becomes(r, Granted(q.user, "mfa", q.token))
  /\ UNCHANGED initialized

Recover(r, x, code) ==
  /\ Served(r)
  /\ ConsumeRecoveryLogin(x, code)
  /\ Becomes(r, Granted(x.user, "recovery", x.token))
  /\ UNCHANGED initialized

-----------------------------------------------------------------------------
(* Requests let in with a session.  They act on the session as it was read. *)

Authenticate(r, s) ==
  /\ Served(r)
  /\ status[s.user] = "active"
  /\ Continues(r, [For(s.user, "session") EXCEPT
       !.token = s.token, !.role = role[s.user], !.assurance = s.assurance])

InSession(r) == request[r].at = "session"
RecentMFA(r) == InSession(r) /\ request[r].assurance = "mfa"
CanManageUsers(r) ==
  InSession(r) /\ request[r].role = "superuser" /\ request[r].assurance \in {"password", "mfa"}

CreateUser(u) == \E ro \in Roles : CreateManagedUser(u, ro) \/ CreatePendingUser(u, ro)
SetUserRole(u) == \E ro \in Roles : UpdateUserRole(u, ro)
SetUserStatus(u) == EnableUser(u) \/ DisableUser(u)

\* One form each, one call of the service each.
ManageUsers(r) ==
  /\ CanManageUsers(r)
  /\ \E u \in Users :
       CreateUser(u) \/ SetUserRole(u) \/ SetUserStatus(u) \/ ReplaceUserSetupToken(u)
  /\ Done(r)

\* Logout, RevokeSession and RevokeOtherSessions.
EndSessions(r) ==
  LET mine == OwnedBy(sessions, request[r].user) IN
  /\ InSession(r)
  /\ \/ \E s \in mine : DeleteSessions({s})
     \/ DeleteSessions({s \in mine : s.token # request[r].token})
  /\ Done(r)

ChangePassword(r) ==
  /\ InSession(r) /\ request[r].assurance # "recovery"
  /\ ChangePasswordAndRevoke(request[r].user)
  /\ Done(r)

OptOut(r) ==
  /\ InSession(r) /\ request[r].assurance = "bootstrap"
  /\ SkipMFA(request[r].user, request[r].token)
  /\ Done(r)

BeginRegistration(r) ==
  /\ InSession(r)
  /\ CreateCeremony(request[r].token, request[r].user, "passkey_register")
  /\ Done(r)

FinishRegistration(r) ==
  /\ InSession(r)
  /\ ConsumeCeremony(request[r].token, request[r].user, "passkey_register")
  /\ Becomes(r, [request[r] EXCEPT !.at = "registering"])
  /\ UNCHANGED initialized

\* Broken variant of WithCodes: who had opted out gets none.
WithCodesAtFirst(r) == request[r].assurance \in {"bootstrap", "recovery"}

\* Recovery codes come with a user's first factor, or replace those of a recovery.
WithCodes(r) == request[r].assurance # "mfa"

RegisterPasskey(r, name) ==
  /\ request[r].at = "registering"
  /\ CompletePasskeyRegistration(request[r].user, name, request[r].token, WithCodes(r))
  /\ Done(r)

BeginEnrollment(r) ==
  /\ InSession(r)
  /\ CreateTOTPEnrollment(request[r].token, request[r].user)
  /\ Done(r)

ConfirmEnrollment(r, secret, counter) ==
  /\ InSession(r)
  /\ secret \notin HeldSecrets
  /\ CompleteTOTPEnrollment(request[r].user, secret, counter, request[r].token, WithCodes(r))
  /\ Done(r)

DeletePasskey(r, name) ==
  /\ RecentMFA(r)
  /\ DeletePasskeyKeepingOne(request[r].user, name)
  /\ Done(r)

DeleteTOTP(r) ==
  /\ RecentMFA(r)
  /\ DeleteTOTPKeepingFactor(request[r].user)
  /\ Done(r)

RotateRecoveryCodes(r) ==
  /\ RecentMFA(r)
  /\ ReplaceRecoveryCodes(request[r].user)
  /\ Done(r)

-----------------------------------------------------------------------------
(* Ends that no request chose *)

Abandon(r) ==
  /\ request[r] # Idle
  /\ Done(r) /\ UNCHANGED storeVars

\* The server stops, in the middle of whatever it is doing, and starts again.
\* The local commands run while it is stopped: they hold the installation lock.
Stopped == request' = [r \in Requests |-> Idle] /\ initialized' = InstallationInitialized'

Restart == UNCHANGED storeVars /\ Stopped
CreateAdmin(u) == CreateManagedUser(u, "superuser") /\ Stopped
ResetAuthentication(u) == ResetUserMFA(u) /\ Stopped

Housekeeping == Maintain /\ UNCHANGED accountVars

PasswordLogin(r) ==
  \/ \E u \in Users : VerifyCredentials(r, u)
  \/ CountPasskeys(r) \/ CheckTOTP(r) \/ StartSecondFactor(r)

SecondFactorLogin(r) ==
  \/ \E x \in transactions :
       \/ FinishLogin(r, x)
       \/ \E counter \in Counters : MatchTOTP(r, x, counter)
       \/ \E code \in RecoveryCodes : Recover(r, x, code)
  \/ UpdatePasskey(r) \/ SpendTransaction(r) \/ VerifyLogin(r)

Registration(r) ==
  \/ BeginRegistration(r) \/ FinishRegistration(r)
  \/ \E name \in PasskeyNames : RegisterPasskey(r, name)

Enrollment(r) ==
  \/ BeginEnrollment(r)
  \/ \E secret \in Authenticators, counter \in Counters : ConfirmEnrollment(r, secret, counter)

Manage(r) ==
  \/ \E s \in sessions : Authenticate(r, s)
  \/ ManageUsers(r) \/ EndSessions(r) \/ ChangePassword(r) \/ OptOut(r)
  \/ Registration(r) \/ Enrollment(r)
  \/ \E name \in PasskeyNames : DeletePasskey(r, name)
  \/ DeleteTOTP(r) \/ RotateRecoveryCodes(r)

Next ==
  \/ \E r \in Requests :
       \/ StartOnboarding(r) \/ \E u \in Users : CompleteOnboarding(r, u)
       \/ PasswordLogin(r) \/ SecondFactorLogin(r) \/ NewSession(r)
       \/ Manage(r) \/ Abandon(r)
  \/ \E u \in Users : CompleteSetup(u) \/ CreateAdmin(u) \/ ResetAuthentication(u)
  \/ \E x \in transactions : BeginLogin(x)
  \/ Housekeeping \/ Restart

Spec == Init /\ [][Next]_vars

-----------------------------------------------------------------------------
\* Every variable holds values of its type (the columns and CHECKs of the
\* schema in internal/store/migrate.go).
AccountsTypeOK ==
  /\ status \in [Users -> Statuses] /\ role \in [Users -> Roles]
  /\ mfaSkipped \in [Users -> BOOLEAN]
  /\ setupTokens \subseteq Users
  /\ sessions \subseteq SessionRows /\ transactions \subseteq TransactionRows
  /\ ceremonies \subseteq CeremonyRows /\ enrollments \subseteq EnrollmentRows
  /\ recoveryCodes \subseteq RecoveryRows
  /\ passkeys \in [Users -> SUBSET PasskeyNames]
  /\ totp \in [Users -> AuthenticatorRows \union {NotConfigured}]
  /\ redeemed \in [Users -> [Proofs -> 0..2]]
  /\ request \in [Requests -> RequestStates]
  /\ initialized \in BOOLEAN

\* Once the installation has an account it keeps an active superuser, whatever
\* superusers do to each other at the same time (requireAnotherActiveSuperuser).
SuperuserKept == InstallationInitialized => \E u \in Users : ActiveSuperuser(u)

\* What a session's assurance says of its account holds as long as the session
\* does: the account is active; a password alone is enough only for an account
\* that chose so and has no second factor; a session that proved a second
\* factor, or a recovery code, belongs to an account that still has one.
AssuranceStands ==
  \A s \in sessions :
    /\ status[s.user] = "active"
    /\ s.assurance = "password" => mfaSkipped[s.user] /\ ~HasFactor(s.user)
    /\ s.assurance \in {"mfa", "recovery"} => HasFactor(s.user) /\ ~mfaSkipped[s.user]

\* A user who has a second factor has recovery codes, issued with the first
\* factor, and only such a user has.
CodesComeWithFactors ==
  \A u \in Users : HasFactor(u) <=> \E row \in recoveryCodes : row.user = u

\* Each proof lets its user in once: a code of the authenticator that is enrolled,
\* a recovery code of the last batch, and the password step of one sign-in, even
\* when several requests present them at the same time, and some of these have
\* matched a code with an authenticator that is gone.
ProofsSpentOnce ==
  /\ \A u \in Users : \A p \in Proofs : redeemed[u][p] <= 1
  /\ \A r \in Requests : request[r].at = "grant" /\ request[r].token # None =>
       /\ \A x \in transactions : x.token # request[r].token
       /\ \A q \in Requests \ {r} :
            request[q].at = "grant" => request[q].token # request[r].token

\* A setup link is in force only while its account waits for it.
SetupLinksPending == \A u \in setupTokens : status[u] = "pending"

\* The last second factor of an account goes only with everything it vouched
\* for: its sessions, its sign-ins, its codes and every request under way.  Two
\* requests that remove one factor each never leave an account without any.
LastFactorKept ==
  [][\A u \in Users : HasFactor(u) /\ ~HasFactor(u)' =>
       /\ \A rows \in {sessions', transactions', recoveryCodes'} :
            \A row \in rows : row.user # u
       /\ \A r \in Requests : request'[r] = Idle]_vars
=============================================================================
