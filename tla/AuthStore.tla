------------------------------ MODULE AuthStore ------------------------------
(***************************************************************************)
(* The tables of the control database that hold the accounts               *)
(* (internal/store users.go, mfa.go, totp.go, sqlite.go): the users, their *)
(* setup links, sessions, second factors, recovery codes, and the rows of  *)
(* sign-ins and enrolments under way.                                      *)
(*                                                                         *)
(* Every operator below is one transaction of the store.  The pool holds   *)
(* one connection, so transactions are serial; one that fails rolls back   *)
(* and is no step.  Tokens are random: a new one is none of those a row or *)
(* a request still holds.  The tokens of ceremonies, enrolments and setup  *)
(* links are left out (a request presents the one in force or is refused), *)
(* and so are passwords, times of day and the audit events.                *)
(***************************************************************************)
EXTENDS Naturals, FiniteSets

CONSTANTS
  Users,         \* user names; the store keeps them unique
  SessionTokens, \* tokens of sessions
  LoginTokens,   \* tokens of sign-ins that still need their second factor
  PasskeyNames,  \* names a user may give to a passkey
  Authenticators,\* secrets of authenticator apps
  Counters,      \* time steps whose TOTP codes are accepted
  RecoveryCodes, \* the codes of one batch
  None           \* a field without a value

ASSUME CountersAssumption == Counters \subseteq Nat \ {0}
ASSUME CodesAssumption == RecoveryCodes # {}

VARIABLES
  status, role, mfaSkipped, \* columns of users; an absent user has no row
  setupTokens,              \* users with a setup link in force
  sessions, transactions, ceremonies, enrollments, recoveryCodes, \* sets of rows
  passkeys,                 \* per user, the names of the registered passkeys
  totp,                     \* per user, the row of its authenticator
  redeemed                  \* history: how often each proof of a user was accepted, of
                            \* those of the factors the user has

userVars == <<status, role, mfaSkipped, setupTokens>>
factorVars == <<passkeys, totp, recoveryCodes, redeemed>>
flowVars == <<transactions, ceremonies, enrollments>>
storeVars == <<userVars, factorVars, flowVars, sessions>>

Roles == {"user", "superuser"}
Statuses == {"absent", "pending", "active", "disabled"}
Assurances == {"bootstrap", "password", "mfa", "recovery"}
Kinds == {"passkey_login", "passkey_register"}

\* The secret of an authenticator and its last used counter; both, once stored,
\* are set, so that an absent row can be one without a secret.
AuthenticatorRows == [secret: Authenticators, counter: Counters]
NotConfigured == [secret |-> None, counter |-> 0]

SessionRows == [token: SessionTokens, user: Users, assurance: Assurances]
TransactionRows == [token: LoginTokens, user: Users]
CeremonyRows == [binding: SessionTokens \union LoginTokens, user: Users, kind: Kinds]
EnrollmentRows == [binding: SessionTokens, user: Users]
RecoveryRows == [user: Users, code: RecoveryCodes, used: BOOLEAN]

\* What a second factor is proved with, for the history of the proofs.
Proofs == ({"totp"} \X Counters) \union ({"code"} \X RecoveryCodes)

StoreInit ==
  /\ status = [u \in Users |-> "absent"]
  /\ role = [u \in Users |-> "user"]
  /\ mfaSkipped = [u \in Users |-> FALSE]
  /\ setupTokens = {}
  /\ sessions = {} /\ transactions = {} /\ ceremonies = {} /\ enrollments = {}
  /\ recoveryCodes = {}
  /\ passkeys = [u \in Users |-> {}]
  /\ totp = [u \in Users |-> NotConfigured]
  /\ redeemed = [u \in Users |-> [p \in Proofs |-> 0]]

OwnedBy(rows, u) == {row \in rows : row.user = u}
Without(rows, u) == {row \in rows : row.user # u}

InstallationInitialized == \E u \in Users : status[u] # "absent"
HasFactor(u) == passkeys[u] # {} \/ totp[u] # NotConfigured
ActiveSuperuser(u) == role[u] = "superuser" /\ status[u] = "active"
AnotherActiveSuperuser(u) == \E v \in Users \ {u} : ActiveSuperuser(v)

-----------------------------------------------------------------------------
(* Users and setup links *)

InsertUser(u, r, s) ==
  /\ status[u] = "absent"
  /\ status' = [status EXCEPT ![u] = s]
  /\ role' = [role EXCEPT ![u] = r]
  /\ UNCHANGED <<mfaSkipped, factorVars, flowVars, sessions>>

CreateInitialUser(u) ==
  /\ ~InstallationInitialized
  /\ InsertUser(u, "superuser", "active")
  /\ UNCHANGED setupTokens

\* By a superuser, or by the local command (CreateUser).
CreateManagedUser(u, r) == InsertUser(u, r, "active") /\ UNCHANGED setupTokens

CreatePendingUser(u, r) ==
  /\ InsertUser(u, r, "pending")
  /\ setupTokens' = setupTokens \union {u}

CompleteUserSetup(u) ==
  /\ u \in setupTokens
  /\ status[u] = "pending"
  /\ setupTokens' = setupTokens \ {u}
  /\ status' = [status EXCEPT ![u] = "active"]
  /\ mfaSkipped' = [mfaSkipped EXCEPT ![u] = FALSE]
  /\ UNCHANGED <<role, factorVars, flowVars, sessions>>

ReplaceUserSetupToken(u) ==
  /\ status[u] = "pending"
  /\ setupTokens' = setupTokens \union {u}
  /\ UNCHANGED <<status, role, mfaSkipped, factorVars, flowVars, sessions>>

\* Broken variant of UpdateUserRole: nobody looks for another active superuser.
UpdateAnyRole(u, r) ==
  /\ status[u] # "absent"
  /\ role' = [role EXCEPT ![u] = r]
  /\ UNCHANGED <<status, mfaSkipped, setupTokens, factorVars, flowVars, sessions>>

UpdateUserRole(u, r) ==
  /\ status[u] # "absent"
  /\ ActiveSuperuser(u) /\ r # "superuser" => AnotherActiveSuperuser(u)
  /\ role' = [role EXCEPT ![u] = r]
  /\ UNCHANGED <<status, mfaSkipped, setupTokens, factorVars, flowVars, sessions>>

EnableUser(u) ==
  /\ status[u] = "disabled"
  /\ status' = [status EXCEPT ![u] = "active"]
  /\ UNCHANGED <<role, mfaSkipped, setupTokens, factorVars, flowVars, sessions>>

\* Drops the sign-ins and sessions of a user.
Revoke(u) ==
  /\ transactions' = Without(transactions, u)
  /\ ceremonies' = Without(ceremonies, u)
  /\ sessions' = Without(sessions, u)

DisableUser(u) ==
  /\ status[u] = "active"
  /\ ActiveSuperuser(u) => AnotherActiveSuperuser(u)
  /\ status' = [status EXCEPT ![u] = "disabled"]
  /\ enrollments' = Without(enrollments, u)
  /\ Revoke(u)
  /\ UNCHANGED <<role, mfaSkipped, setupTokens, factorVars>>

-----------------------------------------------------------------------------
(* Sessions *)

\* Broken variant of CreateSession: the opt-out read before the work is believed.
CreateSessionAsRead(u, a, t) ==
  /\ status[u] = "active"
  /\ sessions' = sessions \union {[token |-> t, user |-> u, assurance |-> a]}
  /\ UNCHANGED <<userVars, factorVars, flowVars>>

CreateSession(u, a, t) ==
  /\ status[u] = "active"
  /\ a = "password" => mfaSkipped[u]
  /\ sessions' = sessions \union {[token |-> t, user |-> u, assurance |-> a]}
  /\ UNCHANGED <<userVars, factorVars, flowVars>>

DeleteSessions(rows) ==
  /\ sessions' = sessions \ rows
  /\ UNCHANGED <<userVars, factorVars, flowVars>>

ChangePasswordAndRevoke(u) ==
  Revoke(u) /\ UNCHANGED <<userVars, factorVars, enrollments>>

-----------------------------------------------------------------------------
(* Second factors *)

SkipMFA(u, t) ==
  LET bootstrap == [token |-> t, user |-> u, assurance |-> "bootstrap"] IN
  /\ ~HasFactor(u)
  /\ bootstrap \in sessions
  /\ sessions' = (sessions \ {bootstrap}) \union {[bootstrap EXCEPT !.assurance = "password"]}
  /\ mfaSkipped' = [mfaSkipped EXCEPT ![u] = TRUE]
  /\ UNCHANGED <<status, role, setupTokens, factorVars, flowVars>>

FreshBatch(u) == [user: {u}, code: RecoveryCodes, used: {FALSE}]
IssueRecoveryCodes(u) ==
  recoveryCodes' = Without(recoveryCodes, u) \union FreshBatch(u)

\* A factor is stored: the opt-out ends, the user's weaker sessions go, and the
\* one that registered it is raised; without that session nothing is stored.
Elevate(u, t) ==
  LET kept == {s \in sessions : s.user # u \/ s.assurance = "mfa"} IN
  /\ \E s \in sessions : s.token = t /\ s.user = u
  /\ sessions' = kept \union {[token |-> t, user |-> u, assurance |-> "mfa"]}
  /\ mfaSkipped' = [mfaSkipped EXCEPT ![u] = FALSE]

\* The history of the proofs of one kind starts anew.
Forget(u, kind) == [p \in Proofs |-> IF p[1] = kind THEN 0 ELSE redeemed[u][p]]

CompletePasskeyRegistration(u, name, t, withCodes) ==
  /\ name \notin passkeys[u]
  /\ passkeys' = [passkeys EXCEPT ![u] = @ \union {name}]
  /\ Elevate(u, t)
  /\ IF withCodes
       THEN /\ IssueRecoveryCodes(u)
            /\ redeemed' = [redeemed EXCEPT ![u] = Forget(u, "code")]
       ELSE UNCHANGED <<recoveryCodes, redeemed>>
  /\ UNCHANGED <<status, role, setupTokens, totp, flowVars>>

\* A proof of user u is accepted; the history counts to two, which is one too many.
Redeem(u, proof) ==
  redeemed' = [redeemed EXCEPT ![u][proof] = IF @ = 0 THEN 1 ELSE 2]

\* A code of user u is accepted, which was matched with this secret; once the
\* authenticator is gone, it is no code of the user's any more.
RedeemTOTP(u, secret, counter) ==
  IF totp[u].secret = secret THEN Redeem(u, <<"totp", counter>>) ELSE UNCHANGED redeemed

\* The code that confirms the enrolment is spent by it.
CompleteTOTPEnrollment(u, secret, counter, t, withCodes) ==
  LET row == [binding |-> t, user |-> u]
      anew == [Forget(u, "totp") EXCEPT ![<<"totp", counter>>] = 1]
  IN
  /\ row \in enrollments
  /\ enrollments' = enrollments \ {row}
  /\ totp[u] = NotConfigured
  /\ totp' = [totp EXCEPT ![u] = [secret |-> secret, counter |-> counter]]
  /\ Elevate(u, t)
  /\ redeemed' = [redeemed EXCEPT ![u] =
       [p \in Proofs |-> IF withCodes /\ p[1] = "code" THEN 0 ELSE anew[p]]]
  /\ IF withCodes THEN IssueRecoveryCodes(u) ELSE UNCHANGED recoveryCodes
  /\ UNCHANGED <<status, role, setupTokens, passkeys, transactions, ceremonies>>

\* Broken variant of DeletePasskeyKeepingOne: the factors are not counted again.
DeletePasskeyAsCounted(u, name) ==
  /\ name \in passkeys[u]
  /\ passkeys' = [passkeys EXCEPT ![u] = @ \ {name}]
  /\ UNCHANGED <<userVars, flowVars, sessions, totp, recoveryCodes, redeemed>>

DeletePasskeyKeepingOne(u, name) ==
  /\ passkeys[u] \ {name} # {} \/ totp[u] # NotConfigured
  /\ name \in passkeys[u]
  /\ passkeys' = [passkeys EXCEPT ![u] = @ \ {name}]
  /\ UNCHANGED <<userVars, flowVars, sessions, totp, recoveryCodes, redeemed>>

DeleteTOTPKeepingFactor(u) ==
  /\ passkeys[u] # {}
  /\ totp[u] # NotConfigured
  /\ totp' = [totp EXCEPT ![u] = NotConfigured]
  /\ UNCHANGED <<userVars, flowVars, sessions, passkeys, recoveryCodes, redeemed>>

CreateTOTPEnrollment(t, u) ==
  /\ totp[u] = NotConfigured
  /\ enrollments' = {e \in enrollments : e.binding # t} \union {[binding |-> t, user |-> u]}
  /\ UNCHANGED <<userVars, factorVars, sessions, transactions, ceremonies>>

CreateCeremony(t, u, kind) ==
  /\ ceremonies' = {c \in ceremonies : c.binding # t \/ c.kind # kind}
                     \union {[binding |-> t, user |-> u, kind |-> kind]}
  /\ UNCHANGED <<userVars, factorVars, sessions, transactions, enrollments>>

ConsumeCeremony(t, u, kind) ==
  LET row == [binding |-> t, user |-> u, kind |-> kind] IN
  /\ row \in ceremonies
  /\ ceremonies' = ceremonies \ {row}
  /\ UNCHANGED <<userVars, factorVars, sessions, transactions, enrollments>>

ReplaceRecoveryCodes(u) ==
  /\ IssueRecoveryCodes(u)
  /\ redeemed' = [redeemed EXCEPT ![u] = Forget(u, "code")]
  /\ UNCHANGED <<userVars, flowVars, sessions, passkeys, totp>>

-----------------------------------------------------------------------------
(* Sign-ins that need a second factor *)

CreateLoginTransaction(u, t) ==
  /\ transactions' = transactions \union {[token |-> t, user |-> u]}
  /\ UNCHANGED <<userVars, factorVars, sessions, ceremonies, enrollments>>

ConsumeRow(row) ==
  /\ row \in transactions
  /\ transactions' = transactions \ {row}

ConsumeLoginTransaction(row) ==
  ConsumeRow(row) /\ UNCHANGED <<userVars, factorVars, sessions, ceremonies, enrollments>>

\* Broken variant of ConsumeTOTPLogin: the last used counter is good once more.
ConsumeTOTPAgain(row, secret, counter) ==
  /\ totp[row.user] # NotConfigured /\ totp[row.user].counter <= counter
  /\ totp' = [totp EXCEPT ![row.user].counter = counter]
  /\ RedeemTOTP(row.user, secret, counter)
  /\ ConsumeRow(row)
  /\ UNCHANGED <<userVars, sessions, passkeys, recoveryCodes, ceremonies, enrollments>>

\* The secret that the code was matched with is not compared with the one stored
\* by now; it is named for the history.
ConsumeTOTPLogin(row, secret, counter) ==
  /\ totp[row.user] # NotConfigured /\ totp[row.user].counter < counter
  /\ totp' = [totp EXCEPT ![row.user].counter = counter]
  /\ RedeemTOTP(row.user, secret, counter)
  /\ ConsumeRow(row)
  /\ UNCHANGED <<userVars, sessions, passkeys, recoveryCodes, ceremonies, enrollments>>

ConsumeRecoveryLogin(row, code) ==
  LET unused == [user |-> row.user, code |-> code, used |-> FALSE] IN
  /\ unused \in recoveryCodes
  /\ recoveryCodes' = (recoveryCodes \ {unused}) \union {[unused EXCEPT !.used = TRUE]}
  /\ Redeem(row.user, <<"code", code>>)
  /\ ConsumeRow(row)
  /\ UNCHANGED <<userVars, sessions, passkeys, totp, ceremonies, enrollments>>

-----------------------------------------------------------------------------
(* Local commands and maintenance *)

ResetUserMFA(u) ==
  /\ status[u] # "absent"
  /\ mfaSkipped' = [mfaSkipped EXCEPT ![u] = FALSE]
  /\ passkeys' = [passkeys EXCEPT ![u] = {}]
  /\ totp' = [totp EXCEPT ![u] = NotConfigured]
  /\ recoveryCodes' = Without(recoveryCodes, u)
  /\ redeemed' = [redeemed EXCEPT ![u] = [p \in Proofs |-> 0]]
  /\ enrollments' = Without(enrollments, u)
  /\ Revoke(u)
  /\ UNCHANGED <<status, role, setupTokens>>

\* Rows whose time has come are deleted, and are as good as deleted before.
Maintain ==
  /\ \/ \E s \in sessions :
          sessions' = sessions \ {s} /\ UNCHANGED <<flowVars, setupTokens>>
     \/ \E x \in transactions :
          transactions' = transactions \ {x}
            /\ UNCHANGED <<sessions, ceremonies, enrollments, setupTokens>>
     \/ \E c \in ceremonies :
          ceremonies' = ceremonies \ {c}
            /\ UNCHANGED <<sessions, transactions, enrollments, setupTokens>>
     \/ \E e \in enrollments :
          enrollments' = enrollments \ {e}
            /\ UNCHANGED <<sessions, transactions, ceremonies, setupTokens>>
     \/ \E u \in setupTokens :
          setupTokens' = setupTokens \ {u} /\ UNCHANGED <<sessions, flowVars>>
  /\ UNCHANGED <<status, role, mfaSkipped, factorVars>>
=============================================================================
