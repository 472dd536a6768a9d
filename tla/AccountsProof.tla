---------------------------- MODULE AccountsProof ----------------------------
(***************************************************************************)
(* Proofs about Accounts, for any users, tokens, factors and requests: the *)
(* superuser that is kept, what the assurance of a session says, recovery  *)
(* codes, proofs that are spent once, and the last factor.                 *)
(*                                                                         *)
(* A session, or a request let in with one, is believed later than it was  *)
(* checked, so the invariant says what stays true of an account meanwhile: *)
(* an account stays, and a factor stays but for a local command, which     *)
(* runs when no request is being served.                                   *)
(***************************************************************************)
EXTENDS Accounts, TLAPS

USE DEF userVars, factorVars, flowVars, storeVars, accountVars,
        Becomes, Done, Continues, Idle, For, Granted, Served, InSession, RecentMFA, ConsumeRow,
        Without

UsersTyped ==
  /\ status \in [Users -> Statuses] /\ role \in [Users -> Roles]
  /\ mfaSkipped \in [Users -> BOOLEAN]
  /\ setupTokens \subseteq Users

RowsTyped ==
  /\ sessions \subseteq SessionRows /\ transactions \subseteq TransactionRows
  /\ ceremonies \subseteq CeremonyRows /\ enrollments \subseteq EnrollmentRows

FactorsTyped ==
  /\ recoveryCodes \subseteq RecoveryRows
  /\ passkeys \in [Users -> SUBSET PasskeyNames]
  /\ totp \in [Users -> AuthenticatorRows \union {NotConfigured}]

HistoryTyped == redeemed \in [Users -> [Proofs -> 0..2]]

TablesTyped == UsersTyped /\ RowsTyped /\ FactorsTyped /\ HistoryTyped

RequestsTyped == request \in [Requests -> RequestStates] /\ initialized \in BOOLEAN

\* A request has the fields that its stage reads.
RequestsFormed ==
  \A r \in Requests :
    LET q == request[r] IN
    /\ q.at \notin {"idle", "onboarding"} => q.user \in Users
    /\ q.at \in {"session", "registering"} => q.token \in SessionTokens /\ q.assurance \in Assurances
    /\ q.at \in {"answered", "checked"} => q.token \in LoginTokens
    /\ q.at \in {"verified", "counted"} => q.assurance \in {"bootstrap", "password"}
    /\ q.at = "grant" => q.assurance \in Assurances
    /\ q.at = "matched" =>
         q.token \in LoginTokens /\ q.secret \in Authenticators /\ q.counter \in Counters

TypeInv == TablesTyped /\ RequestsTyped /\ RequestsFormed

\* Only active accounts have sessions, and who was let in with one exists.
SessionsActive == \A s \in sessions : status[s.user] = "active"
RequestsKnown ==
  \A r \in Requests : request[r].at = "session" => status[request[r].user] # "absent"

UsersInv == SetupLinksPending /\ SuperuserKept /\ SessionsActive /\ RequestsKnown

\* An opt-out and a factor exclude each other, and whoever was let in, or is
\* about to be, on the strength of a factor has one.
OptOutAlone == \A u \in Users : mfaSkipped[u] => ~HasFactor(u)
Strong == {"mfa", "recovery"}
SessionVouched(s) ==
  /\ s.assurance = "password" => mfaSkipped[s.user]
  /\ s.assurance \in Strong => HasFactor(s.user)
RequestVouched(q) ==
  /\ q.at \in {"session", "registering", "grant"} /\ q.assurance \in Strong => HasFactor(q.user)
  /\ q.at = "checked" => HasFactor(q.user)
SessionsVouched == \A s \in sessions : SessionVouched(s)
RequestsVouched == \A r \in Requests : RequestVouched(request[r])

FactorsInv == OptOutAlone /\ SessionsVouched /\ CodesComeWithFactors /\ RequestsVouched

\* The counters up to the last used one are spent, an unused code is not, and no
\* two sign-ins have the same token.
CountersSpent ==
  \A u \in Users, c \in Counters :
    totp[u] # NotConfigured /\ redeemed[u][<<"totp", c>>] # 0 => c <= totp[u].counter
CodesUnspent ==
  \A row \in recoveryCodes : ~row.used => redeemed[row.user][<<"code", row.code>>] = 0
OneSignIn == \A x, y \in transactions : x.token = y.token => x = y

ProofsInv == ProofsSpentOnce /\ CountersSpent /\ CodesUnspent /\ OneSignIn

Inv == TypeInv /\ UsersInv /\ FactorsInv /\ ProofsInv

-----------------------------------------------------------------------------
(* What the steps leave alone *)

\* Requests that only read, and the restart.
Reading ==
  \/ \E r \in Requests :
       \/ StartOnboarding(r) \/ CountPasskeys(r) \/ CheckTOTP(r) \/ UpdatePasskey(r) \/ Abandon(r)
       \/ \E u \in Users : VerifyCredentials(r, u)
       \/ \E s \in sessions : Authenticate(r, s)
       \/ \E x \in transactions, counter \in Counters : MatchTOTP(r, x, counter)
  \/ Restart

\* Steps that change only what is under way.
Flowing ==
  \/ \E r \in Requests :
       \/ StartSecondFactor(r) \/ SpendTransaction(r) \/ BeginRegistration(r)
       \/ FinishRegistration(r) \/ BeginEnrollment(r)
       \/ \E x \in transactions : FinishLogin(r, x)
  \/ \E x \in transactions : BeginLogin(x)

\* Steps after which a request is over, or as it was.
Ending == (\E r \in Requests : Done(r)) \/ Stopped \/ UNCHANGED accountVars

LEMMA ReadingFrame == Reading => UNCHANGED storeVars
  BY DEF Reading, StartOnboarding, CountPasskeys, CheckTOTP, UpdatePasskey, Abandon,
         VerifyCredentials, Authenticate, MatchTOTP, Restart

LEMMA FlowingFrame == Flowing => UNCHANGED <<userVars, factorVars, sessions>>
  BY DEF Flowing, StartSecondFactor, CreateLoginTransaction, SpendTransaction,
         ConsumeLoginTransaction, BeginRegistration, CreateCeremony, FinishRegistration,
         ConsumeCeremony, BeginEnrollment, CreateTOTPEnrollment, FinishLogin, BeginLogin

\* The second half of VerifyLogin, with what the first half read named.
TOTPLogin(r, x, secret, counter) ==
  /\ ConsumeTOTPLogin(x, secret, counter)
  /\ Becomes(r, Granted(x.user, "mfa", x.token))
  /\ UNCHANGED initialized

LEMMA VerifyLoginCase ==
  ASSUME TypeInv, NEW r \in Requests, VerifyLogin(r)
  PROVE  \E x \in transactions, secret \in Authenticators, counter \in Counters :
           TOTPLogin(r, x, secret, counter)
  <1> DEFINE x == [token |-> request[r].token, user |-> request[r].user]
  <1>1. request[r].secret \in Authenticators /\ request[r].counter \in Counters
    BY DEF VerifyLogin, TypeInv, RequestsFormed
  <1>2. x \in transactions /\ TOTPLogin(r, x, request[r].secret, request[r].counter)
    BY DEF VerifyLogin, TOTPLogin, ConsumeTOTPLogin
  <1> QED BY <1>1, <1>2

LEMMA NextCases ==
  ASSUME TypeInv, Next
  PROVE  \/ Reading \/ Flowing
         \/ \E r \in Requests :
              \/ \E u \in Users : CompleteOnboarding(r, u)
              \/ \E x \in transactions, secret \in Authenticators, counter \in Counters :
                   TOTPLogin(r, x, secret, counter)
              \/ \E x \in transactions, code \in RecoveryCodes : Recover(r, x, code)
              \/ NewSession(r) \/ ManageUsers(r) \/ EndSessions(r) \/ ChangePassword(r) \/ OptOut(r)
              \/ \E name \in PasskeyNames : RegisterPasskey(r, name) \/ DeletePasskey(r, name)
              \/ \E secret \in Authenticators, counter \in Counters :
                   ConfirmEnrollment(r, secret, counter)
              \/ DeleteTOTP(r) \/ RotateRecoveryCodes(r)
         \/ \E u \in Users : CompleteSetup(u) \/ CreateAdmin(u) \/ ResetAuthentication(u)
         \/ Housekeeping
  BY VerifyLoginCase DEF Next, PasswordLogin, SecondFactorLogin, Manage, Registration,
     Enrollment, Reading, Flowing

LEMMA RequestCases ==
  ASSUME TypeInv, Next
  PROVE  \/ Ending
         \/ \E r \in Requests :
              \/ StartOnboarding(r) \/ CountPasskeys(r) \/ CheckTOTP(r) \/ UpdatePasskey(r)
              \/ SpendTransaction(r) \/ FinishRegistration(r)
              \/ \E u \in Users : CompleteOnboarding(r, u) \/ VerifyCredentials(r, u)
              \/ \E s \in sessions : Authenticate(r, s)
              \/ \E x \in transactions :
                   \/ FinishLogin(r, x)
                   \/ \E counter \in Counters : MatchTOTP(r, x, counter)
                   \/ \E secret \in Authenticators, counter \in Counters :
                        TOTPLogin(r, x, secret, counter)
                   \/ \E code \in RecoveryCodes : Recover(r, x, code)
  BY VerifyLoginCase
     DEF Next, PasswordLogin, SecondFactorLogin, Manage, Registration, Enrollment, Ending,
         StartSecondFactor, NewSession, ManageUsers, EndSessions, ChangePassword, OptOut,
         BeginRegistration, RegisterPasskey, BeginEnrollment, ConfirmEnrollment, DeletePasskey,
         DeleteTOTP, RotateRecoveryCodes, Abandon, CompleteSetup, CreateAdmin,
         ResetAuthentication, BeginLogin, Housekeeping, Restart

-----------------------------------------------------------------------------
(* Types *)

LEMMA ForgetTyped ==
  ASSUME HistoryTyped, NEW u \in Users, NEW kind
  PROVE  Forget(u, kind) \in [Proofs -> 0..2]
  <1>1. \A p \in Proofs : redeemed[u][p] \in 0..2
    BY DEF HistoryTyped
  <1> QED BY <1>1 DEF Forget

LEMMA RedeemTyped ==
  ASSUME HistoryTyped, NEW u \in Users, NEW p \in Proofs, Redeem(u, p)
  PROVE  HistoryTyped'
  <1> DEFINE count == IF redeemed[u][p] = 0 THEN 1 ELSE 2
             after == [redeemed[u] EXCEPT ![p] = count]
  <1>1. redeemed[u] \in [Proofs -> 0..2] /\ count \in 0..2
    BY DEF HistoryTyped
  <1>2. after \in [Proofs -> 0..2]
    BY <1>1
  <1>3. redeemed' = [redeemed EXCEPT ![u] = after]
    BY DEF Redeem
  <1> QED BY <1>2, <1>3 DEF HistoryTyped

\* The row of the authenticator after a sign-in: only its counter is another.
LEMMA CounterAfter ==
  ASSUME TypeInv, NEW r, NEW x \in transactions, NEW secret, NEW counter \in Counters,
         TOTPLogin(r, x, secret, counter)
  PROVE  /\ totp[x.user] \in AuthenticatorRows /\ totp[x.user].counter < counter
         /\ totp' = [totp EXCEPT ![x.user] = [totp[x.user] EXCEPT !.counter = counter]]
         /\ totp' \in [Users -> AuthenticatorRows \union {NotConfigured}]
         /\ \A v \in Users : totp'[v] = NotConfigured <=> totp[v] = NotConfigured
  <1>1. x.user \in Users /\ totp \in [Users -> AuthenticatorRows \union {NotConfigured}]
    BY DEF TypeInv, TablesTyped, RowsTyped, FactorsTyped, TransactionRows
  <1>2. totp[x.user] # NotConfigured /\ totp[x.user].counter < counter
    BY DEF TOTPLogin, ConsumeTOTPLogin
  <1>3. totp[x.user] \in AuthenticatorRows
    BY <1>1, <1>2
  <1> DEFINE row == [totp[x.user] EXCEPT !.counter = counter]
  <1>4. row \in AuthenticatorRows /\ row # NotConfigured
    BY <1>3, CountersAssumption DEF AuthenticatorRows, NotConfigured
  <1>5. totp' = [totp EXCEPT ![x.user] = row]
    BY DEF TOTPLogin, ConsumeTOTPLogin
  <1> HIDE DEF row
  <1>6. totp' \in [Users -> AuthenticatorRows \union {NotConfigured}]
    BY <1>1, <1>4, <1>5
  <1>7. \A v \in Users : totp'[v] = IF v = x.user THEN row ELSE totp[v]
    BY <1>1, <1>5
  <1>8. \A v \in Users : totp'[v] = NotConfigured <=> totp[v] = NotConfigured
    BY <1>2, <1>4, <1>7
  <1> QED BY <1>2, <1>3, <1>5, <1>6, <1>8 DEF row

LEMMA FlowingTyped ==
  ASSUME TypeInv, Flowing PROVE RowsTyped'
  <1>1. ASSUME NEW r \in Requests, StartSecondFactor(r) PROVE RowsTyped'
    BY <1>1 DEF StartSecondFactor, CreateLoginTransaction, HeldTokens, TypeInv, TablesTyped,
       RequestsFormed, RowsTyped, TransactionRows, CeremonyRows, EnrollmentRows, Kinds
  <1>2. ASSUME NEW r \in Requests, NEW x \in transactions, FinishLogin(r, x) PROVE RowsTyped'
    BY <1>2 DEF FinishLogin, ConsumeCeremony, TypeInv, TablesTyped, RequestsFormed, RowsTyped,
       TransactionRows, CeremonyRows, EnrollmentRows, Kinds
  <1>3. ASSUME NEW r \in Requests, SpendTransaction(r) PROVE RowsTyped'
    BY <1>3 DEF SpendTransaction, ConsumeLoginTransaction, TypeInv, TablesTyped,
       RequestsFormed, RowsTyped, TransactionRows, CeremonyRows, EnrollmentRows, Kinds
  <1>4. ASSUME NEW r \in Requests, BeginRegistration(r) PROVE RowsTyped'
    BY <1>4 DEF BeginRegistration, CreateCeremony, TypeInv, TablesTyped, RequestsFormed,
       RowsTyped, TransactionRows, CeremonyRows, EnrollmentRows, Kinds
  <1>5. ASSUME NEW r \in Requests, FinishRegistration(r) PROVE RowsTyped'
    BY <1>5 DEF FinishRegistration, ConsumeCeremony, TypeInv, TablesTyped, RequestsFormed,
       RowsTyped, TransactionRows, CeremonyRows, EnrollmentRows, Kinds
  <1>6. ASSUME NEW r \in Requests, BeginEnrollment(r) PROVE RowsTyped'
    BY <1>6 DEF BeginEnrollment, CreateTOTPEnrollment, TypeInv, TablesTyped, RequestsFormed,
       RowsTyped, TransactionRows, CeremonyRows, EnrollmentRows, Kinds
  <1>7. ASSUME NEW x \in transactions, BeginLogin(x) PROVE RowsTyped'
    BY <1>7 DEF BeginLogin, CreateCeremony, TypeInv, TablesTyped, RequestsFormed, RowsTyped,
       TransactionRows, CeremonyRows, EnrollmentRows, Kinds
  <1> QED BY <1>1, <1>2, <1>3, <1>4, <1>5, <1>6, <1>7 DEF Flowing

LEMMA TablesStep ==
  ASSUME TypeInv, Next PROVE TablesTyped'
  <1>1. ASSUME Reading PROVE TablesTyped'
    BY <1>1, ReadingFrame DEF TypeInv, TablesTyped, RequestsFormed, UsersTyped, RowsTyped,
       FactorsTyped, HistoryTyped, SessionRows, TransactionRows, RecoveryRows, Assurances,
       Statuses, Roles
  <1>2. ASSUME Flowing PROVE TablesTyped'
    BY <1>2, FlowingFrame, FlowingTyped DEF TypeInv, TablesTyped, UsersTyped, FactorsTyped,
       HistoryTyped
  <1>3. ASSUME NEW r \in Requests, NEW u \in Users, CompleteOnboarding(r, u)
        PROVE  TablesTyped'
    BY <1>3 DEF CompleteOnboarding, CreateInitialUser, InsertUser, InstallationInitialized,
       TypeInv, TablesTyped, RequestsFormed, UsersTyped, RowsTyped, FactorsTyped,
       HistoryTyped, SessionRows, TransactionRows, RecoveryRows, Assurances, Statuses, Roles
  <1>4. ASSUME NEW r \in Requests, NEW x \in transactions, NEW secret \in Authenticators,
               NEW counter \in Counters, TOTPLogin(r, x, secret, counter)
        PROVE  TablesTyped'
    <2>1. x.user \in Users /\ <<"totp", counter>> \in Proofs
      BY DEF TypeInv, TablesTyped, RowsTyped, TransactionRows, Proofs
    <2>2. HistoryTyped'
      <3>1. Redeem(x.user, <<"totp", counter>>) \/ UNCHANGED redeemed
        BY <1>4 DEF TOTPLogin, ConsumeTOTPLogin, RedeemTOTP
      <3> QED BY <2>1, <3>1, RedeemTyped DEF TypeInv, TablesTyped, HistoryTyped
    <2>3. UsersTyped' /\ RowsTyped'
      BY <1>4, <2>1 DEF TOTPLogin, ConsumeTOTPLogin, TypeInv, TablesTyped, UsersTyped, RowsTyped
    <2>4. FactorsTyped'
      <3>1. UNCHANGED <<passkeys, recoveryCodes>>
        BY <1>4 DEF TOTPLogin, ConsumeTOTPLogin
      <3> QED BY <1>4, <2>1, <3>1, CounterAfter DEF TypeInv, TablesTyped, FactorsTyped
    <2> QED BY <2>2, <2>3, <2>4 DEF TablesTyped
  <1>5. ASSUME NEW r \in Requests, NEW x \in transactions, NEW code \in RecoveryCodes,
               Recover(r, x, code)
        PROVE  TablesTyped'
    <2>1. x.user \in Users /\ <<"code", code>> \in Proofs
      BY DEF TypeInv, TablesTyped, RowsTyped, TransactionRows, Proofs
    <2>2. HistoryTyped'
      BY <1>5, <2>1, RedeemTyped DEF Recover, ConsumeRecoveryLogin, TypeInv, TablesTyped
    <2>3. UsersTyped' /\ RowsTyped' /\ FactorsTyped'
      BY <1>5, <2>1 DEF Recover, ConsumeRecoveryLogin, TypeInv, TablesTyped, UsersTyped,
         RowsTyped, FactorsTyped, RecoveryRows
    <2> QED BY <2>2, <2>3 DEF TablesTyped
  <1>6. ASSUME NEW r \in Requests, NewSession(r) PROVE TablesTyped'
    <2>1. request[r].user \in Users /\ request[r].assurance \in Assurances
      BY <1>6 DEF NewSession, TypeInv, RequestsFormed
    <2>2. RowsTyped'
      BY <1>6, <2>1 DEF NewSession, CreateSession, TypeInv, TablesTyped, RowsTyped, SessionRows
    <2>3. UsersTyped' /\ FactorsTyped' /\ HistoryTyped'
      BY <1>6 DEF NewSession, CreateSession, TypeInv, TablesTyped, UsersTyped, FactorsTyped,
         HistoryTyped
    <2> QED BY <2>2, <2>3 DEF TablesTyped
  <1>7. ASSUME NEW r \in Requests, EndSessions(r) PROVE TablesTyped'
    BY <1>7 DEF EndSessions, DeleteSessions, TypeInv, TablesTyped, RequestsFormed, UsersTyped,
       RowsTyped, FactorsTyped, HistoryTyped, SessionRows, TransactionRows, RecoveryRows,
       Assurances, Statuses, Roles
  <1>8. ASSUME NEW r \in Requests, ChangePassword(r) PROVE TablesTyped'
    BY <1>8 DEF ChangePassword, ChangePasswordAndRevoke, Revoke, TypeInv, TablesTyped,
       RequestsFormed, UsersTyped, RowsTyped, FactorsTyped, HistoryTyped, SessionRows,
       TransactionRows, RecoveryRows, Assurances, Statuses, Roles
  <1>9. ASSUME NEW r \in Requests, OptOut(r) PROVE TablesTyped'
    BY <1>9 DEF OptOut, SkipMFA, TypeInv, TablesTyped, RequestsFormed, UsersTyped, RowsTyped,
       FactorsTyped, HistoryTyped, SessionRows, TransactionRows, RecoveryRows, Assurances,
       Statuses, Roles
  <1>10. ASSUME NEW r \in Requests, NEW name \in PasskeyNames, RegisterPasskey(r, name)
         PROVE  TablesTyped'
    <2> DEFINE u == request[r].user
    <2>1. TablesTyped /\ u \in Users /\ request[r].token \in SessionTokens
      BY <1>10 DEF RegisterPasskey, CompletePasskeyRegistration, Elevate, IssueRecoveryCodes,
         TypeInv, RequestsFormed
    <2>2. UsersTyped'
      BY <1>10, <2>1 DEF RegisterPasskey, CompletePasskeyRegistration, Elevate,
         IssueRecoveryCodes, TablesTyped, UsersTyped
    <2>3. RowsTyped'
      BY <1>10, <2>1 DEF RegisterPasskey, CompletePasskeyRegistration, Elevate,
         IssueRecoveryCodes, TablesTyped, RowsTyped, SessionRows, Assurances
    <2>4. FactorsTyped'
      <3>1. FreshBatch(u) \subseteq RecoveryRows
        BY <2>1 DEF FreshBatch, RecoveryRows
      <3> QED
        BY <1>10, <2>1, <3>1 DEF RegisterPasskey, CompletePasskeyRegistration, Elevate,
           IssueRecoveryCodes, TablesTyped, FactorsTyped
    <2>5. HistoryTyped'
      <3>1. Forget(u, "code") \in [Proofs -> 0..2]
        BY <2>1, ForgetTyped DEF TablesTyped
      <3>2. redeemed' = redeemed \/ redeemed' = [redeemed EXCEPT ![u] = Forget(u, "code")]
        BY <1>10 DEF RegisterPasskey, CompletePasskeyRegistration, Elevate, IssueRecoveryCodes
      <3> QED BY <2>1, <3>1, <3>2 DEF TablesTyped, HistoryTyped
    <2> QED BY <2>2, <2>3, <2>4, <2>5 DEF TablesTyped
  <1>11. ASSUME NEW r \in Requests, NEW secret \in Authenticators,
                NEW counter \in Counters, ConfirmEnrollment(r, secret, counter)
         PROVE  TablesTyped'
    <2> DEFINE u == request[r].user
    <2>1. TablesTyped /\ u \in Users /\ request[r].token \in SessionTokens
      BY <1>11 DEF ConfirmEnrollment, CompleteTOTPEnrollment, Elevate, IssueRecoveryCodes,
         TypeInv, RequestsFormed
    <2>2. UsersTyped'
      BY <1>11, <2>1 DEF ConfirmEnrollment, CompleteTOTPEnrollment, Elevate, IssueRecoveryCodes,
         TablesTyped, UsersTyped
    <2>3. RowsTyped'
      BY <1>11, <2>1 DEF ConfirmEnrollment, CompleteTOTPEnrollment, Elevate, IssueRecoveryCodes,
         TablesTyped, RowsTyped, SessionRows, Assurances
    <2>4. FactorsTyped'
      <3>1. FreshBatch(u) \subseteq RecoveryRows
        BY <2>1 DEF FreshBatch, RecoveryRows
      <3> QED
        BY <1>11, <2>1, <3>1 DEF ConfirmEnrollment, CompleteTOTPEnrollment, Elevate,
           IssueRecoveryCodes, TablesTyped, FactorsTyped, AuthenticatorRows
    <2>5. HistoryTyped'
      <3> DEFINE anew == [Forget(u, "totp") EXCEPT ![<<"totp", counter>>] = 1]
                 after == [p \in Proofs |-> IF WithCodes(r) /\ p[1] = "code" THEN 0 ELSE anew[p]]
      <3>1. anew \in [Proofs -> 0..2]
        <4>1. Forget(u, "totp") \in [Proofs -> 0..2]
          BY <2>1, ForgetTyped DEF TablesTyped
        <4> DEFINE f == Forget(u, "totp")
        <4>2. \A p \in Proofs : f[p] \in 0..2 /\ anew[p] \in 0..2
          BY <4>1
        <4> QED BY <4>1, <4>2
      <3>2. after \in [Proofs -> 0..2]
        BY <3>1
      <3>3. redeemed' = [redeemed EXCEPT ![u] = after]
        BY <1>11 DEF ConfirmEnrollment, CompleteTOTPEnrollment
      <3> QED BY <2>1, <3>2, <3>3 DEF TablesTyped, HistoryTyped
    <2> QED BY <2>2, <2>3, <2>4, <2>5 DEF TablesTyped
  <1>12. ASSUME NEW r \in Requests, NEW name \in PasskeyNames, DeletePasskey(r, name)
         PROVE  TablesTyped'
    BY <1>12 DEF DeletePasskey, DeletePasskeyKeepingOne, TypeInv, TablesTyped, RequestsFormed,
       UsersTyped, RowsTyped, FactorsTyped, HistoryTyped, SessionRows, TransactionRows,
       RecoveryRows, Assurances, Statuses, Roles
  <1>13. ASSUME NEW r \in Requests, DeleteTOTP(r) PROVE TablesTyped'
    BY <1>13 DEF DeleteTOTP, DeleteTOTPKeepingFactor, TypeInv, TablesTyped, RequestsFormed,
       UsersTyped, RowsTyped, FactorsTyped, HistoryTyped, SessionRows, TransactionRows,
       RecoveryRows, Assurances, Statuses, Roles
  <1>14. ASSUME NEW r \in Requests, RotateRecoveryCodes(r) PROVE TablesTyped'
    <2> DEFINE u == request[r].user
    <2>1. TablesTyped /\ u \in Users
      BY <1>14 DEF RotateRecoveryCodes, TypeInv, RequestsFormed
    <2>2. FreshBatch(u) \subseteq RecoveryRows
      BY <2>1 DEF FreshBatch, RecoveryRows
    <2>3. Forget(u, "code") \in [Proofs -> 0..2]
      BY <2>1, ForgetTyped DEF TablesTyped
    <2>4. UsersTyped' /\ RowsTyped' /\ FactorsTyped'
      BY <1>14, <2>1, <2>2
         DEF RotateRecoveryCodes, ReplaceRecoveryCodes, IssueRecoveryCodes, TablesTyped,
             UsersTyped, RowsTyped, FactorsTyped
    <2>5. HistoryTyped'
      BY <1>14, <2>1, <2>3 DEF RotateRecoveryCodes, ReplaceRecoveryCodes, TablesTyped,
         HistoryTyped
    <2> QED BY <2>4, <2>5 DEF TablesTyped
  <1>15. ASSUME NEW u \in Users, CompleteSetup(u) PROVE TablesTyped'
    BY <1>15 DEF CompleteSetup, CompleteUserSetup, TypeInv, TablesTyped, RequestsFormed,
       UsersTyped, RowsTyped, FactorsTyped, HistoryTyped, SessionRows, TransactionRows,
       RecoveryRows, Assurances, Statuses, Roles
  <1>16. ASSUME NEW u \in Users, CreateAdmin(u) PROVE TablesTyped'
    BY <1>16 DEF CreateAdmin, CreateManagedUser, InsertUser, Stopped, TypeInv, TablesTyped,
       RequestsFormed, UsersTyped, RowsTyped, FactorsTyped, HistoryTyped, SessionRows,
       TransactionRows, RecoveryRows, Assurances, Statuses, Roles
  <1>17. ASSUME NEW u \in Users, ResetAuthentication(u) PROVE TablesTyped'
    BY <1>17 DEF ResetAuthentication, ResetUserMFA, Revoke, Stopped, TypeInv, TablesTyped,
       RequestsFormed, UsersTyped, RowsTyped, FactorsTyped, HistoryTyped, SessionRows,
       TransactionRows, RecoveryRows, Assurances, Statuses, Roles
  <1>18. ASSUME Housekeeping PROVE TablesTyped'
    BY <1>18 DEF Housekeeping, Maintain, TypeInv, TablesTyped, RequestsFormed, UsersTyped,
       RowsTyped, FactorsTyped, HistoryTyped, SessionRows, TransactionRows, RecoveryRows,
       Assurances, Statuses, Roles
  <1>19. ASSUME NEW r \in Requests, ManageUsers(r) PROVE TablesTyped'
    <2>1. UsersTyped'
      BY <1>19 DEF ManageUsers, CreateUser, CreateManagedUser, CreatePendingUser, InsertUser,
         SetUserRole, UpdateUserRole, SetUserStatus, EnableUser, DisableUser, Revoke,
         ReplaceUserSetupToken, TypeInv, TablesTyped, UsersTyped, Statuses, Roles
    <2>2. RowsTyped' /\ FactorsTyped' /\ HistoryTyped'
      BY <1>19 DEF ManageUsers, CreateUser, CreateManagedUser, CreatePendingUser, InsertUser,
         SetUserRole, UpdateUserRole, SetUserStatus, EnableUser, DisableUser, Revoke,
         ReplaceUserSetupToken, TypeInv, TablesTyped, RowsTyped, FactorsTyped, HistoryTyped
    <2> QED BY <2>1, <2>2 DEF TablesTyped
  <1> QED BY <1>1, <1>2, <1>3, <1>4, <1>5, <1>6, <1>7, <1>8, <1>9, <1>10, <1>11, <1>12,
         <1>13, <1>14, <1>15, <1>16, <1>17, <1>18, <1>19, NextCases

LEMMA RequestsStep ==
  ASSUME TypeInv, Next PROVE RequestsTyped' /\ RequestsFormed'
  <1>1. ASSUME Ending PROVE RequestsTyped' /\ RequestsFormed'
    <2>1. CASE \E r \in Requests : Done(r)
      BY <2>1 DEF TypeInv, TablesTyped, UsersTyped, RowsTyped, RequestsTyped, RequestsFormed,
         RequestStates, SessionRows, TransactionRows, Roles, Stages, Assurances
    <2>2. CASE Stopped
      BY <2>2 DEF TypeInv, TablesTyped, UsersTyped, RowsTyped, RequestsTyped, RequestsFormed,
         RequestStates, SessionRows, TransactionRows, Roles, Stages, Assurances, Stopped,
         InstallationInitialized
    <2>3. CASE UNCHANGED accountVars
      BY <2>3 DEF TypeInv, TablesTyped, UsersTyped, RowsTyped, RequestsTyped, RequestsFormed,
         RequestStates, SessionRows, TransactionRows, Roles, Stages, Assurances
    <2> QED BY <1>1, <2>1, <2>2, <2>3 DEF Ending
  <1>2. ASSUME NEW r \in Requests, StartOnboarding(r) PROVE RequestsTyped' /\ RequestsFormed'
    BY <1>2 DEF StartOnboarding, TypeInv, TablesTyped, UsersTyped, RowsTyped, RequestsTyped,
       RequestsFormed, RequestStates, SessionRows, TransactionRows, Roles, Stages, Assurances
  <1>3. ASSUME NEW r \in Requests, NEW u \in Users, CompleteOnboarding(r, u)
        PROVE  RequestsTyped' /\ RequestsFormed'
    <2>1. CASE request' = [request EXCEPT ![r] = Granted(u, "bootstrap", None)]
      BY <2>1, <1>3 DEF CompleteOnboarding, TypeInv, TablesTyped, UsersTyped, RowsTyped,
         RequestsTyped, RequestsFormed, RequestStates, SessionRows, TransactionRows, Roles,
         Stages, Assurances
    <2>2. CASE request' = [request EXCEPT ![r] = Idle]
      BY <2>2, <1>3 DEF CompleteOnboarding, TypeInv, TablesTyped, UsersTyped, RowsTyped,
         RequestsTyped, RequestsFormed, RequestStates, SessionRows, TransactionRows, Roles,
         Stages, Assurances
    <2> QED BY <1>3, <2>1, <2>2 DEF CompleteOnboarding
  <1>4. ASSUME NEW r \in Requests, NEW u \in Users, VerifyCredentials(r, u)
        PROVE  RequestsTyped' /\ RequestsFormed'
    BY <1>4 DEF VerifyCredentials, TypeInv, TablesTyped, UsersTyped, RowsTyped, RequestsTyped,
       RequestsFormed, RequestStates, SessionRows, TransactionRows, Roles, Stages, Assurances
  <1>5. ASSUME NEW r \in Requests, CountPasskeys(r) PROVE RequestsTyped' /\ RequestsFormed'
    <2>1. CASE request' = [request EXCEPT ![r] = [@ EXCEPT !.at = "counted"]]
      BY <2>1, <1>5 DEF CountPasskeys, TypeInv, TablesTyped, UsersTyped, RowsTyped,
         RequestsTyped, RequestsFormed, RequestStates, SessionRows, TransactionRows, Roles,
         Stages, Assurances
    <2>2. CASE request' = [request EXCEPT ![r] = For(request[r].user, "second")]
      <3>1. request[r].user \in Users
        BY <1>5 DEF CountPasskeys, TypeInv, RequestsFormed
      <3>2. For(request[r].user, "second") \in RequestStates
        BY <3>1 DEF RequestStates, Stages
      <3> HIDE DEF For
      <3>3. RequestsTyped'
        BY <2>2, <3>2, <1>5 DEF CountPasskeys, TypeInv, RequestsTyped
      <3>4. RequestsFormed'
        <4>1. \A p \in Requests : request'[p] =
                IF p = r THEN For(request[r].user, "second") ELSE request[p]
          BY <2>2 DEF TypeInv, RequestsTyped
        <4>2. /\ For(request[r].user, "second").at = "second"
              /\ For(request[r].user, "second").user \in Users
          BY <3>1 DEF For
        <4> QED BY <4>1, <4>2 DEF TypeInv, RequestsFormed
      <3> QED BY <3>3, <3>4
    <2> QED BY <1>5, <2>1, <2>2 DEF CountPasskeys
  <1>6. ASSUME NEW r \in Requests, CheckTOTP(r) PROVE RequestsTyped' /\ RequestsFormed'
    BY <1>6 DEF CheckTOTP, TypeInv, TablesTyped, UsersTyped, RowsTyped, RequestsTyped,
       RequestsFormed, RequestStates, SessionRows, TransactionRows, Roles, Stages, Assurances
  <1>7. ASSUME NEW r \in Requests, NEW x \in transactions, FinishLogin(r, x)
        PROVE  RequestsTyped' /\ RequestsFormed'
    BY <1>7 DEF FinishLogin, ConsumeCeremony, TypeInv, TablesTyped, UsersTyped, RowsTyped,
       RequestsTyped, RequestsFormed, RequestStates, SessionRows, TransactionRows, Roles,
       Stages, Assurances
  <1>8. ASSUME NEW r \in Requests, UpdatePasskey(r) PROVE RequestsTyped' /\ RequestsFormed'
    BY <1>8 DEF UpdatePasskey, TypeInv, TablesTyped, UsersTyped, RowsTyped, RequestsTyped,
       RequestsFormed, RequestStates, SessionRows, TransactionRows, Roles, Stages, Assurances
  <1>9. ASSUME NEW r \in Requests, SpendTransaction(r) PROVE RequestsTyped' /\ RequestsFormed'
    BY <1>9 DEF SpendTransaction, ConsumeLoginTransaction, TypeInv, TablesTyped, UsersTyped,
       RowsTyped, RequestsTyped, RequestsFormed, RequestStates, SessionRows, TransactionRows,
       Roles, Stages, Assurances
  <1>10. ASSUME NEW r \in Requests, NEW x \in transactions, NEW secret \in Authenticators,
                NEW counter \in Counters, TOTPLogin(r, x, secret, counter)
         PROVE  RequestsTyped' /\ RequestsFormed'
    BY <1>10 DEF TOTPLogin, ConsumeTOTPLogin, TypeInv, TablesTyped, UsersTyped,
       RowsTyped, RequestsTyped, RequestsFormed, RequestStates, SessionRows, TransactionRows,
       Roles, Stages, Assurances
  <1>11. ASSUME NEW r \in Requests, NEW x \in transactions, NEW code \in RecoveryCodes,
                Recover(r, x, code)
         PROVE  RequestsTyped' /\ RequestsFormed'
    BY <1>11 DEF Recover, ConsumeRecoveryLogin, Redeem, TypeInv, TablesTyped, UsersTyped,
       RowsTyped, RequestsTyped, RequestsFormed, RequestStates, SessionRows, TransactionRows,
       Roles, Stages, Assurances
  <1>12. ASSUME NEW r \in Requests, NEW s \in sessions, Authenticate(r, s)
         PROVE  RequestsTyped' /\ RequestsFormed'
    BY <1>12 DEF Authenticate, TypeInv, TablesTyped, UsersTyped, RowsTyped, RequestsTyped,
       RequestsFormed, RequestStates, SessionRows, TransactionRows, Roles, Stages, Assurances
  <1>13. ASSUME NEW r \in Requests, FinishRegistration(r)
         PROVE  RequestsTyped' /\ RequestsFormed'
    BY <1>13 DEF FinishRegistration, ConsumeCeremony, TypeInv, TablesTyped, UsersTyped,
       RowsTyped, RequestsTyped, RequestsFormed, RequestStates, SessionRows, TransactionRows,
       Roles, Stages, Assurances
  <1>14. ASSUME NEW r \in Requests, NEW x \in transactions, NEW counter \in Counters,
                MatchTOTP(r, x, counter)
         PROVE  RequestsTyped' /\ RequestsFormed'
    <2> DEFINE q == [For(x.user, "matched") EXCEPT
                       !.token = x.token, !.secret = totp[x.user].secret, !.counter = counter]
    <2>1. x.user \in Users /\ x.token \in LoginTokens /\ totp[x.user].secret \in Authenticators
      BY <1>14 DEF MatchTOTP, TypeInv, TablesTyped, RowsTyped, FactorsTyped, TransactionRows,
         AuthenticatorRows
    <2>2. q \in RequestStates
      BY <2>1 DEF RequestStates, Stages
    <2>3. request' = [request EXCEPT ![r] = q] /\ UNCHANGED initialized
      BY <1>14 DEF MatchTOTP
    <2>4. /\ q.at = "matched" /\ q.user \in Users /\ q.token \in LoginTokens
          /\ q.secret \in Authenticators /\ q.counter \in Counters
      BY <2>1
    <2> HIDE DEF q
    <2>5. \A p \in Requests : request'[p] = IF p = r THEN q ELSE request[p]
      BY <2>3 DEF TypeInv, RequestsTyped
    <2> QED BY <2>2, <2>3, <2>4, <2>5 DEF TypeInv, RequestsTyped, RequestsFormed
  <1> QED BY <1>1, <1>2, <1>3, <1>4, <1>5, <1>6, <1>7, <1>8, <1>9, <1>10, <1>11, <1>12,
         <1>13, <1>14, RequestCases

LEMMA TypeStep ==
  ASSUME TypeInv, [Next]_vars PROVE TypeInv'
  <1>1. CASE Next
    BY <1>1, TablesStep, RequestsStep DEF TypeInv
  <1>2. CASE UNCHANGED vars
    BY <1>2 DEF vars, TypeInv, TablesTyped, UsersTyped, RowsTyped, FactorsTyped, HistoryTyped,
               RequestsTyped, RequestsFormed
  <1> QED BY <1>1, <1>2

LEMMA TypeInit == Init => TypeInv
  <1> SUFFICES ASSUME Init PROVE TypeInv
    OBVIOUS
  <1>1. TablesTyped
    BY DEF Init, StoreInit, TablesTyped, UsersTyped, RowsTyped, FactorsTyped, HistoryTyped,
           Statuses, Roles, NotConfigured
  <1>2. RequestsTyped /\ RequestsFormed
    BY DEF Init, RequestsTyped, RequestsFormed, RequestStates, Stages
  <1> QED BY <1>1, <1>2 DEF TypeInv

LEMMA TypesAreOK == TypeInv => AccountsTypeOK
  BY DEF TypeInv, TablesTyped, UsersTyped, RowsTyped, FactorsTyped, HistoryTyped, RequestsTyped,
         AccountsTypeOK

\* Every variable keeps its type (AccountsTypeOK), whatever requests, restarts and
\* local commands there are.
THEOREM AccountsTypeCorrect == Spec => []AccountsTypeOK
  <1>1. TypeInv /\ [Next]_vars => TypeInv'
    BY TypeStep
  <1> QED BY <1>1, TypeInit, TypesAreOK, PTL DEF Spec

-----------------------------------------------------------------------------
(* Accounts: setup links, superusers, and who is active *)

\* The transactions that change an account, or issue a setup link.  Only a
\* superuser, or the local command, adds an account to others.
NewUser(u) ==
  \/ InstallationInitialized /\ \E ro \in Roles : CreateManagedUser(u, ro) \/ CreatePendingUser(u, ro)
  \/ CreateManagedUser(u, "superuser")
UserChange ==
  \E u \in Users :
    \/ CreateInitialUser(u) \/ CompleteUserSetup(u) \/ ReplaceUserSetupToken(u)
    \/ EnableUser(u) \/ DisableUser(u) \/ NewUser(u) \/ \E ro \in Roles : UpdateUserRole(u, ro)
UsersKept == UNCHANGED <<status, role>> /\ setupTokens' \subseteq setupTokens

LEMMA UserCases ==
  ASSUME TypeInv, RequestsKnown, Next PROVE UserChange \/ UsersKept
  <1>1. ASSUME Reading PROVE UserChange \/ UsersKept
    BY <1>1, ReadingFrame DEF UsersKept
  <1>2. ASSUME Flowing PROVE UserChange \/ UsersKept
    BY <1>2, FlowingFrame DEF UsersKept
  <1>3. ASSUME NEW r \in Requests, NEW u \in Users, CompleteOnboarding(r, u)
        PROVE  UserChange \/ UsersKept
    BY <1>3 DEF CompleteOnboarding, UserChange, UsersKept
  <1>4. ASSUME NEW r \in Requests, NEW x \in transactions, NEW secret \in Authenticators,
               NEW counter \in Counters, TOTPLogin(r, x, secret, counter)
        PROVE  UserChange \/ UsersKept
    BY <1>4 DEF TOTPLogin, ConsumeTOTPLogin, UsersKept
  <1>5. ASSUME NEW r \in Requests, NEW x \in transactions, NEW code \in RecoveryCodes,
               Recover(r, x, code)
        PROVE  UserChange \/ UsersKept
    BY <1>5 DEF Recover, ConsumeRecoveryLogin, Redeem, UsersKept
  <1>6. ASSUME NEW r \in Requests, NewSession(r) PROVE UserChange \/ UsersKept
    BY <1>6 DEF NewSession, CreateSession, UsersKept
  <1>7. ASSUME NEW r \in Requests, EndSessions(r) PROVE UserChange \/ UsersKept
    BY <1>7 DEF EndSessions, DeleteSessions, UsersKept
  <1>8. ASSUME NEW r \in Requests, ChangePassword(r) PROVE UserChange \/ UsersKept
    BY <1>8 DEF ChangePassword, ChangePasswordAndRevoke, Revoke, UsersKept
  <1>9. ASSUME NEW r \in Requests, OptOut(r) PROVE UserChange \/ UsersKept
    BY <1>9 DEF OptOut, SkipMFA, UsersKept
  <1>10. ASSUME NEW r \in Requests, NEW name \in PasskeyNames, RegisterPasskey(r, name)
         PROVE  UserChange \/ UsersKept
    BY <1>10 DEF RegisterPasskey, CompletePasskeyRegistration, Elevate, IssueRecoveryCodes,
       UsersKept
  <1>11. ASSUME NEW r \in Requests, NEW secret \in Authenticators,
                NEW counter \in Counters, ConfirmEnrollment(r, secret, counter)
         PROVE  UserChange \/ UsersKept
    BY <1>11 DEF ConfirmEnrollment, CompleteTOTPEnrollment, Elevate, IssueRecoveryCodes,
       UsersKept
  <1>12. ASSUME NEW r \in Requests, NEW name \in PasskeyNames, DeletePasskey(r, name)
         PROVE  UserChange \/ UsersKept
    BY <1>12 DEF DeletePasskey, DeletePasskeyKeepingOne, UsersKept
  <1>13. ASSUME NEW r \in Requests, DeleteTOTP(r) PROVE UserChange \/ UsersKept
    BY <1>13 DEF DeleteTOTP, DeleteTOTPKeepingFactor, UsersKept
  <1>14. ASSUME NEW r \in Requests, RotateRecoveryCodes(r) PROVE UserChange \/ UsersKept
    BY <1>14 DEF RotateRecoveryCodes, ReplaceRecoveryCodes, IssueRecoveryCodes, UsersKept
  <1>15. ASSUME NEW u \in Users, CompleteSetup(u) PROVE UserChange \/ UsersKept
    BY <1>15 DEF CompleteSetup, UserChange
  <1>16. ASSUME NEW u \in Users, CreateAdmin(u) PROVE UserChange \/ UsersKept
    BY <1>16 DEF CreateAdmin, UserChange, NewUser
  <1>17. ASSUME NEW u \in Users, ResetAuthentication(u) PROVE UserChange \/ UsersKept
    BY <1>17 DEF ResetAuthentication, ResetUserMFA, Revoke, Stopped, UsersKept
  <1>18. ASSUME Housekeeping PROVE UserChange \/ UsersKept
    BY <1>18 DEF Housekeeping, Maintain, UsersKept
  <1>19. ASSUME NEW r \in Requests, ManageUsers(r) PROVE UserChange \/ UsersKept
    <2>1. InstallationInitialized
      BY <1>19 DEF ManageUsers, CanManageUsers, TypeInv, RequestsFormed, RequestsKnown,
         InstallationInitialized
    <2> QED BY <1>19, <2>1 DEF ManageUsers, CreateUser, SetUserRole, SetUserStatus, UserChange,
               NewUser
  <1> QED BY <1>1, <1>2, <1>3, <1>4, <1>5, <1>6, <1>7, <1>8, <1>9, <1>10, <1>11, <1>12,
         <1>13, <1>14, <1>15, <1>16, <1>17, <1>18, <1>19, NextCases

LEMMA SetupLinksStep ==
  ASSUME TypeInv, RequestsKnown, SetupLinksPending, Next PROVE SetupLinksPending'
  <1>1. ASSUME UsersKept PROVE SetupLinksPending'
    BY <1>1 DEF UsersKept, SetupLinksPending
  <1>2. ASSUME UserChange PROVE SetupLinksPending'
    BY <1>2 DEF UserChange, CreateInitialUser, CompleteUserSetup, ReplaceUserSetupToken,
       EnableUser, DisableUser, NewUser, CreateManagedUser, CreatePendingUser, UpdateUserRole, InsertUser,
       SetupLinksPending, TypeInv, TablesTyped, UsersTyped
  <1> QED BY <1>1, <1>2, UserCases

LEMMA SuperuserStep ==
  ASSUME TypeInv, RequestsKnown, SuperuserKept, Next PROVE SuperuserKept'
  <1>1. ASSUME UsersKept PROVE SuperuserKept'
    BY <1>1 DEF UsersKept, SuperuserKept, ActiveSuperuser, InstallationInitialized
  <1>2. ASSUME NEW u \in Users, CreateInitialUser(u) PROVE SuperuserKept'
    BY <1>2 DEF CreateInitialUser, InsertUser, SuperuserKept, ActiveSuperuser, TypeInv,
       TablesTyped, UsersTyped
  <1> DEFINE Others(u) == \A v \in Users \ {u} : ActiveSuperuser(v) => ActiveSuperuser(v)'
  <1>3. ASSUME NEW u \in Users,
               \/ CompleteUserSetup(u) \/ ReplaceUserSetupToken(u) \/ EnableUser(u)
               \/ NewUser(u)
        PROVE  SuperuserKept'
    <2>1. Others(u)
      BY <1>3 DEF CompleteUserSetup, ReplaceUserSetupToken, EnableUser, NewUser,
         CreateManagedUser, CreatePendingUser, InsertUser, ActiveSuperuser, TypeInv,
         TablesTyped, UsersTyped
    <2>2. ActiveSuperuser(u) => ActiveSuperuser(u)'
      BY <1>3 DEF CompleteUserSetup, ReplaceUserSetupToken, EnableUser, NewUser,
         CreateManagedUser, CreatePendingUser, InsertUser, ActiveSuperuser, TypeInv,
         TablesTyped, UsersTyped
    <2>3. CASE InstallationInitialized
      BY <2>1, <2>2, <2>3 DEF SuperuserKept
    <2>4. CASE CreateManagedUser(u, "superuser")
      BY <2>4 DEF CreateManagedUser, InsertUser, SuperuserKept, ActiveSuperuser, TypeInv,
         TablesTyped, UsersTyped
    <2>5. CASE CompleteUserSetup(u) \/ ReplaceUserSetupToken(u) \/ EnableUser(u)
      <3>1. InstallationInitialized
        BY <2>5 DEF CompleteUserSetup, ReplaceUserSetupToken, EnableUser, InstallationInitialized
      <3> QED BY <3>1, <2>3
    <2> QED BY <1>3, <2>3, <2>4, <2>5 DEF NewUser
  <1>4. ASSUME NEW u \in Users, DisableUser(u) \/ \E ro \in Roles : UpdateUserRole(u, ro)
        PROVE  SuperuserKept'
    <2>1. Others(u)
      BY <1>4 DEF DisableUser, UpdateUserRole, ActiveSuperuser, TypeInv, TablesTyped, UsersTyped
    <2>2. ActiveSuperuser(u) => ActiveSuperuser(u)' \/ AnotherActiveSuperuser(u)
      BY <1>4 DEF DisableUser, UpdateUserRole, ActiveSuperuser, TypeInv, TablesTyped, UsersTyped
    <2>3. InstallationInitialized
      BY <1>4 DEF DisableUser, UpdateUserRole, InstallationInitialized
    <2> QED BY <2>1, <2>2, <2>3 DEF SuperuserKept, AnotherActiveSuperuser
  <1> QED BY <1>1, <1>2, <1>3, <1>4, UserCases DEF UserChange

LEMMA StatusStays ==
  ASSUME TypeInv, RequestsKnown, Next, NEW u \in Users
  PROVE  /\ status[u] # "absent" => status'[u] # "absent"
         /\ status[u] = "active" => status'[u] = "active" \/ DisableUser(u)
  <1>1. ASSUME UsersKept PROVE status' = status
    BY <1>1 DEF UsersKept
  <1>2. ASSUME NEW v \in Users, DisableUser(v)
        PROVE  /\ status'[u] = IF u = v THEN "disabled" ELSE status[u]
    BY <1>2 DEF DisableUser, TypeInv, TablesTyped, UsersTyped
  <1>3. ASSUME NEW v \in Users, CreateInitialUser(v) \/ NewUser(v)
        PROVE  status'[u] = status[u] \/ status[u] = "absent"
    <2>1. \E s \in Statuses : status[v] = "absent" /\ status' = [status EXCEPT ![v] = s]
      BY <1>3 DEF CreateInitialUser, NewUser, CreateManagedUser, CreatePendingUser, InsertUser,
         Statuses
    <2> QED BY <2>1 DEF TypeInv, TablesTyped, UsersTyped
  <1>4. ASSUME NEW v \in Users, CompleteUserSetup(v) \/ EnableUser(v)
        PROVE  status'[u] \in {status[u], "active"}
    BY <1>4 DEF CompleteUserSetup, EnableUser, TypeInv, TablesTyped, UsersTyped
  <1>5. ASSUME NEW v \in Users,
               ReplaceUserSetupToken(v) \/ \E ro \in Roles : UpdateUserRole(v, ro)
        PROVE  status' = status
    BY <1>5 DEF ReplaceUserSetupToken, UpdateUserRole
  <1> QED BY <1>1, <1>2, <1>3, <1>4, <1>5, UserCases DEF UserChange

\* A session that a step adds belongs to an active user, or to one with a session.
Added(s) ==
  /\ UNCHANGED status
  /\ status[s.user] = "active" \/ \E o \in sessions : o.user = s.user

LEMMA SessionOrigins ==
  ASSUME TypeInv, Next, NEW s \in sessions' PROVE s \in sessions \/ Added(s)
  <1>1. ASSUME Reading PROVE s \in sessions \/ Added(s)
    BY <1>1, ReadingFrame DEF Added
  <1>2. ASSUME Flowing PROVE s \in sessions \/ Added(s)
    BY <1>2, FlowingFrame DEF Added
  <1>3. ASSUME NEW r \in Requests, NEW u \in Users, CompleteOnboarding(r, u)
        PROVE  s \in sessions \/ Added(s)
    BY <1>3 DEF CompleteOnboarding, CreateInitialUser, InsertUser, InstallationInitialized,
       Added
  <1>4. ASSUME NEW r \in Requests, NEW x \in transactions, NEW secret \in Authenticators,
               NEW counter \in Counters, TOTPLogin(r, x, secret, counter)
        PROVE  s \in sessions \/ Added(s)
    BY <1>4 DEF TOTPLogin, ConsumeTOTPLogin, Added
  <1>5. ASSUME NEW r \in Requests, NEW x \in transactions, NEW code \in RecoveryCodes,
               Recover(r, x, code)
        PROVE  s \in sessions \/ Added(s)
    BY <1>5 DEF Recover, ConsumeRecoveryLogin, Redeem, Added
  <1>6. ASSUME NEW r \in Requests, NewSession(r) PROVE s \in sessions \/ Added(s)
    BY <1>6 DEF NewSession, CreateSession, Added
  <1>7. ASSUME NEW r \in Requests, EndSessions(r) PROVE s \in sessions \/ Added(s)
    BY <1>7 DEF EndSessions, DeleteSessions, Added
  <1>8. ASSUME NEW r \in Requests, ChangePassword(r) PROVE s \in sessions \/ Added(s)
    BY <1>8 DEF ChangePassword, ChangePasswordAndRevoke, Revoke, Added
  <1>9. ASSUME NEW r \in Requests, OptOut(r) PROVE s \in sessions \/ Added(s)
    BY <1>9 DEF OptOut, SkipMFA, Added
  <1>10. ASSUME NEW r \in Requests, NEW name \in PasskeyNames, RegisterPasskey(r, name)
         PROVE  s \in sessions \/ Added(s)
    BY <1>10 DEF RegisterPasskey, CompletePasskeyRegistration, Elevate, IssueRecoveryCodes,
       Added
  <1>11. ASSUME NEW r \in Requests, NEW secret \in Authenticators,
                NEW counter \in Counters, ConfirmEnrollment(r, secret, counter)
         PROVE  s \in sessions \/ Added(s)
    BY <1>11 DEF ConfirmEnrollment, CompleteTOTPEnrollment, Elevate, IssueRecoveryCodes, Added
  <1>12. ASSUME NEW r \in Requests, NEW name \in PasskeyNames, DeletePasskey(r, name)
         PROVE  s \in sessions \/ Added(s)
    BY <1>12 DEF DeletePasskey, DeletePasskeyKeepingOne, Added
  <1>13. ASSUME NEW r \in Requests, DeleteTOTP(r) PROVE s \in sessions \/ Added(s)
    BY <1>13 DEF DeleteTOTP, DeleteTOTPKeepingFactor, Added
  <1>14. ASSUME NEW r \in Requests, RotateRecoveryCodes(r) PROVE s \in sessions \/ Added(s)
    BY <1>14 DEF RotateRecoveryCodes, ReplaceRecoveryCodes, IssueRecoveryCodes, Added
  <1>15. ASSUME NEW u \in Users, CompleteSetup(u) PROVE s \in sessions \/ Added(s)
    BY <1>15 DEF CompleteSetup, CompleteUserSetup, Added
  <1>16. ASSUME NEW u \in Users, CreateAdmin(u) PROVE s \in sessions \/ Added(s)
    BY <1>16 DEF CreateAdmin, CreateManagedUser, InsertUser, Stopped, Added
  <1>17. ASSUME NEW u \in Users, ResetAuthentication(u) PROVE s \in sessions \/ Added(s)
    BY <1>17 DEF ResetAuthentication, ResetUserMFA, Revoke, Stopped, Added
  <1>18. ASSUME Housekeeping PROVE s \in sessions \/ Added(s)
    BY <1>18 DEF Housekeeping, Maintain, Added
  <1>19. ASSUME NEW r \in Requests, ManageUsers(r) PROVE s \in sessions \/ Added(s)
    BY <1>19 DEF ManageUsers, CreateUser, CreateManagedUser, CreatePendingUser, InsertUser,
       SetUserRole, UpdateUserRole, SetUserStatus, EnableUser, DisableUser, Revoke,
       ReplaceUserSetupToken
  <1> QED BY <1>1, <1>2, <1>3, <1>4, <1>5, <1>6, <1>7, <1>8, <1>9, <1>10, <1>11, <1>12,
         <1>13, <1>14, <1>15, <1>16, <1>17, <1>18, <1>19, NextCases

LEMMA SessionsActiveStep ==
  ASSUME TypeInv, RequestsKnown, SessionsActive, Next PROVE SessionsActive'
  <1> SUFFICES ASSUME NEW s \in sessions' PROVE status'[s.user] = "active"
    BY DEF SessionsActive
  <1>1. s \in sessions \/ Added(s)
    BY SessionOrigins
  <1>2. CASE Added(s)
    BY <1>2 DEF Added, SessionsActive
  <1>3. CASE s \in sessions
    <2>1. s.user \in Users /\ status[s.user] = "active"
      BY <1>3 DEF SessionsActive, TypeInv, TablesTyped, RowsTyped, SessionRows
    <2>2. ~DisableUser(s.user)
      BY DEF DisableUser, Revoke
    <2> QED BY <2>1, <2>2, StatusStays
  <1> QED BY <1>1, <1>2, <1>3

\* Only a session lets a request in.
LetInWithSession(r) ==
  request'[r].at = "session" =>
    request'[r] = request[r] \/ \E s \in sessions : Authenticate(r, s)

LEMMA RequestOrigins ==
  ASSUME TypeInv, Next, NEW r \in Requests PROVE LetInWithSession(r)
  <1>1. ASSUME Ending PROVE LetInWithSession(r)
    BY <1>1 DEF Ending, Stopped, LetInWithSession, TypeInv, RequestsTyped
  <1>2. ASSUME NEW q \in Requests, StartOnboarding(q) PROVE LetInWithSession(r)
    BY <1>2 DEF StartOnboarding, LetInWithSession, TypeInv, RequestsTyped
  <1>3. ASSUME NEW q \in Requests, NEW u \in Users, CompleteOnboarding(q, u)
        PROVE  LetInWithSession(r)
    <2>1. CASE request' = [request EXCEPT ![q] = Granted(u, "bootstrap", None)]
      BY <2>1 DEF LetInWithSession, TypeInv, RequestsTyped
    <2>2. CASE request' = [request EXCEPT ![q] = Idle]
      BY <2>2 DEF LetInWithSession, TypeInv, RequestsTyped
    <2> QED BY <1>3, <2>1, <2>2 DEF CompleteOnboarding
  <1>4. ASSUME NEW q \in Requests, NEW u \in Users, VerifyCredentials(q, u)
        PROVE  LetInWithSession(r)
    BY <1>4 DEF VerifyCredentials, LetInWithSession, TypeInv, RequestsTyped
  <1>5. ASSUME NEW q \in Requests, CountPasskeys(q) PROVE LetInWithSession(r)
    BY <1>5 DEF CountPasskeys, LetInWithSession, TypeInv, RequestsTyped
  <1>6. ASSUME NEW q \in Requests, CheckTOTP(q) PROVE LetInWithSession(r)
    BY <1>6 DEF CheckTOTP, LetInWithSession, TypeInv, RequestsTyped
  <1>7. ASSUME NEW q \in Requests, NEW x \in transactions, FinishLogin(q, x)
        PROVE  LetInWithSession(r)
    BY <1>7 DEF FinishLogin, ConsumeCeremony, LetInWithSession, TypeInv, RequestsTyped
  <1>8. ASSUME NEW q \in Requests, UpdatePasskey(q) PROVE LetInWithSession(r)
    BY <1>8 DEF UpdatePasskey, LetInWithSession, TypeInv, RequestsTyped
  <1>9. ASSUME NEW q \in Requests, SpendTransaction(q) PROVE LetInWithSession(r)
    BY <1>9 DEF SpendTransaction, ConsumeLoginTransaction, LetInWithSession, TypeInv,
       RequestsTyped
  <1>10. ASSUME NEW q \in Requests, NEW x \in transactions, NEW secret \in Authenticators,
                NEW counter \in Counters, TOTPLogin(q, x, secret, counter)
         PROVE  LetInWithSession(r)
    BY <1>10 DEF TOTPLogin, ConsumeTOTPLogin, LetInWithSession, TypeInv,
       RequestsTyped
  <1>11. ASSUME NEW q \in Requests, NEW x \in transactions, NEW code \in RecoveryCodes,
                Recover(q, x, code)
         PROVE  LetInWithSession(r)
    BY <1>11 DEF Recover, ConsumeRecoveryLogin, Redeem, LetInWithSession, TypeInv,
       RequestsTyped
  <1>12. ASSUME NEW q \in Requests, NEW s \in sessions, Authenticate(q, s)
         PROVE  LetInWithSession(r)
    BY <1>12 DEF Authenticate, LetInWithSession, TypeInv, RequestsTyped
  <1>13. ASSUME NEW q \in Requests, FinishRegistration(q) PROVE LetInWithSession(r)
    BY <1>13 DEF FinishRegistration, ConsumeCeremony, LetInWithSession, TypeInv, RequestsTyped
  <1>14. ASSUME NEW q \in Requests, NEW x \in transactions, NEW counter \in Counters,
                MatchTOTP(q, x, counter)
         PROVE  LetInWithSession(r)
    BY <1>14 DEF MatchTOTP, LetInWithSession, TypeInv, RequestsTyped
  <1> QED BY <1>1, <1>2, <1>3, <1>4, <1>5, <1>6, <1>7, <1>8, <1>9, <1>10, <1>11, <1>12,
         <1>13, <1>14, RequestCases

LEMMA RequestsKnownStep ==
  ASSUME TypeInv, RequestsKnown, Next PROVE RequestsKnown'
  <1> SUFFICES ASSUME NEW r \in Requests, request'[r].at = "session"
               PROVE  status'[request'[r].user] # "absent"
    BY DEF RequestsKnown
  <1>1. request'[r] = request[r] \/ \E s \in sessions : Authenticate(r, s)
    BY RequestOrigins DEF LetInWithSession
  <1>2. request'[r].user \in Users /\ status[request'[r].user] # "absent"
    <2>1. CASE request'[r] = request[r]
      BY <2>1 DEF RequestsKnown, TypeInv, RequestsFormed
    <2>2. ASSUME NEW s \in sessions, Authenticate(r, s)
          PROVE  request'[r].user \in Users /\ status[request'[r].user] # "absent"
      <3>1. s.user \in Users /\ status[s.user] = "active"
        BY <2>2 DEF Authenticate, TypeInv, TablesTyped, RowsTyped, SessionRows
      <3>2. request'[r].user = s.user
        BY <2>2 DEF Authenticate, TypeInv, RequestsTyped
      <3> QED BY <3>1, <3>2
    <2> QED BY <1>1, <2>1, <2>2
  <1> QED BY <1>2, StatusStays

LEMMA UsersStep ==
  ASSUME TypeInv, UsersInv, Next PROVE UsersInv'
  BY SetupLinksStep, SuperuserStep, SessionsActiveStep, RequestsKnownStep DEF UsersInv

-----------------------------------------------------------------------------
(* Factors: opt-outs, recovery codes, and what a session or a request vouches for *)

\* Only a local command takes an account's last factor.
FactorStays(u) == HasFactor(u) => HasFactor(u)' \/ ResetAuthentication(u)

LEMMA FactorStep ==
  ASSUME TypeInv, Next, NEW v \in Users PROVE FactorStays(v)
  <1>1. ASSUME Reading PROVE FactorStays(v)
    BY <1>1, ReadingFrame DEF FactorStays, HasFactor, TypeInv, TablesTyped, FactorsTyped
  <1>2. ASSUME Flowing PROVE FactorStays(v)
    BY <1>2, FlowingFrame DEF FactorStays, HasFactor, TypeInv, TablesTyped, FactorsTyped
  <1>3. ASSUME NEW r \in Requests, NEW u \in Users, CompleteOnboarding(r, u)
        PROVE  FactorStays(v)
    BY <1>3 DEF CompleteOnboarding, CreateInitialUser, InsertUser, InstallationInitialized,
       FactorStays, HasFactor, TypeInv, TablesTyped, FactorsTyped
  <1>4. ASSUME NEW r \in Requests, NEW x \in transactions, NEW secret \in Authenticators,
               NEW counter \in Counters, TOTPLogin(r, x, secret, counter)
        PROVE  FactorStays(v)
    BY <1>4, CounterAfter DEF TOTPLogin, ConsumeTOTPLogin, FactorStays, HasFactor
  <1>5. ASSUME NEW r \in Requests, NEW x \in transactions, NEW code \in RecoveryCodes,
               Recover(r, x, code)
        PROVE  FactorStays(v)
    BY <1>5 DEF Recover, ConsumeRecoveryLogin, Redeem, FactorStays, HasFactor, TypeInv,
       TablesTyped, FactorsTyped
  <1>6. ASSUME NEW r \in Requests, NewSession(r) PROVE FactorStays(v)
    BY <1>6 DEF NewSession, CreateSession, FactorStays, HasFactor, TypeInv, TablesTyped,
       FactorsTyped
  <1>7. ASSUME NEW r \in Requests, EndSessions(r) PROVE FactorStays(v)
    BY <1>7 DEF EndSessions, DeleteSessions, FactorStays, HasFactor, TypeInv, TablesTyped,
       FactorsTyped
  <1>8. ASSUME NEW r \in Requests, ChangePassword(r) PROVE FactorStays(v)
    BY <1>8 DEF ChangePassword, ChangePasswordAndRevoke, Revoke, FactorStays, HasFactor,
       TypeInv, TablesTyped, FactorsTyped
  <1>9. ASSUME NEW r \in Requests, OptOut(r) PROVE FactorStays(v)
    BY <1>9 DEF OptOut, SkipMFA, FactorStays, HasFactor, TypeInv, TablesTyped, FactorsTyped
  <1>10. ASSUME NEW r \in Requests, NEW name \in PasskeyNames, RegisterPasskey(r, name)
         PROVE  FactorStays(v)
    BY <1>10 DEF RegisterPasskey, CompletePasskeyRegistration, FactorStays, HasFactor, TypeInv,
       TablesTyped, FactorsTyped, RequestsFormed
  <1>11. ASSUME NEW r \in Requests, NEW secret \in Authenticators,
                NEW counter \in Counters, ConfirmEnrollment(r, secret, counter)
         PROVE  FactorStays(v)
    BY <1>11, CountersAssumption DEF ConfirmEnrollment, CompleteTOTPEnrollment, NotConfigured,
       FactorStays, HasFactor, TypeInv, TablesTyped, FactorsTyped, RequestsFormed
  <1>12. ASSUME NEW r \in Requests, NEW name \in PasskeyNames, DeletePasskey(r, name)
         PROVE  FactorStays(v)
    BY <1>12 DEF DeletePasskey, DeletePasskeyKeepingOne, FactorStays, HasFactor, TypeInv,
       TablesTyped, FactorsTyped, RequestsFormed
  <1>13. ASSUME NEW r \in Requests, DeleteTOTP(r) PROVE FactorStays(v)
    BY <1>13 DEF DeleteTOTP, DeleteTOTPKeepingFactor, FactorStays, HasFactor, TypeInv,
       TablesTyped, FactorsTyped, RequestsFormed
  <1>14. ASSUME NEW r \in Requests, RotateRecoveryCodes(r) PROVE FactorStays(v)
    BY <1>14 DEF RotateRecoveryCodes, ReplaceRecoveryCodes, IssueRecoveryCodes, FactorStays,
       HasFactor, TypeInv, TablesTyped, FactorsTyped
  <1>15. ASSUME NEW u \in Users, CompleteSetup(u) PROVE FactorStays(v)
    BY <1>15 DEF CompleteSetup, CompleteUserSetup, FactorStays, HasFactor, TypeInv,
       TablesTyped, FactorsTyped
  <1>16. ASSUME NEW u \in Users, CreateAdmin(u) PROVE FactorStays(v)
    BY <1>16 DEF CreateAdmin, CreateManagedUser, InsertUser, Stopped, FactorStays, HasFactor,
       TypeInv, TablesTyped, FactorsTyped
  <1>17. ASSUME NEW u \in Users, ResetAuthentication(u) PROVE FactorStays(v)
    <2>1. CASE u = v
      BY <1>17, <2>1 DEF FactorStays
    <2>2. CASE u # v
      BY <1>17, <2>2 DEF ResetAuthentication, ResetUserMFA, FactorStays, HasFactor, TypeInv,
         TablesTyped, FactorsTyped
    <2> QED BY <2>1, <2>2
  <1>18. ASSUME Housekeeping PROVE FactorStays(v)
    BY <1>18 DEF Housekeeping, Maintain, FactorStays, HasFactor, TypeInv, TablesTyped,
       FactorsTyped
  <1>19. ASSUME NEW r \in Requests, ManageUsers(r) PROVE FactorStays(v)
    BY <1>19 DEF ManageUsers, CreateUser, CreateManagedUser, CreatePendingUser, InsertUser,
       SetUserRole, UpdateUserRole, SetUserStatus, EnableUser, DisableUser, Revoke,
       ReplaceUserSetupToken, FactorStays, HasFactor, TypeInv, TablesTyped, FactorsTyped
  <1> QED BY <1>1, <1>2, <1>3, <1>4, <1>5, <1>6, <1>7, <1>8, <1>9, <1>10, <1>11, <1>12,
         <1>13, <1>14, <1>15, <1>16, <1>17, <1>18, <1>19, NextCases

LEMMA RequestOriginsVouched ==
  ASSUME TypeInv, FactorsInv, Next, NEW r \in Requests PROVE RequestVouched(request'[r])
  <1>1. ASSUME Ending PROVE RequestVouched(request'[r])
    BY <1>1 DEF Ending, Stopped, FactorsInv, RequestVouched, Strong, RequestsVouched, TypeInv,
       RequestsTyped
  <1>2. ASSUME NEW q \in Requests, StartOnboarding(q) PROVE RequestVouched(request'[r])
    BY <1>2 DEF StartOnboarding, FactorsInv, RequestVouched, Strong, RequestsVouched, TypeInv,
       RequestsTyped
  <1>3. ASSUME NEW q \in Requests, NEW u \in Users, CompleteOnboarding(q, u)
        PROVE  RequestVouched(request'[r])
    <2>1. CASE request' = [request EXCEPT ![q] = Granted(u, "bootstrap", None)]
      BY <2>1 DEF FactorsInv, RequestVouched, Strong, RequestsVouched, TypeInv, RequestsTyped
    <2>2. CASE request' = [request EXCEPT ![q] = Idle]
      BY <2>2 DEF FactorsInv, RequestVouched, Strong, RequestsVouched, TypeInv, RequestsTyped
    <2> QED BY <1>3, <2>1, <2>2 DEF CompleteOnboarding
  <1>4. ASSUME NEW q \in Requests, NEW u \in Users, VerifyCredentials(q, u)
        PROVE  RequestVouched(request'[r])
    BY <1>4 DEF VerifyCredentials, FactorsInv, RequestVouched, Strong, RequestsVouched,
       TypeInv, RequestsTyped
  <1>5. ASSUME NEW q \in Requests, CountPasskeys(q) PROVE RequestVouched(request'[r])
    BY <1>5 DEF CountPasskeys, FactorsInv, RequestVouched, Strong, RequestsVouched, TypeInv,
       RequestsTyped, RequestsFormed
  <1>6. ASSUME NEW q \in Requests, CheckTOTP(q) PROVE RequestVouched(request'[r])
    BY <1>6 DEF CheckTOTP, FactorsInv, RequestVouched, Strong, RequestsVouched, TypeInv,
       RequestsTyped, RequestsFormed
  <1>7. ASSUME NEW q \in Requests, NEW x \in transactions, FinishLogin(q, x)
        PROVE  RequestVouched(request'[r])
    BY <1>7 DEF FinishLogin, ConsumeCeremony, FactorsInv, RequestVouched, Strong,
       RequestsVouched, TypeInv, RequestsTyped
  <1>8. ASSUME NEW q \in Requests, UpdatePasskey(q) PROVE RequestVouched(request'[r])
    BY <1>8 DEF UpdatePasskey, FactorsInv, RequestVouched, RequestsVouched, HasFactor, TypeInv,
       RequestsTyped
  <1>9. ASSUME NEW q \in Requests, SpendTransaction(q) PROVE RequestVouched(request'[r])
    BY <1>9 DEF SpendTransaction, ConsumeLoginTransaction, FactorsInv, RequestVouched, Strong,
       RequestsVouched, TypeInv, RequestsTyped
  <1>10. ASSUME NEW q \in Requests, NEW x \in transactions, NEW secret \in Authenticators,
                NEW counter \in Counters, TOTPLogin(q, x, secret, counter)
         PROVE  RequestVouched(request'[r])
    BY <1>10 DEF TOTPLogin, ConsumeTOTPLogin, FactorsInv, RequestVouched, RequestsVouched,
       HasFactor, TypeInv, RequestsTyped
  <1>11. ASSUME NEW q \in Requests, NEW x \in transactions, NEW code \in RecoveryCodes,
                Recover(q, x, code)
         PROVE  RequestVouched(request'[r])
    <2>1. x.user \in Users /\ HasFactor(x.user)
      BY <1>11 DEF Recover, ConsumeRecoveryLogin, FactorsInv, CodesComeWithFactors, TypeInv,
         TablesTyped, RowsTyped, TransactionRows
    <2> QED BY <1>11, <2>1 DEF Recover, FactorsInv, RequestVouched, RequestsVouched, TypeInv,
               RequestsTyped
  <1>12. ASSUME NEW q \in Requests, NEW s \in sessions, Authenticate(q, s)
         PROVE  RequestVouched(request'[r])
    BY <1>12 DEF Authenticate, FactorsInv, SessionsVouched, SessionVouched, RequestVouched,
       RequestsVouched, TypeInv, RequestsTyped
  <1>13. ASSUME NEW q \in Requests, FinishRegistration(q) PROVE RequestVouched(request'[r])
    BY <1>13 DEF FinishRegistration, ConsumeCeremony, FactorsInv, RequestVouched, Strong,
       RequestsVouched, TypeInv, RequestsTyped
  <1>14. ASSUME NEW q \in Requests, NEW x \in transactions, NEW counter \in Counters,
                MatchTOTP(q, x, counter)
         PROVE  RequestVouched(request'[r])
    BY <1>14 DEF MatchTOTP, FactorsInv, RequestVouched, RequestsVouched, TypeInv, RequestsTyped
  <1> QED BY <1>1, <1>2, <1>3, <1>4, <1>5, <1>6, <1>7, <1>8, <1>9, <1>10, <1>11, <1>12,
         <1>13, <1>14, RequestCases

LEMMA RequestsVouchedStep ==
  ASSUME TypeInv, FactorsInv, Next PROVE RequestsVouched'
  <1> SUFFICES ASSUME NEW r \in Requests PROVE RequestVouched(request[r])'
    BY DEF RequestsVouched
  <1>1. RequestVouched(request'[r])
    BY RequestOriginsVouched
  <1>2. (TypeInv)'
    BY TypeStep
  <1>3. CASE \E u \in Users : ResetAuthentication(u)
    BY <1>3 DEF ResetAuthentication, Stopped, RequestVouched
  <1>4. CASE ~\E u \in Users : ResetAuthentication(u)
    <2>1. \A u \in Users : HasFactor(u) => HasFactor(u)'
      BY <1>4, FactorStep DEF FactorStays
    <2>2. request'[r].at \notin {"idle", "onboarding"} => request'[r].user \in Users
      BY <1>2 DEF TypeInv, RequestsFormed
    <2> QED BY <1>1, <2>1, <2>2 DEF RequestVouched
  <1> QED BY <1>3, <1>4

LEMMA OptOutStep ==
  ASSUME TypeInv, OptOutAlone, Next PROVE OptOutAlone'
  <1>1. ASSUME Reading PROVE OptOutAlone'
    BY <1>1, ReadingFrame DEF OptOutAlone, HasFactor, TypeInv, TablesTyped, FactorsTyped,
       UsersTyped
  <1>2. ASSUME Flowing PROVE OptOutAlone'
    BY <1>2, FlowingFrame DEF OptOutAlone, HasFactor, TypeInv, TablesTyped, FactorsTyped,
       UsersTyped
  <1>3. ASSUME NEW r \in Requests, NEW u \in Users, CompleteOnboarding(r, u)
        PROVE  OptOutAlone'
    BY <1>3 DEF CompleteOnboarding, CreateInitialUser, InsertUser, InstallationInitialized,
       OptOutAlone, HasFactor, TypeInv, TablesTyped, FactorsTyped, UsersTyped
  <1>4. ASSUME NEW r \in Requests, NEW x \in transactions, NEW secret \in Authenticators,
               NEW counter \in Counters, TOTPLogin(r, x, secret, counter)
        PROVE  OptOutAlone'
    BY <1>4 DEF TOTPLogin, ConsumeTOTPLogin, OptOutAlone, HasFactor, TypeInv, TablesTyped,
       FactorsTyped, UsersTyped
  <1>5. ASSUME NEW r \in Requests, NEW x \in transactions, NEW code \in RecoveryCodes,
               Recover(r, x, code)
        PROVE  OptOutAlone'
    BY <1>5 DEF Recover, ConsumeRecoveryLogin, Redeem, OptOutAlone, HasFactor, TypeInv,
       TablesTyped, FactorsTyped, UsersTyped
  <1>6. ASSUME NEW r \in Requests, NewSession(r) PROVE OptOutAlone'
    BY <1>6 DEF NewSession, CreateSession, OptOutAlone, HasFactor, TypeInv, TablesTyped,
       FactorsTyped, UsersTyped
  <1>7. ASSUME NEW r \in Requests, EndSessions(r) PROVE OptOutAlone'
    BY <1>7 DEF EndSessions, DeleteSessions, OptOutAlone, HasFactor, TypeInv, TablesTyped,
       FactorsTyped, UsersTyped
  <1>8. ASSUME NEW r \in Requests, ChangePassword(r) PROVE OptOutAlone'
    BY <1>8 DEF ChangePassword, ChangePasswordAndRevoke, Revoke, OptOutAlone, HasFactor,
       TypeInv, TablesTyped, FactorsTyped, UsersTyped
  <1>9. ASSUME NEW r \in Requests, OptOut(r) PROVE OptOutAlone'
    BY <1>9 DEF OptOut, SkipMFA, OptOutAlone, HasFactor, TypeInv, TablesTyped, FactorsTyped,
       UsersTyped
  <1>10. ASSUME NEW r \in Requests, NEW name \in PasskeyNames, RegisterPasskey(r, name)
         PROVE  OptOutAlone'
    BY <1>10 DEF RegisterPasskey, CompletePasskeyRegistration, Elevate, OptOutAlone, HasFactor,
       TypeInv, TablesTyped, FactorsTyped, UsersTyped, RequestsFormed
  <1>11. ASSUME NEW r \in Requests, NEW secret \in Authenticators,
                NEW counter \in Counters, ConfirmEnrollment(r, secret, counter)
         PROVE  OptOutAlone'
    BY <1>11 DEF ConfirmEnrollment, CompleteTOTPEnrollment, Elevate, OptOutAlone, HasFactor,
       TypeInv, TablesTyped, FactorsTyped, UsersTyped, RequestsFormed
  <1>12. ASSUME NEW r \in Requests, NEW name \in PasskeyNames, DeletePasskey(r, name)
         PROVE  OptOutAlone'
    BY <1>12 DEF DeletePasskey, DeletePasskeyKeepingOne, OptOutAlone, HasFactor, TypeInv,
       TablesTyped, FactorsTyped, UsersTyped
  <1>13. ASSUME NEW r \in Requests, DeleteTOTP(r) PROVE OptOutAlone'
    BY <1>13 DEF DeleteTOTP, DeleteTOTPKeepingFactor, OptOutAlone, HasFactor, TypeInv,
       TablesTyped, FactorsTyped, UsersTyped
  <1>14. ASSUME NEW r \in Requests, RotateRecoveryCodes(r) PROVE OptOutAlone'
    BY <1>14 DEF RotateRecoveryCodes, ReplaceRecoveryCodes, IssueRecoveryCodes, OptOutAlone,
       HasFactor, TypeInv, TablesTyped, FactorsTyped, UsersTyped
  <1>15. ASSUME NEW u \in Users, CompleteSetup(u) PROVE OptOutAlone'
    BY <1>15 DEF CompleteSetup, CompleteUserSetup, OptOutAlone, HasFactor, TypeInv,
       TablesTyped, FactorsTyped, UsersTyped
  <1>16. ASSUME NEW u \in Users, CreateAdmin(u) PROVE OptOutAlone'
    BY <1>16 DEF CreateAdmin, CreateManagedUser, InsertUser, Stopped, OptOutAlone, HasFactor,
       TypeInv, TablesTyped, FactorsTyped, UsersTyped
  <1>17. ASSUME NEW u \in Users, ResetAuthentication(u) PROVE OptOutAlone'
    BY <1>17 DEF ResetAuthentication, ResetUserMFA, Revoke, Stopped, OptOutAlone, HasFactor,
       TypeInv, TablesTyped, FactorsTyped, UsersTyped
  <1>18. ASSUME Housekeeping PROVE OptOutAlone'
    BY <1>18 DEF Housekeeping, Maintain, OptOutAlone, HasFactor, TypeInv, TablesTyped,
       FactorsTyped, UsersTyped
  <1>19. ASSUME NEW r \in Requests, ManageUsers(r) PROVE OptOutAlone'
    BY <1>19 DEF ManageUsers, CreateUser, CreateManagedUser, CreatePendingUser, InsertUser,
       SetUserRole, UpdateUserRole, SetUserStatus, EnableUser, DisableUser, Revoke,
       ReplaceUserSetupToken, OptOutAlone, HasFactor, TypeInv, TablesTyped, FactorsTyped,
       UsersTyped
  <1> QED BY <1>1, <1>2, <1>3, <1>4, <1>5, <1>6, <1>7, <1>8, <1>9, <1>10, <1>11, <1>12,
         <1>13, <1>14, <1>15, <1>16, <1>17, <1>18, <1>19, NextCases

\* A step that opens no session, and keeps opt-outs and factors.
NoneOpened ==
  /\ sessions' \subseteq sessions
  /\ \A u \in Users : HasFactor(u) => HasFactor(u)'
  /\ UNCHANGED mfaSkipped

LEMMA NoneOpenedVouched ==
  ASSUME TypeInv, FactorsInv, NoneOpened PROVE SessionsVouched'
  BY DEF NoneOpened, FactorsInv, SessionsVouched, SessionVouched, Strong, TypeInv, TablesTyped,
     RowsTyped, SessionRows

LEMMA SessionsVouchedStep ==
  ASSUME TypeInv, SessionsActive, FactorsInv, Next PROVE SessionsVouched'
  <1>1. ASSUME Reading PROVE SessionsVouched'
    BY <1>1, ReadingFrame DEF FactorsInv, SessionsVouched, SessionVouched, HasFactor
  <1>2. ASSUME Flowing PROVE SessionsVouched'
    BY <1>2, FlowingFrame DEF FactorsInv, SessionsVouched, SessionVouched, HasFactor
  <1>3. ASSUME NEW r \in Requests, NEW u \in Users, CompleteOnboarding(r, u)
        PROVE  SessionsVouched'
    BY <1>3, NoneOpenedVouched DEF CompleteOnboarding, CreateInitialUser, InsertUser,
       InstallationInitialized, NoneOpened, HasFactor, TypeInv, TablesTyped, FactorsTyped
  <1>4. ASSUME NEW r \in Requests, NEW x \in transactions, NEW secret \in Authenticators,
               NEW counter \in Counters, TOTPLogin(r, x, secret, counter)
        PROVE  SessionsVouched'
    BY <1>4, NoneOpenedVouched, CountersAssumption DEF TOTPLogin, ConsumeTOTPLogin,
       NotConfigured, NoneOpened, HasFactor, TypeInv, TablesTyped, FactorsTyped
  <1>5. ASSUME NEW r \in Requests, NEW x \in transactions, NEW code \in RecoveryCodes,
               Recover(r, x, code)
        PROVE  SessionsVouched'
    BY <1>5, NoneOpenedVouched DEF Recover, ConsumeRecoveryLogin, NoneOpened, HasFactor
  <1>6. ASSUME NEW r \in Requests, NewSession(r) PROVE SessionsVouched'
    <2>1. PICK t : sessions' = sessions \union
                     {[token |-> t, user |-> request[r].user, assurance |-> request[r].assurance]}
      BY <1>6 DEF NewSession, CreateSession
    <2>2. RequestVouched(request[r]) /\ request[r].user \in Users
      BY <1>6 DEF NewSession, FactorsInv, RequestsVouched, TypeInv, RequestsFormed
    <2>3. /\ UNCHANGED <<mfaSkipped, factorVars>>
          /\ request[r].assurance = "password" => mfaSkipped[request[r].user]
      BY <1>6 DEF NewSession, CreateSession
    <2>4. request[r].at = "grant"
      BY <1>6 DEF NewSession
    <2> QED BY <2>1, <2>2, <2>3, <2>4 DEF FactorsInv, SessionsVouched, SessionVouched,
               RequestVouched, Strong, HasFactor
  <1>7. ASSUME NEW r \in Requests, EndSessions(r) PROVE SessionsVouched'
    BY <1>7, NoneOpenedVouched DEF EndSessions, DeleteSessions, NoneOpened, HasFactor, TypeInv,
       TablesTyped, FactorsTyped
  <1>8. ASSUME NEW r \in Requests, ChangePassword(r) PROVE SessionsVouched'
    BY <1>8, NoneOpenedVouched DEF ChangePassword, ChangePasswordAndRevoke, Revoke, NoneOpened,
       HasFactor, TypeInv, TablesTyped, FactorsTyped
  <1>9. ASSUME NEW r \in Requests, OptOut(r) PROVE SessionsVouched'
    <2>1. request[r].user \in Users
      BY <1>9 DEF OptOut, TypeInv, RequestsFormed
    <2> QED BY <1>9, <2>1
               DEF OptOut, SkipMFA, FactorsInv, SessionsVouched, SessionVouched, Strong,
                  HasFactor, TypeInv, TablesTyped, UsersTyped, RowsTyped, SessionRows
  <1>10. ASSUME NEW r \in Requests, NEW name \in PasskeyNames, RegisterPasskey(r, name)
         PROVE  SessionsVouched'
    <2>1. PICK u \in Users : u = request[r].user
      BY <1>10 DEF RegisterPasskey, CompletePasskeyRegistration, TypeInv, RequestsFormed
    <2> DEFINE raised == [token |-> request[r].token, user |-> u, assurance |-> "mfa"]
    <2>2. HasFactor(u)'
      BY <1>10, <2>1 DEF RegisterPasskey, CompletePasskeyRegistration, HasFactor, TypeInv,
         TablesTyped, FactorsTyped
    <2>3. \A v \in Users : v # u => HasFactor(v)' = HasFactor(v)
      BY <1>10, <2>1 DEF RegisterPasskey, CompletePasskeyRegistration, HasFactor, TypeInv,
         TablesTyped, FactorsTyped
    <2>4. \A v \in Users : v # u => mfaSkipped'[v] = mfaSkipped[v]
      BY <1>10, <2>1 DEF RegisterPasskey, CompletePasskeyRegistration, Elevate, TypeInv,
         TablesTyped, UsersTyped
    <2>5. \A s \in sessions' : s = raised \/ (s \in sessions /\ (s.user # u \/ s.assurance = "mfa"))
      BY <1>10, <2>1 DEF RegisterPasskey, CompletePasskeyRegistration, Elevate
    <2> QED BY <2>1, <2>2, <2>3, <2>4, <2>5 DEF FactorsInv, SessionsVouched, SessionVouched,
               Strong, TypeInv, TablesTyped, RowsTyped, SessionRows
  <1>11. ASSUME NEW r \in Requests, NEW secret \in Authenticators,
                NEW counter \in Counters, ConfirmEnrollment(r, secret, counter)
         PROVE  SessionsVouched'
    <2>1. PICK u \in Users : u = request[r].user
      BY <1>11 DEF ConfirmEnrollment, CompleteTOTPEnrollment, NotConfigured, TypeInv,
         RequestsFormed
    <2> DEFINE raised == [token |-> request[r].token, user |-> u, assurance |-> "mfa"]
    <2>2. HasFactor(u)'
      BY <1>11, <2>1, CountersAssumption DEF ConfirmEnrollment, CompleteTOTPEnrollment,
         NotConfigured, HasFactor, TypeInv, TablesTyped, FactorsTyped
    <2>3. \A v \in Users : v # u => HasFactor(v)' = HasFactor(v)
      BY <1>11, <2>1 DEF ConfirmEnrollment, CompleteTOTPEnrollment, NotConfigured, HasFactor,
         TypeInv, TablesTyped, FactorsTyped
    <2>4. \A v \in Users : v # u => mfaSkipped'[v] = mfaSkipped[v]
      BY <1>11, <2>1 DEF ConfirmEnrollment, CompleteTOTPEnrollment, NotConfigured, Elevate,
         TypeInv, TablesTyped, UsersTyped
    <2>5. \A s \in sessions' : s = raised \/ (s \in sessions /\ (s.user # u \/ s.assurance = "mfa"))
      BY <1>11, <2>1 DEF ConfirmEnrollment, CompleteTOTPEnrollment, NotConfigured, Elevate
    <2> QED BY <2>1, <2>2, <2>3, <2>4, <2>5 DEF FactorsInv, SessionsVouched, SessionVouched,
               Strong, TypeInv, TablesTyped, RowsTyped, SessionRows
  <1>12. ASSUME NEW r \in Requests, NEW name \in PasskeyNames, DeletePasskey(r, name)
         PROVE  SessionsVouched'
    BY <1>12, NoneOpenedVouched DEF DeletePasskey, DeletePasskeyKeepingOne, NoneOpened,
       HasFactor, TypeInv, TablesTyped, FactorsTyped, RequestsFormed
  <1>13. ASSUME NEW r \in Requests, DeleteTOTP(r) PROVE SessionsVouched'
    BY <1>13, NoneOpenedVouched DEF DeleteTOTP, DeleteTOTPKeepingFactor, NoneOpened, HasFactor,
       TypeInv, TablesTyped, FactorsTyped, RequestsFormed
  <1>14. ASSUME NEW r \in Requests, RotateRecoveryCodes(r) PROVE SessionsVouched'
    BY <1>14, NoneOpenedVouched DEF RotateRecoveryCodes, ReplaceRecoveryCodes, NoneOpened,
       HasFactor
  <1>15. ASSUME NEW u \in Users, CompleteSetup(u) PROVE SessionsVouched'
    <2>1. \A s \in sessions : s.user # u
      BY <1>15 DEF CompleteSetup, CompleteUserSetup, SessionsActive
    <2> QED BY <1>15, <2>1 DEF CompleteSetup, CompleteUserSetup, FactorsInv, SessionsVouched,
               SessionVouched, Strong, HasFactor, TypeInv, TablesTyped, UsersTyped, RowsTyped,
               SessionRows
  <1>16. ASSUME NEW u \in Users, CreateAdmin(u) PROVE SessionsVouched'
    BY <1>16, NoneOpenedVouched DEF CreateAdmin, CreateManagedUser, InsertUser, Stopped,
       NoneOpened, HasFactor, TypeInv, TablesTyped, FactorsTyped
  <1>17. ASSUME NEW u \in Users, ResetAuthentication(u) PROVE SessionsVouched'
    <2>1. sessions' = Without(sessions, u)
      BY <1>17 DEF ResetAuthentication, ResetUserMFA, Revoke
    <2>2. \A v \in Users : v # u => mfaSkipped'[v] = mfaSkipped[v] /\ HasFactor(v)' = HasFactor(v)
      BY <1>17 DEF ResetAuthentication, ResetUserMFA, HasFactor, TypeInv, TablesTyped,
         UsersTyped, FactorsTyped
    <2>3. \A s \in sessions' : s \in sessions /\ s.user # u /\ s.user \in Users
      BY <2>1 DEF TypeInv, TablesTyped, RowsTyped, SessionRows
    <2> QED BY <2>2, <2>3 DEF FactorsInv, SessionsVouched, SessionVouched, Strong, TypeInv,
               TablesTyped, RowsTyped, SessionRows
  <1>18. ASSUME Housekeeping PROVE SessionsVouched'
    BY <1>18, NoneOpenedVouched DEF Housekeeping, Maintain, NoneOpened, HasFactor, TypeInv,
       TablesTyped, FactorsTyped
  <1>19. ASSUME NEW r \in Requests, ManageUsers(r) PROVE SessionsVouched'
    BY <1>19, NoneOpenedVouched DEF ManageUsers, CreateUser, CreateManagedUser,
       CreatePendingUser, InsertUser, SetUserRole, UpdateUserRole, SetUserStatus, EnableUser,
       DisableUser, Revoke, ReplaceUserSetupToken, NoneOpened, HasFactor, TypeInv,
       TablesTyped, FactorsTyped
  <1> QED BY <1>1, <1>2, <1>3, <1>4, <1>5, <1>6, <1>7, <1>8, <1>9, <1>10, <1>11, <1>12,
         <1>13, <1>14, <1>15, <1>16, <1>17, <1>18, <1>19, NextCases

Coded(u) == \E row \in recoveryCodes : row.user = u

LEMMA FreshBatchCodes == \A u : \E row \in FreshBatch(u) : row.user = u
  <1>1. PICK code \in RecoveryCodes : TRUE
    BY CodesAssumption
  <1> SUFFICES ASSUME NEW u PROVE \E row \in FreshBatch(u) : row.user = u
    OBVIOUS
  <1>2. [user |-> u, code |-> code, used |-> FALSE] \in FreshBatch(u)
    BY <1>1 DEF FreshBatch
  <1> QED BY <1>2

LEMMA CodesStep ==
  ASSUME TypeInv, FactorsInv, Next PROVE CodesComeWithFactors'
  <1>1. ASSUME Reading PROVE CodesComeWithFactors'
    BY <1>1, ReadingFrame DEF CodesComeWithFactors, HasFactor, FactorsInv
  <1>2. ASSUME Flowing PROVE CodesComeWithFactors'
    BY <1>2, FlowingFrame DEF CodesComeWithFactors, HasFactor, FactorsInv
  <1>3. ASSUME NEW r \in Requests, NEW u \in Users, CompleteOnboarding(r, u)
        PROVE  CodesComeWithFactors'
    BY <1>3 DEF CompleteOnboarding, CreateInitialUser, InsertUser, InstallationInitialized,
       CodesComeWithFactors, HasFactor, FactorsInv
  <1>4. ASSUME NEW r \in Requests, NEW x \in transactions, NEW secret \in Authenticators,
               NEW counter \in Counters, TOTPLogin(r, x, secret, counter)
        PROVE  CodesComeWithFactors'
    BY <1>4, CountersAssumption DEF TOTPLogin, ConsumeTOTPLogin, NotConfigured,
       CodesComeWithFactors, HasFactor, FactorsInv, TypeInv, TablesTyped, FactorsTyped,
       RequestsFormed
  <1>5. ASSUME NEW r \in Requests, NEW x \in transactions, NEW code \in RecoveryCodes,
               Recover(r, x, code)
        PROVE  CodesComeWithFactors'
    <2>1. UNCHANGED <<passkeys, totp>>
      BY <1>5 DEF Recover, ConsumeRecoveryLogin
    <2> DEFINE unused == [user |-> x.user, code |-> code, used |-> FALSE]
               used == [unused EXCEPT !.used = TRUE]
    <2>2. /\ unused \in recoveryCodes
          /\ recoveryCodes' = (recoveryCodes \ {unused}) \union {used}
      BY <1>5 DEF Recover, ConsumeRecoveryLogin
    <2>3. unused.user = x.user /\ used.user = x.user
      OBVIOUS
    <2> HIDE DEF unused, used
    <2>4. \A u : Coded(u)' = Coded(u)
      BY <2>2, <2>3 DEF Coded
    <2> QED BY <2>1, <2>4 DEF Coded, FactorsInv, CodesComeWithFactors, HasFactor
  <1>6. ASSUME NEW r \in Requests, NewSession(r) PROVE CodesComeWithFactors'
    BY <1>6 DEF NewSession, CreateSession, CodesComeWithFactors, HasFactor, FactorsInv
  <1>7. ASSUME NEW r \in Requests, EndSessions(r) PROVE CodesComeWithFactors'
    BY <1>7 DEF EndSessions, DeleteSessions, CodesComeWithFactors, HasFactor, FactorsInv
  <1>8. ASSUME NEW r \in Requests, ChangePassword(r) PROVE CodesComeWithFactors'
    BY <1>8 DEF ChangePassword, ChangePasswordAndRevoke, Revoke, CodesComeWithFactors,
       HasFactor, FactorsInv
  <1>9. ASSUME NEW r \in Requests, OptOut(r) PROVE CodesComeWithFactors'
    BY <1>9 DEF OptOut, SkipMFA, CodesComeWithFactors, HasFactor, FactorsInv
  <1>10. ASSUME NEW r \in Requests, NEW name \in PasskeyNames, RegisterPasskey(r, name)
         PROVE  CodesComeWithFactors'
    <2>1. PICK u \in Users : u = request[r].user
      BY <1>10 DEF RegisterPasskey, CompletePasskeyRegistration, TypeInv, RequestsFormed
    <2>2. HasFactor(u)'
      BY <1>10, <2>1 DEF RegisterPasskey, CompletePasskeyRegistration, HasFactor, TypeInv,
         TablesTyped, FactorsTyped
    <2>3. \A v \in Users : v # u => HasFactor(v)' = HasFactor(v)
      BY <1>10, <2>1 DEF RegisterPasskey, CompletePasskeyRegistration, HasFactor, TypeInv,
         TablesTyped, FactorsTyped
    <2>4. CASE WithCodes(r)
      <3>1. recoveryCodes' = Without(recoveryCodes, u) \union FreshBatch(u)
        BY <1>10, <2>1, <2>4 DEF RegisterPasskey, CompletePasskeyRegistration, IssueRecoveryCodes
      <3>2. \A row \in FreshBatch(u) : row.user = u
        BY DEF FreshBatch
      <3> QED BY <2>2, <2>3, <3>1, <3>2, FreshBatchCodes DEF CodesComeWithFactors, FactorsInv
    <2>5. CASE ~WithCodes(r)
      <3>1. HasFactor(u) /\ recoveryCodes' = recoveryCodes
        BY <1>10, <2>1, <2>5 DEF RegisterPasskey, CompletePasskeyRegistration, WithCodes,
           FactorsInv, RequestsVouched, RequestVouched, Strong
      <3> QED BY <2>2, <2>3, <3>1 DEF CodesComeWithFactors, FactorsInv
    <2> QED BY <2>4, <2>5
  <1>11. ASSUME NEW r \in Requests, NEW secret \in Authenticators,
                NEW counter \in Counters, ConfirmEnrollment(r, secret, counter)
         PROVE  CodesComeWithFactors'
    <2>1. PICK u \in Users : u = request[r].user
      BY <1>11 DEF ConfirmEnrollment, CompleteTOTPEnrollment, NotConfigured, TypeInv,
         RequestsFormed
    <2>2. HasFactor(u)'
      BY <1>11, <2>1, CountersAssumption DEF ConfirmEnrollment, CompleteTOTPEnrollment,
         NotConfigured, HasFactor, TypeInv, TablesTyped, FactorsTyped
    <2>3. \A v \in Users : v # u => HasFactor(v)' = HasFactor(v)
      BY <1>11, <2>1 DEF ConfirmEnrollment, CompleteTOTPEnrollment, NotConfigured, HasFactor,
         TypeInv, TablesTyped, FactorsTyped
    <2>4. CASE WithCodes(r)
      <3>1. recoveryCodes' = Without(recoveryCodes, u) \union FreshBatch(u)
        BY <1>11, <2>1, <2>4 DEF ConfirmEnrollment, CompleteTOTPEnrollment, NotConfigured,
           IssueRecoveryCodes
      <3>2. \A row \in FreshBatch(u) : row.user = u
        BY DEF FreshBatch
      <3> QED BY <2>2, <2>3, <3>1, <3>2, FreshBatchCodes DEF CodesComeWithFactors, FactorsInv
    <2>5. CASE ~WithCodes(r)
      <3>1. HasFactor(u) /\ recoveryCodes' = recoveryCodes
        BY <1>11, <2>1, <2>5 DEF ConfirmEnrollment, CompleteTOTPEnrollment, NotConfigured,
           WithCodes, FactorsInv, RequestsVouched, RequestVouched, Strong
      <3> QED BY <2>2, <2>3, <3>1 DEF CodesComeWithFactors, FactorsInv
    <2> QED BY <2>4, <2>5
  <1>12. ASSUME NEW r \in Requests, NEW name \in PasskeyNames, DeletePasskey(r, name)
         PROVE  CodesComeWithFactors'
    BY <1>12 DEF DeletePasskey, DeletePasskeyKeepingOne, CodesComeWithFactors, HasFactor,
       FactorsInv, TypeInv, TablesTyped, FactorsTyped, RequestsFormed
  <1>13. ASSUME NEW r \in Requests, DeleteTOTP(r) PROVE CodesComeWithFactors'
    BY <1>13 DEF DeleteTOTP, DeleteTOTPKeepingFactor, CodesComeWithFactors, HasFactor,
       FactorsInv, TypeInv, TablesTyped, FactorsTyped, RequestsFormed
  <1>14. ASSUME NEW r \in Requests, RotateRecoveryCodes(r) PROVE CodesComeWithFactors'
    <2>1. PICK u \in Users : u = request[r].user
      BY <1>14 DEF RotateRecoveryCodes, TypeInv, RequestsFormed
    <2>2. HasFactor(u)
      BY <1>14, <2>1 DEF RotateRecoveryCodes, FactorsInv, RequestsVouched, RequestVouched, Strong
    <2>3. /\ recoveryCodes' = Without(recoveryCodes, u) \union FreshBatch(u)
          /\ UNCHANGED <<passkeys, totp>>
      BY <1>14, <2>1 DEF RotateRecoveryCodes, ReplaceRecoveryCodes, IssueRecoveryCodes
    <2>4. \A row \in FreshBatch(u) : row.user = u
      BY DEF FreshBatch
    <2> QED BY <2>2, <2>3, <2>4, FreshBatchCodes DEF FactorsInv, CodesComeWithFactors, HasFactor
  <1>15. ASSUME NEW u \in Users, CompleteSetup(u) PROVE CodesComeWithFactors'
    BY <1>15 DEF CompleteSetup, CompleteUserSetup, CodesComeWithFactors, HasFactor, FactorsInv
  <1>16. ASSUME NEW u \in Users, CreateAdmin(u) PROVE CodesComeWithFactors'
    BY <1>16 DEF CreateAdmin, CreateManagedUser, InsertUser, Stopped, CodesComeWithFactors,
       HasFactor, FactorsInv
  <1>17. ASSUME NEW u \in Users, ResetAuthentication(u) PROVE CodesComeWithFactors'
    <2>1. ~HasFactor(u)' /\ recoveryCodes' = Without(recoveryCodes, u)
      BY <1>17 DEF ResetAuthentication, ResetUserMFA, HasFactor, TypeInv, TablesTyped,
         FactorsTyped
    <2>2. \A v \in Users : v # u => HasFactor(v)' = HasFactor(v)
      BY <1>17 DEF ResetAuthentication, ResetUserMFA, HasFactor, TypeInv, TablesTyped,
         FactorsTyped
    <2> QED BY <2>1, <2>2 DEF FactorsInv, CodesComeWithFactors
  <1>18. ASSUME Housekeeping PROVE CodesComeWithFactors'
    BY <1>18 DEF Housekeeping, Maintain, CodesComeWithFactors, HasFactor, FactorsInv
  <1>19. ASSUME NEW r \in Requests, ManageUsers(r) PROVE CodesComeWithFactors'
    BY <1>19 DEF ManageUsers, CreateUser, CreateManagedUser, CreatePendingUser, InsertUser,
       SetUserRole, UpdateUserRole, SetUserStatus, EnableUser, DisableUser, Revoke,
       ReplaceUserSetupToken, CodesComeWithFactors, HasFactor, FactorsInv
  <1> QED BY <1>1, <1>2, <1>3, <1>4, <1>5, <1>6, <1>7, <1>8, <1>9, <1>10, <1>11, <1>12,
         <1>13, <1>14, <1>15, <1>16, <1>17, <1>18, <1>19, NextCases

LEMMA FactorsStep ==
  ASSUME TypeInv, SessionsActive, FactorsInv, Next PROVE FactorsInv'
  BY OptOutStep, SessionsVouchedStep, CodesStep, RequestsVouchedStep DEF FactorsInv

-----------------------------------------------------------------------------
(* Proofs: what is spent stays spent *)

Totp(c) == <<"totp", c>>
Code(c) == <<"code", c>>

LEMMA ProofNames ==
  /\ \A c \in Counters : Totp(c) \in Proofs /\ Totp(c)[1] = "totp"
  /\ \A c \in RecoveryCodes : Code(c) \in Proofs /\ Code(c)[1] = "code"
  /\ \A p \in Proofs : \/ \E c \in Counters : p = Totp(c)
                       \/ \E c \in RecoveryCodes : p = Code(c)
  /\ \A c, d : (Totp(c) = Totp(d) => c = d) /\ (Code(c) = Code(d) => c = d)
  BY DEF Proofs, Totp, Code

LEMMA RedeemAfter ==
  ASSUME HistoryTyped, NEW u \in Users, NEW p \in Proofs, Redeem(u, p)
  PROVE  \A v \in Users, q \in Proofs :
           redeemed'[v][q] = IF v = u /\ q = p THEN IF redeemed[u][p] = 0 THEN 1 ELSE 2
                                               ELSE redeemed[v][q]
  <1> DEFINE after == [redeemed[u] EXCEPT ![p] = IF redeemed[u][p] = 0 THEN 1 ELSE 2]
  <1>1. redeemed' = [redeemed EXCEPT ![u] = after]
    BY DEF Redeem
  <1>2. redeemed[u] \in [Proofs -> 0..2]
    BY DEF HistoryTyped
  <1>3. \A q \in Proofs : after[q] = IF q = p THEN IF redeemed[u][p] = 0 THEN 1 ELSE 2
                                             ELSE redeemed[u][q]
    BY <1>2
  <1> HIDE DEF after
  <1> QED BY <1>1, <1>3 DEF HistoryTyped

LEMMA RedeemTOTPAfter ==
  ASSUME HistoryTyped, NEW u \in Users, NEW secret, NEW counter \in Counters,
         RedeemTOTP(u, secret, counter)
  PROVE  \A v \in Users, q \in Proofs :
           redeemed'[v][q] = IF v = u /\ q = Totp(counter) /\ totp[u].secret = secret
                               THEN IF redeemed[u][q] = 0 THEN 1 ELSE 2
                               ELSE redeemed[v][q]
  <1>1. CASE totp[u].secret = secret
    <2>1. Redeem(u, Totp(counter)) /\ Totp(counter) \in Proofs
      BY <1>1, ProofNames DEF RedeemTOTP, Totp
    <2> QED BY <1>1, <2>1, RedeemAfter
  <1>2. CASE totp[u].secret # secret
    BY <1>2 DEF RedeemTOTP
  <1> QED BY <1>1, <1>2

CodesForgotten(u) == redeemed' = [redeemed EXCEPT ![u] = Forget(u, "code")]

LEMMA ForgetAfter ==
  ASSUME HistoryTyped, NEW u \in Users, CodesForgotten(u)
  PROVE  \A v \in Users, q \in Proofs :
           redeemed'[v][q] = IF v = u /\ q[1] = "code" THEN 0 ELSE redeemed[v][q]
  <1>1. \A q \in Proofs : Forget(u, "code")[q] = IF q[1] = "code" THEN 0 ELSE redeemed[u][q]
    BY DEF Forget
  <1> QED BY <1>1 DEF CodesForgotten, HistoryTyped

LEMMA ConfirmAfter ==
  ASSUME HistoryTyped, NEW r \in Requests, NEW u \in Users, u = request[r].user,
         NEW secret \in Authenticators, NEW counter \in Counters,
         ConfirmEnrollment(r, secret, counter)
  PROVE  \A v \in Users, q \in Proofs :
           redeemed'[v][q] = IF v # u THEN redeemed[v][q]
                             ELSE IF q[1] = "code" THEN IF WithCodes(r) THEN 0 ELSE redeemed[v][q]
                             ELSE IF q = Totp(counter) THEN 1
                             ELSE IF q[1] = "totp" THEN 0 ELSE redeemed[v][q]
  <1> DEFINE anew == [Forget(u, "totp") EXCEPT ![<<"totp", counter>>] = 1]
             after == [p \in Proofs |-> IF WithCodes(r) /\ p[1] = "code" THEN 0 ELSE anew[p]]
  <1>1. \A q \in Proofs : Forget(u, "totp")[q] = IF q[1] = "totp" THEN 0 ELSE redeemed[u][q]
    BY DEF Forget
  <1>2. \A q \in Proofs : anew[q] = IF q = Totp(counter) THEN 1 ELSE Forget(u, "totp")[q]
    BY DEF Totp, Forget
  <1>3. \A q \in Proofs : after[q] = IF WithCodes(r) /\ q[1] = "code" THEN 0 ELSE anew[q]
    OBVIOUS
  <1>4. redeemed' = [redeemed EXCEPT ![u] = after]
    BY DEF ConfirmEnrollment, CompleteTOTPEnrollment
  <1> HIDE DEF anew, after
  <1>5. \A q \in Proofs : redeemed'[u][q] = after[q]
    BY <1>4 DEF HistoryTyped
  <1>6. \A v \in Users : v # u => redeemed'[v] = redeemed[v]
    BY <1>4 DEF HistoryTyped
  <1>7. \A q \in Proofs : q = Totp(counter) => q[1] = "totp"
    BY ProofNames
  <1> QED BY <1>1, <1>2, <1>3, <1>5, <1>6, <1>7

LEMMA CountersSpentStep ==
  ASSUME TypeInv, CountersSpent, Next PROVE CountersSpent'
  <1>1. ASSUME Reading PROVE CountersSpent'
    BY <1>1, ReadingFrame DEF CountersSpent
  <1>2. ASSUME Flowing PROVE CountersSpent'
    BY <1>2, FlowingFrame DEF CountersSpent
  <1>3. ASSUME NEW r \in Requests, NEW u \in Users, CompleteOnboarding(r, u)
        PROVE  CountersSpent'
    BY <1>3 DEF CompleteOnboarding, CreateInitialUser, InsertUser, InstallationInitialized,
       CountersSpent
  <1>4. ASSUME NEW r \in Requests, NEW x \in transactions, NEW secret \in Authenticators,
               NEW counter \in Counters, TOTPLogin(r, x, secret, counter)
        PROVE  CountersSpent'
    <2>1. x.user \in Users /\ Totp(counter) \in Proofs /\ HistoryTyped
      BY ProofNames DEF TypeInv, TablesTyped, RowsTyped, TransactionRows
    <2>2. RedeemTOTP(x.user, secret, counter)
      BY <1>4 DEF TOTPLogin, ConsumeTOTPLogin
    <2>3. \A v \in Users, q \in Proofs :
            v # x.user \/ q # Totp(counter) => redeemed'[v][q] = redeemed[v][q]
      BY <2>1, <2>2, RedeemTOTPAfter
    <2>4. /\ \A v \in Users : v # x.user => totp'[v] = totp[v]
          /\ totp[x.user] # NotConfigured /\ totp'[x.user].counter = counter
          /\ totp[x.user].counter \in Counters /\ totp[x.user].counter < counter
      <3>1. /\ totp[x.user] \in AuthenticatorRows /\ totp[x.user].counter < counter
            /\ totp' = [totp EXCEPT ![x.user] = [totp[x.user] EXCEPT !.counter = counter]]
        BY <1>4, CounterAfter
      <3>2. totp \in [Users -> AuthenticatorRows \union {NotConfigured}]
        BY DEF TypeInv, TablesTyped, FactorsTyped
      <3>3. totp[x.user] # NotConfigured
        BY <1>4 DEF TOTPLogin, ConsumeTOTPLogin
      <3>4. totp'[x.user] = [totp[x.user] EXCEPT !.counter = counter]
        BY <2>1, <3>1, <3>2
      <3> QED BY <3>1, <3>2, <3>3, <3>4 DEF AuthenticatorRows
    <2> SUFFICES ASSUME NEW v \in Users, NEW c \in Counters, totp'[v] # NotConfigured,
                        redeemed'[v][Totp(c)] # 0
                 PROVE  c <= totp'[v].counter
      BY DEF CountersSpent, Totp
    <2>5. CASE v = x.user /\ c = counter
      BY <2>4, <2>5, CountersAssumption
    <2>6. CASE v = x.user /\ c # counter
      <3>1. c <= totp[v].counter
        BY <2>3, <2>4, <2>6, ProofNames DEF CountersSpent, Totp
      <3>2. c \in Nat /\ counter \in Nat /\ totp[v].counter \in Nat
        BY <2>4, <2>6, CountersAssumption
      <3> QED BY <2>4, <2>6, <3>1, <3>2
    <2>7. CASE v # x.user
      BY <2>3, <2>4, <2>7, ProofNames DEF CountersSpent, Totp
    <2> QED BY <2>5, <2>6, <2>7
  <1>5. ASSUME NEW r \in Requests, NEW x \in transactions, NEW code \in RecoveryCodes,
               Recover(r, x, code)
        PROVE  CountersSpent'
    <2>1. x.user \in Users /\ Code(code) \in Proofs /\ HistoryTyped
      BY ProofNames DEF TypeInv, TablesTyped, RowsTyped, TransactionRows
    <2>2. Redeem(x.user, Code(code)) /\ UNCHANGED totp
      BY <1>5 DEF Recover, ConsumeRecoveryLogin, Code
    <2>3. \A v \in Users, c \in Counters : redeemed'[v][Totp(c)] = redeemed[v][Totp(c)]
      BY <2>1, <2>2, RedeemAfter, ProofNames
    <2> QED BY <2>2, <2>3 DEF CountersSpent, Totp
  <1>6. ASSUME NEW r \in Requests, NewSession(r) PROVE CountersSpent'
    BY <1>6 DEF NewSession, CreateSession, CountersSpent
  <1>7. ASSUME NEW r \in Requests, EndSessions(r) PROVE CountersSpent'
    BY <1>7 DEF EndSessions, DeleteSessions, CountersSpent
  <1>8. ASSUME NEW r \in Requests, ChangePassword(r) PROVE CountersSpent'
    BY <1>8 DEF ChangePassword, ChangePasswordAndRevoke, Revoke, CountersSpent
  <1>9. ASSUME NEW r \in Requests, OptOut(r) PROVE CountersSpent'
    BY <1>9 DEF OptOut, SkipMFA, CountersSpent
  <1>10. ASSUME NEW r \in Requests, NEW name \in PasskeyNames, RegisterPasskey(r, name)
         PROVE  CountersSpent'
    <2>1. PICK u \in Users : u = request[r].user
      BY <1>10 DEF RegisterPasskey, TypeInv, RequestsFormed
    <2>2. /\ UNCHANGED totp
          /\ redeemed' = redeemed \/ CodesForgotten(u)
      BY <1>10, <2>1 DEF RegisterPasskey, CompletePasskeyRegistration, CodesForgotten
    <2>3. \A v \in Users, c \in Counters : redeemed'[v][Totp(c)] = redeemed[v][Totp(c)]
      BY <2>2, ForgetAfter, ProofNames DEF TypeInv, TablesTyped
    <2> QED BY <2>2, <2>3 DEF CountersSpent, Totp
  <1>11. ASSUME NEW r \in Requests, NEW secret \in Authenticators,
                NEW counter \in Counters, ConfirmEnrollment(r, secret, counter)
         PROVE  CountersSpent'
    <2>1. PICK u \in Users : u = request[r].user
      BY <1>11 DEF ConfirmEnrollment, TypeInv, RequestsFormed
    <2>2. totp' = [totp EXCEPT ![u] = [secret |-> secret, counter |-> counter]]
      BY <1>11, <2>1 DEF ConfirmEnrollment, CompleteTOTPEnrollment
    <2> SUFFICES ASSUME NEW v \in Users, NEW c \in Counters, totp'[v] # NotConfigured,
                        redeemed'[v][Totp(c)] # 0
                 PROVE  c <= totp'[v].counter
      BY DEF CountersSpent, Totp
    <2>3. Totp(c) \in Proofs /\ Totp(c)[1] = "totp" /\ (Totp(c) = Totp(counter) => c = counter)
      BY ProofNames
    <2>4. v = u => c = counter
      BY <1>11, <2>1, <2>3, ConfirmAfter DEF TypeInv, TablesTyped
    <2>5. CASE v = u
      BY <2>2, <2>4, <2>5, CountersAssumption DEF TypeInv, TablesTyped, FactorsTyped
    <2>6. CASE v # u
      <3>1. redeemed'[v][Totp(c)] = redeemed[v][Totp(c)]
        BY <1>11, <2>1, <2>3, <2>6, ConfirmAfter DEF TypeInv, TablesTyped
      <3> QED BY <2>2, <2>6, <3>1 DEF CountersSpent, Totp, TypeInv, TablesTyped, FactorsTyped
    <2> QED BY <2>5, <2>6
  <1>12. ASSUME NEW r \in Requests, NEW name \in PasskeyNames, DeletePasskey(r, name)
         PROVE  CountersSpent'
    BY <1>12 DEF DeletePasskey, DeletePasskeyKeepingOne, CountersSpent
  <1>13. ASSUME NEW r \in Requests, DeleteTOTP(r) PROVE CountersSpent'
    BY <1>13 DEF DeleteTOTP, DeleteTOTPKeepingFactor, CountersSpent, TypeInv, TablesTyped,
       FactorsTyped
  <1>14. ASSUME NEW r \in Requests, RotateRecoveryCodes(r) PROVE CountersSpent'
    <2>1. PICK u \in Users : u = request[r].user
      BY <1>14 DEF RotateRecoveryCodes, TypeInv, RequestsFormed
    <2>2. UNCHANGED totp /\ CodesForgotten(u)
      BY <1>14, <2>1 DEF RotateRecoveryCodes, ReplaceRecoveryCodes, CodesForgotten
    <2>3. \A v \in Users, q \in Proofs :
            redeemed'[v][q] = IF v = u /\ q[1] = "code" THEN 0 ELSE redeemed[v][q]
      BY <2>2, ForgetAfter DEF TypeInv, TablesTyped
    <2> QED BY <2>2, <2>3, ProofNames DEF CountersSpent, Totp
  <1>15. ASSUME NEW u \in Users, CompleteSetup(u) PROVE CountersSpent'
    BY <1>15 DEF CompleteSetup, CompleteUserSetup, CountersSpent
  <1>16. ASSUME NEW u \in Users, CreateAdmin(u) PROVE CountersSpent'
    BY <1>16 DEF CreateAdmin, CreateManagedUser, InsertUser, Stopped, CountersSpent
  <1>17. ASSUME NEW u \in Users, ResetAuthentication(u) PROVE CountersSpent'
    BY <1>17 DEF ResetAuthentication, ResetUserMFA, CountersSpent, TypeInv, TablesTyped,
       FactorsTyped
  <1>18. ASSUME Housekeeping PROVE CountersSpent'
    BY <1>18 DEF Housekeeping, Maintain, CountersSpent
  <1>19. ASSUME NEW r \in Requests, ManageUsers(r) PROVE CountersSpent'
    BY <1>19 DEF ManageUsers, CreateUser, CreateManagedUser, CreatePendingUser, InsertUser,
       SetUserRole, UpdateUserRole, SetUserStatus, EnableUser, DisableUser, Revoke,
       ReplaceUserSetupToken, CountersSpent
  <1> QED BY <1>1, <1>2, <1>3, <1>4, <1>5, <1>6, <1>7, <1>8, <1>9, <1>10, <1>11, <1>12,
         <1>13, <1>14, <1>15, <1>16, <1>17, <1>18, <1>19, NextCases

LEMMA FreshCodesUnspent ==
  ASSUME TypeInv, CodesUnspent, NEW u \in Users,
         CodesForgotten(u),
         recoveryCodes' = Without(recoveryCodes, u) \union FreshBatch(u)
  PROVE  CodesUnspent'
  <1> SUFFICES ASSUME NEW row \in recoveryCodes', ~row.used
               PROVE  redeemed'[row.user][Code(row.code)] = 0
    BY DEF CodesUnspent, Code
  <1>1. row \in RecoveryRows /\ (row.user # u => row \in recoveryCodes)
    BY DEF FreshBatch, RecoveryRows, TypeInv, TablesTyped, FactorsTyped
  <1>2. row.user \in Users /\ Code(row.code) \in Proofs /\ Code(row.code)[1] = "code"
    BY <1>1, ProofNames DEF RecoveryRows
  <1>3. \A v \in Users, q \in Proofs :
          redeemed'[v][q] = IF v = u /\ q[1] = "code" THEN 0 ELSE redeemed[v][q]
    BY ForgetAfter DEF TypeInv, TablesTyped
  <1>4. redeemed'[row.user][Code(row.code)] =
          IF row.user = u THEN 0 ELSE redeemed[row.user][Code(row.code)]
    BY <1>2, <1>3
  <1> QED BY <1>1, <1>4 DEF CodesUnspent, Code

LEMMA CodesUnspentStep ==
  ASSUME TypeInv, CodesUnspent, Next PROVE CodesUnspent'
  <1>1. ASSUME Reading PROVE CodesUnspent'
    BY <1>1, ReadingFrame DEF CodesUnspent
  <1>2. ASSUME Flowing PROVE CodesUnspent'
    BY <1>2, FlowingFrame DEF CodesUnspent
  <1>3. ASSUME NEW r \in Requests, NEW u \in Users, CompleteOnboarding(r, u)
        PROVE  CodesUnspent'
    BY <1>3 DEF CompleteOnboarding, CreateInitialUser, InsertUser, InstallationInitialized,
       CodesUnspent
  <1>4. ASSUME NEW r \in Requests, NEW x \in transactions, NEW secret \in Authenticators,
               NEW counter \in Counters, TOTPLogin(r, x, secret, counter)
        PROVE  CodesUnspent'
    <2>1. x.user \in Users /\ Totp(counter) \in Proofs /\ HistoryTyped
      BY ProofNames DEF TypeInv, TablesTyped, RowsTyped, TransactionRows
    <2>2. RedeemTOTP(x.user, secret, counter) /\ UNCHANGED recoveryCodes
      BY <1>4 DEF TOTPLogin, ConsumeTOTPLogin
    <2>3. \A v \in Users, c \in RecoveryCodes : redeemed'[v][Code(c)] = redeemed[v][Code(c)]
      BY <2>1, <2>2, RedeemTOTPAfter, ProofNames
    <2> QED BY <2>2, <2>3 DEF CodesUnspent, Code, TypeInv, TablesTyped, FactorsTyped, RecoveryRows
  <1>5. ASSUME NEW r \in Requests, NEW x \in transactions, NEW code \in RecoveryCodes,
               Recover(r, x, code)
        PROVE  CodesUnspent'
    <2> DEFINE unused == [user |-> x.user, code |-> code, used |-> FALSE]
               used == [unused EXCEPT !.used = TRUE]
    <2>1. x.user \in Users /\ Code(code) \in Proofs /\ HistoryTyped
      BY ProofNames DEF TypeInv, TablesTyped, RowsTyped, TransactionRows
    <2>2. /\ Redeem(x.user, Code(code))
          /\ recoveryCodes' = (recoveryCodes \ {unused}) \union {used}
      BY <1>5 DEF Recover, ConsumeRecoveryLogin, Code
    <2>3. \A v \in Users, q \in Proofs : v # x.user \/ q # Code(code) => redeemed'[v][q] = redeemed[v][q]
      BY <2>1, <2>2, RedeemAfter
    <2> SUFFICES ASSUME NEW row \in recoveryCodes', ~row.used
                 PROVE  redeemed'[row.user][Code(row.code)] = 0
      BY DEF CodesUnspent, Code
    <2>4. row \in recoveryCodes /\ row \in RecoveryRows /\ row # unused
      BY <2>2 DEF TypeInv, TablesTyped, FactorsTyped
    <2>5. row.user # x.user \/ row.code # code
      BY <2>4 DEF RecoveryRows
    <2>6. row.user \in Users /\ Code(row.code) \in Proofs /\ (Code(row.code) = Code(code) => row.code = code)
      BY <2>4, ProofNames DEF RecoveryRows
    <2> QED BY <2>3, <2>4, <2>5, <2>6 DEF CodesUnspent, Code
  <1>6. ASSUME NEW r \in Requests, NewSession(r) PROVE CodesUnspent'
    BY <1>6 DEF NewSession, CreateSession, CodesUnspent
  <1>7. ASSUME NEW r \in Requests, EndSessions(r) PROVE CodesUnspent'
    BY <1>7 DEF EndSessions, DeleteSessions, CodesUnspent
  <1>8. ASSUME NEW r \in Requests, ChangePassword(r) PROVE CodesUnspent'
    BY <1>8 DEF ChangePassword, ChangePasswordAndRevoke, Revoke, CodesUnspent
  <1>9. ASSUME NEW r \in Requests, OptOut(r) PROVE CodesUnspent'
    BY <1>9 DEF OptOut, SkipMFA, CodesUnspent
  <1>10. ASSUME NEW r \in Requests, NEW name \in PasskeyNames, RegisterPasskey(r, name)
         PROVE  CodesUnspent'
    <2>1. PICK u \in Users : u = request[r].user
      BY <1>10 DEF RegisterPasskey, TypeInv, RequestsFormed
    <2>2. \/ UNCHANGED <<recoveryCodes, redeemed>>
          \/ /\ CodesForgotten(u)
             /\ recoveryCodes' = Without(recoveryCodes, u) \union FreshBatch(u)
      BY <1>10, <2>1 DEF RegisterPasskey, CompletePasskeyRegistration, IssueRecoveryCodes,
         CodesForgotten
    <2> QED BY <2>1, <2>2, FreshCodesUnspent DEF CodesUnspent
  <1>11. ASSUME NEW r \in Requests, NEW secret \in Authenticators,
                NEW counter \in Counters, ConfirmEnrollment(r, secret, counter)
         PROVE  CodesUnspent'
    <2>1. PICK u \in Users : u = request[r].user
      BY <1>11 DEF ConfirmEnrollment, TypeInv, RequestsFormed
    <2> SUFFICES ASSUME NEW row \in recoveryCodes', ~row.used
                 PROVE  redeemed'[row.user][Code(row.code)] = 0
      BY DEF CodesUnspent, Code
    <2>2. recoveryCodes' = IF WithCodes(r) THEN Without(recoveryCodes, u) \union FreshBatch(u)
                                          ELSE recoveryCodes
      BY <1>11, <2>1 DEF ConfirmEnrollment, CompleteTOTPEnrollment, IssueRecoveryCodes
    <2>3. row \in RecoveryRows
      BY <2>2 DEF FreshBatch, RecoveryRows, TypeInv, TablesTyped, FactorsTyped
    <2>4. row.user \in Users /\ Code(row.code) \in Proofs /\ Code(row.code)[1] = "code"
      BY <2>3, ProofNames DEF RecoveryRows
    <2>5. CASE WithCodes(r) /\ row.user = u
      BY <1>11, <2>1, <2>4, <2>5, ConfirmAfter DEF TypeInv, TablesTyped
    <2>6. CASE ~(WithCodes(r) /\ row.user = u)
      <3>1. row \in recoveryCodes
        BY <2>2, <2>6 DEF FreshBatch
      <3>2. redeemed'[row.user][Code(row.code)] = redeemed[row.user][Code(row.code)]
        BY <1>11, <2>1, <2>4, <2>6, ConfirmAfter DEF TypeInv, TablesTyped
      <3> QED BY <3>1, <3>2 DEF CodesUnspent, Code
    <2> QED BY <2>5, <2>6
  <1>12. ASSUME NEW r \in Requests, NEW name \in PasskeyNames, DeletePasskey(r, name)
         PROVE  CodesUnspent'
    BY <1>12 DEF DeletePasskey, DeletePasskeyKeepingOne, CodesUnspent
  <1>13. ASSUME NEW r \in Requests, DeleteTOTP(r) PROVE CodesUnspent'
    BY <1>13 DEF DeleteTOTP, DeleteTOTPKeepingFactor, CodesUnspent
  <1>14. ASSUME NEW r \in Requests, RotateRecoveryCodes(r) PROVE CodesUnspent'
    <2>1. PICK u \in Users : u = request[r].user
      BY <1>14 DEF RotateRecoveryCodes, TypeInv, RequestsFormed
    <2>2. /\ CodesForgotten(u)
          /\ recoveryCodes' = Without(recoveryCodes, u) \union FreshBatch(u)
      BY <1>14, <2>1 DEF RotateRecoveryCodes, ReplaceRecoveryCodes, IssueRecoveryCodes,
         CodesForgotten
    <2> QED BY <2>1, <2>2, FreshCodesUnspent
  <1>15. ASSUME NEW u \in Users, CompleteSetup(u) PROVE CodesUnspent'
    BY <1>15 DEF CompleteSetup, CompleteUserSetup, CodesUnspent
  <1>16. ASSUME NEW u \in Users, CreateAdmin(u) PROVE CodesUnspent'
    BY <1>16 DEF CreateAdmin, CreateManagedUser, InsertUser, Stopped, CodesUnspent
  <1>17. ASSUME NEW u \in Users, ResetAuthentication(u) PROVE CodesUnspent'
    BY <1>17 DEF ResetAuthentication, ResetUserMFA, CodesUnspent, TypeInv, TablesTyped,
       FactorsTyped, HistoryTyped, RecoveryRows
  <1>18. ASSUME Housekeeping PROVE CodesUnspent'
    BY <1>18 DEF Housekeeping, Maintain, CodesUnspent
  <1>19. ASSUME NEW r \in Requests, ManageUsers(r) PROVE CodesUnspent'
    BY <1>19 DEF ManageUsers, CreateUser, CreateManagedUser, CreatePendingUser, InsertUser,
       SetUserRole, UpdateUserRole, SetUserStatus, EnableUser, DisableUser, Revoke,
       ReplaceUserSetupToken, CodesUnspent
  <1> QED BY <1>1, <1>2, <1>3, <1>4, <1>5, <1>6, <1>7, <1>8, <1>9, <1>10, <1>11, <1>12,
         <1>13, <1>14, <1>15, <1>16, <1>17, <1>18, <1>19, NextCases

SpentOnce == \A u \in Users : \A p \in Proofs : redeemed[u][p] <= 1

LEMMA SpentOnceStep ==
  ASSUME TypeInv, CountersSpent, CodesUnspent, SpentOnce, Next PROVE SpentOnce'
  <1>1. ASSUME Reading PROVE SpentOnce'
    BY <1>1, ReadingFrame DEF SpentOnce
  <1>2. ASSUME Flowing PROVE SpentOnce'
    BY <1>2, FlowingFrame DEF SpentOnce
  <1>3. ASSUME NEW r \in Requests, NEW u \in Users, CompleteOnboarding(r, u) PROVE SpentOnce'
    BY <1>3 DEF CompleteOnboarding, CreateInitialUser, InsertUser, InstallationInitialized,
       SpentOnce
  <1>4. ASSUME NEW r \in Requests, NEW x \in transactions, NEW secret \in Authenticators,
               NEW counter \in Counters, TOTPLogin(r, x, secret, counter)
        PROVE  SpentOnce'
    <2>1. x.user \in Users /\ Totp(counter) \in Proofs /\ HistoryTyped
      BY ProofNames DEF TypeInv, TablesTyped, RowsTyped, TransactionRows
    <2>2. RedeemTOTP(x.user, secret, counter)
      BY <1>4 DEF TOTPLogin, ConsumeTOTPLogin
    <2>3. redeemed[x.user][Totp(counter)] = 0
      <3>1. /\ totp[x.user] # NotConfigured /\ totp[x.user].counter < counter
            /\ totp[x.user].counter \in Counters
        BY <1>4, CounterAfter DEF TOTPLogin, ConsumeTOTPLogin, AuthenticatorRows
      <3>2. counter \in Nat /\ totp[x.user].counter \in Nat
        BY <3>1, CountersAssumption
      <3> QED BY <2>1, <3>1, <3>2 DEF CountersSpent, Totp
    <2> QED BY <2>1, <2>2, <2>3, RedeemTOTPAfter DEF SpentOnce
  <1>5. ASSUME NEW r \in Requests, NEW x \in transactions, NEW code \in RecoveryCodes,
               Recover(r, x, code)
        PROVE  SpentOnce'
    <2>1. x.user \in Users /\ Code(code) \in Proofs /\ HistoryTyped
      BY ProofNames DEF TypeInv, TablesTyped, RowsTyped, TransactionRows
    <2>2. /\ Redeem(x.user, Code(code))
          /\ [user |-> x.user, code |-> code, used |-> FALSE] \in recoveryCodes
      BY <1>5 DEF Recover, ConsumeRecoveryLogin, Code
    <2>3. redeemed[x.user][Code(code)] = 0
      BY <2>2 DEF CodesUnspent, Code
    <2> QED BY <2>1, <2>2, <2>3, RedeemAfter DEF SpentOnce
  <1>6. ASSUME NEW r \in Requests, NewSession(r) PROVE SpentOnce'
    BY <1>6 DEF NewSession, CreateSession, SpentOnce
  <1>7. ASSUME NEW r \in Requests, EndSessions(r) PROVE SpentOnce'
    BY <1>7 DEF EndSessions, DeleteSessions, SpentOnce
  <1>8. ASSUME NEW r \in Requests, ChangePassword(r) PROVE SpentOnce'
    BY <1>8 DEF ChangePassword, ChangePasswordAndRevoke, Revoke, SpentOnce
  <1>9. ASSUME NEW r \in Requests, OptOut(r) PROVE SpentOnce'
    BY <1>9 DEF OptOut, SkipMFA, SpentOnce
  <1>10. ASSUME NEW r \in Requests, NEW name \in PasskeyNames, RegisterPasskey(r, name)
         PROVE  SpentOnce'
    <2>1. PICK u \in Users : u = request[r].user
      BY <1>10 DEF RegisterPasskey, TypeInv, RequestsFormed
    <2>2. CodesForgotten(u) \/ UNCHANGED redeemed
      BY <1>10, <2>1 DEF RegisterPasskey, CompletePasskeyRegistration, CodesForgotten
    <2> QED BY <2>1, <2>2, ForgetAfter DEF SpentOnce, TypeInv, TablesTyped
  <1>11. ASSUME NEW r \in Requests, NEW secret \in Authenticators,
                NEW counter \in Counters, ConfirmEnrollment(r, secret, counter)
         PROVE  SpentOnce'
    <2>1. PICK u \in Users : u = request[r].user
      BY <1>11 DEF ConfirmEnrollment, TypeInv, RequestsFormed
    <2> SUFFICES ASSUME NEW v \in Users, NEW q \in Proofs PROVE redeemed'[v][q] <= 1
      BY DEF SpentOnce
    <2>2. redeemed'[v][q] \in {0, 1, redeemed[v][q]}
      BY <1>11, <2>1, ConfirmAfter DEF TypeInv, TablesTyped
    <2>3. redeemed[v][q] <= 1
      BY DEF SpentOnce
    <2> QED BY <2>2, <2>3
  <1>12. ASSUME NEW r \in Requests, NEW name \in PasskeyNames, DeletePasskey(r, name)
         PROVE  SpentOnce'
    BY <1>12 DEF DeletePasskey, DeletePasskeyKeepingOne, SpentOnce
  <1>13. ASSUME NEW r \in Requests, DeleteTOTP(r) PROVE SpentOnce'
    BY <1>13 DEF DeleteTOTP, DeleteTOTPKeepingFactor, SpentOnce
  <1>14. ASSUME NEW r \in Requests, RotateRecoveryCodes(r) PROVE SpentOnce'
    <2>1. PICK u \in Users : u = request[r].user
      BY <1>14 DEF RotateRecoveryCodes, TypeInv, RequestsFormed
    <2>2. CodesForgotten(u) \/ UNCHANGED redeemed
      BY <1>14, <2>1 DEF RotateRecoveryCodes, ReplaceRecoveryCodes, CodesForgotten
    <2> QED BY <2>1, <2>2, ForgetAfter DEF SpentOnce, TypeInv, TablesTyped
  <1>15. ASSUME NEW u \in Users, CompleteSetup(u) PROVE SpentOnce'
    BY <1>15 DEF CompleteSetup, CompleteUserSetup, SpentOnce
  <1>16. ASSUME NEW u \in Users, CreateAdmin(u) PROVE SpentOnce'
    BY <1>16 DEF CreateAdmin, CreateManagedUser, InsertUser, Stopped, SpentOnce
  <1>17. ASSUME NEW u \in Users, ResetAuthentication(u) PROVE SpentOnce'
    BY <1>17 DEF ResetAuthentication, ResetUserMFA, SpentOnce, TypeInv, TablesTyped, HistoryTyped
  <1>18. ASSUME Housekeeping PROVE SpentOnce'
    BY <1>18 DEF Housekeeping, Maintain, SpentOnce
  <1>19. ASSUME NEW r \in Requests, ManageUsers(r) PROVE SpentOnce'
    BY <1>19 DEF ManageUsers, CreateUser, CreateManagedUser, CreatePendingUser, InsertUser,
       SetUserRole, UpdateUserRole, SetUserStatus, EnableUser, DisableUser, Revoke,
       ReplaceUserSetupToken, SpentOnce
  <1> QED BY <1>1, <1>2, <1>3, <1>4, <1>5, <1>6, <1>7, <1>8, <1>9, <1>10, <1>11, <1>12,
         <1>13, <1>14, <1>15, <1>16, <1>17, <1>18, <1>19, NextCases

\* Only a new sign-in adds a row, with a token that nothing holds, and only the
\* three ways to finish one put its token into a grant, as they delete its row.
SignInsFresh ==
  \/ transactions' \subseteq transactions
  \/ \E u \in Users, t \in LoginTokens \ HeldTokens :
       transactions' = transactions \union {[token |-> t, user |-> u]}
TokenGranted(q) == q.at = "grant" /\ q.token # None
Finishes(r, x) ==
  /\ x \in transactions /\ transactions' = transactions \ {x}
  /\ \E a \in Assurances : request' = [request EXCEPT ![r] = Granted(x.user, a, x.token)]
GrantKept(r) == request'[r] = request[r] \/ ~TokenGranted(request'[r])
SignInFinished == \E r \in Requests : \E x \in transactions : Finishes(r, x)

LEMMA SignInsStep ==
  ASSUME TypeInv, Next PROVE SignInsFresh
  <1>1. ASSUME Reading PROVE SignInsFresh
    BY <1>1, ReadingFrame DEF SignInsFresh
  <1>2. ASSUME Flowing PROVE SignInsFresh
    <2>1. ASSUME NEW r \in Requests, StartSecondFactor(r) PROVE SignInsFresh
      BY <2>1 DEF StartSecondFactor, CreateLoginTransaction, SignInsFresh, TypeInv, RequestsFormed
    <2>2. ASSUME \/ \E r \in Requests :
                      \/ SpendTransaction(r) \/ BeginRegistration(r) \/ FinishRegistration(r)
                      \/ BeginEnrollment(r) \/ \E x \in transactions : FinishLogin(r, x)
                 \/ \E x \in transactions : BeginLogin(x)
          PROVE  transactions' \subseteq transactions
      BY <2>2 DEF SpendTransaction, ConsumeLoginTransaction, BeginRegistration, CreateCeremony,
         FinishRegistration, ConsumeCeremony, BeginEnrollment, CreateTOTPEnrollment, FinishLogin, BeginLogin
    <2> QED BY <1>2, <2>1, <2>2 DEF Flowing, SignInsFresh
  <1>3. ASSUME NEW r \in Requests, NEW u \in Users, CompleteOnboarding(r, u)
        PROVE  SignInsFresh
    BY <1>3 DEF CompleteOnboarding, CreateInitialUser, InsertUser, InstallationInitialized,
       SignInsFresh
  <1>4. ASSUME NEW r \in Requests, NEW x \in transactions, NEW secret \in Authenticators,
               NEW counter \in Counters, TOTPLogin(r, x, secret, counter)
        PROVE  SignInsFresh
    BY <1>4 DEF TOTPLogin, ConsumeTOTPLogin, SignInsFresh
  <1>5. ASSUME NEW r \in Requests, NEW x \in transactions, NEW code \in RecoveryCodes,
               Recover(r, x, code)
        PROVE  SignInsFresh
    BY <1>5 DEF Recover, ConsumeRecoveryLogin, Redeem, SignInsFresh
  <1>6. ASSUME NEW r \in Requests, NewSession(r) PROVE SignInsFresh
    BY <1>6 DEF NewSession, CreateSession, SignInsFresh
  <1>7. ASSUME NEW r \in Requests, EndSessions(r) PROVE SignInsFresh
    BY <1>7 DEF EndSessions, DeleteSessions, SignInsFresh
  <1>8. ASSUME NEW r \in Requests, ChangePassword(r) PROVE SignInsFresh
    BY <1>8 DEF ChangePassword, ChangePasswordAndRevoke, Revoke, SignInsFresh
  <1>9. ASSUME NEW r \in Requests, OptOut(r) PROVE SignInsFresh
    BY <1>9 DEF OptOut, SkipMFA, SignInsFresh
  <1>10. ASSUME NEW r \in Requests, NEW name \in PasskeyNames, RegisterPasskey(r, name)
         PROVE  SignInsFresh
    BY <1>10 DEF RegisterPasskey, CompletePasskeyRegistration, Elevate, IssueRecoveryCodes,
       SignInsFresh
  <1>11. ASSUME NEW r \in Requests, NEW secret \in Authenticators,
                NEW counter \in Counters, ConfirmEnrollment(r, secret, counter)
         PROVE  SignInsFresh
    BY <1>11 DEF ConfirmEnrollment, CompleteTOTPEnrollment, Elevate, IssueRecoveryCodes,
       SignInsFresh
  <1>12. ASSUME NEW r \in Requests, NEW name \in PasskeyNames, DeletePasskey(r, name)
         PROVE  SignInsFresh
    BY <1>12 DEF DeletePasskey, DeletePasskeyKeepingOne, SignInsFresh
  <1>13. ASSUME NEW r \in Requests, DeleteTOTP(r) PROVE SignInsFresh
    BY <1>13 DEF DeleteTOTP, DeleteTOTPKeepingFactor, SignInsFresh
  <1>14. ASSUME NEW r \in Requests, RotateRecoveryCodes(r) PROVE SignInsFresh
    BY <1>14 DEF RotateRecoveryCodes, ReplaceRecoveryCodes, IssueRecoveryCodes, SignInsFresh
  <1>15. ASSUME NEW u \in Users, CompleteSetup(u) PROVE SignInsFresh
    BY <1>15 DEF CompleteSetup, CompleteUserSetup, SignInsFresh
  <1>16. ASSUME NEW u \in Users, CreateAdmin(u) PROVE SignInsFresh
    BY <1>16 DEF CreateAdmin, CreateManagedUser, InsertUser, Stopped, SignInsFresh
  <1>17. ASSUME NEW u \in Users, ResetAuthentication(u) PROVE SignInsFresh
    BY <1>17 DEF ResetAuthentication, ResetUserMFA, Revoke, Stopped, SignInsFresh
  <1>18. ASSUME Housekeeping PROVE SignInsFresh
    BY <1>18 DEF Housekeeping, Maintain, SignInsFresh
  <1>19. ASSUME NEW r \in Requests, ManageUsers(r) PROVE SignInsFresh
    BY <1>19 DEF ManageUsers, CreateUser, CreateManagedUser, CreatePendingUser, InsertUser,
       SetUserRole, UpdateUserRole, SetUserStatus, EnableUser, DisableUser, Revoke,
       ReplaceUserSetupToken, SignInsFresh
  <1> QED BY <1>1, <1>2, <1>3, <1>4, <1>5, <1>6, <1>7, <1>8, <1>9, <1>10, <1>11, <1>12,
         <1>13, <1>14, <1>15, <1>16, <1>17, <1>18, <1>19, NextCases

LEMMA GrantStep ==
  ASSUME TypeInv, Next, NEW r \in Requests PROVE GrantKept(r) \/ SignInFinished
  <1>1. ASSUME Ending PROVE GrantKept(r) \/ SignInFinished
    BY <1>1 DEF Ending, Stopped, GrantKept, TokenGranted, TypeInv, RequestsTyped
  <1>2. ASSUME NEW q \in Requests, StartOnboarding(q) PROVE GrantKept(r) \/ SignInFinished
    BY <1>2 DEF StartOnboarding, GrantKept, TokenGranted, TypeInv, RequestsTyped
  <1>3. ASSUME NEW q \in Requests, NEW u \in Users, CompleteOnboarding(q, u)
        PROVE  GrantKept(r) \/ SignInFinished
    <2>1. CASE request' = [request EXCEPT ![q] = Granted(u, "bootstrap", None)]
      BY <2>1 DEF GrantKept, TokenGranted, TypeInv, RequestsTyped
    <2>2. CASE request' = [request EXCEPT ![q] = Idle]
      BY <2>2 DEF GrantKept, TokenGranted, TypeInv, RequestsTyped
    <2> QED BY <1>3, <2>1, <2>2 DEF CompleteOnboarding
  <1>4. ASSUME NEW q \in Requests, NEW u \in Users, VerifyCredentials(q, u)
        PROVE  GrantKept(r) \/ SignInFinished
    BY <1>4 DEF VerifyCredentials, GrantKept, TokenGranted, TypeInv, RequestsTyped
  <1>5. ASSUME NEW q \in Requests, CountPasskeys(q) PROVE GrantKept(r) \/ SignInFinished
    BY <1>5 DEF CountPasskeys, GrantKept, TokenGranted, TypeInv, RequestsTyped
  <1>6. ASSUME NEW q \in Requests, CheckTOTP(q) PROVE GrantKept(r) \/ SignInFinished
    BY <1>6 DEF CheckTOTP, GrantKept, TokenGranted, TypeInv, RequestsTyped, RequestsFormed,
       Assurances
  <1>7. ASSUME NEW q \in Requests, NEW x \in transactions, FinishLogin(q, x)
        PROVE  GrantKept(r) \/ SignInFinished
    BY <1>7 DEF FinishLogin, ConsumeCeremony, GrantKept, TokenGranted, TypeInv, RequestsTyped
  <1>8. ASSUME NEW q \in Requests, UpdatePasskey(q) PROVE GrantKept(r) \/ SignInFinished
    BY <1>8 DEF UpdatePasskey, GrantKept, TokenGranted, TypeInv, RequestsTyped
  <1>9. ASSUME NEW q \in Requests, SpendTransaction(q) PROVE GrantKept(r) \/ SignInFinished
    <2>1. Finishes(q, [token |-> request[q].token, user |-> request[q].user])
      BY <1>9 DEF SpendTransaction, ConsumeLoginTransaction, Finishes, Assurances
    <2> QED BY <2>1, <1>9 DEF SignInFinished, Finishes
  <1>10. ASSUME NEW q \in Requests, NEW x \in transactions, NEW secret \in Authenticators,
                NEW counter \in Counters, TOTPLogin(q, x, secret, counter)
         PROVE  GrantKept(r) \/ SignInFinished
    <2>1. Finishes(q, x)
      BY <1>10 DEF TOTPLogin, ConsumeTOTPLogin, Finishes, Assurances
    <2> QED BY <2>1 DEF SignInFinished
  <1>11. ASSUME NEW q \in Requests, NEW x \in transactions, NEW code \in RecoveryCodes,
                Recover(q, x, code)
         PROVE  GrantKept(r) \/ SignInFinished
    <2>1. Finishes(q, x)
      BY <1>11 DEF Recover, ConsumeRecoveryLogin, Finishes, Assurances
    <2> QED BY <2>1 DEF SignInFinished
  <1>12. ASSUME NEW q \in Requests, NEW s \in sessions, Authenticate(q, s)
         PROVE  GrantKept(r) \/ SignInFinished
    BY <1>12 DEF Authenticate, GrantKept, TokenGranted, TypeInv, RequestsTyped
  <1>13. ASSUME NEW q \in Requests, FinishRegistration(q) PROVE GrantKept(r) \/ SignInFinished
    BY <1>13 DEF FinishRegistration, ConsumeCeremony, GrantKept, TokenGranted, TypeInv,
       RequestsTyped
  <1>14. ASSUME NEW q \in Requests, NEW x \in transactions, NEW counter \in Counters,
                MatchTOTP(q, x, counter)
         PROVE  GrantKept(r) \/ SignInFinished
    BY <1>14 DEF MatchTOTP, GrantKept, TokenGranted, TypeInv, RequestsTyped
  <1> QED BY <1>1, <1>2, <1>3, <1>4, <1>5, <1>6, <1>7, <1>8, <1>9, <1>10, <1>11, <1>12,
         <1>13, <1>14, RequestCases

LEMMA OneSignInStep ==
  ASSUME TypeInv, OneSignIn, Next PROVE OneSignIn'
  <1>1. CASE transactions' \subseteq transactions
    BY <1>1 DEF OneSignIn
  <1>2. ASSUME NEW u \in Users, NEW t \in LoginTokens \ HeldTokens,
               transactions' = transactions \union {[token |-> t, user |-> u]}
        PROVE  OneSignIn'
    <2>1. \A x \in transactions : x.token # t
      BY DEF HeldTokens
    <2> QED BY <1>2, <2>1 DEF OneSignIn
  <1> QED BY <1>1, <1>2, SignInsStep DEF SignInsFresh

\* The token of a grant is the token of no row and of no other grant.
GrantsSpent ==
  \A r \in Requests : TokenGranted(request[r]) =>
    /\ \A x \in transactions : x.token # request[r].token
    /\ \A q \in Requests \ {r} : request[q].at = "grant" => request[q].token # request[r].token

LEMMA GrantsSpentStep ==
  ASSUME TypeInv, OneSignIn, GrantsSpent, Next PROVE GrantsSpent'
  <1>1. ASSUME NEW r \in Requests, NEW x \in transactions, Finishes(r, x) PROVE GrantsSpent'
    <2>1. /\ request'[r].at = "grant" /\ request'[r].token = x.token
          /\ \A q \in Requests \ {r} : request'[q] = request[q]
          /\ transactions' = transactions \ {x}
      BY <1>1 DEF Finishes, TypeInv, RequestsTyped
    <2>2. \A y \in transactions' : y.token # x.token
      BY <2>1 DEF OneSignIn
    <2>3. x.token # None => \A q \in Requests : request[q].at = "grant" => request[q].token # x.token
      BY DEF GrantsSpent, TokenGranted
    <2>4. \A q \in Requests : TokenGranted(request[q]) => request[q].token # x.token
      BY DEF GrantsSpent
    <2> QED BY <2>1, <2>2, <2>3, <2>4 DEF GrantsSpent, TokenGranted
  <1>2. CASE ~SignInFinished
    <2> SUFFICES ASSUME NEW r \in Requests, TokenGranted(request'[r])
                 PROVE  /\ \A x \in transactions' : x.token # request'[r].token
                        /\ \A q \in Requests \ {r} :
                             request'[q].at = "grant" => request'[q].token # request'[r].token
      BY DEF GrantsSpent, TokenGranted
    <2>1. \A q \in Requests : TokenGranted(request'[q]) => request'[q] = request[q]
      BY <1>2, GrantStep DEF GrantKept
    <2>2. \A x \in transactions' : x.token # request'[r].token
      <3>1. request[r].token \in HeldTokens
        BY DEF HeldTokens
      <3>2. \A x \in transactions' : x \in transactions \/ x.token \notin HeldTokens
        BY SignInsStep DEF SignInsFresh
      <3> QED BY <2>1, <3>1, <3>2 DEF GrantsSpent
    <2>3. ASSUME NEW q \in Requests \ {r}, request'[q].at = "grant",
                 request'[q].token = request'[r].token
          PROVE  FALSE
      BY <2>1, <2>3 DEF GrantsSpent, TokenGranted
    <2> QED BY <2>2, <2>3
  <1> QED BY <1>1, <1>2 DEF SignInFinished

LEMMA SpentOnceParts == ProofsSpentOnce <=> SpentOnce /\ GrantsSpent
  BY DEF ProofsSpentOnce, SpentOnce, GrantsSpent, TokenGranted

LEMMA ProofsStep ==
  ASSUME TypeInv, ProofsInv, Next PROVE ProofsInv'
  <1>1. SpentOnce /\ GrantsSpent /\ CountersSpent /\ CodesUnspent /\ OneSignIn
    BY SpentOnceParts DEF ProofsInv
  <1>2. (SpentOnce /\ GrantsSpent /\ CountersSpent /\ CodesUnspent /\ OneSignIn)'
    BY <1>1, SpentOnceStep, GrantsSpentStep, CountersSpentStep, CodesUnspentStep, OneSignInStep
  <1>3. (SpentOnce /\ GrantsSpent => ProofsSpentOnce)'
    BY DEF ProofsSpentOnce, SpentOnce, GrantsSpent, TokenGranted
  <1> QED BY <1>2, <1>3 DEF ProofsInv

-----------------------------------------------------------------------------
(* The invariant, and what follows from it *)

LEMMA InvInit == Init => Inv
  <1> SUFFICES ASSUME Init PROVE Inv
    OBVIOUS
  <1>1. TypeInv
    BY TypeInit
  <1>2. UsersInv
    BY DEF Init, StoreInit, UsersInv, SetupLinksPending, SuperuserKept, InstallationInitialized,
           SessionsActive, RequestsKnown
  <1>3. FactorsInv
    BY DEF Init, StoreInit, FactorsInv, OptOutAlone, SessionsVouched, CodesComeWithFactors,
           HasFactor, RequestsVouched, RequestVouched
  <1>4. ProofsInv
    BY DEF Init, StoreInit, ProofsInv, ProofsSpentOnce, CountersSpent, CodesUnspent, OneSignIn
  <1> QED BY <1>1, <1>2, <1>3, <1>4 DEF Inv

LEMMA InvStep == Inv /\ [Next]_vars => Inv'
  <1> SUFFICES ASSUME Inv, [Next]_vars PROVE Inv'
    OBVIOUS
  <1>1. CASE Next
    <2>1. TypeInv /\ UsersInv /\ FactorsInv /\ ProofsInv /\ SessionsActive
      BY DEF Inv, UsersInv
    <2> QED BY <1>1, <2>1, TypeStep, UsersStep, FactorsStep, ProofsStep DEF Inv
  <1>2. CASE UNCHANGED vars
    <2>1. TypeInv'
      BY TypeStep DEF Inv
    <2>2. UsersInv'
      BY <1>2 DEF vars, Inv, UsersInv, SetupLinksPending, SuperuserKept, InstallationInitialized,
             ActiveSuperuser, SessionsActive, RequestsKnown
    <2>3. FactorsInv'
      BY <1>2 DEF vars, Inv, FactorsInv, OptOutAlone, SessionsVouched, SessionVouched,
             CodesComeWithFactors, HasFactor, RequestsVouched, RequestVouched
    <2>4. ProofsInv'
      BY <1>2 DEF vars, Inv, ProofsInv, ProofsSpentOnce, CountersSpent, CodesUnspent, OneSignIn
    <2> QED BY <2>1, <2>2, <2>3, <2>4 DEF Inv
  <1> QED BY <1>1, <1>2

LEMMA InvHolds == Spec => []Inv
  BY InvInit, InvStep, PTL DEF Spec

\* Superusers who demote or disable each other at the same time, through requests
\* let in long before, always leave one of them active (SuperuserKept;
\* requireAnotherActiveSuperuser counts inside the transaction that changes).
THEOREM SuperuserIsKept == Spec => []SuperuserKept
  BY InvHolds, PTL DEF Inv, UsersInv

\* A setup link never outlives the wait of its account (SetupLinksPending).
THEOREM SetupLinksWait == Spec => []SetupLinksPending
  BY InvHolds, PTL DEF Inv, UsersInv

\* What a session says of its account holds as long as it does (AssuranceStands),
\* although every way to sign in reads and works before it writes.
THEOREM AssuranceIsTrue == Spec => []AssuranceStands
  <1>1. Inv => AssuranceStands
    BY DEF Inv, TypeInv, TablesTyped, RowsTyped, SessionRows, UsersInv, SessionsActive,
           FactorsInv, OptOutAlone, SessionsVouched, SessionVouched, Strong, AssuranceStands
  <1> QED BY <1>1, InvHolds, PTL

\* Recovery codes come with the first factor, and go with the last
\* (CodesComeWithFactors), although their number is decided by a session read
\* before.
THEOREM CodesFollowFactors == Spec => []CodesComeWithFactors
  BY InvHolds, PTL DEF Inv, FactorsInv

\* Requests that present one proof at the same time use it once (ProofsSpentOnce),
\* whatever is enrolled between the match of a code and its consumption: one that
\* was matched with an authenticator that is gone is no code of the one enrolled.
THEOREM ProofsAreSpent == Spec => []ProofsSpentOnce
  BY InvHolds, PTL DEF Inv, ProofsInv

\* Only the local command takes a last factor, with everything it vouched for
\* (LastFactorKept).
THEOREM LastFactorIsKept == Spec => LastFactorKept
  <1> DEFINE Goes(u) ==
        /\ \A rows \in {sessions', transactions', recoveryCodes'} :
             \A row \in rows : row.user # u
        /\ \A r \in Requests : request'[r] = Idle
  <1>1. ASSUME Inv, Next, NEW u \in Users, HasFactor(u), ~HasFactor(u)' PROVE Goes(u)
    <2>1. ResetAuthentication(u)
      BY <1>1, FactorStep DEF FactorStays, Inv
    <2> QED BY <2>1 DEF ResetAuthentication, ResetUserMFA, Revoke, Stopped
  <1>2. Inv /\ [Next]_vars =>
          [\A u \in Users : HasFactor(u) /\ ~HasFactor(u)' => Goes(u)]_vars
    BY <1>1
  <1> QED BY <1>2, InvHolds, PTL DEF Spec, LastFactorKept

=============================================================================
