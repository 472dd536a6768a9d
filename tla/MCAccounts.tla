----------------------------- MODULE MCAccounts -----------------------------
(***************************************************************************)
(* Accounts on two small instances, explored by one run: a user with every *)
(* kind of second factor, and the administration of accounts without any.  *)
(***************************************************************************)
EXTENDS Accounts, TLC

CONSTANTS u1, u2,
  MaxUnderWay \* bound on ceremonies, and on enrolments, under way at a time

VARIABLE instance

\* Two users, no second factors ...
Administration ==
  /\ instance = "administration"
  /\ UNCHANGED <<passkeys, totp>>
  /\ ceremonies' = {} /\ enrollments' = {}

\* ... and one user with all of them.
SecondFactors ==
  /\ instance = "factors"
  /\ status'[u2] = "absent"
  /\ Cardinality(ceremonies') <= MaxUnderWay /\ Cardinality(enrollments') <= MaxUnderWay

MCInit == Init /\ instance \in {"administration", "factors"}
MCNext == Next /\ (Administration \/ SecondFactors) /\ UNCHANGED instance
MCSpec == MCInit /\ [][MCNext]_<<vars, instance>>

Symmetry ==
  Permutations(SessionTokens) \union Permutations(Requests) \union Permutations(LoginTokens)
    \union Permutations(Authenticators)
=============================================================================
