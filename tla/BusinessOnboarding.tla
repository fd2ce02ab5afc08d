------------------------- MODULE BusinessOnboarding -------------------------
(***************************************************************************)
(* Sign-up of users and of businesses: AuthService.createUser and signUp   *)
(* of backend/src/services/authService.ts, and businessOnboardingService.  *)
(* A user and a place bear the name of the request that inserted them, so  *)
(* place r belongs to user r.  What a transaction has inserted so far is   *)
(* told by the statement it has come to.                                   *)
(***************************************************************************)
EXTENDS Integers, FiniteSets

CONSTANTS Emails, Requests

VARIABLES
  call, pc,
  users,     \* committed rows of providers_users
  places,    \* committed rows of providers_places
  sessions,  \* rows of providers_sessions, by the user who signed up
  FreeConnection  \* has the pool a connection left? (see OwnerServices)

accountRows == <<users, places, sessions>>

-----------------------------------------------------------------------------
UserTypes == {"REGULAR", "BUSINESS"}
SignUpCalls == [op : {"sign up"}, email : Emails, type : UserTypes]
OnboardCalls == [op : {"onboard"}, email : Emails]

GoTo(r, stage) == pc' = [pc EXCEPT ![r] = stage]
At(r, op, stage) == call[r].op = op /\ pc[r] = stage

TransactionStages == {"find user", "create user", "create place", "commit accounts"}
HasInserted(q) == call[q].op = "onboard" /\ pc[q] \in {"create place", "commit accounts"}

-----------------------------------------------------------------------------
BeginOnboarding(r) ==
  /\ At(r, "onboard", "start") /\ FreeConnection
  /\ GoTo(r, "find user")
  /\ UNCHANGED accountRows

\* findOne is never handed the transaction: it needs a connection of its own.
FindUser(r) ==
  /\ At(r, "sign up", "start") \/ At(r, "onboard", "find user")
  /\ FreeConnection
  /\ GoTo(r, IF \E u \in users : call[u].email = call[r].email THEN "error" ELSE "create user")
  /\ UNCHANGED accountRows

\* The unique index on email.
EmailPending(r) ==
  \E q \in Requests \ {r} : HasInserted(q) /\ call[q].email = call[r].email
EmailTaken(r) == \E u \in users : call[u].email = call[r].email

CreateUserOutside(r) ==                                      \* (mutant)
  /\ At(r, "onboard", "create user") /\ ~EmailPending(r)
  /\ GoTo(r, IF EmailTaken(r) THEN "error" ELSE "create place")
  /\ users' = IF EmailTaken(r) THEN users ELSE users \cup {r}
  /\ UNCHANGED <<places, sessions>>
CreateUserInTransaction(r) ==
  /\ At(r, "onboard", "create user") /\ ~EmailPending(r)
  /\ GoTo(r, IF EmailTaken(r) THEN "error" ELSE "create place")
  /\ UNCHANGED accountRows

CreateUser(r) ==
  /\ At(r, "sign up", "create user") /\ FreeConnection /\ ~EmailPending(r)
  /\ IF EmailTaken(r)
     THEN GoTo(r, "error") /\ UNCHANGED users
     ELSE users' = users \cup {r} /\ \E stage \in {"create session", "error"} : GoTo(r, stage)
  /\ UNCHANGED <<places, sessions>>

CreatePlace(r) ==
  /\ At(r, "onboard", "create place")
  /\ GoTo(r, "commit accounts")
  /\ UNCHANGED accountRows

CommitAccounts(r) ==
  /\ At(r, "onboard", "commit accounts")
  /\ users' = users \cup {r}
  /\ places' = places \cup {r}
  /\ \E stage \in {"create session", "error"} : GoTo(r, stage)
  /\ UNCHANGED sessions

CreateSession(r) ==
  /\ pc[r] = "create session" /\ FreeConnection
  /\ sessions' = sessions \cup {r}
  /\ GoTo(r, "ok")
  /\ UNCHANGED <<users, places>>

AccountStep(r) ==
  \/ BeginOnboarding(r) \/ FindUser(r) \/ CreateUserInTransaction(r) \/ CreateUser(r)
  \/ CreatePlace(r) \/ CommitAccounts(r) \/ CreateSession(r)

AccountType == users \subseteq Requests /\ places \subseteq Requests /\ sessions \subseteq Requests

-----------------------------------------------------------------------------
(* Properties. *)

\* Two sign-ups that both find an e-mail free make one account.
OneAccountPerEmail ==
  \A q, r \in users : call[q].email = call[r].email => q = r

\* An onboarded account is never without its place, nor the place without its
\* account, whatever fails between the two inserts.
OnboardedTogether ==
  /\ \A u \in users : call[u].op = "onboard" => u \in places
  /\ places \subseteq users
=============================================================================
