--------------------------- MODULE OwnerServices ---------------------------
(***************************************************************************)
(* Sign-ups and opening hours as requests of one server process: they      *)
(* share the accounts, the places and the connection pool.                 *)
(***************************************************************************)
EXTENDS Integers, FiniteSets

CONSTANTS Emails, Days, Requests, MAX_POOL,
          Earlier, EarlierEmail  \* a business that was onboarded before

ASSUME OwnerServicesType ==
  /\ MAX_POOL \in Nat \ {0}
  /\ Earlier \in Requests /\ EarlierEmail \in Emails

VARIABLES call, pc, users, places, sessions, open, hours, matched, deleted, met

\* Sequelize's pool: a transaction keeps its connection, a statement outside
\* of one takes a connection for itself.
InTransaction ==
  {q \in Requests : pc[q] \in {"find user", "create place", "commit accounts", "match hours",
                               "delete hours", "insert hours", "commit hours"}
                    \/ (call[q].op = "onboard" /\ pc[q] = "create user")}
FreeConnection == Cardinality(InTransaction) < MAX_POOL

Accounts == INSTANCE BusinessOnboarding
Hours == INSTANCE PlaceHourService

vars == <<call, pc, users, places, sessions, open, hours, matched, deleted, met>>

-----------------------------------------------------------------------------
Calls == Accounts!SignUpCalls \cup Accounts!OnboardCalls \cup Hours!HourCalls
EarlierCall == [op |-> "onboard", email |-> EarlierEmail]
Answered == {"ok", "error"}

Begin(r) ==
  /\ pc[r] = "new"
  /\ \E c \in Calls : call' = [call EXCEPT ![r] = c]
  /\ pc' = [pc EXCEPT ![r] = "start"]
  /\ UNCHANGED <<users, places, sessions, open, hours, matched, deleted, met>>

Step(r) ==
  \/ Accounts!AccountStep(r) /\ open' = open \cup (places' \ places)
     /\ UNCHANGED <<call, hours, matched, deleted, met>>
  \/ Hours!HourStep(r) /\ UNCHANGED <<call, users, places, sessions, open>>

\* A statement fails, or the server stops: a transaction is rolled back, what
\* was committed stays.
Abort(r) ==
  /\ pc' = [pc EXCEPT ![r] = "error"]
  /\ deleted' = [deleted EXCEPT ![r] = {}]
  /\ UNCHANGED <<call, users, places, sessions, open, hours, matched, met>>

Fail(r) == pc[r] \notin Answered \cup {"new"} /\ Abort(r)

\* The pool gives up on a statement that has waited for a connection.
WaitForever(r) == FALSE                                      \* (mutant)
AcquireTimeout(r) ==
  /\ ~FreeConnection
  /\ \/ pc[r] \in {"start", "find user", "create session", "begin hours", "read hours"}
     \/ call[r].op = "sign up" /\ pc[r] = "create user"
  /\ Abort(r)

ClosePlace(p) ==
  /\ p \in open
  /\ open' = open \ {p}
  /\ UNCHANGED <<call, pc, users, places, sessions, hours, matched, deleted, met>>

Init ==
  /\ call = [r \in Requests |-> IF r = Earlier THEN EarlierCall ELSE [op |-> "none"]]
  /\ pc = [r \in Requests |-> IF r = Earlier THEN "ok" ELSE "new"]
  /\ users = {Earlier} /\ places = {Earlier} /\ open = {Earlier} /\ sessions = {Earlier}
  /\ Hours!HourInit

AllAnswered == (\A r \in Requests : pc[r] \in Answered) /\ UNCHANGED vars

Progress(r) == Step(r) \/ AcquireTimeout(r)

Next ==
  \/ \E r \in Requests : Begin(r) \/ Progress(r) \/ Fail(r)
  \/ \E p \in Requests : ClosePlace(p)
  \/ AllAnswered

Spec == Init /\ [][Next]_vars

\* Statements that can proceed do, and the pool's timer fires.
FairSpec == Spec /\ \A r \in Requests : WF_vars(Progress(r))

-----------------------------------------------------------------------------
(* Properties. *)

Stages == Answered \cup
  {"new", "start", "find user", "create user", "create place", "commit accounts",
   "create session", "begin hours", "match hours", "delete hours", "insert hours",
   "commit hours", "read hours"}

TypeOK ==
  /\ pc \in [Requests -> Stages]
  /\ open \subseteq places
  /\ Accounts!AccountType /\ Hours!HourType

(* What the statements keep to, of which the rest follows. *)

HourStages == Hours!Saving \cup {"read hours"}

\* Rows bear the names of requests that were sent, and stages belong to operations.
Sent ==
  /\ \A q \in Requests :
       /\ pc[q] = "new" => call[q].op = "none"
       /\ pc[q] \in HourStages => call[q].op = "hours"
       /\ call[q].op = "hours" => call[q].place \in Requests /\ call[q].days \subseteq Days
  /\ \A u \in users : pc[u] # "new"

\* An inserted e-mail is nobody else's before it is committed.
EmailsApart ==
  \A r \in Requests : Accounts!HasInserted(r) =>
    /\ \A u \in users : call[u].email # call[r].email
    /\ \A q \in Requests \ {r} : Accounts!HasInserted(q) => call[q].email # call[r].email

\* Weeks are found and deleted as a whole, each row by one request.
Whole(rows) ==
  \A q \in Requests : call[q].op = "hours" =>
    {h \in rows : h.by = q} \in {{}, Hours!Week(q)}
WeeksMove ==
  /\ \A h \in hours : pc[h.by] # "new"
  /\ Whole(hours)
  /\ \A r \in Requests :
       /\ Whole(matched[r]) /\ Whole(deleted[r])
       /\ \A h \in matched[r] : pc[h.by] # "new" /\ h.place = call[r].place
       /\ pc[r] = "new" => matched[r] = {}
       /\ deleted[r] \subseteq matched[r]
       /\ deleted[r] # {} => pc[r] \in {"insert hours", "commit hours"}
       /\ \A q \in Requests \ {r} : deleted[q] \cap deleted[r] = {}

\* An inserted week shares no day with what its transaction leaves in force.
KeysApart ==
  \A r \in Requests : pc[r] = "commit hours" =>
    \A k \in Hours!Week(r) :
      /\ \A h \in hours \ deleted[r] : ~Hours!SameKey(h, k)
      /\ \A q \in Requests \ {r} :
           pc[q] = "commit hours" => \A h \in Hours!Week(q) : ~Hours!SameKey(h, k)

\* A save that nobody disturbs finds, and deletes, the week in force.
LoneSaves ==
  \A r \in Requests :
    /\ \A q \in Requests \ {r} :
         /\ pc[q] \in Hours!TransactionStages /\ pc[r] \in Hours!TransactionStages
         /\ call[q].place = call[r].place
         => met[r]
    /\ ~met[r] =>
         /\ pc[r] = "delete hours" => matched[r] = Hours!HoursOf(call[r].place)
         /\ pc[r] \in {"insert hours", "commit hours"} =>
              deleted[r] = Hours!HoursOf(call[r].place)

OwnerDiscipline == Sent /\ EmailsApart /\ WeeksMove /\ KeysApart /\ LoneSaves

\* Two sign-ups that both find an e-mail free make one account; a business is
\* there with its place or not at all, whatever fails on the way.
AccountsAreWhole == TypeOK /\ Accounts!OneAccountPerEmail /\ Accounts!OnboardedTogether

\* However two saves of a week overlap, fail or wait for each other, no day is
\* listed twice and no save leaves half of its week.
WeeksAreWhole == Hours!OneEntryPerDay /\ Hours!SavedWeeksStayWhole

\* A week that nobody else saves meanwhile is the one that was sent.
LoneSaveDecidesWeek == Hours!LoneSaveDecidesWeek

\* Transactions that hold the whole pool while they look up an e-mail on a
\* second connection are ended by the pool's timer: a request that was sent is
\* answered.
EveryRequestEnds ==
  \A r \in Requests : pc[r] \notin Answered \cup {"new"} ~> pc[r] \in Answered
=============================================================================
