------------------------ MODULE OwnerServicesProofs ------------------------
(***************************************************************************)
(* Proofs about OwnerServices: whole accounts and whole weeks, whatever    *)
(* requests overlap, fail or time out, for any pool and any number of      *)
(* sign-ups, places and days.                                              *)
(***************************************************************************)
EXTENDS OwnerServices, TLAPS

Accounted ==
  Accounts!OneAccountPerEmail /\ Accounts!OnboardedTogether /\ EmailsApart
Timetabled == Hours!OneEntryPerDay /\ WeeksMove /\ KeysApart /\ LoneSaves

Inv == DOMAIN call = Requests /\ TypeOK /\ Sent /\ Accounted /\ Timetabled

USE DEF Stages, Answered, Hours!Saving, Hours!TransactionStages

\* A request that was sent runs a statement.
Advances(r) ==
  /\ call' = call
  /\ \A q \in Requests \ {r} : pc'[q] = pc[q]
  /\ pc[r] # "new" /\ pc'[r] # "new"

-----------------------------------------------------------------------------
(* What a step leaves alone. *)

LEMMA SentStays ==
  ASSUME Inv, NEW r \in Requests, Advances(r), users' \subseteq users \cup {r},
         pc'[r] \in HourStages => call[r].op = "hours"
  PROVE  Sent' /\ DOMAIN call' = Requests
<1>1. \A q \in Requests : pc'[q] = "new" => pc[q] = "new"
  BY DEF Advances
<1>2. \A q \in Requests : pc'[q] \in HourStages => pc[q] \in HourStages \/ call[q].op = "hours"
  BY DEF Advances
<1>3. \A u \in users' : pc'[u] # "new"
  <2>1. \A u \in users : u \in Requests /\ pc[u] # "new"
    BY DEF Inv, TypeOK, Accounts!AccountType, Sent
  <2> QED BY <2>1 DEF Advances
<1> QED BY <1>1, <1>2, <1>3 DEF Advances, Inv, Sent, HourStages

LEMMA AccountsStay ==
  ASSUME Inv, NEW r \in Requests, Advances(r), UNCHANGED <<users, places>>,
         Accounts!HasInserted(r)' => Accounts!HasInserted(r)
  PROVE  Accounted'
<1>1. \A q \in Requests : Accounts!HasInserted(q)' => Accounts!HasInserted(q)
  BY DEF Advances, Accounts!HasInserted
<1> QED BY <1>1 DEF Advances, Inv, Accounted, Accounts!OneAccountPerEmail,
                    Accounts!OnboardedTogether, EmailsApart

LEMMA HourRows ==
  ASSUME Inv
  PROVE  /\ \A h \in hours : h.by \in Requests /\ pc[h.by] # "new"
         /\ \A q \in Requests : \A h \in matched[q] :
              /\ h \in Hours!Hour /\ h.by \in Requests /\ pc[h.by] # "new"
              /\ h.place = call[q].place
         /\ hours \subseteq Hours!Hour
<1>1. \A h \in Hours!Hour : h.by \in Requests
  BY DEF Hours!Hour
<1>2. hours \subseteq Hours!Hour /\ \A q \in Requests : matched[q] \subseteq Hours!Hour
  BY DEF Inv, TypeOK, Hours!HourType
<1> QED BY <1>1, <1>2 DEF Inv, Timetabled, WeeksMove

LEMMA SameWeeks ==
  ASSUME call' = call
  PROVE  /\ \A q : Hours!Week(q)' = Hours!Week(q)
         /\ \A h, k : Hours!SameKey(h, k)' <=> Hours!SameKey(h, k)
  BY DEF Hours!Week, Hours!SameKey

LEMMA DaysStay ==
  ASSUME Inv, hours' = hours PROVE Hours!OneEntryPerDay'
  BY DEF Inv, Timetabled, Hours!OneEntryPerDay, Hours!SameKey

LEMMA WeeksStay ==
  ASSUME Inv, NEW r \in Requests, Advances(r), UNCHANGED <<hours, matched>>,
         deleted'[r] = {}, \A q \in Requests \ {r} : deleted'[q] = deleted[q]
  PROVE  WeeksMove'
<1>1. \A q \in Requests : pc[q] # "new" <=> pc'[q] # "new"
  BY DEF Advances
<1>2. \A q : Hours!Week(q)' = Hours!Week(q)
  BY SameWeeks DEF Advances
<1>3. /\ \A h \in hours : pc'[h.by] # "new"
      /\ \A q \in Requests : \A h \in matched[q] : pc'[h.by] # "new" /\ h.place = call'[q].place
  BY <1>1, HourRows DEF Advances
<1>4. Whole(hours)'
  BY <1>2 DEF Inv, Timetabled, WeeksMove, Whole, Advances
<1>5. \A q \in Requests : Whole(matched[q])'
  BY <1>2 DEF Inv, Timetabled, WeeksMove, Whole, Advances
<1>6. \A q \in Requests : Whole(deleted[q])'
  <2>1. \A q \in Requests \ {r} : Whole(deleted[q])'
    BY <1>2 DEF Inv, Timetabled, WeeksMove, Whole, Advances
  <2>2. Whole(deleted[r])'
    BY DEF Whole
  <2> QED BY <2>1, <2>2
<1>7. \A q \in Requests :
        /\ deleted'[q] \subseteq matched'[q]
        /\ pc'[q] = "new" => matched'[q] = {}
        /\ deleted'[q] # {} => pc'[q] \in {"insert hours", "commit hours"}
  BY <1>1 DEF Inv, Timetabled, WeeksMove, Advances
<1>8. \A q \in Requests : \A s \in Requests \ {q} : deleted'[s] \cap deleted'[q] = {}
  BY DEF Inv, Timetabled, WeeksMove
<1> QED BY <1>3, <1>4, <1>5, <1>6, <1>7, <1>8 DEF WeeksMove

LEMMA KeysStay ==
  ASSUME Inv, UNCHANGED <<call, hours>>,
         \A q \in Requests : pc'[q] = "commit hours" =>
           pc[q] = "commit hours" /\ deleted'[q] = deleted[q]
  PROVE  KeysApart'
<1>1. /\ \A q : Hours!Week(q)' = Hours!Week(q)
      /\ \A h, k : Hours!SameKey(h, k)' <=> Hours!SameKey(h, k)
  BY SameWeeks
<1>2. KeysApart
  BY DEF Inv, Timetabled
<1>3. ASSUME NEW s \in Requests, pc'[s] = "commit hours", NEW k \in Hours!Week(s)
      PROVE  /\ \A h \in hours' \ deleted'[s] : ~Hours!SameKey(h, k)
             /\ \A q \in Requests \ {s} :
                  pc'[q] = "commit hours" => \A h \in Hours!Week(q) : ~Hours!SameKey(h, k)
  BY <1>2, <1>3 DEF KeysApart
<1> QED BY <1>1, <1>3 DEF KeysApart

LEMMA HoursStay ==
  ASSUME Inv, NEW r \in Requests, Advances(r), UNCHANGED <<hours, matched, met>>,
         deleted'[r] = {}, \A q \in Requests \ {r} : deleted'[q] = deleted[q],
         pc'[r] \notin Hours!TransactionStages
  PROVE  Timetabled'
<1>1. Hours!OneEntryPerDay' /\ WeeksMove'
  BY DaysStay, WeeksStay
<1>2. \A q \in Requests : pc'[q] = "commit hours" =>
        pc[q] = "commit hours" /\ deleted'[q] = deleted[q]
  BY DEF Advances
<1>3. KeysApart'
  BY <1>2, KeysStay DEF Advances
<1>4. LoneSaves'
  <2>1. \A p : Hours!HoursOf(p)' = Hours!HoursOf(p)
    BY DEF Hours!HoursOf
  <2> QED BY <2>1 DEF Inv, Timetabled, LoneSaves, Advances
<1> QED BY <1>1, <1>3, <1>4 DEF Timetabled

LEMMA NothingDeleted ==
  ASSUME Inv, NEW r \in Requests, pc[r] \notin {"insert hours", "commit hours"}
  PROVE  deleted[r] = {}
  BY DEF Inv, Timetabled, WeeksMove

-----------------------------------------------------------------------------
(* One lemma per action. *)

LEMMA BeginKeeps == ASSUME Inv, NEW r \in Requests, Begin(r) PROVE Inv'
<1>1. /\ pc[r] = "new" /\ pc'[r] = "start" /\ DOMAIN call' = Requests
      /\ \A q \in Requests \ {r} : pc'[q] = pc[q] /\ call'[q] = call[q]
  BY DEF Begin, Inv, TypeOK
<1>2. call'[r] \in Calls
  BY DEF Begin, Inv
<1>3. call'[r].op = "hours" => call'[r].place \in Requests /\ call'[r].days \subseteq Days
  BY <1>2 DEF Calls, Accounts!SignUpCalls, Accounts!OnboardCalls, Hours!HourCalls, Inv, TypeOK,
     Accounts!AccountType
<1>4. UNCHANGED <<users, places, sessions, open, hours, matched, deleted, met>>
  BY DEF Begin
<1>5. TypeOK'
  BY <1>1, <1>4 DEF Begin, Inv, TypeOK, Accounts!AccountType, Hours!HourType, Hours!Hour
<1>6. Sent'
  BY <1>1, <1>3, <1>4 DEF Inv, TypeOK, Accounts!AccountType, Sent, HourStages
<1>7. Accounted'
  <2>1. \A u \in users : u \in Requests \ {r}
    BY <1>1 DEF Inv, TypeOK, Accounts!AccountType, Sent
  <2>2. \A q \in Requests : Accounts!HasInserted(q)' => q # r /\ Accounts!HasInserted(q)
    BY <1>1 DEF Accounts!HasInserted
  <2> QED BY <1>1, <1>4, <2>1, <2>2 DEF Inv, Accounted, Accounts!OneAccountPerEmail,
       Accounts!OnboardedTogether, EmailsApart
<1>8. Timetabled'
  <2>1. \A q \in Requests \ {r} : Hours!Week(q)' = Hours!Week(q)
    BY <1>1 DEF Hours!Week
  <2>2. /\ \A h \in hours : h.by \in Requests \ {r}
        /\ \A q \in Requests : \A h \in matched[q] : h.by \in Requests \ {r}
    BY <1>1, HourRows
  <2>3. Hours!OneEntryPerDay'
    BY <1>4, DaysStay
  <2>4. deleted[r] = {}
    BY <1>1, NothingDeleted
  <2>5. matched[r] = {}
    BY <1>1 DEF Inv, Timetabled, WeeksMove
  <2>6. WeeksMove'
    <3>1. /\ \A h \in hours : pc'[h.by] # "new"
          /\ \A q \in Requests : \A h \in matched[q] : pc'[h.by] # "new"
      BY <1>1, <2>2, HourRows
    <3>2. \A q \in Requests : \A h \in matched[q] : h.place = call'[q].place
      BY <1>1, <2>5, HourRows
    <3>3. ASSUME NEW rows, Whole(rows), \A h \in rows : h.by # r PROVE Whole(rows)'
      BY <1>1, <2>1, <3>3 DEF Whole
    <3>4. Whole(hours)' /\ \A q \in Requests : Whole(matched[q])' /\ Whole(deleted[q])'
      <4>1. Whole(hours) /\ \A q \in Requests : Whole(matched[q]) /\ Whole(deleted[q])
        BY DEF Inv, Timetabled, WeeksMove
      <4>2. \A q \in Requests : deleted[q] \subseteq matched[q]
        BY DEF Inv, Timetabled, WeeksMove
      <4> QED BY <1>4, <2>2, <3>3, <4>1, <4>2
    <3>5. \A q \in Requests :
            /\ pc'[q] = "new" => matched[q] = {}
            /\ deleted[q] \subseteq matched[q]
            /\ deleted[q] # {} => pc'[q] \in {"insert hours", "commit hours"}
            /\ \A s \in Requests \ {q} : deleted[s] \cap deleted[q] = {}
      BY <1>1, <2>4 DEF Inv, Timetabled, WeeksMove
    <3> QED BY <1>4, <3>1, <3>2, <3>4, <3>5 DEF WeeksMove
  <2>7. KeysApart'
    <3>1. \A h, k : Hours!SameKey(h, k)' <=> Hours!SameKey(h, k)
      BY DEF Hours!SameKey
    <3>2. \A q \in Requests : pc'[q] = "commit hours" => q # r /\ pc[q] = "commit hours"
      BY <1>1
    <3>3. \A q \in Requests : pc'[q] = "commit hours" => Hours!Week(q)' = Hours!Week(q)
      BY <2>1, <3>2
    <3>4. ASSUME NEW s \in Requests, pc'[s] = "commit hours", NEW k \in Hours!Week(s)'
          PROVE  /\ \A h \in hours' \ deleted'[s] : ~Hours!SameKey(h, k)'
                 /\ \A q \in Requests \ {s} :
                      pc'[q] = "commit hours" => \A h \in Hours!Week(q)' : ~Hours!SameKey(h, k)'
      <4>1. pc[s] = "commit hours" /\ k \in Hours!Week(s)
        BY <3>2, <3>3, <3>4
      <4>2. /\ \A h \in hours \ deleted[s] : ~Hours!SameKey(h, k)
            /\ \A q \in Requests \ {s} :
                 pc[q] = "commit hours" => \A h \in Hours!Week(q) : ~Hours!SameKey(h, k)
        BY <4>1 DEF Inv, Timetabled, KeysApart
      <4>3. \A h \in hours' \ deleted'[s] : ~Hours!SameKey(h, k)'
        BY <1>4, <3>1, <4>2
      <4>4. ASSUME NEW q \in Requests \ {s}, pc'[q] = "commit hours", NEW h \in Hours!Week(q)'
            PROVE  ~Hours!SameKey(h, k)'
        <5>1. h \in Hours!Week(q) /\ pc[q] = "commit hours"
          BY <3>2, <3>3, <4>4
        <5> QED BY <3>1, <4>2, <5>1
      <4> QED BY <4>3, <4>4
    <3> QED BY <3>4 DEF KeysApart
  <2>8. LoneSaves'
    BY <1>1, <1>4 DEF Inv, Timetabled, LoneSaves, Hours!HoursOf
  <2> QED BY <2>3, <2>6, <2>7, <2>8 DEF Timetabled
<1> QED BY <1>1, <1>5, <1>6, <1>7, <1>8 DEF Inv

\* A look-up, an answer, a failure or a rollback.
LEMMA MoveKeeps ==
  ASSUME Inv, NEW r \in Requests, pc[r] # "new", NEW stage \in Stages \ {"new"},
         pc' = [pc EXCEPT ![r] = stage],
         stage \notin Hours!TransactionStages \cup {"create place", "commit accounts"},
         stage \in HourStages => call[r].op = "hours",
         UNCHANGED <<call, users, places, open, hours, matched, met>>,
         sessions' \subseteq sessions \cup {r},
         deleted' \in [Requests -> SUBSET hours], deleted'[r] = {},
         \A q \in Requests \ {r} : deleted'[q] = deleted[q]
  PROVE  Inv'
<1>1. Advances(r) /\ pc'[r] = stage
  BY DEF Advances, Inv, TypeOK
<1>2. TypeOK'
  BY DEF Inv, TypeOK, Accounts!AccountType, Hours!HourType
<1>3. Sent' /\ DOMAIN call' = Requests
  BY <1>1, SentStays
<1>4. Accounted'
  BY <1>1, AccountsStay DEF Accounts!HasInserted
<1>5. Timetabled'
  BY <1>1, HoursStay
<1> QED BY <1>2, <1>3, <1>4, <1>5 DEF Inv

LEMMA AccountKeeps ==
  ASSUME Inv, NEW r \in Requests, Accounts!AccountStep(r),
         open' = open \cup (places' \ places), UNCHANGED <<call, hours, matched, deleted, met>>
  PROVE  Inv'
<1>1. /\ pc[r] \in {"start", "find user", "create user", "create place", "commit accounts",
                    "create session"}
      /\ pc'[r] \in {"find user", "create user", "create place", "commit accounts",
                     "create session", "ok", "error"}
      /\ pc' = [pc EXCEPT ![r] = pc'[r]]
      /\ sessions' \subseteq sessions \cup {r}
  BY DEF Inv, TypeOK, Accounts!AccountStep, Accounts!BeginOnboarding, Accounts!FindUser,
     Accounts!CreateUserInTransaction, Accounts!CreateUser, Accounts!CreatePlace,
     Accounts!CommitAccounts, Accounts!CreateSession, Accounts!At, Accounts!GoTo,
     Accounts!accountRows
<1>2. Advances(r) /\ deleted[r] = {}
  BY <1>1, NothingDeleted DEF Advances, Inv, TypeOK
<1>3. Timetabled'
  BY <1>1, <1>2, HoursStay
<1>4. users' \subseteq users \cup {r} /\ places' \subseteq places \cup {r}
  BY DEF Accounts!AccountStep, Accounts!BeginOnboarding, Accounts!FindUser,
     Accounts!CreateUserInTransaction, Accounts!CreateUser, Accounts!CreatePlace,
     Accounts!CommitAccounts, Accounts!CreateSession, Accounts!accountRows
<1>5. Sent' /\ DOMAIN call' = Requests
  BY <1>1, <1>2, <1>4, SentStays DEF HourStages
<1>6. places \subseteq places'
  BY DEF Accounts!AccountStep, Accounts!BeginOnboarding, Accounts!FindUser,
     Accounts!CreateUserInTransaction, Accounts!CreateUser, Accounts!CreatePlace,
     Accounts!CommitAccounts, Accounts!CreateSession, Accounts!accountRows
<1>7. TypeOK'
  BY <1>1, <1>4, <1>6 DEF Inv, TypeOK, Accounts!AccountType, Hours!HourType
<1>8. Accounted'
  <2>1. CASE UNCHANGED <<users, places>> /\ ~(pc[r] = "create user" /\ pc'[r] = "create place")
    <3>1. Accounts!HasInserted(r)' => Accounts!HasInserted(r)
      BY <1>1, <2>1 DEF Accounts!AccountStep, Accounts!BeginOnboarding, Accounts!FindUser,
         Accounts!CreateUserInTransaction, Accounts!CreateUser, Accounts!CreatePlace,
         Accounts!CommitAccounts, Accounts!CreateSession, Accounts!At, Accounts!GoTo,
         Accounts!HasInserted, Inv, TypeOK
    <3> QED BY <1>2, <2>1, <3>1, AccountsStay
  <2>2. CASE Accounts!CreateUserInTransaction(r)
    <3>1. \/ UNCHANGED <<users, places>> /\ pc'[r] = "error"
          \/ /\ UNCHANGED <<users, places>>
             /\ \A u \in users : call[u].email # call[r].email
             /\ \A q \in Requests \ {r} :
                  Accounts!HasInserted(q) => call[q].email # call[r].email
      BY <2>2 DEF Accounts!CreateUserInTransaction, Accounts!GoTo, Accounts!EmailTaken,
         Accounts!EmailPending, Accounts!accountRows, Inv, TypeOK
    <3>2. \A q \in Requests \ {r} : Accounts!HasInserted(q)' <=> Accounts!HasInserted(q)
      BY <1>2 DEF Advances, Accounts!HasInserted
    <3>3. CASE pc'[r] = "error"
      BY <1>2, <2>1, <3>1, <3>3
    <3>4. CASE pc'[r] # "error"
      BY <1>2, <3>1, <3>2, <3>4 DEF Advances, Inv, Accounted, Accounts!OneAccountPerEmail,
         Accounts!OnboardedTogether, EmailsApart
    <3> QED BY <3>3, <3>4
  <2>3. CASE Accounts!CreateUser(r)
    <3>1. /\ call[r].op = "sign up" /\ places' = places
          /\ \/ users' = users
             \/ /\ users' = users \cup {r}
                /\ \A u \in users : call[u].email # call[r].email
          /\ \A q \in Requests \ {r} : Accounts!HasInserted(q) => call[q].email # call[r].email
      BY <2>3 DEF Accounts!CreateUser, Accounts!At, Accounts!EmailTaken, Accounts!EmailPending
    <3>2. \A q \in Requests : Accounts!HasInserted(q)' => q # r /\ Accounts!HasInserted(q)
      BY <1>2, <3>1 DEF Advances, Accounts!HasInserted
    <3>3. Accounts!OneAccountPerEmail'
      <4> SUFFICES ASSUME NEW q \in users', NEW s \in users', call[q].email = call[s].email
                   PROVE  q = s
        BY <1>2 DEF Advances, Accounts!OneAccountPerEmail
      <4>1. q \in users /\ s \in users => q = s
        BY DEF Inv, Accounted, Accounts!OneAccountPerEmail
      <4>2. CASE users' = users
        BY <4>1, <4>2
      <4>3. CASE users' # users
        <5>1. users' = users \cup {r} /\ \A u \in users : call[u].email # call[r].email
          BY <3>1, <4>3
        <5> QED BY <4>1, <5>1
      <4> QED BY <4>2, <4>3
    <3>4. Accounts!OnboardedTogether'
      BY <1>2, <3>1 DEF Advances, Inv, Accounted, Accounts!OnboardedTogether
    <3>5. EmailsApart'
      <4> SUFFICES ASSUME NEW s \in Requests, s # r, Accounts!HasInserted(s)
                   PROVE  /\ \A u \in users' : call[u].email # call[s].email
                          /\ \A q \in Requests \ {s} :
                               Accounts!HasInserted(q) => call[q].email # call[s].email
        BY <1>2, <3>2 DEF Advances, EmailsApart
      <4> QED BY <3>1 DEF Inv, Accounted, EmailsApart
    <3> QED BY <3>3, <3>4, <3>5 DEF Accounted
  <2>4. CASE Accounts!CommitAccounts(r)
    <3>1. /\ users' = users \cup {r} /\ places' = places \cup {r}
          /\ Accounts!HasInserted(r) /\ pc'[r] \in {"create session", "error"}
      BY <2>4 DEF Accounts!CommitAccounts, Accounts!At, Accounts!HasInserted, Accounts!GoTo, Inv,
         TypeOK
    <3>2. \A q \in Requests : Accounts!HasInserted(q)' => q # r /\ Accounts!HasInserted(q)
      BY <1>2, <3>1 DEF Advances, Accounts!HasInserted
    <3>3. \A u \in users : call[u].email # call[r].email
      BY <3>1 DEF Inv, Accounted, EmailsApart
    <3>4. Accounts!OneAccountPerEmail'
      <4> SUFFICES ASSUME NEW q \in users', NEW s \in users', call[q].email = call[s].email
                   PROVE  q = s
        BY <1>2 DEF Advances, Accounts!OneAccountPerEmail
      <4>1. q \in users /\ s \in users => q = s
        BY DEF Inv, Accounted, Accounts!OneAccountPerEmail
      <4> QED BY <3>1, <3>3, <4>1
    <3>5. Accounts!OnboardedTogether'
      BY <1>2, <3>1 DEF Advances, Inv, Accounted, Accounts!OnboardedTogether
    <3>6. EmailsApart'
      BY <1>2, <3>1, <3>2 DEF Advances, Inv, Accounted, EmailsApart
    <3> QED BY <3>4, <3>5, <3>6 DEF Accounted
  <2>5. CASE Accounts!BeginOnboarding(r) \/ Accounts!FindUser(r) \/ Accounts!CreatePlace(r)
             \/ Accounts!CreateSession(r)
    BY <2>1, <2>5 DEF Inv, TypeOK, Accounts!BeginOnboarding, Accounts!FindUser,
       Accounts!CreatePlace, Accounts!CreateSession, Accounts!At, Accounts!GoTo,
       Accounts!accountRows
  <2> QED BY <2>2, <2>3, <2>4, <2>5 DEF Accounts!AccountStep
<1> QED BY <1>3, <1>5, <1>7, <1>8 DEF Inv

\* What the statements of a save have in common.
LEMMA SaveAdvances ==
  ASSUME Inv, NEW r \in Requests, UNCHANGED <<call, users, places, sessions, open>>,
         pc[r] \in {"begin hours"} \cup Hours!TransactionStages,
         NEW stage \in Hours!TransactionStages \cup {"read hours", "error"},
         pc' = [pc EXCEPT ![r] = stage]
  PROVE  /\ Advances(r) /\ pc'[r] = stage /\ call[r].op = "hours"
         /\ Sent' /\ Accounted' /\ DOMAIN call' = Requests
         /\ pc' \in [Requests -> Stages] /\ Accounts!AccountType' /\ open' \subseteq places'
<1>1. Advances(r) /\ pc'[r] = stage
  BY DEF Advances, Inv, TypeOK
<1>2. call[r].op = "hours"
  BY DEF Inv, Sent, HourStages
<1>3. Sent' /\ DOMAIN call' = Requests
  BY <1>1, <1>2, SentStays
<1>4. Accounted'
  BY <1>1, AccountsStay DEF Accounts!HasInserted
<1>5. pc' \in [Requests -> Stages] /\ Accounts!AccountType' /\ open' \subseteq places'
  BY DEF Inv, TypeOK, Accounts!AccountType
<1> QED BY <1>1, <1>2, <1>3, <1>4, <1>5

LEMMA BeginHoursKeeps ==
  ASSUME Inv, NEW r \in Requests, Hours!BeginHours(r),
         UNCHANGED <<call, users, places, sessions, open>>
  PROVE  Inv'
<1>1. /\ pc[r] = "begin hours" /\ pc' = [pc EXCEPT ![r] = "match hours"]
      /\ UNCHANGED <<hours, matched, deleted>> /\ met' \in [Requests -> BOOLEAN]
  BY DEF Hours!BeginHours, Hours!At, Hours!GoTo, Inv, TypeOK, Hours!HourType
<1>2. /\ Advances(r) /\ pc'[r] = "match hours" /\ Sent' /\ Accounted' /\ DOMAIN call' = Requests
      /\ pc' \in [Requests -> Stages] /\ Accounts!AccountType' /\ open' \subseteq places'
  BY <1>1, SaveAdvances
<1>3. TypeOK'
  BY <1>1, <1>2 DEF Inv, TypeOK, Hours!HourType
<1>4. deleted[r] = {} /\ \A q : Hours!Week(q)' = Hours!Week(q)
  BY <1>1, NothingDeleted, SameWeeks
<1>5. Hours!OneEntryPerDay'
  BY <1>1, DaysStay
<1>6. WeeksMove'
  BY <1>1, <1>2, <1>4, WeeksStay
<1>7. KeysApart'
  <2>1. \A q \in Requests : pc'[q] = "commit hours" => pc[q] = "commit hours"
    BY <1>2 DEF Advances
  <2> QED BY <1>1, <2>1, KeysStay
<1>8. LoneSaves'
  <2>1. \A q \in Requests : met[q] => met'[q] \/ q = r
    BY DEF Hours!BeginHours, Inv, TypeOK, Hours!HourType
  <2>2. \A q, s \in Requests :
          /\ q # s /\ pc'[q] \in Hours!TransactionStages /\ pc'[s] \in Hours!TransactionStages
          /\ call[q].place = call[s].place
          => met'[s]
    <3> SUFFICES ASSUME NEW q \in Requests, NEW s \in Requests, q # s,
                        pc'[q] \in Hours!TransactionStages, pc'[s] \in Hours!TransactionStages,
                        call[q].place = call[s].place
                 PROVE  met'[s]
      OBVIOUS
    <3>1. CASE s = r
      BY <1>2, <3>1 DEF Hours!BeginHours, Advances
    <3>2. CASE q = r
      BY <1>2, <3>2 DEF Hours!BeginHours, Advances
    <3>3. CASE q # r /\ s # r
      BY <1>2, <2>1, <3>3 DEF Inv, Timetabled, LoneSaves, Advances
    <3> QED BY <3>1, <3>2, <3>3
  <2>3. ASSUME NEW s \in Requests, ~met'[s]
        PROVE  /\ pc'[s] = "delete hours" => matched[s] = Hours!HoursOf(call[s].place)
               /\ pc'[s] \in {"insert hours", "commit hours"} =>
                    deleted[s] = Hours!HoursOf(call[s].place)
    <3>1. CASE s = r
      BY <1>2, <3>1
    <3>2. CASE s # r
      BY <1>2, <2>1, <2>3, <3>2 DEF Inv, Timetabled, LoneSaves, Advances
    <3> QED BY <3>1, <3>2
  <2>4. ASSUME NEW s \in Requests
        PROVE  /\ \A q \in Requests \ {s} :
                    /\ pc'[q] \in Hours!TransactionStages /\ pc'[s] \in Hours!TransactionStages
                    /\ call'[q].place = call'[s].place
                    => met'[s]
               /\ ~met'[s] =>
                    /\ pc'[s] = "delete hours" => matched'[s] = Hours!HoursOf(call[s].place)'
                    /\ pc'[s] \in {"insert hours", "commit hours"} =>
                         deleted'[s] = Hours!HoursOf(call[s].place)'
    <3>1. Hours!HoursOf(call[s].place)' = Hours!HoursOf(call[s].place)
      BY <1>1 DEF Hours!HoursOf
    <3> QED BY <1>1, <1>2, <2>2, <2>3, <3>1 DEF Advances
  <2> QED BY <2>4 DEF LoneSaves
<1> QED BY <1>2, <1>3, <1>5, <1>6, <1>7, <1>8 DEF Inv, Timetabled

LEMMA MatchHoursKeeps ==
  ASSUME Inv, NEW r \in Requests, Hours!MatchHours(r),
         UNCHANGED <<call, users, places, sessions, open>>
  PROVE  Inv'
<1>1. /\ pc[r] = "match hours" /\ pc' = [pc EXCEPT ![r] = "delete hours"]
      /\ UNCHANGED <<hours, deleted, met>>
      /\ matched' = [matched EXCEPT ![r] = Hours!HoursOf(call[r].place)]
  BY DEF Hours!MatchHours, Hours!At, Hours!GoTo, Hours!Replaced
<1>2. /\ Advances(r) /\ pc'[r] = "delete hours" /\ Sent' /\ Accounted' /\ DOMAIN call' = Requests
      /\ pc' \in [Requests -> Stages] /\ Accounts!AccountType' /\ open' \subseteq places'
  BY <1>1, SaveAdvances
<1>3. TypeOK'
  BY <1>1, <1>2 DEF Inv, TypeOK, Hours!HourType, Hours!HoursOf
<1>4. deleted[r] = {} /\ \A q : Hours!Week(q)' = Hours!Week(q)
  BY <1>1, NothingDeleted, SameWeeks
<1>5. Hours!OneEntryPerDay'
  BY <1>1, DaysStay
<1>6. WeeksMove'
  <2>1. \A q \in Requests : pc[q] # "new" => pc'[q] # "new"
    BY <1>2 DEF Advances
  <2>2. /\ \A h \in hours : h.by \in Requests /\ pc'[h.by] # "new"
        /\ \A q \in Requests : \A h \in matched[q] : h.by \in Requests /\ pc'[h.by] # "new"
    BY <2>1, HourRows
  <2>3. Whole(Hours!HoursOf(call[r].place))
    <3> SUFFICES ASSUME NEW q \in Requests, call[q].op = "hours"
                 PROVE  {h \in Hours!HoursOf(call[r].place) : h.by = q} \in {{}, Hours!Week(q)}
      BY DEF Whole
    <3>1. {h \in hours : h.by = q} \in {{}, Hours!Week(q)}
      BY DEF Inv, Timetabled, WeeksMove, Whole
    <3>2. \A k \in Hours!Week(q) : k.place = call[q].place
      BY DEF Hours!Week
    <3>3. CASE call[q].place = call[r].place
      <4>1. \A h \in hours : h.by = q => h \in Hours!HoursOf(call[r].place)
        BY <3>1, <3>2, <3>3 DEF Hours!HoursOf
      <4>2. {h \in Hours!HoursOf(call[r].place) : h.by = q} = {h \in hours : h.by = q}
        BY <4>1 DEF Hours!HoursOf
      <4> QED BY <3>1, <4>2
    <3>4. CASE call[q].place # call[r].place
      <4>1. \A h \in hours : h.by = q => h \notin Hours!HoursOf(call[r].place)
        BY <3>1, <3>2, <3>4 DEF Hours!HoursOf
      <4> QED BY <4>1 DEF Hours!HoursOf
    <3> QED BY <3>3, <3>4
  <2>4. \A q \in Requests : Whole(matched'[q])
    BY <1>1, <2>3 DEF Inv, TypeOK, Hours!HourType, Timetabled, WeeksMove
  <2>5. \A q \in Requests : \A h \in matched'[q] : pc'[h.by] # "new" /\ h.place = call[q].place
    BY <1>1, <2>2 DEF Inv, TypeOK, Hours!HourType, Timetabled, WeeksMove, Hours!HoursOf
  <2>6. \A q \in Requests : deleted[q] \subseteq matched'[q] /\ (pc'[q] = "new" => matched'[q] = {})
    BY <1>1, <1>2, <1>4 DEF Inv, TypeOK, Hours!HourType, Timetabled, WeeksMove, Advances
  <2>7. Whole(hours)' /\ \A q \in Requests : Whole(matched[q])' /\ Whole(deleted[q])'
    BY <1>1, <1>4, <2>4 DEF Inv, Timetabled, WeeksMove, Whole
  <2>8. \A q \in Requests :
          /\ deleted[q] # {} => pc'[q] \in {"insert hours", "commit hours"}
          /\ \A s \in Requests \ {q} : deleted[s] \cap deleted[q] = {}
    BY <1>2, <1>4 DEF Inv, Timetabled, WeeksMove, Advances
  <2> QED BY <1>1, <2>2, <2>5, <2>6, <2>7, <2>8 DEF WeeksMove
<1>7. KeysApart'
  <2>1. \A q \in Requests : pc'[q] = "commit hours" => pc[q] = "commit hours"
    BY <1>2 DEF Advances
  <2> QED BY <1>1, <2>1, KeysStay
<1>8. LoneSaves'
  <2>1. \A p : Hours!HoursOf(p)' = Hours!HoursOf(p)
    BY <1>1 DEF Hours!HoursOf
  <2>2. matched'[r] = Hours!HoursOf(call[r].place) /\ \A q \in Requests \ {r} : matched'[q] = matched[q]
    BY <1>1 DEF Inv, TypeOK, Hours!HourType
  <2> QED BY <1>1, <1>2, <2>1, <2>2 DEF Inv, Timetabled, LoneSaves, Advances
<1> QED BY <1>2, <1>3, <1>5, <1>6, <1>7, <1>8 DEF Inv, Timetabled

LEMMA DeleteHoursKeeps ==
  ASSUME Inv, NEW r \in Requests, Hours!DeleteHours(r),
         UNCHANGED <<call, users, places, sessions, open>>
  PROVE  Inv'
<1> DEFINE stage == IF call[r].days = {} THEN "commit hours" ELSE "insert hours"
           gone == matched[r] \cap hours
<1>1. /\ pc[r] = "delete hours" /\ pc' = [pc EXCEPT ![r] = stage]
      /\ UNCHANGED <<hours, matched, met>>
      /\ deleted' = [deleted EXCEPT ![r] = gone]
      /\ \A q \in Requests \ {r} : deleted[q] \cap matched[r] = {}
  BY DEF Hours!DeleteHours, Hours!At, Hours!GoTo, Hours!StillThere
<1>2. stage \in {"commit hours", "insert hours"}
  OBVIOUS
<1>3. deleted \in [Requests -> SUBSET hours]
  BY DEF Inv, TypeOK, Hours!HourType
<1> HIDE DEF stage
<1>4. /\ Advances(r) /\ pc'[r] = stage /\ Sent' /\ Accounted' /\ DOMAIN call' = Requests
      /\ pc' \in [Requests -> Stages] /\ Accounts!AccountType' /\ open' \subseteq places'
  BY <1>1, <1>2, SaveAdvances
<1>5. deleted'[r] = gone /\ \A q \in Requests \ {r} : deleted'[q] = deleted[q]
  BY <1>1, <1>3
<1>6. TypeOK'
  BY <1>1, <1>3, <1>4 DEF Inv, TypeOK, Hours!HourType
<1>7. Hours!OneEntryPerDay'
  BY <1>1, DaysStay
<1>8. WeeksMove'
  <2>1. \A q \in Requests : pc[q] # "new" <=> pc'[q] # "new"
    BY <1>4 DEF Advances
  <2>2. \A q : Hours!Week(q)' = Hours!Week(q)
    BY SameWeeks
  <2>3. /\ \A h \in hours : pc'[h.by] # "new"
        /\ \A q \in Requests : \A h \in matched[q] : pc'[h.by] # "new" /\ h.place = call[q].place
    BY <2>1, HourRows
  <2>4. Whole(hours) /\ \A q \in Requests : Whole(matched[q]) /\ Whole(deleted[q])
    BY DEF Inv, Timetabled, WeeksMove
  <2>5. Whole(gone)
    <3> SUFFICES ASSUME NEW q \in Requests, call[q].op = "hours"
                 PROVE  {h \in gone : h.by = q} \in {{}, Hours!Week(q)}
      BY DEF Whole
    <3>1. /\ {h \in hours : h.by = q} \in {{}, Hours!Week(q)}
          /\ {h \in matched[r] : h.by = q} \in {{}, Hours!Week(q)}
      BY <2>4 DEF Whole
    <3>2. {h \in gone : h.by = q} = {h \in hours : h.by = q} \cap {h \in matched[r] : h.by = q}
      OBVIOUS
    <3> HIDE DEF gone
    <3> QED BY <3>1, <3>2
  <2>6. \A q \in Requests : Whole(deleted'[q])
    BY <1>5, <2>4, <2>5
  <2>7. Whole(hours)' /\ \A q \in Requests : Whole(matched[q])' /\ Whole(deleted[q])'
    BY <1>1, <2>2, <2>4, <2>6 DEF Whole
  <2>8. \A q \in Requests :
          /\ deleted'[q] \subseteq matched[q]
          /\ pc'[q] = "new" => matched[q] = {}
          /\ deleted'[q] # {} => pc'[q] \in {"insert hours", "commit hours"}
    BY <1>2, <1>4, <1>5, <2>1 DEF Inv, Timetabled, WeeksMove, Advances
  <2>9. \A q \in Requests : \A s \in Requests \ {q} : deleted'[s] \cap deleted'[q] = {}
    <3>1. deleted'[r] \subseteq matched[r]
      BY <1>5
    <3>2. \A q \in Requests : \A s \in Requests \ {q} : deleted[s] \cap deleted[q] = {}
      BY DEF Inv, Timetabled, WeeksMove
    <3> HIDE DEF gone
    <3> QED BY <1>1, <1>5, <3>1, <3>2
  <2> QED BY <1>1, <2>3, <2>7, <2>8, <2>9 DEF WeeksMove
<1>9. KeysApart'
  <2>1. /\ \A q : Hours!Week(q)' = Hours!Week(q)
        /\ \A h, k : Hours!SameKey(h, k)' <=> Hours!SameKey(h, k)
    BY SameWeeks
  <2>2. \A q \in Requests \ {r} : pc'[q] = "commit hours" => pc[q] = "commit hours"
    BY <1>4 DEF Advances
  <2>3. pc'[r] = "commit hours" => Hours!Week(r) = {}
    BY <1>4 DEF stage, Hours!Week
  <2>4. ASSUME NEW s \in Requests, pc'[s] = "commit hours", NEW k \in Hours!Week(s)
        PROVE  /\ \A h \in hours' \ deleted'[s] : ~Hours!SameKey(h, k)
               /\ \A q \in Requests \ {s} :
                    pc'[q] = "commit hours" => \A h \in Hours!Week(q) : ~Hours!SameKey(h, k)
    BY <1>1, <1>5, <2>2, <2>3, <2>4 DEF Inv, Timetabled, KeysApart
  <2> QED BY <2>1, <2>4 DEF KeysApart
<1>10. LoneSaves'
  <2>1. gone = matched[r]  \/ matched[r] # Hours!HoursOf(call[r].place)
    BY DEF Hours!HoursOf
  <2>2. ASSUME NEW s \in Requests
        PROVE  /\ \A q \in Requests \ {s} :
                    /\ pc'[q] \in Hours!TransactionStages /\ pc'[s] \in Hours!TransactionStages
                    /\ call'[q].place = call'[s].place
                    => met'[s]
               /\ ~met'[s] =>
                    /\ pc'[s] = "delete hours" => matched'[s] = Hours!HoursOf(call[s].place)'
                    /\ pc'[s] \in {"insert hours", "commit hours"} =>
                         deleted'[s] = Hours!HoursOf(call[s].place)'
    <3>1. Hours!HoursOf(call[s].place)' = Hours!HoursOf(call[s].place)
      BY <1>1 DEF Hours!HoursOf
    <3>2. \A q \in Requests : pc'[q] \in Hours!TransactionStages => pc[q] \in Hours!TransactionStages
      BY <1>1, <1>4 DEF Advances
    <3>3. \A q \in Requests \ {s} :
            /\ pc'[q] \in Hours!TransactionStages /\ pc'[s] \in Hours!TransactionStages
            /\ call'[q].place = call'[s].place
            => met'[s]
      BY <1>1, <3>2 DEF Inv, Timetabled, LoneSaves
    <3>4. CASE s = r
      <4>1. ~met[r] => matched[r] = Hours!HoursOf(call[r].place)
        BY <1>1 DEF Inv, Timetabled, LoneSaves
      <4> HIDE DEF gone
      <4> QED BY <1>1, <1>2, <1>4, <1>5, <2>1, <3>1, <3>3, <3>4, <4>1
    <3>5. CASE s # r
      <4>1. ~met[s] =>
              /\ pc[s] = "delete hours" => matched[s] = Hours!HoursOf(call[s].place)
              /\ pc[s] \in {"insert hours", "commit hours"} =>
                   deleted[s] = Hours!HoursOf(call[s].place)
        BY DEF Inv, Timetabled, LoneSaves
      <4>2. pc'[s] = pc[s] /\ deleted'[s] = deleted[s] /\ matched' = matched /\ met' = met
        BY <1>1, <1>4, <1>5, <3>5 DEF Advances
      <4> QED BY <3>1, <3>3, <4>1, <4>2
    <3> QED BY <3>4, <3>5
  <2> QED BY <2>2 DEF LoneSaves
<1> QED BY <1>4, <1>6, <1>7, <1>8, <1>9, <1>10 DEF Inv, Timetabled

LEMMA InsertHoursKeeps ==
  ASSUME Inv, NEW r \in Requests, Hours!InsertHours(r),
         UNCHANGED <<call, users, places, sessions, open>>
  PROVE  Inv'
<1>1. /\ pc[r] = "insert hours" /\ call[r].op = "hours" /\ ~Hours!KeyPending(r)
      /\ UNCHANGED <<hours, matched, met>>
  BY DEF Hours!InsertHours, Hours!At
<1>2. CASE Hours!KeyTaken(r)
  <2>1. pc' = [pc EXCEPT ![r] = "error"] /\ deleted' = [deleted EXCEPT ![r] = {}]
    BY <1>2 DEF Hours!InsertHours, Hours!GoTo
  <2>2. /\ deleted' \in [Requests -> SUBSET hours] /\ deleted'[r] = {}
        /\ \A q \in Requests \ {r} : deleted'[q] = deleted[q]
    BY <2>1 DEF Inv, TypeOK, Hours!HourType
  <2> QED BY <1>1, <2>1, <2>2, MoveKeeps DEF HourStages
<1>3. CASE ~Hours!KeyTaken(r)
  <2>1. pc' = [pc EXCEPT ![r] = "commit hours"] /\ deleted' = deleted
    BY <1>3 DEF Hours!InsertHours, Hours!GoTo
  <2>2. /\ Advances(r) /\ pc'[r] = "commit hours" /\ Sent' /\ Accounted' /\ DOMAIN call' = Requests
        /\ pc' \in [Requests -> Stages] /\ Accounts!AccountType' /\ open' \subseteq places'
    BY <1>1, <2>1, SaveAdvances
  <2>3. TypeOK'
    BY <1>1, <2>1, <2>2 DEF Inv, TypeOK, Hours!HourType
  <2>4. Hours!OneEntryPerDay'
    BY <1>1, DaysStay
  <2>5. WeeksMove'
    <3>1. \A q \in Requests : pc[q] # "new" <=> pc'[q] # "new"
      BY <2>2 DEF Advances
    <3>2. \A q : Hours!Week(q)' = Hours!Week(q)
      BY SameWeeks
    <3>3. /\ \A h \in hours : pc'[h.by] # "new"
          /\ \A q \in Requests : \A h \in matched[q] : pc'[h.by] # "new" /\ h.place = call[q].place
      BY <3>1, HourRows
    <3>4. Whole(hours)' /\ \A q \in Requests : Whole(matched[q])' /\ Whole(deleted[q])'
      BY <1>1, <2>1, <3>2 DEF Inv, Timetabled, WeeksMove, Whole
    <3>5. \A q \in Requests :
            /\ pc'[q] = "new" => matched[q] = {}
            /\ deleted[q] # {} => pc'[q] \in {"insert hours", "commit hours"}
      BY <2>2, <3>1 DEF Inv, Timetabled, WeeksMove, Advances
    <3>6. \A q \in Requests :
            /\ deleted[q] \subseteq matched[q]
            /\ \A s \in Requests \ {q} : deleted[s] \cap deleted[q] = {}
      BY DEF Inv, Timetabled, WeeksMove
    <3> QED BY <1>1, <2>1, <3>3, <3>4, <3>5, <3>6 DEF WeeksMove
  <2>6. KeysApart'
    <3>1. /\ \A q : Hours!Week(q)' = Hours!Week(q)
          /\ \A h, k : Hours!SameKey(h, k)' <=> Hours!SameKey(h, k)
      BY SameWeeks
    <3>2. \A h, k : Hours!SameKey(h, k) <=> Hours!SameKey(k, h)
      BY DEF Hours!SameKey
    <3>3. \A k \in Hours!Week(r) : \A h \in hours \ deleted[r] : ~Hours!SameKey(h, k)
      BY <1>3 DEF Hours!KeyTaken
    <3>4. \A q \in Requests \ {r} : pc[q] = "commit hours" =>
            \A h \in Hours!Week(q), k \in Hours!Week(r) : ~Hours!SameKey(h, k)
      BY <1>1 DEF Hours!KeyPending, Hours!Pending, Hours!At, Inv, Sent, HourStages
    <3>5. \A q \in Requests \ {r} : pc'[q] = pc[q]
      BY <2>2 DEF Advances
    <3>6. ASSUME NEW s \in Requests, pc'[s] = "commit hours", NEW k \in Hours!Week(s)
          PROVE  /\ \A h \in hours' \ deleted'[s] : ~Hours!SameKey(h, k)
                 /\ \A q \in Requests \ {s} :
                      pc'[q] = "commit hours" => \A h \in Hours!Week(q) : ~Hours!SameKey(h, k)
      <4>1. CASE s = r
        BY <1>1, <2>1, <3>3, <3>4, <3>5, <3>6, <4>1
      <4>2. CASE s # r
        <5>1. /\ \A h \in hours \ deleted[s] : ~Hours!SameKey(h, k)
              /\ \A q \in Requests \ {s} :
                   pc[q] = "commit hours" => \A h \in Hours!Week(q) : ~Hours!SameKey(h, k)
          BY <3>5, <3>6, <4>2 DEF Inv, Timetabled, KeysApart
        <5>2. \A h \in Hours!Week(r) : ~Hours!SameKey(h, k)
          BY <3>2, <3>4, <3>5, <3>6, <4>2
        <5> QED BY <1>1, <2>1, <3>5, <5>1, <5>2
      <4> QED BY <4>1, <4>2
    <3> QED BY <3>1, <3>6 DEF KeysApart
  <2>7. LoneSaves'
    <3>1. \A q \in Requests : pc'[q] \in Hours!TransactionStages => pc[q] \in Hours!TransactionStages
      BY <1>1, <2>2 DEF Advances
    <3>2. \A p : Hours!HoursOf(p)' = Hours!HoursOf(p)
      BY <1>1 DEF Hours!HoursOf
    <3>3. \A q \in Requests :
            /\ pc'[q] = "delete hours" => pc[q] = "delete hours"
            /\ pc'[q] \in {"insert hours", "commit hours"} => pc[q] \in {"insert hours", "commit hours"}
      BY <1>1, <2>2 DEF Advances
    <3> QED BY <1>1, <2>1, <3>1, <3>2, <3>3 DEF Inv, Timetabled, LoneSaves
  <2> QED BY <2>2, <2>3, <2>4, <2>5, <2>6, <2>7 DEF Inv, Timetabled
<1> QED BY <1>2, <1>3

LEMMA CommitHoursKeeps ==
  ASSUME Inv, NEW r \in Requests, Hours!CommitHours(r),
         UNCHANGED <<call, users, places, sessions, open>>
  PROVE  Inv'
<1>1. /\ pc[r] = "commit hours" /\ call[r].op = "hours"
      /\ hours' = (hours \ deleted[r]) \cup Hours!Week(r)
      /\ deleted' = [deleted EXCEPT ![r] = {}]
      /\ UNCHANGED <<matched, met>>
  BY DEF Hours!CommitHours, Hours!At
<1>2. PICK stage \in {"read hours", "error"} : pc' = [pc EXCEPT ![r] = stage]
  BY DEF Hours!CommitHours, Hours!GoTo
<1>3. /\ Advances(r) /\ pc'[r] = stage /\ Sent' /\ Accounted' /\ DOMAIN call' = Requests
      /\ pc' \in [Requests -> Stages] /\ Accounts!AccountType' /\ open' \subseteq places'
  BY <1>1, <1>2, SaveAdvances
<1>4. \A q \in Requests \ {r} : deleted'[q] = deleted[q] /\ pc'[q] = pc[q]
  BY <1>1, <1>3 DEF Inv, TypeOK, Hours!HourType, Advances
<1>5. deleted'[r] = {} /\ pc'[r] \in {"read hours", "error"}
  BY <1>1, <1>3 DEF Inv, TypeOK, Hours!HourType
<1>6. call[r].place \in Requests /\ call[r].days \subseteq Days
  BY <1>1 DEF Inv, Sent
<1>7. /\ Hours!Week(r) \subseteq Hours!Hour
      /\ \A k \in Hours!Week(r) : k.by = r /\ k.place = call[r].place
  <2> SUFFICES ASSUME NEW k \in Hours!Week(r)
               PROVE  k \in Hours!Hour /\ k.by = r /\ k.place = call[r].place
    OBVIOUS
  <2>1. PICK d \in call[r].days : k = [place |-> call[r].place, day |-> d, by |-> r]
    BY DEF Hours!Week
  <2> QED BY <1>6, <2>1 DEF Hours!Hour
<1>8. /\ \A q : Hours!Week(q)' = Hours!Week(q)
      /\ \A h, k : Hours!SameKey(h, k)' <=> Hours!SameKey(h, k)
  BY SameWeeks
<1>9. \A q \in Requests : \A s \in Requests \ {q} : deleted[s] \cap deleted[q] = {}
  BY DEF Inv, Timetabled, WeeksMove
<1>10. \A k \in Hours!Week(r) : \A h \in hours \ deleted[r] : ~Hours!SameKey(h, k)
  BY <1>1 DEF Inv, Timetabled, KeysApart
<1>11. \A h, k : Hours!SameKey(h, k) <=> Hours!SameKey(k, h)
  BY DEF Hours!SameKey
<1>12. TypeOK'
  <2>1. hours' \subseteq Hours!Hour
    BY <1>1, <1>7, HourRows
  <2>2. \A q \in Requests : deleted'[q] \subseteq hours'
    BY <1>1, <1>4, <1>5, <1>9 DEF Inv, TypeOK, Hours!HourType
  <2>3. deleted' \in [Requests -> SUBSET hours']
    BY <1>1, <2>2 DEF Inv, TypeOK, Hours!HourType
  <2> QED BY <1>1, <1>3, <2>1, <2>3 DEF Inv, TypeOK, Hours!HourType
<1>13. Hours!OneEntryPerDay'
  <2> SUFFICES ASSUME NEW h \in hours', NEW k \in hours', Hours!SameKey(h, k) PROVE h = k
    BY <1>8 DEF Hours!OneEntryPerDay
  <2>1. CASE h \in Hours!Week(r) /\ k \in Hours!Week(r)
    <3>1. PICK d \in call[r].days : h = [place |-> call[r].place, day |-> d, by |-> r]
      BY <2>1 DEF Hours!Week
    <3>2. PICK e \in call[r].days : k = [place |-> call[r].place, day |-> e, by |-> r]
      BY <2>1 DEF Hours!Week
    <3>3. h.day = k.day
      BY DEF Hours!SameKey
    <3> QED BY <3>1, <3>2, <3>3
  <2>2. CASE h \notin Hours!Week(r) /\ k \notin Hours!Week(r)
    BY <1>1, <2>2 DEF Inv, Timetabled, Hours!OneEntryPerDay
  <2>3. CASE h \in Hours!Week(r) /\ k \notin Hours!Week(r)
    BY <1>1, <1>10, <1>11, <2>3
  <2>4. CASE h \notin Hours!Week(r) /\ k \in Hours!Week(r)
    BY <1>1, <1>10, <2>4
  <2> QED BY <2>1, <2>2, <2>3, <2>4
<1>14. WeeksMove'
  <2>1. \A q \in Requests : pc[q] # "new" <=> pc'[q] # "new"
    BY <1>3 DEF Advances
  <2>2. /\ \A h \in hours' : pc'[h.by] # "new"
        /\ \A q \in Requests : \A h \in matched[q] : pc'[h.by] # "new" /\ h.place = call[q].place
    BY <1>1, <1>5, <1>7, <2>1, HourRows
  <2>3. Whole(hours) /\ \A q \in Requests : Whole(matched[q]) /\ Whole(deleted[q])
    BY DEF Inv, Timetabled, WeeksMove
  <2>4. Whole(hours')
    <3> SUFFICES ASSUME NEW q \in Requests, call[q].op = "hours"
                 PROVE  {h \in hours' : h.by = q} \in {{}, Hours!Week(q)}
      BY DEF Whole
    <3>1. /\ {h \in hours : h.by = q} \in {{}, Hours!Week(q)}
          /\ {h \in deleted[r] : h.by = q} \in {{}, Hours!Week(q)}
      BY <2>3 DEF Whole
    <3>2. CASE q = r
      <4>1. {h \in hours' : h.by = r} = {h \in hours \ deleted[r] : h.by = r} \cup Hours!Week(r)
        BY <1>1, <1>7
      <4>2. {h \in hours \ deleted[r] : h.by = r} \subseteq Hours!Week(r)
        BY <3>1, <3>2
      <4> QED BY <3>2, <4>1, <4>2
    <3>3. CASE q # r
      <4>1. {h \in hours' : h.by = q} = {h \in hours : h.by = q} \ {h \in deleted[r] : h.by = q}
        BY <1>1, <1>7, <3>3
      <4> QED BY <3>1, <4>1
    <3> QED BY <3>2, <3>3
  <2>5. \A q \in Requests : Whole(deleted'[q])
    <3>1. Whole({})
      BY DEF Whole
    <3> QED BY <1>4, <1>5, <2>3, <3>1
  <2>6. Whole(hours)' /\ \A q \in Requests : Whole(matched[q])' /\ Whole(deleted[q])'
    BY <1>1, <1>8, <2>3, <2>4, <2>5 DEF Whole
  <2>7. \A q \in Requests :
          /\ deleted'[q] \subseteq matched[q]
          /\ pc'[q] = "new" => matched[q] = {}
          /\ deleted'[q] # {} => pc'[q] \in {"insert hours", "commit hours"}
    BY <1>4, <1>5, <2>1 DEF Inv, Timetabled, WeeksMove
  <2>8. \A q \in Requests : \A s \in Requests \ {q} : deleted'[s] \cap deleted'[q] = {}
    BY <1>4, <1>5, <1>9
  <2> QED BY <1>1, <2>2, <2>6, <2>7, <2>8 DEF WeeksMove
<1>15. KeysApart'
  <2>1. ASSUME NEW s \in Requests, pc'[s] = "commit hours", NEW k \in Hours!Week(s)
        PROVE  /\ \A h \in hours' \ deleted'[s] : ~Hours!SameKey(h, k)
               /\ \A q \in Requests \ {s} :
                    pc'[q] = "commit hours" => \A h \in Hours!Week(q) : ~Hours!SameKey(h, k)
    <3>1. s # r /\ pc[s] = "commit hours" /\ deleted'[s] = deleted[s]
      BY <1>4, <1>5, <2>1
    <3>2. /\ \A h \in hours \ deleted[s] : ~Hours!SameKey(h, k)
          /\ \A q \in Requests \ {s} :
               pc[q] = "commit hours" => \A h \in Hours!Week(q) : ~Hours!SameKey(h, k)
      BY <3>1, <2>1 DEF Inv, Timetabled, KeysApart
    <3>3. \A h \in Hours!Week(r) : ~Hours!SameKey(h, k)
      BY <1>1, <3>1, <3>2
    <3> QED BY <1>1, <1>4, <1>5, <3>1, <3>2, <3>3
  <2> QED BY <1>8, <2>1 DEF KeysApart
<1>16. LoneSaves'
  <2>1. ASSUME NEW s \in Requests
        PROVE  /\ \A q \in Requests \ {s} :
                    /\ pc'[q] \in Hours!TransactionStages /\ pc'[s] \in Hours!TransactionStages
                    /\ call'[q].place = call'[s].place
                    => met'[s]
               /\ ~met'[s] =>
                    /\ pc'[s] = "delete hours" => matched'[s] = Hours!HoursOf(call[s].place)'
                    /\ pc'[s] \in {"insert hours", "commit hours"} =>
                         deleted'[s] = Hours!HoursOf(call[s].place)'
    <3>1. \A q \in Requests : pc'[q] \in Hours!TransactionStages => pc[q] \in Hours!TransactionStages
      BY <1>4, <1>5
    <3>2. \A q \in Requests \ {s} :
            /\ pc'[q] \in Hours!TransactionStages /\ pc'[s] \in Hours!TransactionStages
            /\ call'[q].place = call'[s].place
            => met'[s]
      BY <1>1, <3>1 DEF Inv, Timetabled, LoneSaves
    <3>3. CASE s = r
      BY <1>5, <3>2, <3>3
    <3>4. CASE s # r
      <4>1. ~met[s] =>
              /\ pc[s] = "delete hours" => matched[s] = Hours!HoursOf(call[s].place)
              /\ pc[s] \in {"insert hours", "commit hours"} =>
                   deleted[s] = Hours!HoursOf(call[s].place)
        BY DEF Inv, Timetabled, LoneSaves
      <4>2. ~met[s] /\ pc[s] \in Hours!TransactionStages => call[s].place # call[r].place
        BY <1>1, <3>4 DEF Inv, Timetabled, LoneSaves
      <4>3. \A h \in deleted[r] : h.place = call[r].place
        <5>1. deleted[r] \subseteq matched[r]
          BY DEF Inv, Timetabled, WeeksMove
        <5> QED BY <5>1, HourRows
      <4>4. call[s].place # call[r].place =>
              Hours!HoursOf(call[s].place)' = Hours!HoursOf(call[s].place)
        BY <1>1, <1>7, <4>3 DEF Hours!HoursOf
      <4> QED BY <1>1, <1>4, <3>2, <3>4, <4>1, <4>2, <4>4
    <3> QED BY <3>3, <3>4
  <2> QED BY <2>1 DEF LoneSaves
<1> QED BY <1>3, <1>12, <1>13, <1>14, <1>15, <1>16 DEF Inv, Timetabled

LEMMA HourKeeps ==
  ASSUME Inv, NEW r \in Requests, Hours!HourStep(r),
         UNCHANGED <<call, users, places, sessions, open>>
  PROVE  Inv'
<1>1. CASE Hours!FindPlace(r) \/ Hours!ReadHours(r)
  <2>1. \E stage \in {"begin hours", "error", "ok"} : pc' = [pc EXCEPT ![r] = stage]
    BY <1>1 DEF Hours!FindPlace, Hours!ReadHours, Hours!GoTo
  <2>2. PICK stage \in {"begin hours", "error", "ok"} : pc' = [pc EXCEPT ![r] = stage]
    BY <2>1
  <2>3. pc[r] \in {"start", "read hours"} /\ call[r].op = "hours"
    BY <1>1 DEF Hours!FindPlace, Hours!ReadHours, Hours!At
  <2>4. deleted[r] = {} /\ deleted \in [Requests -> SUBSET hours]
    BY <2>3, NothingDeleted DEF Inv, TypeOK, Hours!HourType
  <2>5. UNCHANGED <<hours, matched, deleted, met>>
    BY <1>1 DEF Hours!FindPlace, Hours!ReadHours, Hours!hourRows
  <2> QED BY <2>2, <2>3, <2>4, <2>5, MoveKeeps
<1> QED BY <1>1, BeginHoursKeeps, MatchHoursKeeps, DeleteHoursKeeps, InsertHoursKeeps,
           CommitHoursKeeps DEF Hours!HourStep

LEMMA AbortKeeps ==
  ASSUME Inv, NEW r \in Requests, pc[r] # "new", Abort(r) PROVE Inv'
<1>1. /\ deleted' \in [Requests -> SUBSET hours] /\ deleted'[r] = {}
      /\ \A q \in Requests \ {r} : deleted'[q] = deleted[q]
  BY DEF Abort, Inv, TypeOK, Hours!HourType
<1> QED BY <1>1, MoveKeeps DEF Abort, HourStages

LEMMA AllStays ==
  ASSUME Inv, UNCHANGED <<call, pc, users, places, hours, matched, deleted, met>>
  PROVE  DOMAIN call' = Requests /\ Sent' /\ Accounted' /\ Timetabled'
<1>1. Sent'
  BY DEF Inv, Sent
<1>2. Accounts!OneAccountPerEmail' /\ Accounts!OnboardedTogether'
  BY DEF Inv, Accounted, Accounts!OneAccountPerEmail, Accounts!OnboardedTogether
<1>3. EmailsApart'
  BY DEF Inv, Accounted, EmailsApart, Accounts!HasInserted
<1>4. Hours!OneEntryPerDay'
  BY DaysStay
<1>5. WeeksMove'
  <2>1. \A q : Hours!Week(q)' = Hours!Week(q)
    BY SameWeeks
  <2>2. Whole(hours)' /\ \A q \in Requests : Whole(matched[q])' /\ Whole(deleted[q])'
    BY <2>1 DEF Inv, Timetabled, WeeksMove, Whole
  <2>3. \A h \in hours : pc'[h.by] # "new"
    BY DEF Inv, Timetabled, WeeksMove
  <2>4. \A q \in Requests :
          /\ \A h \in matched'[q] : pc'[h.by] # "new" /\ h.place = call'[q].place
          /\ pc'[q] = "new" => matched'[q] = {}
          /\ deleted'[q] \subseteq matched'[q]
          /\ deleted'[q] # {} => pc'[q] \in {"insert hours", "commit hours"}
          /\ \A s \in Requests \ {q} : deleted'[s] \cap deleted'[q] = {}
    BY DEF Inv, Timetabled, WeeksMove
  <2> QED BY <2>2, <2>3, <2>4 DEF WeeksMove
<1>6. KeysApart'
  BY KeysStay
<1>7. LoneSaves'
  BY DEF Inv, Timetabled, LoneSaves, Hours!HoursOf
<1> QED BY <1>1, <1>2, <1>3, <1>4, <1>5, <1>6, <1>7 DEF Inv, Accounted, Timetabled

LEMMA ClosePlaceKeeps ==
  ASSUME Inv, NEW p, ClosePlace(p) PROVE Inv'
<1>1. UNCHANGED <<call, pc, users, places, sessions, hours, matched, deleted, met>>
  BY DEF ClosePlace
<1>2. TypeOK'
  BY <1>1 DEF ClosePlace, Inv, TypeOK, Accounts!AccountType, Hours!HourType
<1> QED BY <1>1, <1>2, AllStays DEF Inv

LEMMA StutterKeeps ==
  ASSUME Inv, UNCHANGED vars PROVE Inv'
<1>1. TypeOK'
  BY DEF vars, Inv, TypeOK, Accounts!AccountType, Hours!HourType
<1> QED BY <1>1, AllStays DEF Inv, vars

-----------------------------------------------------------------------------
LEMMA Initially == Init => Inv
<1> SUFFICES ASSUME Init PROVE Inv
  OBVIOUS
<1>1. Earlier \in Requests /\ EarlierEmail \in Emails
  BY OwnerServicesType
<1>2. /\ DOMAIN call = Requests
      /\ call[Earlier] = [op |-> "onboard", email |-> EarlierEmail]
      /\ \A q \in Requests \ {Earlier} : call[q] = [op |-> "none"]
      /\ pc \in [Requests -> {"ok", "new"}]
      /\ pc[Earlier] = "ok" /\ \A q \in Requests \ {Earlier} : pc[q] = "new"
  BY <1>1 DEF Init, EarlierCall
<1>3. users = {Earlier} /\ places = {Earlier} /\ open = {Earlier} /\ sessions = {Earlier}
  BY DEF Init
<1>4. /\ hours = {[place |-> Earlier, day |-> d, by |-> Earlier] : d \in Days}
      /\ matched = [r \in Requests |-> {}] /\ deleted = [r \in Requests |-> {}]
      /\ met = [r \in Requests |-> FALSE]
  BY <1>3 DEF Init, Hours!HourInit
<1>5. \A q \in Requests : call[q].op \in {"onboard", "none"}
  BY <1>1, <1>2
<1>6. TypeOK
  <2>1. hours \subseteq Hours!Hour
    <3>1. ASSUME NEW d \in Days
          PROVE  [place |-> Earlier, day |-> d, by |-> Earlier] \in Hours!Hour
      BY <1>1 DEF Hours!Hour
    <3> QED BY <1>4, <3>1
  <2>2. /\ matched \in [Requests -> SUBSET Hours!Hour] /\ deleted \in [Requests -> SUBSET hours]
        /\ met \in [Requests -> BOOLEAN]
    BY <1>4
  <2>3. pc \in [Requests -> Stages] /\ open \subseteq places /\ Accounts!AccountType
    BY <1>1, <1>2, <1>3 DEF Accounts!AccountType
  <2> QED BY <2>1, <2>2, <2>3 DEF TypeOK, Hours!HourType
<1>7. Sent
  <2>1. ASSUME NEW q \in Requests
        PROVE  /\ pc[q] = "new" => call[q].op = "none"
               /\ pc[q] \notin HourStages /\ call[q].op # "hours"
    <3>1. CASE q = Earlier
      BY <1>2, <3>1 DEF HourStages
    <3>2. CASE q # Earlier
      <4>1. call[q] = [op |-> "none"] /\ pc[q] = "new"
        BY <1>2, <3>2
      <4>2. call[q].op = "none"
        BY <4>1
      <4> QED BY <4>1, <4>2 DEF HourStages
    <3> QED BY <3>1, <3>2
  <2> QED BY <1>2, <1>3, <2>1 DEF Sent
<1>8. Accounted
  BY <1>1, <1>2, <1>3 DEF Accounted, Accounts!OneAccountPerEmail, Accounts!OnboardedTogether,
     EmailsApart, Accounts!HasInserted
<1>9. Hours!OneEntryPerDay
  BY <1>4 DEF Hours!OneEntryPerDay, Hours!SameKey
<1>10. WeeksMove
  <2>1. \A h \in hours : pc[h.by] # "new"
    BY <1>2, <1>4
  <2>2. Whole(hours) /\ Whole({})
    BY <1>5 DEF Whole
  <2> QED BY <1>4, <2>1, <2>2 DEF WeeksMove
<1>11. KeysApart /\ LoneSaves
  BY <1>2 DEF KeysApart, LoneSaves
<1> QED BY <1>2, <1>6, <1>7, <1>8, <1>9, <1>10, <1>11 DEF Inv, Timetabled

LEMMA NextKeeps == Inv /\ [Next]_vars => Inv'
<1> SUFFICES ASSUME Inv, [Next]_vars PROVE Inv'
  OBVIOUS
<1>1. ASSUME NEW r \in Requests, Begin(r) PROVE Inv'
  BY <1>1, BeginKeeps
<1>2. ASSUME NEW r \in Requests, Step(r) PROVE Inv'
  BY <1>2, AccountKeeps, HourKeeps DEF Step
<1>3. ASSUME NEW r \in Requests, AcquireTimeout(r) PROVE Inv'
  BY <1>3, AbortKeeps DEF AcquireTimeout
<1>4. ASSUME NEW r \in Requests, Fail(r) PROVE Inv'
  BY <1>4, AbortKeeps DEF Fail
<1>5. ASSUME NEW p \in Requests, ClosePlace(p) PROVE Inv'
  BY <1>5, ClosePlaceKeeps
<1>6. CASE UNCHANGED vars
  BY <1>6, StutterKeeps
<1> QED BY <1>1, <1>2, <1>3, <1>4, <1>5, <1>6 DEF Next, Progress, AllAnswered

LEMMA Invariance == Spec => []Inv
  BY Initially, NextKeeps, PTL DEF Spec

\* Two sign-ups that both find an e-mail free make one account, and an
\* onboarded business is there with its place or not at all, whatever fails or
\* times out between the two inserts.
THEOREM AccountsStayWhole == Spec => []AccountsAreWhole
<1>1. Inv => AccountsAreWhole
  BY DEF Inv, Accounted, AccountsAreWhole
<1> QED BY <1>1, Invariance, PTL

\* However many saves of a week overlap, fail or wait for each other, no day is
\* listed twice and a save is in force with all of its days or with none.
THEOREM WeeksStayWhole == Spec => []WeeksAreWhole
<1>1. Inv => WeeksAreWhole
  BY DEF Inv, Timetabled, WeeksMove, Whole, WeeksAreWhole, Hours!SavedWeeksStayWhole
<1> QED BY <1>1, Invariance, PTL

\* A save of a week that met no other one leaves exactly the week it sent.
THEOREM LoneSavesDecide == Spec => LoneSaveDecidesWeek
<1>1. ASSUME Inv, [Next]_vars, NEW r \in Requests, pc[r] = "commit hours", hours' # hours,
             deleted[r] # deleted'[r], ~met[r]
      PROVE  Hours!HoursOf(call[r].place)' = Hours!Week(r)
  <2>1. PICK q \in Requests : Hours!HourStep(q) /\ call' = call
    BY <1>1 DEF Next, Begin, Progress, Step, AcquireTimeout, Fail, Abort, ClosePlace, AllAnswered,
       vars
  <2>2. Hours!CommitHours(q)
    BY <1>1, <2>1 DEF Hours!HourStep, Hours!FindPlace, Hours!BeginHours, Hours!MatchHours,
       Hours!DeleteHours, Hours!InsertHours, Hours!ReadHours, Hours!hourRows
  <2>3. deleted' = [deleted EXCEPT ![q] = {}]
    BY <2>2 DEF Hours!CommitHours
  <2>4. q = r
    <3>1. DOMAIN deleted = Requests
      BY <1>1 DEF Inv, TypeOK, Hours!HourType
    <3> QED BY <1>1, <2>3, <3>1
  <2>5. hours' = (hours \ Hours!HoursOf(call[r].place)) \cup Hours!Week(r)
    BY <1>1, <2>2, <2>4 DEF Hours!CommitHours, Inv, Timetabled, LoneSaves
  <2> QED BY <2>1, <2>5 DEF Hours!HoursOf, Hours!Week
<1>2. Inv /\ [Next]_vars =>
        \A r \in Requests :
          pc[r] = "commit hours" /\ hours' # hours /\ deleted[r] # deleted'[r] /\ ~met[r]
            => Hours!HoursOf(call[r].place)' = Hours!Week(r)
  BY <1>1
<1> QED BY <1>2, Invariance, PTL DEF Spec, LoneSaveDecidesWeek, Hours!LoneSaveDecidesWeek
=============================================================================
