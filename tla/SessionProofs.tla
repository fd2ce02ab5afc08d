--------------------------- MODULE SessionProofs ---------------------------
(***************************************************************************)
(* Proofs about sessions: the requests of the server that issue, renew and *)
(* end them (SessionService), and the tabs of the browser that keep and    *)
(* present them (AuthContext), for any number of users, requests, tabs and *)
(* sessions.  The two components share no variable.                        *)
(***************************************************************************)
EXTENDS SessionService, AuthContext, SequenceTheorems, TLAPS

-----------------------------------------------------------------------------
(* The server: types, and what holds of every interleaving of sign-ins,      *)
(* renewals, revocations and password changes.                               *)

Inv == TypeOK /\ SessionDiscipline

\* What a request can be sent with.
LEMMA CallsAreCalls ==
  ASSUME Inv, NEW c \in Calls
  PROVE  /\ c \in Call
         /\ c.op = "renew" => c.given \in issued /\ UserOf(c.given) = c.user
         /\ c.op = "confirm" => c.given \in codes
<1>1. \A t \in Tokens : t \in Requests /\ t \in issued /\ UserOf(t) \in Users
  BY DEF Inv, TypeOK, SessionDiscipline, RowsFromCalls, Tokens, Call, UserOf, Ended
<1>2. \A t \in Codes : t \in Requests /\ t \in codes
  BY DEF Inv, TypeOK, Codes
<1> QED BY <1>1, <1>2 DEF Calls, Call

\* What the first statement of a request leaves alone, and what it records.
LEMMA SentFacts ==
  ASSUME Inv, NEW r \in Requests, NEW c \in Calls, Sent(r, c)
  PROVE  /\ call' \in [Requests -> Call \cup {NoCall}] /\ call'[r] = c
         /\ \A q \in Requests : q # r => call'[q] = call[q] /\ past'[q] = past[q]
         /\ past' \in [Requests -> [begun : SUBSET Requests, issued : SUBSET issued]]
         /\ past'[r].issued = issued
         /\ r \notin issued /\ r \notin codes /\ swept[r] = {}
<1>1. c \in Call
  BY CallsAreCalls
<1>2. [begun |-> {q \in Requests : pc[q] # "new"}, issued |-> issued]
        \in [begun : SUBSET Requests, issued : SUBSET issued]
  OBVIOUS
<1> QED
  BY <1>1, <1>2 DEF Sent, Inv, TypeOK, SessionDiscipline, RowsFromCalls, Ended

\* A first statement that writes no session and leaves r at a stage st.
LEMMA SentKeeps ==
  ASSUME Inv, NEW r \in Requests, NEW c \in Calls, Sent(r, c), NEW st \in Stages \ {"new"},
         GoTo(r, st),
         UNCHANGED <<issued, revoked, used, password, expired, swept>>,
         codes' = codes \/ (codes' = codes \cup {r} /\ c.op = "forgot" /\ st \in Ended),
         st \in {"error", "issue", "rotate", "revoke", "store", "ok"},
         st = "issue" => c.op = "login",
         st = "rotate" => c.op = "renew",
         st = "revoke" => c.op \in {"signOut", "revoke"} /\ OfUser(c.given, c.user),
         st = "store" => c.op \in Changes,
         st = "ok" => c.op \in {"signOut", "forgot"}
  PROVE  Inv'
<1>1. /\ pc' \in [Requests -> Stages] /\ pc'[r] = st
      /\ \A q \in Requests : q # r => pc'[q] = pc[q]
  BY DEF GoTo, Inv, TypeOK
<1>2. /\ call' \in [Requests -> Call \cup {NoCall}] /\ call'[r] = c
      /\ \A q \in Requests : q # r => call'[q] = call[q] /\ past'[q] = past[q]
      /\ past' \in [Requests -> [begun : SUBSET Requests, issued : SUBSET issued]]
      /\ past'[r].issued = issued
      /\ r \notin issued /\ r \notin codes /\ swept[r] = {}
  BY SentFacts
<1>3. /\ c \in Call
      /\ c.op = "renew" => c.given \in issued /\ UserOf(c.given) = c.user
      /\ c.op = "confirm" => c.given \in codes
  BY CallsAreCalls
<1>4. /\ codes \subseteq codes' /\ codes' \subseteq Requests
      /\ r \in codes' => c.op = "forgot" /\ st \in Ended
  BY <1>2 DEF Inv, TypeOK
<1>5. \A s \in issued : s # r /\ UserOf(s)' = UserOf(s) /\ call'[s] = call[s]
  BY <1>2 DEF UserOf, Inv, TypeOK
<1>5a. \A s \in codes : s # r /\ call'[s] = call[s]
  BY <1>2 DEF Inv, TypeOK
<1>6. TypeOK'
  BY <1>1, <1>2, <1>4 DEF Inv, TypeOK
<1>7. RowsFromCalls'
  <2>1. \A q \in Requests : IF pc'[q] = "new" THEN swept'[q] = {} ELSE call'[q] \in Call
    BY <1>1, <1>2, <1>3 DEF Inv, SessionDiscipline, RowsFromCalls
  <2>2. \A s \in issued' : pc'[s] \in Ended /\ call'[s].op \in {"login", "renew"}
    BY <1>1, <1>5 DEF Inv, TypeOK, SessionDiscipline, RowsFromCalls
  <2>3. \A s \in codes' : pc'[s] \in Ended /\ call'[s].op = "forgot"
    BY <1>1, <1>2, <1>4, <1>5a DEF Inv, TypeOK, SessionDiscipline, RowsFromCalls
  <2> QED BY <2>1, <2>2, <2>3 DEF RowsFromCalls
<1>8. CallsOnTrack'
  <2> SUFFICES ASSUME NEW q \in Requests
               PROVE  CallsOnTrack!(q)'
    BY DEF CallsOnTrack
  <2>1. CASE q = r
    BY <2>1, <1>1, <1>2, <1>3, <1>4, <1>5 DEF OfUser, Changes
  <2>2. CASE q # r
    <3>1. pc'[q] = pc[q] /\ call'[q] = call[q]
      BY <2>2, <1>1, <1>2
    <3>2. CallsOnTrack!(q)
      BY DEF Inv, SessionDiscipline, CallsOnTrack
    <3> QED BY <3>1, <3>2, <1>4, <1>5 DEF Changes
  <2> QED BY <2>1, <2>2
<1>9. SweepsCover'
  <2> SUFFICES ASSUME NEW q \in Requests
               PROVE  SweepsCover!(q)'
    BY DEF SweepsCover
  <2>1. CASE q = r
    BY <2>1, <1>1, <1>2 DEF Changes
  <2>2. CASE q # r
    <3>1. pc'[q] = pc[q] /\ call'[q] = call[q] /\ past'[q] = past[q] /\ swept'[q] = swept[q]
      BY <2>2, <1>1, <1>2
    <3>2. SweepsCover!(q) /\ swept[q] \subseteq issued /\ past[q].issued \subseteq issued
      BY DEF Inv, TypeOK, SessionDiscipline, SweepsCover
    <3> QED BY <3>1, <3>2, <1>5 DEF Changes
  <2> QED BY <2>1, <2>2
<1>10. SuccessorRetiresToken'
  BY <1>5 DEF Inv, SessionDiscipline, SuccessorRetiresToken
<1> QED BY <1>6, <1>7, <1>8, <1>9, <1>10 DEF Inv, SessionDiscipline

\* Every other step of a request that has been sent.
LEMMA LaterKeeps ==
  ASSUME Inv, NEW r \in Requests,
         \/ Rotate(r) \/ Issue(r) \/ Revoke(r) \/ StorePassword(r) \/ SpendCode(r)
         \/ List(r) \/ Finish(r) \/ Fail(r)
         \/ \E s \in Requests : Sweep(r, s) \/ SweepFails(r, s)
  PROVE  Inv'
<1> USE DEF Inv
<1>1. /\ TypeOK /\ RowsFromCalls /\ CallsOnTrack /\ SweepsCover /\ SuccessorRetiresToken
  BY DEF SessionDiscipline
<1>2. call' = call /\ past' = past
  BY DEF Rotate, Issue, Revoke, StorePassword, SpendCode, List, Finish, Fail,
         Sweep, SweepFails
<1>3. CASE Rotate(r)
  <2>1. TypeOK'
    BY <1>1, <1>3 DEF Rotate, GoTo, TypeOK, Stages, Ended, CallsOnTrack, tables, Call, Others, Active, Spent
  <2>2. RowsFromCalls'
    BY <1>1, <1>3 DEF Rotate, GoTo, TypeOK, RowsFromCalls, CallsOnTrack, Ended, tables
  <2>3. CallsOnTrack'
    BY <1>1, <1>3 DEF Rotate, GoTo, TypeOK, CallsOnTrack, Changes, Ended, tables, UserOf, Spent
  <2>4. SweepsCover'
    BY <1>1, <1>3 DEF Rotate, GoTo, TypeOK, CallsOnTrack, SweepsCover, Changes, Ended, tables, UserOf, Others, Active
  <2>5. SuccessorRetiresToken'
    BY <1>1, <1>3 DEF Rotate, GoTo, TypeOK, CallsOnTrack, SuccessorRetiresToken, tables
  <2> QED BY <2>1, <2>2, <2>3, <2>4, <2>5 DEF SessionDiscipline
<1>4. CASE Issue(r)
  <2>1. TypeOK'
    BY <1>1, <1>4 DEF Issue, GoTo, TypeOK, Stages, Ended, CallsOnTrack, tables, Call, Others, Active, Spent
  <2>2. RowsFromCalls'
    BY <1>1, <1>4 DEF Issue, GoTo, TypeOK, RowsFromCalls, CallsOnTrack, Ended, tables
  <2>3. CallsOnTrack'
    BY <1>1, <1>4 DEF Issue, GoTo, TypeOK, CallsOnTrack, Changes, Ended, tables, UserOf, Spent
  <2>4. SweepsCover'
    BY <1>1, <1>4 DEF Issue, GoTo, TypeOK, CallsOnTrack, SweepsCover, Changes, Ended, tables, UserOf, Others, Active
  <2>5. SuccessorRetiresToken'
    BY <1>1, <1>4 DEF Issue, GoTo, TypeOK, CallsOnTrack, SuccessorRetiresToken, tables
  <2> QED BY <2>1, <2>2, <2>3, <2>4, <2>5 DEF SessionDiscipline
<1>5. CASE Revoke(r)
  <2>1. TypeOK'
    BY <1>1, <1>5 DEF Revoke, GoTo, TypeOK, Stages, Ended, CallsOnTrack, tables, Call, Others, Active, Spent
  <2>2. RowsFromCalls'
    BY <1>1, <1>5 DEF Revoke, GoTo, TypeOK, RowsFromCalls, CallsOnTrack, Ended, tables
  <2>3. CallsOnTrack'
    BY <1>1, <1>5 DEF Revoke, GoTo, TypeOK, CallsOnTrack, Changes, Ended, tables, UserOf, Spent
  <2>4. SweepsCover'
    BY <1>1, <1>5 DEF Revoke, GoTo, TypeOK, CallsOnTrack, SweepsCover, Changes, Ended, tables, UserOf, Others, Active
  <2>5. SuccessorRetiresToken'
    BY <1>1, <1>5 DEF Revoke, GoTo, TypeOK, CallsOnTrack, SuccessorRetiresToken, tables
  <2> QED BY <2>1, <2>2, <2>3, <2>4, <2>5 DEF SessionDiscipline
<1>6. CASE StorePassword(r)
  <2>1. TypeOK'
    BY <1>1, <1>6 DEF StorePassword, GoTo, TypeOK, Stages, Ended, CallsOnTrack, tables, Call, Others, Active, Spent
  <2>2. RowsFromCalls'
    BY <1>1, <1>6 DEF StorePassword, GoTo, TypeOK, RowsFromCalls, CallsOnTrack, Ended, tables
  <2>3. CallsOnTrack'
    BY <1>1, <1>6 DEF StorePassword, GoTo, TypeOK, CallsOnTrack, Changes, Ended, tables, UserOf, Spent
  <2>4. SweepsCover'
    BY <1>1, <1>6 DEF StorePassword, GoTo, TypeOK, CallsOnTrack, SweepsCover, Changes, Ended, tables, UserOf, Others, Active
  <2>5. SuccessorRetiresToken'
    BY <1>1, <1>6 DEF StorePassword, GoTo, TypeOK, CallsOnTrack, SuccessorRetiresToken, tables
  <2> QED BY <2>1, <2>2, <2>3, <2>4, <2>5 DEF SessionDiscipline
<1>7. CASE SpendCode(r)
  <2>1. TypeOK'
    BY <1>1, <1>7 DEF SpendCode, GoTo, TypeOK, Stages, Ended, CallsOnTrack, tables, Call, Others, Active, Spent
  <2>2. RowsFromCalls'
    BY <1>1, <1>7 DEF SpendCode, GoTo, TypeOK, RowsFromCalls, CallsOnTrack, Ended, tables
  <2>3. CallsOnTrack'
    BY <1>1, <1>7 DEF SpendCode, GoTo, TypeOK, CallsOnTrack, Changes, Ended, tables, UserOf, Spent
  <2>4. SweepsCover'
    BY <1>1, <1>7 DEF SpendCode, GoTo, TypeOK, CallsOnTrack, SweepsCover, Changes, Ended, tables, UserOf, Others, Active
  <2>5. SuccessorRetiresToken'
    BY <1>1, <1>7 DEF SpendCode, GoTo, TypeOK, CallsOnTrack, SuccessorRetiresToken, tables
  <2> QED BY <2>1, <2>2, <2>3, <2>4, <2>5 DEF SessionDiscipline
<1>8. CASE List(r)
  <2>1. TypeOK'
    BY <1>1, <1>8 DEF List, GoTo, TypeOK, Stages, Ended, CallsOnTrack, tables, Call, Others, Active, Spent
  <2>2. RowsFromCalls'
    BY <1>1, <1>8 DEF List, GoTo, TypeOK, RowsFromCalls, CallsOnTrack, Ended, tables
  <2>3. CallsOnTrack'
    BY <1>1, <1>8 DEF List, GoTo, TypeOK, CallsOnTrack, Changes, Ended, tables, UserOf, Spent
  <2>4. SweepsCover'
    BY <1>1, <1>8 DEF List, GoTo, TypeOK, CallsOnTrack, SweepsCover, Changes, Ended, tables, UserOf, Others, Active
  <2>5. SuccessorRetiresToken'
    BY <1>1, <1>8 DEF List, GoTo, TypeOK, CallsOnTrack, SuccessorRetiresToken, tables
  <2> QED BY <2>1, <2>2, <2>3, <2>4, <2>5 DEF SessionDiscipline
<1>9. CASE Finish(r)
  <2>1. TypeOK'
    BY <1>1, <1>9 DEF Finish, GoTo, TypeOK, Stages, Ended, CallsOnTrack, tables, Call, Others, Active, Spent
  <2>2. RowsFromCalls'
    BY <1>1, <1>9 DEF Finish, GoTo, TypeOK, RowsFromCalls, CallsOnTrack, Ended, tables
  <2>3. CallsOnTrack'
    BY <1>1, <1>9 DEF Finish, GoTo, TypeOK, CallsOnTrack, Changes, Ended, tables, UserOf, Spent
  <2>4. SweepsCover'
    BY <1>1, <1>9 DEF Finish, GoTo, TypeOK, CallsOnTrack, SweepsCover, Changes, Ended, tables, UserOf, Others, Active
  <2>5. SuccessorRetiresToken'
    BY <1>1, <1>9 DEF Finish, GoTo, TypeOK, CallsOnTrack, SuccessorRetiresToken, tables
  <2> QED BY <2>1, <2>2, <2>3, <2>4, <2>5 DEF SessionDiscipline
<1>10. CASE Fail(r)
  <2>1. TypeOK'
    BY <1>1, <1>10 DEF Fail, GoTo, TypeOK, Stages, Ended, CallsOnTrack, tables, Call, Others, Active, Spent
  <2>2. RowsFromCalls'
    BY <1>1, <1>10 DEF Fail, GoTo, TypeOK, RowsFromCalls, CallsOnTrack, Ended, tables
  <2>3. CallsOnTrack'
    BY <1>1, <1>10 DEF Fail, GoTo, TypeOK, CallsOnTrack, Changes, Ended, tables, UserOf, Spent
  <2>4. SweepsCover'
    BY <1>1, <1>10 DEF Fail, GoTo, TypeOK, CallsOnTrack, SweepsCover, Changes, Ended, tables, UserOf, Others, Active
  <2>5. SuccessorRetiresToken'
    BY <1>1, <1>10 DEF Fail, GoTo, TypeOK, CallsOnTrack, SuccessorRetiresToken, tables
  <2> QED BY <2>1, <2>2, <2>3, <2>4, <2>5 DEF SessionDiscipline
<1>11. CASE \E s \in Requests : Sweep(r, s) \/ SweepFails(r, s)
  <2> PICK s \in Requests : Sweep(r, s) \/ SweepFails(r, s)
    BY <1>11
  <2>1. /\ s \in swept[r] /\ s \in issued /\ pc[r] # "new"
        /\ swept' = [swept EXCEPT ![r] = @ \ {s}]
        /\ \/ revoked' = revoked \cup {s} /\ pc' = pc
           \/ revoked' = revoked /\ pc' = [pc EXCEPT ![r] = "error"]
        /\ UNCHANGED <<call, issued, codes, used, password, expired, past>>
    BY <1>1 DEF Sweep, SweepFails, GoTo, TypeOK, RowsFromCalls, tables
  <2>2. TypeOK'
    <3>1. /\ revoked' \subseteq issued /\ swept' \in [Requests -> SUBSET issued]
          /\ pc' \in [Requests -> Stages]
      BY <1>1, <2>1 DEF TypeOK, Stages, Ended
    <3> QED BY <1>1, <2>1, <3>1 DEF TypeOK
  <2>3. RowsFromCalls'
    BY <1>1, <2>1 DEF TypeOK, RowsFromCalls, Ended
  <2>4. CallsOnTrack'
    BY <1>1, <2>1 DEF TypeOK, CallsOnTrack, Changes, UserOf
  <2>5. SweepsCover'
    BY <1>1, <2>1 DEF TypeOK, SweepsCover, Changes, UserOf
  <2>6. SuccessorRetiresToken'
    BY <1>1, <2>1 DEF SuccessorRetiresToken
  <2> QED BY <2>2, <2>3, <2>4, <2>5, <2>6 DEF SessionDiscipline
<1> QED BY <1>3, <1>4, <1>5, <1>6, <1>7, <1>8, <1>9, <1>10, <1>11

LEMMA ExpireKeeps ==
  ASSUME Inv, NEW x \in Requests, Expire(x)
  PROVE  Inv'
BY DEF Expire, tables, Inv, TypeOK, SessionDiscipline, RowsFromCalls, CallsOnTrack,
       SweepsCover, SuccessorRetiresToken, UserOf

THEOREM Invariance == Spec => []Inv
<1>1. Init => Inv
  BY FirstIsNoRequest DEF Init, Inv, TypeOK, SessionDiscipline, RowsFromCalls, CallsOnTrack,
     SweepsCover, SuccessorRetiresToken, Stages, Ended
<1>2. Inv /\ [Next]_vars => Inv'
  <2> SUFFICES ASSUME Inv, [Next]_vars PROVE Inv'
    OBVIOUS
  <2>1. ASSUME NEW r \in Requests, NEW c \in Calls, ComparePassword(r, c) PROVE Inv'
    BY <2>1, SentKeeps DEF ComparePassword, tables, Stages, Ended, Changes
  <2>2. ASSUME NEW r \in Requests, NEW c \in Calls, StartRenew(r, c) PROVE Inv'
    BY <2>2, SentKeeps DEF StartRenew, tables, Stages, Ended
  <2>3. ASSUME NEW r \in Requests, NEW c \in Calls, StartRevoke(r, c) PROVE Inv'
    BY <2>3, SentKeeps DEF StartRevoke, tables, Stages, Ended
  <2>4. ASSUME NEW r \in Requests, NEW c \in Calls, Forgot(r, c) PROVE Inv'
    BY <2>4, SentKeeps DEF Forgot, Stages, Ended
  <2>5. ASSUME NEW r \in Requests, NEW c \in Calls, StartConfirm(r, c) PROVE Inv'
    BY <2>5, SentKeeps DEF StartConfirm, tables, Stages, Ended, Changes
  <2>6. CASE UNCHANGED vars
    BY <2>6 DEF vars, tables, Inv, TypeOK, SessionDiscipline, RowsFromCalls, CallsOnTrack,
       SweepsCover, SuccessorRetiresToken, UserOf
  <2> QED
    BY <2>1, <2>2, <2>3, <2>4, <2>5, <2>6, LaterKeeps, ExpireKeeps
    DEF Next, Start, AllAnswered
<1> QED BY <1>1, <1>2, PTL DEF Spec

\* Rows and request records keep their types, and every revoked session, used
\* code and swept session exists.
THEOREM TypeCorrect == Spec => []TypeOK
<1>1. Inv => TypeOK
  BY DEF Inv
<1> QED BY <1>1, Invariance, PTL

\* The inductive invariant itself: what requests have checked and written.
THEOREM SessionDisciplineHolds == Spec => []SessionDiscipline
<1>1. Inv => SessionDiscipline
  BY DEF Inv
<1> QED BY <1>1, Invariance, PTL

\* No renewal, complete or interrupted, leaves its old token usable beside
\* the new one.
THEOREM RenewalsRetireTokens == Spec => []SuccessorRetiresToken
<1>1. Inv => SuccessorRetiresToken
  BY DEF Inv, SessionDiscipline
<1> QED BY <1>1, Invariance, PTL

\* A password change that has answered left none of the sessions it found.
THEOREM PasswordChangesEndSessions == Spec => []ChangeEndsFormerSessions
<1>1. Inv => ChangeEndsFormerSessions
  BY DEF Inv, SessionDiscipline, SweepsCover, ChangeEndsFormerSessions
<1> QED BY <1>1, Invariance, PTL

\* Once its use has been answered, a token or a code is never accepted again.
THEOREM SpentIsSpent == Spec => SpentStaysSpent
<1> DEFINE Accepts(r) ==
      pc[r] = "new" /\ pc'[r] \in {"rotate", "store"} /\ call'[r].op \in {"renew", "confirm"}
    SameCall(r, q) == call[q].op = call'[r].op /\ call[q].given = call'[r].given
<1>1. Inv /\ [Next]_vars => \A r, q \in Requests :
        pc[r] = "new" /\ pc'[r] \in {"rotate", "store"} /\ call'[r].op \in {"renew", "confirm"}
        /\ call[q].op = call'[r].op /\ call[q].given = call'[r].given => pc[q] # "ok"
  <2> SUFFICES ASSUME Inv, [Next]_vars, NEW r \in Requests, NEW q \in Requests,
                      Accepts(r), SameCall(r, q), pc[q] = "ok"
               PROVE  FALSE
    OBVIOUS
  <2>0. \A p \in Requests : \A stage : p # r /\ GoTo(p, stage) => pc'[r] = pc[r]
    BY DEF GoTo, Inv, TypeOK
  <2>0a. Start(r)
    <3>1. CASE \E p \in Requests : p # r /\ Start(p)
      BY <3>1, <2>0 DEF Start, ComparePassword, StartRenew, StartRevoke, Forgot,
         StartConfirm, Sent
    <3>2. CASE \E p \in Requests : Rotate(p) \/ Issue(p) \/ Revoke(p) \/ StorePassword(p)
                  \/ SpendCode(p) \/ List(p) \/ Finish(p) \/ Fail(p)
      BY <3>2, <2>0 DEF Rotate, Issue, Revoke, StorePassword, SpendCode, List, Finish, Fail
    <3>3. CASE \E p, s \in Requests : Sweep(p, s) \/ SweepFails(p, s)
      BY <3>3, <2>0 DEF Sweep, SweepFails, Inv, SessionDiscipline, RowsFromCalls
    <3>4. CASE (\E x \in Requests : Expire(x)) \/ UNCHANGED vars
      BY <3>4 DEF Expire, vars
    <3> QED BY <3>1, <3>2, <3>3, <3>4 DEF Next, AllAnswered
  <2>1. PICK c \in Calls : StartRenew(r, c) \/ StartConfirm(r, c)
    <3>1. ASSUME NEW c \in Calls, ComparePassword(r, c) \/ StartRevoke(r, c) \/ Forgot(r, c)
          PROVE  FALSE
      BY <3>1, SentFacts DEF ComparePassword, StartRevoke, Forgot, GoTo, Ended, Inv, TypeOK
    <3> QED BY <2>0a, <3>1 DEF Start
  <2>2. call'[r] = c /\ pc \in [Requests -> Stages]
    BY <2>1, SentFacts DEF StartRenew, StartConfirm, Inv, TypeOK
  <2>3. \/ c.op = "renew" /\ c.given \notin revoked
        \/ c.op = "confirm" /\ c.given \notin used
    BY <2>1, <2>2 DEF StartRenew, StartConfirm, Renewable, GoTo
  <2>4. call[q].op = "renew" => call[q].given \in revoked
    BY DEF Inv, SessionDiscipline, CallsOnTrack
  <2>5. call[q].op = "confirm" => call[q].given \in used
    BY DEF Inv, SessionDiscipline, CallsOnTrack
  <2> QED BY <2>2, <2>3, <2>4, <2>5
<1> QED BY <1>1, Invariance, PTL DEF Spec, SpentStaysSpent

\* No request ends a session of somebody else.
THEOREM OthersSessionsAreSafe == Spec => OnlyOwnSessionsEnd
<1> DEFINE Mine(r, s) == /\ call[r] # NoCall /\ call[r].user = UserOf(s)
                         /\ call[r].given = s \/ call[r].op \in Changes
<1>1. Inv /\ [Next]_vars => \A s \in revoked' \ revoked : \E r \in Requests : Mine(r, s)
  <2> SUFFICES ASSUME Inv, [Next]_vars, NEW s \in revoked', s \notin revoked
               PROVE  \E r \in Requests : Mine(r, s)
    OBVIOUS
  <2>1. PICK r \in Requests : \/ Rotate(r) \/ Revoke(r)
                              \/ \E t \in Requests : Sweep(r, t)
    BY DEF Next, vars, AllAnswered, Start, ComparePassword, StartRenew, StartRevoke, Forgot,
       StartConfirm, Issue, StorePassword, SpendCode, List, Finish, Fail, SweepFails,
       Expire, tables
  <2>2. call[r] # NoCall
    BY <2>1 DEF Rotate, Revoke, Sweep, Inv, SessionDiscipline, RowsFromCalls, Call, NoCall
  <2>3. CASE Rotate(r) \/ Revoke(r)
    BY <2>2, <2>3 DEF Rotate, Revoke, Inv, SessionDiscipline, CallsOnTrack
  <2>4. CASE \E t \in Requests : Sweep(r, t)
    BY <2>2, <2>4 DEF Sweep, Inv, SessionDiscipline, SweepsCover
  <2> QED BY <2>1, <2>3, <2>4
<1> QED BY <1>1, Invariance, PTL DEF Spec, OnlyOwnSessionsEnd

-----------------------------------------------------------------------------
(* The browser: storage and server agree, and the user on screen owns the    *)
(* access token.                                                             *)

Kinds == SessionKinds \cup UserKinds
JobStages == {"sent", "checked", "ok", "failed"}

USE AuthContextType

LEMMA JobFields ==
  ASSUME Typed, NEW j \in jobs
  PROVE  /\ j.tab \in Tabs \cup {Gone} /\ j.kind \in Kinds /\ j.stage \in JobStages
         /\ j.token \in 0..Len(owner) /\ j.access \in 0..Len(owner)
         /\ j.user \in Accounts \cup {Nobody}
BY DEF Typed, Job, Kinds, JobStages

LEMMA InitDiscipline == BrowserInit => Typed /\ TabDiscipline
<1> SUFFICES ASSUME BrowserInit PROVE Typed /\ TabDiscipline
  OBVIOUS
<1>1. owner = <<Earlier>> /\ Len(owner) = 1 /\ owner \in Seq(Accounts)
  BY DEF BrowserInit
<1>2. tab \in [Tabs -> Tab] /\ \A t \in Tabs : tab[t] = Closed
  BY DEF BrowserInit, Closed, Tab, Paths
<1>3. Typed
  <2>1. \A t \in Tabs : tab[t].access \in 0..Len(owner)
    BY <1>1, <1>2 DEF Closed
  <2>2. live \subseteq 1..Len(owner) /\ stale \subseteq 1..Len(owner) /\ stored \in 0..Len(owner)
    BY <1>1 DEF BrowserInit
  <2> QED BY <1>1, <1>2, <2>1, <2>2 DEF BrowserInit, Typed
<1>4. TabDiscipline
  BY <1>1, <1>2 DEF BrowserInit, TabDiscipline, JobsHaveTabs, AnswersFit, CalmTabs, JobsOf,
       ShownUserSpeaks, CalmBrowser, Settled, StoredOnly, Closed
<1> QED BY <1>3, <1>4

-----------------------------------------------------------------------------
(* Types. *)

LEMMA RequestType ==
  ASSUME Typed, NEW t \in Tabs, NEW k \in Kinds, NEW token \in 0..Len(owner),
         NEW u \in Accounts \cup {Nobody}
  PROVE  /\ Request(t, k, token, u) \in Job
         /\ Request(t, k, token, u).token = token
         /\ Request(t, k, token, u).access \in 0..Len(owner)
BY DEF Typed, Request, Job, Kinds

\* Only the requests change, by answers of known sessions.
LEMMA JobsTyped ==
  ASSUME Typed, UNCHANGED <<owner, live, stale, stored, tab>>,
         disturbed' \in BOOLEAN, crossed' \subseteq Tabs,
         \A j \in jobs' : j \in jobs \/ (j \in Job /\ j.token \in 0..Len(owner)
                                           /\ j.access \in 0..Len(owner))
  PROVE  Typed'
BY DEF Typed

LEMMA RefuseTyped ==
  ASSUME Typed, NEW j \in jobs, Refuse(j)
  PROVE  \A k \in jobs' : k \in jobs \/ (k \in Job /\ k.token \in 0..Len(owner)
                                           /\ k.access \in 0..Len(owner))
<1> DEFINE a == [j EXCEPT !.stage = "failed", !.token = 0, !.access = 0, !.user = Nobody]
<1>1. j \in Job /\ Len(owner) \in Nat
  BY DEF Typed
<1>2. a \in Job /\ a.token = 0 /\ a.access = 0
  BY <1>1 DEF Job
<1>3. \A k \in jobs' : k \in jobs \/ k = a
  BY DEF Refuse, Reply
<1> HIDE DEF a
<1> QED BY <1>1, <1>2, <1>3

LEMMA IssueTyped ==
  ASSUME Typed, NEW j \in jobs, NEW u \in Accounts, NEW ended, IssueSession(j, u, ended)
  PROVE  Typed'
<1> DEFINE new == Len(owner) + 1
<1>1. owner' = Append(owner, u) /\ owner' \in Seq(Accounts) /\ Len(owner') = new
      /\ Len(owner) \in Nat
  BY DEF IssueSession, Typed
<1>2. 1..Len(owner) \subseteq 1..Len(owner') /\ 0..Len(owner) \subseteq 0..Len(owner')
      /\ new \in 1..Len(owner') /\ new \in Nat
  BY <1>1
<1>3. live' \subseteq 1..Len(owner')
  BY <1>1, <1>2 DEF IssueSession, Typed
<1>4. /\ jobs' \subseteq Job
      /\ \A k \in jobs' : k.token \in 0..Len(owner') /\ k.access \in 0..Len(owner')
  <2> DEFINE a == [j EXCEPT !.stage = "ok", !.token = new, !.user = u]
  <2>1. j \in Job /\ j.access \in 0..Len(owner)
    BY DEF Typed
  <2>2. a \in Job /\ a.token = new /\ a.access = j.access
    BY <1>2, <2>1 DEF Job
  <2>3. \A k \in jobs' : k \in jobs \/ k = a
    BY DEF IssueSession, Reply
  <2> HIDE DEF a, new
  <2> QED BY <1>1, <1>2, <2>1, <2>2, <2>3 DEF Typed
<1>5. /\ UNCHANGED <<stale, stored, tab, crossed>> /\ disturbed' \in BOOLEAN
  BY DEF IssueSession, Typed
<1> QED BY <1>1, <1>2, <1>3, <1>4, <1>5 DEF Typed

LEMMA ServeTyped ==
  ASSUME Typed, AnswersFit, NEW j \in jobs, Serve(j) \/ Lose(j)
  PROVE  Typed'
<1>1. CASE CheckToken(j)
  <2>1. \A k \in jobs' : k \in jobs \/ (k \in Job /\ k.token \in 0..Len(owner)
                                          /\ k.access \in 0..Len(owner))
    <3>1. CASE j.token \in live
      BY <1>1, <3>1 DEF CheckToken, Typed, Job
    <3> QED BY <1>1, <3>1, RefuseTyped DEF CheckToken
  <2> QED BY <1>1, <2>1, JobsTyped DEF CheckToken, Typed
<1>2. CASE RotateToken(j)
  <2>1. j.token \in 1..Len(owner) /\ owner[j.token] \in Accounts
    BY <1>2, JobFields DEF RotateToken, AnswersFit, Typed
  <2> QED BY <1>2, <2>1, IssueTyped DEF RotateToken
<1>3. CASE SignIn(j)
  <2>1. CASE IssueSession(j, j.user, {})
    BY <1>3, <2>1, IssueTyped DEF SignIn, AnswersFit
  <2> QED BY <1>3, <2>1, RefuseTyped, JobsTyped DEF SignIn, Typed
<1>4. CASE SignOut(j)
  BY <1>4 DEF SignOut, Reply, Typed, Job
<1>5. CASE ChangePassword(j)
  <2>1. CASE Refuse(j) /\ UNCHANGED live
    BY <1>5, <2>1, RefuseTyped, JobsTyped DEF ChangePassword, Typed
  <2>2. CASE live' = live \ Swept(j) /\ Reply(j, [j EXCEPT !.stage = "ok"])
    BY <1>5, <2>2 DEF ChangePassword, Reply, Typed, Job
  <2> QED BY <1>5, <2>1, <2>2 DEF ChangePassword
<1>6. CASE WhoAmI(j)
  <2>1. CASE Authenticated(j)
    <3>1. owner[j.access] \in Accounts
      BY <2>1, JobFields DEF Authenticated, Typed
    <3>2. \A k \in jobs' : k \in jobs \/ (k \in Job /\ k.token \in 0..Len(owner)
                                            /\ k.access \in 0..Len(owner))
      <4> DEFINE a == [j EXCEPT !.stage = "ok", !.user = owner[j.access]]
      <4>1. j \in Job /\ j.token \in 0..Len(owner) /\ j.access \in 0..Len(owner)
        BY DEF Typed
      <4>2. a \in Job /\ a.token = j.token /\ a.access = j.access
        BY <3>1, <4>1 DEF Job
      <4>3. \A k \in jobs' : k \in jobs \/ k = a
        BY <1>6, <2>1 DEF WhoAmI, Reply
      <4> QED BY <4>1, <4>2, <4>3
    <3> QED BY <1>6, <3>2, JobsTyped DEF WhoAmI, Typed
  <2>2. CASE ~Authenticated(j)
    BY <1>6, <2>2, RefuseTyped, JobsTyped DEF WhoAmI, Typed
  <2> QED BY <2>1, <2>2
<1>7. CASE Lose(j)
  BY <1>7, RefuseTyped, JobsTyped DEF Lose, Typed
<1> QED BY <1>1, <1>2, <1>3, <1>4, <1>5, <1>6, <1>7 DEF Serve

\* The tabs change, and requests come and go.
LEMMA TabsTyped ==
  ASSUME Typed, UNCHANGED <<owner, live, stale>>, stored' \in 0..Len(owner),
         tab' \in [Tabs -> Tab], \A t \in Tabs : tab'[t].access \in 0..Len(owner),
         disturbed' \in BOOLEAN, crossed' \subseteq Tabs,
         \A j \in jobs' : j \in jobs \/ (j \in Job /\ j.token \in 0..Len(owner)
                                           /\ j.access \in 0..Len(owner))
  PROVE  Typed'
BY DEF Typed

LEMMA HandleTyped ==
  ASSUME Typed, JobsHaveTabs, NEW j \in jobs, Handle(j)
  PROVE  Typed'
<1>1. /\ j.tab \in Tabs /\ j.kind \in Kinds /\ Len(owner) \in Nat
      /\ j.token \in 0..Len(owner) /\ j.access \in 0..Len(owner)
      /\ j.user \in Accounts \cup {Nobody}
  BY JobFields DEF Handle, Restore, Restored, NotRestored, FormAnswered, LoggedOut,
     NameSaved, UserRefreshed, PasswordAnswered, JobsHaveTabs, Typed
<1>2. UNCHANGED <<owner, live, stale>> /\ stored' \in 0..Len(owner)
  BY <1>1 DEF Handle, Restore, Restored, NotRestored, FormAnswered, LoggedOut, ClearSession,
     ApplySession, Store, NameSaved, UserRefreshed, PasswordAnswered, Typed, server
<1>3. tab' \in [Tabs -> Tab] /\ \A t \in Tabs : tab'[t].access \in 0..Len(owner)
  <2>1. CASE NotRestored(j) \/ LoggedOut(j)
    <3>1. SignedOut(j.tab) \in Tab /\ SignedOut(j.tab).access = 0
      BY <1>1 DEF SignedOut, Typed, Tab
    <3>2. PICK after \in Tab : after.access = 0 /\ tab' = [tab EXCEPT ![j.tab] = after]
      BY <2>1, <3>1 DEF NotRestored, LoggedOut, ClearSession, Tab, Paths
    <3> QED BY <1>1, <3>2 DEF Typed
  <2>2. CASE Restore(j)
    BY <1>1, <2>2 DEF Restore, Typed, Tab
  <2>3. CASE Restored(j)
    BY <1>1, <2>3 DEF Restored, Typed, Tab
  <2>4. CASE FormAnswered(j)
    <3>1. CASE j.stage = "ok"
      <4> DEFINE after == [tab[j.tab] EXCEPT !.user = j.user, !.access = j.token, !.path = "app"]
      <4>1. tab[j.tab] \in Tab /\ "app" \in Paths /\ j.token \in Nat
        BY <1>1 DEF Typed, Paths
      <4>2. after \in Tab /\ after.access = j.token
        BY <1>1, <4>1 DEF Tab
      <4>3. tab' = [tab EXCEPT ![j.tab] = after]
        BY <1>1, <2>4, <3>1 DEF FormAnswered, ApplySession
      <4> HIDE DEF after
      <4> QED BY <1>1, <4>2, <4>3 DEF Typed
    <3>2. CASE j.stage # "ok"
      BY <2>4, <3>2 DEF FormAnswered, Typed
    <3> QED BY <3>1, <3>2
  <2>5. CASE UserRefreshed(j)
    <3>1. CASE j.stage = "ok"
      <4> DEFINE after == [tab[j.tab] EXCEPT !.user = j.user]
      <4>1. tab[j.tab] \in Tab /\ tab[j.tab].access \in 0..Len(owner)
        BY <1>1 DEF Typed
      <4>2. after \in Tab /\ after.access \in 0..Len(owner)
        BY <1>1, <4>1 DEF Tab
      <4>3. tab' = [tab EXCEPT ![j.tab] = after]
        BY <1>1, <2>5, <3>1 DEF UserRefreshed
      <4> HIDE DEF after
      <4> QED BY <1>1, <4>2, <4>3 DEF Typed
    <3>2. CASE j.stage # "ok"
      BY <2>5, <3>2 DEF UserRefreshed, Typed
    <3> QED BY <3>1, <3>2
  <2>6. CASE NameSaved(j) \/ PasswordAnswered(j)
    BY <2>6 DEF NameSaved, PasswordAnswered, Typed
  <2> QED BY <2>1, <2>2, <2>3, <2>4, <2>5, <2>6 DEF Handle
<1>4. disturbed' \in BOOLEAN /\ crossed' \subseteq Tabs
  BY DEF Handle, Restore, Restored, NotRestored, FormAnswered, LoggedOut,
     NameSaved, UserRefreshed, PasswordAnswered, Typed
<1>5. \A k \in jobs' : k \in jobs \/ (k \in Job /\ k.token \in 0..Len(owner)
                                        /\ k.access \in 0..Len(owner))
  <2>0. {"me", "refresh"} \subseteq Kinds /\ 0 \in 0..Len(owner)
    BY <1>1 DEF Kinds, UserKinds
  <2>1. CASE Restore(j)
    <3> DEFINE a == [Request(j.tab, "me", 0, Nobody) EXCEPT !.access = j.token]
    <3>1. Request(j.tab, "me", 0, Nobody) \in Job /\ Request(j.tab, "me", 0, Nobody).token = 0
      BY <1>1, <2>0, RequestType
    <3>2. a \in Job /\ a.token = 0 /\ a.access = j.token
      BY <1>1, <3>1 DEF Job
    <3>3. \A k \in jobs' : k \in jobs \/ k = a
      BY <2>1 DEF Restore
    <3> HIDE DEF a
    <3> QED BY <1>1, <2>0, <3>2, <3>3
  <2>2. CASE NameSaved(j)
    <3>1. /\ Request(j.tab, "refresh", 0, Nobody) \in Job
          /\ Request(j.tab, "refresh", 0, Nobody).token = 0
          /\ Request(j.tab, "refresh", 0, Nobody).access \in 0..Len(owner)
      BY <1>1, <2>0, RequestType
    <3> QED BY <1>1, <2>2, <3>1 DEF NameSaved
  <2> QED
    BY <2>1, <2>2 DEF Handle, Restored, NotRestored, FormAnswered, LoggedOut,
       UserRefreshed, PasswordAnswered
<1> QED BY <1>2, <1>3, <1>4, <1>5, TabsTyped

LEMMA SendTyped ==
  ASSUME Typed, NEW t \in Tabs, NEW k \in Kinds, NEW token \in 0..Len(owner), Send(t, k, token, Nobody)
  PROVE  /\ disturbed' \in BOOLEAN /\ crossed' \subseteq Tabs
         /\ \A j \in jobs' : j \in jobs \/ (j \in Job /\ j.token \in 0..Len(owner)
                                              /\ j.access \in 0..Len(owner))
BY RequestType DEF Send, Typed

LEMMA UserTyped ==
  ASSUME Typed, NEW t \in Tabs,
         \/ \E path \in Paths : Mount(t, path) \/ Navigate(t, path)
         \/ \E u \in Accounts : SubmitForm(t, u)
         \/ Close(t) \/ ClickLogout(t) \/ SaveName(t) \/ SubmitPassword(t) \/ Redirect(t)
  PROVE  Typed'
<1> USE DEF Kinds, SessionKinds, UserKinds
<1>0. Len(owner) \in Nat /\ stored \in 0..Len(owner) /\ 0 \in 0..Len(owner)
  BY DEF Typed
<1>1. ASSUME NEW path \in Paths, Mount(t, path) PROVE Typed'
  <2>1. tab' \in [Tabs -> Tab] /\ \A s \in Tabs : tab'[s].access \in 0..Len(owner)
    <3>1. /\ tab' = [tab EXCEPT ![t].open = TRUE, ![t].initializing = (stored # 0),
                              ![t].path = path]
          /\ tab \in [Tabs -> Tab] /\ \A s \in Tabs : tab[s].access \in 0..Len(owner)
      BY <1>1 DEF Mount, Typed
    <3>2. path \in Paths /\ (stored # 0) \in BOOLEAN
      BY <1>1
    <3> QED BY <3>1, <3>2 DEF Tab
  <2>2. CASE stored = 0
    BY <1>0, <1>1, <2>1, <2>2, TabsTyped DEF Mount, server, Typed
  <2>3. CASE stored # 0
    BY <1>0, <1>1, <2>1, <2>3, SendTyped, TabsTyped DEF Mount, server
  <2> QED BY <2>2, <2>3
<1>2. ASSUME NEW path \in Paths, ShowPath(t, path) PROVE Typed'
  <2>1. tab' \in [Tabs -> Tab] /\ \A s \in Tabs : tab'[s].access \in 0..Len(owner)
    BY <1>2 DEF ShowPath, Typed, Tab
  <2> QED BY <1>0, <1>2, <2>1, TabsTyped DEF ShowPath, server, Typed
<1>3. ASSUME NEW u \in Accounts, SubmitForm(t, u) PROVE Typed'
  <2>1. \A j \in jobs' : j \in jobs \/ (j \in Job /\ j.token \in 0..Len(owner)
                                          /\ j.access \in 0..Len(owner))
    BY <1>0, <1>3, RequestType DEF SubmitForm
  <2>2. disturbed' \in BOOLEAN /\ crossed' \subseteq Tabs
    BY <1>3 DEF SubmitForm, Typed
  <2> QED BY <1>0, <1>3, <2>1, <2>2, JobsTyped DEF SubmitForm, server
<1>4. CASE Close(t)
  <2>1. tab' \in [Tabs -> Tab] /\ \A s \in Tabs : tab'[s].access \in 0..Len(owner)
    BY <1>0, <1>4 DEF Close, Closed, Typed, Tab, Paths
  <2>2. \A j \in jobs : [j EXCEPT !.tab = Gone] \in Job
           /\ [j EXCEPT !.tab = Gone].token \in 0..Len(owner)
           /\ [j EXCEPT !.tab = Gone].access \in 0..Len(owner)
    BY DEF Typed, Job
  <2>3. \A j \in jobs' : j \in jobs \/ \E k \in jobs : j = [k EXCEPT !.tab = Gone]
    BY <1>4 DEF Close, JobsOf
  <2>4. disturbed' \in BOOLEAN /\ crossed' \subseteq Tabs
    BY <1>4 DEF Close, Typed
  <2>5. UNCHANGED <<owner, live, stale, stored>>
    BY <1>4 DEF Close, server
  <2>6. \A j \in jobs' : j \in jobs \/ (j \in Job /\ j.token \in 0..Len(owner)
                                          /\ j.access \in 0..Len(owner))
    BY <2>2, <2>3
  <2> QED BY <1>0, <2>1, <2>4, <2>5, <2>6, TabsTyped
<1>5. CASE ClickLogout(t)
  <2>1. CASE stored = 0
    <3>1. tab' \in [Tabs -> Tab] /\ \A s \in Tabs : tab'[s].access \in 0..Len(owner)
      <4>1. SignedOut(t) \in Tab /\ SignedOut(t).access = 0
        BY DEF SignedOut, Typed, Tab
      <4>2. PICK after \in Tab : after.access = 0 /\ tab' = [tab EXCEPT ![t] = after]
        BY <1>5, <2>1, <4>1 DEF ClickLogout, ClearSession, Tab, Paths
      <4> QED BY <1>0, <4>2 DEF Typed
    <3>2. disturbed' \in BOOLEAN /\ crossed' \subseteq Tabs /\ jobs' = jobs /\ stored' = 0
      BY <1>5, <2>1 DEF ClickLogout, ClearSession, Typed
    <3> QED BY <1>0, <1>5, <3>1, <3>2, TabsTyped DEF ClickLogout, server
  <2>2. CASE stored # 0
    BY <1>0, <1>5, <2>2, SendTyped, JobsTyped DEF ClickLogout, server
  <2> QED BY <2>1, <2>2
<1>6. CASE SaveName(t)
  BY <1>0, <1>6, SendTyped, JobsTyped DEF SaveName, server
<1>7. CASE SubmitPassword(t)
  BY <1>0, <1>7, SendTyped, JobsTyped DEF SubmitPassword, server
<1> QED BY <1>1, <1>2, <1>3, <1>4, <1>5, <1>6, <1>7 DEF Navigate, Redirect, Paths

LEMMA TypesStep ==
  ASSUME Typed, JobsHaveTabs, AnswersFit, [BrowserNext]_browserVars
  PROVE  Typed'
<1>1. ASSUME NEW s \in Sessions, ExpireAccess(s) PROVE Typed'
  <2>1. stale' \subseteq 1..Len(owner)
    BY <1>1 DEF ExpireAccess, Typed, Sessions
  <2> QED BY <1>1, <2>1 DEF ExpireAccess, Typed
<1>2. CASE UNCHANGED browserVars
  BY <1>2 DEF browserVars, Typed
<1> QED BY <1>1, <1>2, ServeTyped, HandleTyped, UserTyped DEF BrowserNext

-----------------------------------------------------------------------------
(* What the parts of the invariant say of one request and of one tab.        *)

Fits(j) ==
  /\ j.kind = "renewal" /\ j.stage # "failed" => j.token # 0
  /\ j.kind = "form" /\ j.stage = "sent" => j.user \in Accounts
  /\ j.kind = "form" /\ j.stage = "ok" => j.token # 0 /\ j.user = owner[j.token]
  /\ j.kind \in {"me", "refresh"} /\ j.stage = "ok" => j.access # 0 /\ j.user = owner[j.access]

LEMMA FitsAll == AnswersFit <=> \A j \in jobs : Fits(j)
BY DEF AnswersFit, Fits

Calm(t) ==
  t \notin crossed =>
    /\ \A j, k \in jobs : j.tab = t /\ k.tab = t /\ {j.kind, k.kind} \subseteq UserKinds => j = k
    /\ \A j \in jobs : j.tab = t =>
         /\ j.kind \in {"me", "name", "refresh"} /\ j.stage # "failed" => j.access = tab[t].access
         /\ j.kind = "renewal" => tab[t].user = Nobody
    /\ tab[t].user # Nobody => tab[t].access # 0 /\ owner[tab[t].access] = tab[t].user

LEMMA CalmAll == CalmTabs /\ ShownUserSpeaks <=> \A t \in Tabs : Calm(t)
BY DEF CalmTabs, ShownUserSpeaks, Calm, JobsOf

SessionWork == SessionKinds \cup {"me"}

Works(j) ==
  /\ j.kind \in SessionWork => j.tab # Gone
  /\ j.kind = "renewal" =>
       /\ j.stage # "failed" /\ live = {j.token}
       /\ j.stage # "ok" => stored = j.token
  /\ j.kind = "me" => j.stage # "failed" /\ live = StoredOnly
  /\ j.kind = "form" => stored = 0 /\ live = (IF j.stage = "ok" THEN {j.token} ELSE {})
  /\ j.kind = "logout" => live = (IF j.stage = "sent" THEN {j.token} ELSE {})
  /\ j.kind = "password" => live = StoredOnly /\ (j.stage = "sent" => j.token = stored)

LEMMA WorksAll ==
  CalmBrowser <=>
    (~disturbed =>
       /\ \A j, k \in jobs : {j.kind, k.kind} \subseteq SessionWork => j = k
       /\ (\A j \in jobs : j.kind \notin SessionWork) => live = StoredOnly
       /\ \A j \in jobs : Works(j))
BY DEF CalmBrowser, Works, Settled, SessionWork

\* The parts of the invariant, item by item, after a step.
LEMMA Kept ==
  ASSUME JobsHaveTabs', \A j \in jobs' : Fits(j)', \A t \in Tabs : Calm(t)',
         ~disturbed' =>
           /\ \A j, k \in jobs' : {j.kind, k.kind} \subseteq SessionWork => j = k
           /\ (\A j \in jobs' : j.kind \notin SessionWork) => live' = StoredOnly'
           /\ \A j \in jobs' : Works(j)'
  PROVE  TabDiscipline'
<1>1. AnswersFit'
  BY DEF AnswersFit, Fits
<1>2. CalmTabs' /\ ShownUserSpeaks'
  BY DEF CalmTabs, ShownUserSpeaks, Calm, JobsOf
<1>3. CalmBrowser'
  BY DEF CalmBrowser, Works, Settled, SessionWork
<1> QED BY <1>1, <1>2, <1>3 DEF TabDiscipline

Early == {"sent", "checked"}

-----------------------------------------------------------------------------
(* The server answers: the tabs stay as they are.                            *)

\* The request j gives way to a, or to nothing when its tab is closed.
Becomes(j, a) ==
  /\ a.tab = j.tab /\ a.kind = j.kind /\ (a.stage = "failed" \/ a.access = j.access)
  /\ jobs' = jobs \ {j} \/ jobs' = (jobs \ {j}) \cup {a}
  /\ j.tab # Gone => a \in jobs'
  /\ a \in jobs' /\ a.tab = Gone => a.stage \in Early

LEMMA RefuseShape ==
  ASSUME Typed, JobsHaveTabs, NEW j \in jobs, Refuse(j)
  PROVE  \E a : /\ Becomes(j, a) /\ a.stage = "failed" /\ a.token = 0 /\ a.access = 0
                /\ a.user = Nobody
<1> DEFINE a == [j EXCEPT !.stage = "failed", !.token = 0, !.access = 0, !.user = Nobody]
<1>1. /\ a.tab = j.tab /\ a.kind = j.kind /\ a.stage = "failed" /\ a.token = 0
      /\ a.access = 0 /\ a.user = Nobody
  BY DEF Typed, Job
<1>2. jobs' = (jobs \ {j}) \cup (IF j.tab = Gone THEN {} ELSE {a})
  BY DEF Refuse, Reply
<1> HIDE DEF a
<1>3. Becomes(j, a)
  <2>1. CASE j.tab = Gone
    <3>1. a \in jobs' => a \in jobs
      BY <1>2, <2>1
    <3> QED BY <1>1, <1>2, <2>1, <3>1 DEF Becomes, JobsHaveTabs, Early
  <2>2. CASE j.tab # Gone
    BY <1>1, <1>2, <2>2 DEF Becomes
  <2> QED BY <2>1, <2>2
<1> QED BY <1>1, <1>3

LEMMA ReplyShape ==
  ASSUME Typed, JobsHaveTabs, NEW j \in jobs, NEW a, Reply(j, a), a.tab = j.tab,
         a.kind = j.kind, a.access = j.access
  PROVE  Becomes(j, a)
<1>1. jobs' = (jobs \ {j}) \cup (IF j.tab = Gone THEN {} ELSE {a})
  BY DEF Reply
<1>2. CASE j.tab = Gone
  <2>1. a \in jobs' => a \in jobs
    BY <1>1, <1>2
  <2> QED BY <1>1, <1>2, <2>1 DEF Becomes, JobsHaveTabs, Early
<1>3. CASE j.tab # Gone
  BY <1>1, <1>3 DEF Becomes
<1> QED BY <1>2, <1>3

\* A session is added at the end of the list.
LEMMA IssueShape ==
  ASSUME Typed, JobsHaveTabs, NEW j \in jobs, NEW u \in Accounts, NEW ended, IssueSession(j, u, ended)
  PROVE  \E a : /\ Becomes(j, a) /\ a.stage = "ok" /\ a.token = Len(owner) + 1 /\ a.token # 0
                /\ a.user = u /\ u = owner'[a.token]
                /\ live' = (live \ ended) \cup {a.token}
                /\ UNCHANGED <<stored, tab, crossed>>
                /\ \A i \in 1..Len(owner) : owner'[i] = owner[i]
                /\ disturbed' = (disturbed \/ j.tab = Gone)
<1> DEFINE new == Len(owner) + 1
           a == [j EXCEPT !.stage = "ok", !.token = new, !.user = u]
<1>1. Len(owner) \in Nat /\ owner' = Append(owner, u)
  BY DEF Typed, IssueSession
<1>2. /\ a.tab = j.tab /\ a.kind = j.kind /\ a.stage = "ok" /\ a.token = new
      /\ a.access = j.access /\ a.user = u
  BY DEF Typed, Job
<1>3. owner'[new] = u /\ \A i \in 1..Len(owner) : owner'[i] = owner[i]
  BY <1>1 DEF Typed
<1>4. /\ live' = (live \ ended) \cup {new} /\ Reply(j, a)
      /\ UNCHANGED <<stored, tab, crossed>> /\ disturbed' = (disturbed \/ j.tab = Gone)
  BY DEF IssueSession
<1>5. new # 0
  BY <1>1
<1> HIDE DEF a
<1>6. Becomes(j, a)
  BY <1>2, <1>4, ReplyShape
<1> HIDE DEF new
<1>7. a.token = Len(owner) + 1
  BY <1>2 DEF new
<1> QED BY <1>2, <1>3, <1>4, <1>5, <1>6, <1>7

\* What holds of the answer a to j, whatever the server answers.
Answered(j, a) ==
  /\ Becomes(j, a) /\ j.stage # "failed" /\ UNCHANGED <<stored, tab, crossed>>
  /\ \A i \in 1..Len(owner) : owner'[i] = owner[i]
  /\ Fits(a)'
  /\ disturbed => disturbed'
  /\ j.kind \notin SessionWork => disturbed' = disturbed /\ live' = live
  /\ j.kind \in SessionWork /\ ~disturbed' => Works(a)'

LEMMA ServeShape ==
  ASSUME Typed, TabDiscipline, NEW j \in jobs, Serve(j) \/ Lose(j)
  PROVE  \E a : Answered(j, a)
<1> USE DEF SessionWork, SessionKinds
<1>0. /\ JobsHaveTabs /\ Fits(j) /\ (~disturbed => Works(j))
      /\ j.token \in 0..Len(owner) /\ j.access \in 0..Len(owner) /\ Len(owner) \in Nat
      /\ disturbed \in BOOLEAN
  BY FitsAll, WorksAll, JobFields DEF TabDiscipline, Typed
<1>1. CASE CheckToken(j)
  <2>1. CASE j.token \in live
    <3> DEFINE a == [j EXCEPT !.stage = "checked"]
    <3>1. /\ a.tab = j.tab /\ a.kind = j.kind /\ a.access = j.access /\ a.token = j.token
          /\ a.stage = "checked"
      BY DEF Typed, Job
    <3>2. /\ jobs' = (jobs \ {j}) \cup {a} /\ j.kind = "renewal" /\ j.stage = "sent"
          /\ UNCHANGED <<owner, live, stored, tab, disturbed, crossed>>
      BY <1>1, <2>1 DEF CheckToken
    <3> HIDE DEF a
    <3>3. Becomes(j, a)
      BY <3>1, <3>2 DEF Becomes, Early
    <3>4. Fits(a)' /\ (~disturbed' => Works(a)')
      BY <1>0, <3>1, <3>2 DEF Fits, Works
    <3> QED BY <3>2, <3>3, <3>4 DEF Answered
  <2>2. CASE j.token \notin live
    <3>1. PICK a : Becomes(j, a) /\ a.stage = "failed"
      BY <1>0, <1>1, <2>2, RefuseShape DEF CheckToken
    <3>2. /\ j.kind = "renewal" /\ j.stage = "sent" /\ a.kind = "renewal"
          /\ UNCHANGED <<owner, live, stored, tab, disturbed, crossed>>
      BY <1>1, <3>1 DEF CheckToken, Becomes
    <3>3. disturbed
      BY <1>0, <2>2, <3>2 DEF Works
    <3> QED BY <3>1, <3>2, <3>3 DEF Answered, Fits
  <2> QED BY <2>1, <2>2
<1>2. CASE RotateToken(j)
  <2>1. /\ j.kind = "renewal" /\ j.stage = "checked" /\ owner[j.token] \in Accounts
        /\ IssueSession(j, owner[j.token], {j.token})
    BY <1>0, <1>2 DEF RotateToken, Fits, Typed
  <2>2. PICK a : /\ Becomes(j, a) /\ a.stage = "ok" /\ a.token # 0
                 /\ live' = (live \ {j.token}) \cup {a.token}
                 /\ UNCHANGED <<stored, tab, crossed>>
                 /\ \A i \in 1..Len(owner) : owner'[i] = owner[i]
                 /\ disturbed' = (disturbed \/ j.tab = Gone)
    BY <1>0, <2>1, IssueShape
  <2>3. a.kind = "renewal" /\ a.tab = j.tab
    BY <2>1, <2>2 DEF Becomes
  <2>4. ~disturbed' => Works(a)'
    BY <1>0, <2>1, <2>2, <2>3 DEF Works
  <2> QED BY <2>1, <2>2, <2>3, <2>4 DEF Answered, Fits
<1>3. CASE SignIn(j)
  <2>1. j.kind = "form" /\ j.stage = "sent" /\ j.user \in Accounts
    BY <1>0, <1>3 DEF SignIn, Fits
  <2>2. CASE IssueSession(j, j.user, {})
    <3>1. PICK a : /\ Becomes(j, a) /\ a.stage = "ok" /\ a.token # 0
                   /\ a.user = owner'[a.token]
                   /\ live' = live \cup {a.token}
                   /\ UNCHANGED <<stored, tab, crossed>>
                   /\ \A i \in 1..Len(owner) : owner'[i] = owner[i]
                   /\ disturbed' = (disturbed \/ j.tab = Gone)
      BY <1>0, <2>1, <2>2, IssueShape
    <3>2. a.kind = "form" /\ a.tab = j.tab
      BY <2>1, <3>1 DEF Becomes
    <3>3. ~disturbed' => Works(a)'
      BY <1>0, <2>1, <3>1, <3>2 DEF Works
    <3> QED BY <2>1, <3>1, <3>2, <3>3 DEF Answered, Fits
  <2>3. CASE Refuse(j) /\ UNCHANGED <<owner, live, stale, stored, tab, disturbed, crossed>>
    <3>1. PICK a : Becomes(j, a) /\ a.stage = "failed"
      BY <1>0, <2>3, RefuseShape
    <3>2. a.kind = "form" /\ a.tab = j.tab
      BY <2>1, <3>1 DEF Becomes
    <3> QED BY <1>0, <2>1, <2>3, <3>1, <3>2 DEF Answered, Fits, Works
  <2> QED BY <1>3, <2>2, <2>3 DEF SignIn
<1>4. CASE SignOut(j)
  <2> DEFINE found == Authenticated(j) /\ owner[j.token] = owner[j.access]
             answer == [j EXCEPT !.stage = IF Authenticated(j) THEN "ok" ELSE "failed"]
  <2>1. PICK a : /\ a.tab = j.tab /\ a.kind = j.kind /\ a.access = j.access
                 /\ a.stage \in {"ok", "failed"} /\ Reply(j, a)
    <3>1. /\ answer.tab = j.tab /\ answer.kind = j.kind /\ answer.access = j.access
          /\ answer.stage \in {"ok", "failed"}
      BY DEF Typed, Job
    <3>2. Reply(j, answer)
      BY <1>4 DEF SignOut
    <3> HIDE DEF answer
    <3> QED BY <3>1, <3>2
  <2>2. /\ j.kind = "logout" /\ j.stage = "sent"
        /\ live' = (IF found THEN live \ {j.token} ELSE live)
        /\ disturbed' = (disturbed \/ ~found)
        /\ UNCHANGED <<owner, stored, tab, crossed>>
    BY <1>4 DEF SignOut
  <2>3. found \in BOOLEAN /\ (found => live' = live \ {j.token})
    BY <2>2
  <2> HIDE DEF answer, found
  <2>4. Becomes(j, a)
    BY <1>0, <2>1, <2>2, ReplyShape
  <2>5. ~disturbed' => live' = {}
    BY <1>0, <2>2, <2>3 DEF Works
  <2>6. ~disturbed' => Works(a)'
    BY <1>0, <2>1, <2>2, <2>5 DEF Works
  <2>7. Fits(a)' /\ (disturbed => disturbed')
    BY <1>0, <2>1, <2>2 DEF Fits
  <2> QED BY <2>1, <2>2, <2>4, <2>6, <2>7 DEF Answered
<1>5. CASE ChangePassword(j)
  <2>0. /\ j.kind = "password" /\ j.stage = "sent"
        /\ UNCHANGED <<owner, stored, tab, disturbed, crossed>>
    BY <1>5 DEF ChangePassword
  <2>1. CASE Refuse(j) /\ UNCHANGED live
    <3>1. PICK a : Becomes(j, a) /\ a.stage = "failed"
      BY <1>0, <2>1, RefuseShape
    <3>2. a.kind = "password" /\ a.tab = j.tab
      BY <2>0, <3>1 DEF Becomes
    <3> QED BY <1>0, <2>0, <2>1, <3>1, <3>2 DEF Answered, Fits, Works, StoredOnly
  <2>2. CASE live' = live \ Swept(j) /\ Reply(j, [j EXCEPT !.stage = "ok"])
    <3> DEFINE a == [j EXCEPT !.stage = "ok"]
    <3>1. a.tab = j.tab /\ a.kind = j.kind /\ a.access = j.access /\ a.stage = "ok"
      BY DEF Typed, Job
    <3>2. Reply(j, a)
      BY <2>2
    <3> HIDE DEF a
    <3>3. Becomes(j, a)
      BY <1>0, <3>1, <3>2, ReplyShape
    <3>4. ~disturbed => live' = live
      BY <1>0, <2>0, <2>2 DEF Works, StoredOnly, Swept
    <3> QED BY <1>0, <2>0, <3>1, <3>3, <3>4 DEF Answered, Fits, Works, StoredOnly
  <2> QED BY <1>5, <2>1, <2>2 DEF ChangePassword
<1>6. CASE WhoAmI(j)
  <2>0. /\ j.kind \in {"me", "name", "refresh"} /\ j.stage = "sent"
        /\ UNCHANGED <<owner, live, stored, tab, crossed>>
        /\ disturbed' = (disturbed \/ (j.kind = "me" /\ ~Authenticated(j)))
    BY <1>6 DEF WhoAmI
  <2>1. CASE Authenticated(j)
    <3> DEFINE answer == [j EXCEPT !.stage = "ok", !.user = owner[j.access]]
    <3>1. PICK a : /\ a.tab = j.tab /\ a.kind = j.kind /\ a.access = j.access /\ a.stage = "ok"
                   /\ a.user = owner[j.access] /\ j.access # 0 /\ Reply(j, a)
      <4>1. /\ answer.tab = j.tab /\ answer.kind = j.kind /\ answer.access = j.access
            /\ answer.stage = "ok" /\ answer.user = owner[j.access] /\ j.access # 0
        BY <2>1 DEF Typed, Job, Authenticated
      <4>2. Reply(j, answer)
        BY <1>6, <2>1 DEF WhoAmI
      <4> HIDE DEF answer
      <4> QED BY <4>1, <4>2
    <3>3. Becomes(j, a)
      BY <1>0, <3>1, ReplyShape
    <3>4. Fits(a)'
      BY <2>0, <3>1 DEF Fits
    <3>5. disturbed' = disturbed
      BY <1>0, <2>0, <2>1
    <3>6. j.kind \in SessionWork /\ ~disturbed' => Works(a)'
      BY <1>0, <2>0, <3>1, <3>5 DEF Works, StoredOnly
    <3> QED BY <2>0, <3>1, <3>3, <3>4, <3>5, <3>6 DEF Answered
  <2>2. CASE ~Authenticated(j)
    <3>1. PICK a : Becomes(j, a) /\ a.stage = "failed"
      BY <1>0, <1>6, <2>2, RefuseShape DEF WhoAmI
    <3>2. a.kind = j.kind
      BY <3>1 DEF Becomes
    <3>3. Fits(a)'
      BY <2>0, <3>1, <3>2 DEF Fits
    <3>4. /\ disturbed => disturbed'
          /\ j.kind \in SessionWork => disturbed'
          /\ j.kind \notin SessionWork => disturbed' = disturbed
      BY <1>0, <2>0, <2>2
    <3> QED BY <2>0, <3>1, <3>3, <3>4 DEF Answered
  <2> QED BY <2>1, <2>2
<1>7. CASE Lose(j)
  <2>1. /\ j.stage # "failed" /\ UNCHANGED <<owner, live, stored, tab, crossed>>
        /\ disturbed' = (disturbed \/ j.kind \in SessionWork)
    BY <1>7 DEF Lose
  <2>2. PICK a : Becomes(j, a) /\ a.stage = "failed"
    BY <1>0, <1>7, RefuseShape DEF Lose
  <2>3. Fits(a)'
    BY <2>2 DEF Fits
  <2>4. /\ disturbed => disturbed'
        /\ j.kind \in SessionWork => disturbed'
        /\ j.kind \notin SessionWork => disturbed' = disturbed
    BY <1>0, <2>1
  <2> QED BY <2>1, <2>2, <2>3, <2>4 DEF Answered
<1> QED BY <1>1, <1>2, <1>3, <1>4, <1>5, <1>6, <1>7 DEF Serve

LEMMA ServeStep ==
  ASSUME Typed, TabDiscipline, NEW j \in jobs, Serve(j) \/ Lose(j)
  PROVE  TabDiscipline'
<1>0. PICK a : Answered(j, a)
  BY ServeShape
<1>1. /\ JobsHaveTabs /\ (\A k \in jobs : Fits(k)) /\ (\A t \in Tabs : Calm(t)) /\ CalmBrowser
      /\ Len(owner) \in Nat
  BY FitsAll, CalmAll DEF TabDiscipline, Typed
<1>2. /\ a.tab = j.tab /\ a.kind = j.kind /\ (a.stage # "failed" => a.access = j.access)
      /\ j.stage # "failed" /\ UNCHANGED <<stored, tab, crossed>> /\ Fits(a)'
      /\ \A k \in jobs' : k = a \/ (k \in jobs /\ k # j)
      /\ j.tab # Gone => a \in jobs'
      /\ a \in jobs' /\ a.tab = Gone => a.stage \in Early
  BY <1>0 DEF Answered, Becomes
<1>3. \A i \in 1..Len(owner) : owner'[i] = owner[i]
  BY <1>0 DEF Answered
<1>4. JobsHaveTabs'
  BY <1>1, <1>2 DEF JobsHaveTabs, Early
<1>5. \A k \in jobs' : Fits(k)'
  <2> SUFFICES ASSUME NEW k \in jobs, k \in jobs', k # a PROVE Fits(k)'
    BY <1>2
  <2>1. Fits(k) /\ k.token \in 0..Len(owner) /\ k.access \in 0..Len(owner)
    BY <1>1, JobFields
  <2>2. /\ k.token # 0 => owner'[k.token] = owner[k.token]
        /\ k.access # 0 => owner'[k.access] = owner[k.access]
    BY <1>1, <1>3, <2>1
  <2> QED BY <2>1, <2>2 DEF Fits
<1>6. \A t \in Tabs : Calm(t)'
  <2> SUFFICES ASSUME NEW t \in Tabs, t \notin crossed PROVE Calm(t)'
    BY <1>2 DEF Calm
  <2>1. \A k, l \in jobs : k.tab = t /\ l.tab = t /\ {k.kind, l.kind} \subseteq UserKinds => k = l
    BY <1>1 DEF Calm
  <2>2. \A k, l \in jobs' : k.tab = t /\ l.tab = t /\ {k.kind, l.kind} \subseteq UserKinds => k = l
    BY <1>2, <2>1
  <2>3. \A k \in jobs' : k.tab = t =>
          /\ k.kind \in {"me", "name", "refresh"} /\ k.stage # "failed" => k.access = tab[t].access
          /\ k.kind = "renewal" => tab[t].user = Nobody
    BY <1>1, <1>2 DEF Calm
  <2>4. tab[t].user # Nobody => tab[t].access # 0 /\ owner'[tab[t].access] = tab[t].user
    <3>1. tab[t].access \in 0..Len(owner)
      BY DEF Typed
    <3> QED BY <1>1, <1>3, <3>1 DEF Calm
  <2> QED BY <1>2, <2>2, <2>3, <2>4 DEF Calm
<1>7. ~disturbed' =>
        /\ \A k, l \in jobs' : {k.kind, l.kind} \subseteq SessionWork => k = l
        /\ (\A k \in jobs' : k.kind \notin SessionWork) => live' = StoredOnly'
        /\ \A k \in jobs' : Works(k)'
  <2> SUFFICES ASSUME ~disturbed'
               PROVE  /\ \A k, l \in jobs' : {k.kind, l.kind} \subseteq SessionWork => k = l
                      /\ (\A k \in jobs' : k.kind \notin SessionWork) => live' = StoredOnly'
                      /\ \A k \in jobs' : Works(k)'
    OBVIOUS
  <2>1. /\ \A k, l \in jobs : {k.kind, l.kind} \subseteq SessionWork => k = l
        /\ (\A k \in jobs : k.kind \notin SessionWork) => live = StoredOnly
        /\ \A k \in jobs : Works(k)
    BY <1>0, <1>1, WorksAll DEF Answered
  <2>2. \A k, l \in jobs' : {k.kind, l.kind} \subseteq SessionWork => k = l
    BY <1>2, <2>1
  <2>3. CASE j.kind \in SessionWork
    <3>1. a \in jobs' /\ Works(a)'
      BY <1>0, <1>2, <2>1, <2>3 DEF Answered, Works
    <3>2. \A k \in jobs' : k # a => k.kind \notin SessionWork
      BY <1>2, <2>2, <2>3, <3>1
    <3>3. \A k : k.kind \notin SessionWork => Works(k)'
      BY DEF Works, SessionWork, SessionKinds
    <3> QED BY <1>2, <2>2, <2>3, <3>1, <3>2, <3>3
  <2>4. CASE j.kind \notin SessionWork
    <3>1. live' = live /\ StoredOnly' = StoredOnly
      BY <1>0, <1>2, <2>4 DEF Answered, StoredOnly
    <3>2. \A k \in jobs : Works(k)'
      BY <1>2, <2>1, <3>1 DEF Works
    <3>3. Works(a)'
      BY <1>2, <2>4 DEF Works, SessionWork, SessionKinds
    <3>4. (\A k \in jobs' : k.kind \notin SessionWork) => \A k \in jobs : k.kind \notin SessionWork
      <4>1. \A k \in jobs : k = j \/ k \in jobs'
        BY <1>0 DEF Answered, Becomes
      <4> QED BY <2>4, <4>1
    <3> QED BY <1>2, <2>1, <2>2, <3>1, <3>2, <3>3, <3>4
  <2> QED BY <2>3, <2>4
<1> QED BY <1>4, <1>5, <1>6, <1>7, Kept

-----------------------------------------------------------------------------
(* A tab handles an answer.                                                  *)

\* What holds once the tab t of j, its state then after, has handled j and has
\* sent the requests B, if any.
Handled(j, t, after, B) ==
  /\ t = j.tab /\ t \in Tabs /\ tab[t].open /\ after.open
  /\ tab' = [tab EXCEPT ![t] = after]
  /\ jobs' = (jobs \ {j}) \cup B
  /\ \A b, c \in B : b = c
  /\ \A b \in B : /\ b.tab = t /\ b.stage = "sent" /\ b.kind \in {"me", "refresh"}
                  /\ b.access = after.access /\ j.kind \in UserKinds
  /\ j.kind \notin UserKinds => after = tab[t]
  /\ j.kind \in UserKinds /\ t \notin crossed /\ after.user # Nobody =>
       after.access # 0 /\ owner[after.access] = after.user
  /\ UNCHANGED <<owner, live, crossed, disturbed>>
  /\ j.kind \notin SessionWork => stored' = stored /\ \A b \in B : b.kind \notin SessionWork
  /\ j.kind \in SessionWork /\ ~disturbed => live = StoredOnly'

LEMMA HandleShape ==
  ASSUME Typed, TabDiscipline, NEW j \in jobs, Handle(j)
  PROVE  \E after, B : Handled(j, j.tab, after, B)
<1> USE DEF SessionWork, SessionKinds, UserKinds
<1> DEFINE t == j.tab
<1>0. /\ Fits(j) /\ (~disturbed => Works(j)) /\ UNCHANGED <<owner, live, crossed, disturbed>>
  BY FitsAll, WorksAll DEF TabDiscipline, Handle, Restore, Restored, NotRestored,
     FormAnswered, LoggedOut, NameSaved, UserRefreshed, PasswordAnswered, server
<1>1. /\ j.stage \in {"ok", "failed"} /\ t \in Tabs /\ tab[t].open /\ tab[t] \in Tab
      /\ DOMAIN tab = Tabs /\ tab = [tab EXCEPT ![t] = tab[t]]
  BY JobFields DEF TabDiscipline, JobsHaveTabs, Typed, Handle, Restore, Restored,
     NotRestored, FormAnswered, LoggedOut, NameSaved, UserRefreshed, PasswordAnswered
<1>2. t \notin crossed =>
        /\ j.kind \in {"me", "name", "refresh"} /\ j.stage # "failed" => j.access = tab[t].access
        /\ j.kind = "renewal" => tab[t].user = Nobody
        /\ tab[t].user # Nobody => tab[t].access # 0 /\ owner[tab[t].access] = tab[t].user
  BY <1>1, CalmAll DEF TabDiscipline, Calm
<1>3. CASE Restore(j)
  <2>1. PICK b : /\ b.tab = t /\ b.stage = "sent" /\ b.kind = "me" /\ b.access = j.token
                 /\ jobs' = (jobs \ {j}) \cup {b}
    <3> DEFINE r == [Request(j.tab, "me", 0, Nobody) EXCEPT !.access = j.token]
    <3>1. r.tab = t /\ r.stage = "sent" /\ r.kind = "me" /\ r.access = j.token
      BY DEF Request
    <3>2. jobs' = (jobs \ {j}) \cup {r}
      BY <1>3 DEF Restore
    <3> HIDE DEF r, t
    <3> QED BY <3>1, <3>2
  <2>2. PICK after : /\ after.open /\ after.user = tab[t].user /\ after.access = j.token
                     /\ tab' = [tab EXCEPT ![t] = after]
    <3>1. [tab[t] EXCEPT !.access = j.token].open = tab[t].open
          /\ [tab[t] EXCEPT !.access = j.token].user = tab[t].user
          /\ [tab[t] EXCEPT !.access = j.token].access = j.token
      BY <1>1 DEF Tab
    <3>2. tab' = [tab EXCEPT ![t] = [tab[t] EXCEPT !.access = j.token]]
      BY <1>1, <1>3 DEF Restore
    <3> QED BY <1>1, <3>1, <3>2
  <2>3. j.kind = "renewal" /\ j.stage = "ok" /\ stored' = j.token /\ j.token # 0
    BY <1>0, <1>3 DEF Restore, Store, Fits
  <2>4. ~disturbed => live = StoredOnly'
    BY <1>0, <2>3 DEF Works, StoredOnly
  <2> HIDE DEF t
  <2>5. Handled(j, j.tab, after, {b})
    BY <1>0, <1>1, <1>2, <2>1, <2>2, <2>3, <2>4 DEF Handled, t
  <2> QED BY <2>5
<1>4. CASE Restored(j) \/ (UserRefreshed(j) /\ j.stage = "ok")
  <2>1. PICK after : /\ after.open /\ after.user = j.user /\ after.access = tab[t].access
                     /\ tab' = [tab EXCEPT ![t] = after]
    <3>1. CASE Restored(j)
      <4> DEFINE x == [tab[t] EXCEPT !.user = j.user, !.initializing = FALSE]
      <4>1. x.open = tab[t].open /\ x.user = j.user /\ x.access = tab[t].access
        BY <1>1 DEF Tab
      <4>2. tab' = [tab EXCEPT ![t] = x]
        BY <1>1, <3>1 DEF Restored
      <4> HIDE DEF x
      <4> QED BY <1>1, <4>1, <4>2
    <3>2. CASE UserRefreshed(j) /\ j.stage = "ok"
      <4> DEFINE x == [tab[t] EXCEPT !.user = j.user]
      <4>1. x.open = tab[t].open /\ x.user = j.user /\ x.access = tab[t].access
        BY <1>1 DEF Tab
      <4>2. tab' = [tab EXCEPT ![t] = x]
        BY <1>1, <3>2 DEF UserRefreshed
      <4> HIDE DEF x
      <4> QED BY <1>1, <4>1, <4>2
    <3> QED BY <1>4, <3>1, <3>2
  <2>2. /\ j.kind \in {"me", "refresh"} /\ j.stage = "ok" /\ jobs' = jobs \ {j}
        /\ stored' = stored
    BY <1>4 DEF Restored, UserRefreshed
  <2>3. j.access # 0 /\ j.user = owner[j.access]
    BY <1>0, <2>2 DEF Fits
  <2>4. j.kind \in SessionWork /\ ~disturbed => live = StoredOnly'
    BY <1>0, <2>2 DEF Works, StoredOnly
  <2> HIDE DEF t
  <2>5. Handled(j, j.tab, after, {})
    BY <1>0, <1>1, <1>2, <2>1, <2>2, <2>3, <2>4 DEF Handled, t
  <2> QED BY <2>5
<1>5. CASE NotRestored(j) \/ LoggedOut(j)
  <2>1. PICK after : /\ after.open /\ after.user = Nobody
                     /\ tab' = [tab EXCEPT ![t] = after]
    <3>1. /\ SignedOut(t).open = tab[t].open /\ SignedOut(t).user = Nobody
          /\ SignedOut(t) \in Tab
      BY <1>1 DEF SignedOut, Tab
    <3>2. \E x : x.open = SignedOut(t).open /\ x.user = Nobody /\ tab' = [tab EXCEPT ![t] = x]
      BY <1>5, <3>1 DEF NotRestored, LoggedOut, ClearSession, Tab
    <3> QED BY <1>1, <3>1, <3>2
  <2>2. /\ j.kind \in {"renewal", "me", "logout"} /\ jobs' = jobs \ {j} /\ stored' = 0
        /\ j.kind # "logout" => j.stage = "failed"
    BY <1>5 DEF NotRestored, LoggedOut, ClearSession
  <2>3. ~disturbed => live = StoredOnly'
    BY <1>0, <1>1, <2>2 DEF Works, StoredOnly
  <2> HIDE DEF t
  <2>4. Handled(j, j.tab, after, {})
    BY <1>0, <1>1, <2>1, <2>2, <2>3 DEF Handled, t
  <2> QED BY <2>4
<1>6. CASE FormAnswered(j) /\ j.stage = "ok"
  <2>1. PICK after : /\ after.open /\ after.user = j.user /\ after.access = j.token
                     /\ tab' = [tab EXCEPT ![t] = after]
    <3> DEFINE x == [tab[t] EXCEPT !.user = j.user, !.access = j.token, !.path = "app"]
    <3>1. x.open = tab[t].open /\ x.user = j.user /\ x.access = j.token
      BY <1>1 DEF Tab
    <3>2. tab' = [tab EXCEPT ![t] = x]
      BY <1>1, <1>6 DEF FormAnswered, ApplySession
    <3> HIDE DEF x
    <3> QED BY <1>1, <3>1, <3>2
  <2>2. /\ j.kind = "form" /\ j.stage = "ok" /\ jobs' = jobs \ {j} /\ stored' = j.token
        /\ j.token # 0 /\ j.user = owner[j.token]
    BY <1>0, <1>6 DEF FormAnswered, ApplySession, Store, Fits
  <2>3. ~disturbed => live = StoredOnly'
    BY <1>0, <2>2 DEF Works, StoredOnly
  <2> HIDE DEF t
  <2>4. Handled(j, j.tab, after, {})
    BY <1>0, <1>1, <2>1, <2>2, <2>3 DEF Handled, t
  <2> QED BY <2>4
<1>7. CASE \/ (FormAnswered(j) \/ UserRefreshed(j)) /\ j.stage = "failed"
           \/ PasswordAnswered(j)
           \/ NameSaved(j) /\ j.stage = "failed"
  <2>1. /\ j.kind \in {"form", "refresh", "password", "name"} /\ jobs' = jobs \ {j}
        /\ stored' = stored /\ tab' = tab /\ (j.kind = "form" => j.stage = "failed")
    BY <1>7 DEF FormAnswered, UserRefreshed, PasswordAnswered, NameSaved
  <2>2. j.kind \in SessionWork /\ ~disturbed => live = StoredOnly'
    BY <1>0, <2>1 DEF Works, StoredOnly
  <2> HIDE DEF t
  <2>3. Handled(j, j.tab, tab[j.tab], {})
    BY <1>0, <1>1, <1>2, <2>1, <2>2 DEF Handled, t
  <2> QED BY <2>3
<1>8. CASE NameSaved(j) /\ j.stage = "ok"
  <2>1. PICK b : /\ b.tab = t /\ b.stage = "sent" /\ b.kind = "refresh"
                 /\ b.access = tab[t].access /\ jobs' = (jobs \ {j}) \cup {b}
    <3> DEFINE r == Request(j.tab, "refresh", 0, Nobody)
    <3>1. r.tab = t /\ r.stage = "sent" /\ r.kind = "refresh" /\ r.access = tab[t].access
      BY DEF Request
    <3>2. jobs' = (jobs \ {j}) \cup {r}
      BY <1>8 DEF NameSaved
    <3> HIDE DEF r, t
    <3> QED BY <3>1, <3>2
  <2>2. j.kind = "name" /\ stored' = stored /\ tab' = tab
    BY <1>8 DEF NameSaved
  <2> HIDE DEF t
  <2>3. Handled(j, j.tab, tab[j.tab], {b})
    BY <1>0, <1>1, <1>2, <2>1, <2>2 DEF Handled, t
  <2> QED BY <2>3
<1>9. j.stage = "ok" \/ j.stage = "failed"
  BY <1>1
<1> QED BY <1>3, <1>4, <1>5, <1>6, <1>7, <1>8, <1>9 DEF Handle

LEMMA HandleStep ==
  ASSUME Typed, TabDiscipline, NEW j \in jobs, Handle(j)
  PROVE  TabDiscipline'
<1>0. PICK t, after, B : Handled(j, t, after, B)
  BY HandleShape
<1>1. /\ JobsHaveTabs /\ (\A k \in jobs : Fits(k)) /\ (\A s \in Tabs : Calm(s)) /\ CalmBrowser
  BY FitsAll, CalmAll DEF TabDiscipline
<1>2. /\ t = j.tab /\ t \in Tabs /\ t # Gone /\ tab[t].open /\ tab'[t] = after /\ after.open
      /\ \A s \in Tabs : s # t => tab'[s] = tab[s]
      /\ \A s \in Tabs : tab'[s].open = tab[s].open
      /\ UNCHANGED <<owner, live, crossed, disturbed>>
  BY <1>0 DEF Handled, Typed
<1>3. /\ \A k \in jobs' : (k \in jobs /\ k # j) \/ k \in B
      /\ \A b, c \in B : b = c
      /\ \A b \in B : b.tab = t /\ b.stage = "sent" /\ b.kind \in {"me", "refresh"}
                      /\ b.access = after.access /\ j.kind \in UserKinds
  BY <1>0 DEF Handled
<1>4. JobsHaveTabs'
  <2>1. \A k \in jobs' : IF k.tab = Gone THEN k.stage \in {"sent", "checked"} ELSE tab'[k.tab].open
    <3> SUFFICES ASSUME NEW k \in jobs'
                 PROVE  IF k.tab = Gone THEN k.stage \in {"sent", "checked"} ELSE tab'[k.tab].open
      OBVIOUS
    <3>1. CASE k \in B
      BY <1>2, <1>3, <3>1
    <3>2. CASE k \in jobs
      <4>1. k.tab \in Tabs \cup {Gone}
        BY <3>2, JobFields
      <4> QED BY <1>1, <1>2, <3>2, <4>1 DEF JobsHaveTabs
    <3> QED BY <1>3, <3>1, <3>2
  <2>2. \A s \in Tabs : ~tab'[s].open => tab'[s] = Closed
    BY <1>1, <1>2 DEF JobsHaveTabs
  <2> QED BY <2>1, <2>2 DEF JobsHaveTabs, Closed
<1>5. \A k \in jobs' : Fits(k)'
  BY <1>1, <1>2, <1>3 DEF Fits
<1>6. \A s \in Tabs : Calm(s)'
  <2> SUFFICES ASSUME NEW s \in Tabs, s \notin crossed PROVE Calm(s)'
    BY <1>2 DEF Calm
  <2>0. /\ \A k, l \in jobs : k.tab = s /\ l.tab = s /\ {k.kind, l.kind} \subseteq UserKinds => k = l
        /\ \A k \in jobs : k.tab = s =>
             /\ k.kind \in {"me", "name", "refresh"} /\ k.stage # "failed" => k.access = tab[s].access
             /\ k.kind = "renewal" => tab[s].user = Nobody
        /\ tab[s].user # Nobody => tab[s].access # 0 /\ owner[tab[s].access] = tab[s].user
    BY <1>1 DEF Calm
  <2>1. CASE s # t
    <3>1. \A k \in jobs' : k.tab = s => k \in jobs
      BY <1>3, <2>1
    <3> QED BY <1>2, <2>0, <2>1, <3>1 DEF Calm
  <2>2. CASE s = t /\ j.kind \in UserKinds
    <3>1. \A k \in jobs' : k.tab = t /\ k.kind \in UserKinds => k \in B
      BY <1>2, <1>3, <2>0, <2>2
    <3>2. \A k, l \in jobs' : k.tab = t /\ l.tab = t /\ {k.kind, l.kind} \subseteq UserKinds => k = l
      BY <1>3, <3>1
    <3>3. \A k \in jobs' : k.tab = t =>
             /\ k.kind \in {"me", "name", "refresh"} => k.access = after.access
             /\ k.kind # "renewal"
      BY <1>3, <3>1 DEF UserKinds
    <3>4. after.user # Nobody => after.access # 0 /\ owner[after.access] = after.user
      BY <1>0, <2>2 DEF Handled
    <3> QED BY <1>2, <2>2, <3>2, <3>3, <3>4 DEF Calm
  <2>3. CASE s = t /\ j.kind \notin UserKinds
    <3>1. after = tab[t] /\ \A k \in jobs' : k \in jobs
      BY <1>0, <1>3, <2>3 DEF Handled
    <3> QED BY <1>2, <2>0, <2>3, <3>1 DEF Calm
  <2> QED BY <2>1, <2>2, <2>3
<1>7. ~disturbed' =>
        /\ \A k, l \in jobs' : {k.kind, l.kind} \subseteq SessionWork => k = l
        /\ (\A k \in jobs' : k.kind \notin SessionWork) => live' = StoredOnly'
        /\ \A k \in jobs' : Works(k)'
  <2> SUFFICES ASSUME ~disturbed
               PROVE  /\ \A k, l \in jobs' : {k.kind, l.kind} \subseteq SessionWork => k = l
                      /\ (\A k \in jobs' : k.kind \notin SessionWork) => live' = StoredOnly'
                      /\ \A k \in jobs' : Works(k)'
    BY <1>2
  <2>1. /\ \A k, l \in jobs : {k.kind, l.kind} \subseteq SessionWork => k = l
        /\ (\A k \in jobs : k.kind \notin SessionWork) => live = StoredOnly
        /\ \A k \in jobs : Works(k)
    BY <1>1, WorksAll
  <2>2. CASE j.kind \in SessionWork
    <3>1. \A k \in jobs' : k.kind \in SessionWork => k \in B
      BY <1>3, <2>1, <2>2
    <3>2. live' = StoredOnly'
      BY <1>0, <1>2, <2>2 DEF Handled
    <3>3. \A k \in jobs' : k.kind \in SessionWork => Works(k)'
      BY <1>2, <1>3, <3>1, <3>2 DEF Works
    <3>4. \A k : k.kind \notin SessionWork => Works(k)'
      BY DEF Works, SessionWork, SessionKinds
    <3> QED BY <1>3, <3>1, <3>2, <3>3, <3>4
  <2>3. CASE j.kind \notin SessionWork
    <3>1. stored' = stored /\ \A b \in B : b.kind \notin SessionWork
      BY <1>0, <2>3 DEF Handled
    <3>2. StoredOnly' = StoredOnly
      BY <3>1 DEF StoredOnly
    <3>3. \A k \in jobs' : Works(k)'
      <4>1. \A k \in jobs : Works(k)'
        BY <1>2, <2>1, <3>1, <3>2 DEF Works
      <4>2. \A k \in B : Works(k)'
        BY <3>1 DEF Works, SessionWork, SessionKinds
      <4> QED BY <1>3, <4>1, <4>2
    <3>4. (\A k \in jobs' : k.kind \notin SessionWork) => \A k \in jobs : k.kind \notin SessionWork
      <4>1. \A k \in jobs : k = j \/ k \in jobs'
        BY <1>0 DEF Handled
      <4> QED BY <2>3, <4>1
    <3> QED BY <1>2, <1>3, <2>1, <3>1, <3>2, <3>3, <3>4
  <2> QED BY <2>2, <2>3
<1> QED BY <1>4, <1>5, <1>6, <1>7, Kept

-----------------------------------------------------------------------------
(* The user acts.                                                            *)

\* What holds once the user of tab t has changed its page and has had it send
\* the requests R, if any.
Acted(t, after, R) ==
  /\ after.open /\ after.user = tab[t].user /\ after.access = tab[t].access
  /\ tab' = [tab EXCEPT ![t] = after]
  /\ jobs' = jobs \cup R /\ (\A r, q \in R : r = q)
  /\ UNCHANGED <<owner, live, stored>> /\ crossed \subseteq crossed' /\ (disturbed => disturbed')
  /\ \A r \in R :
       /\ r.tab = t /\ r.stage = "sent" /\ r.access = tab[t].access /\ Fits(r)
       /\ r.kind = "renewal" => tab[t].user = Nobody
       /\ r.kind \in UserKinds /\ Doing(t, UserKinds) => t \in crossed'
       /\ r.kind \in SessionWork /\ ~disturbed' =>
            Works(r) /\ \A k \in jobs : k.kind \notin SessionWork

LEMMA ActedStep ==
  ASSUME Typed, TabDiscipline, NEW t \in Tabs, NEW after, NEW R, Acted(t, after, R)
  PROVE  TabDiscipline'
<1>1. /\ JobsHaveTabs /\ (\A k \in jobs : Fits(k)) /\ (\A s \in Tabs : Calm(s)) /\ CalmBrowser
  BY FitsAll, CalmAll DEF TabDiscipline
<1>2. /\ tab'[t] = after /\ after.open /\ after.user = tab[t].user /\ after.access = tab[t].access
      /\ \A s \in Tabs : s # t => tab'[s] = tab[s]
      /\ UNCHANGED <<owner, live, stored>> /\ crossed \subseteq crossed' /\ (disturbed => disturbed')
      /\ jobs' = jobs \cup R /\ t # Gone
  BY DEF Acted, Typed
<1>3. /\ \A r, q \in R : r = q
      /\ \A r \in R : r.tab = t /\ r.stage = "sent" /\ r.access = tab[t].access /\ Fits(r)
  BY DEF Acted
<1>4. JobsHaveTabs'
  <2>1. \A k \in jobs' : IF k.tab = Gone THEN k.stage \in {"sent", "checked"} ELSE tab'[k.tab].open
    <3> SUFFICES ASSUME NEW k \in jobs'
                 PROVE  IF k.tab = Gone THEN k.stage \in {"sent", "checked"} ELSE tab'[k.tab].open
      OBVIOUS
    <3>1. CASE k \in R
      BY <1>2, <1>3, <3>1
    <3>2. CASE k \in jobs
      <4>1. k.tab \in Tabs \cup {Gone}
        BY <3>2, JobFields
      <4> QED BY <1>1, <1>2, <3>2, <4>1 DEF JobsHaveTabs
    <3> QED BY <1>2, <3>1, <3>2
  <2>2. \A s \in Tabs : ~tab'[s].open => tab'[s] = Closed
    BY <1>1, <1>2 DEF JobsHaveTabs
  <2> QED BY <2>1, <2>2 DEF JobsHaveTabs, Closed
<1>5. \A k \in jobs' : Fits(k)'
  <2>1. \A k \in jobs' : Fits(k)
    BY <1>1, <1>2, <1>3
  <2> QED BY <1>2, <2>1 DEF Fits
<1>6. \A s \in Tabs : Calm(s)'
  <2> SUFFICES ASSUME NEW s \in Tabs, s \notin crossed' PROVE Calm(s)'
    BY DEF Calm
  <2>0. /\ \A k, l \in jobs : k.tab = s /\ l.tab = s /\ {k.kind, l.kind} \subseteq UserKinds => k = l
        /\ \A k \in jobs : k.tab = s =>
             /\ k.kind \in {"me", "name", "refresh"} /\ k.stage # "failed" => k.access = tab[s].access
             /\ k.kind = "renewal" => tab[s].user = Nobody
        /\ tab[s].user # Nobody => tab[s].access # 0 /\ owner[tab[s].access] = tab[s].user
    BY <1>1, <1>2 DEF Calm
  <2>1. tab'[s].user = tab[s].user /\ tab'[s].access = tab[s].access
    BY <1>2
  <2>2. \A k, l \in jobs' : k.tab = s /\ l.tab = s /\ {k.kind, l.kind} \subseteq UserKinds => k = l
    <3>1. \A r \in R : r.tab = s /\ r.kind \in UserKinds =>
            \A k \in jobs : k.tab = s => k.kind \notin UserKinds
      BY <1>3 DEF Acted, Doing, JobsOf
    <3> QED BY <1>2, <1>3, <2>0, <3>1
  <2>3. \A k \in jobs' : k.tab = s =>
             /\ k.kind \in {"me", "name", "refresh"} /\ k.stage # "failed" => k.access = tab[s].access
             /\ k.kind = "renewal" => tab[s].user = Nobody
    BY <1>2, <1>3, <2>0 DEF Acted
  <2> QED BY <1>2, <2>0, <2>1, <2>2, <2>3 DEF Calm
<1>7. ~disturbed' =>
        /\ \A k, l \in jobs' : {k.kind, l.kind} \subseteq SessionWork => k = l
        /\ (\A k \in jobs' : k.kind \notin SessionWork) => live' = StoredOnly'
        /\ \A k \in jobs' : Works(k)'
  <2> SUFFICES ASSUME ~disturbed'
               PROVE  /\ \A k, l \in jobs' : {k.kind, l.kind} \subseteq SessionWork => k = l
                      /\ (\A k \in jobs' : k.kind \notin SessionWork) => live' = StoredOnly'
                      /\ \A k \in jobs' : Works(k)'
    OBVIOUS
  <2>1. /\ \A k, l \in jobs : {k.kind, l.kind} \subseteq SessionWork => k = l
        /\ (\A k \in jobs : k.kind \notin SessionWork) => live = StoredOnly
        /\ \A k \in jobs : Works(k)
    BY <1>1, <1>2, WorksAll
  <2>2. \A r \in R : Works(r) /\ (r.kind \in SessionWork => \A k \in jobs : k.kind \notin SessionWork)
    BY DEF Acted, Works, SessionWork, SessionKinds
  <2>3. StoredOnly' = StoredOnly
    BY <1>2 DEF StoredOnly
  <2>4. \A k \in jobs' : Works(k)'
    <3>1. \A k \in jobs' : Works(k)
      BY <1>2, <2>1, <2>2
    <3> QED BY <1>2, <2>3, <3>1 DEF Works
  <2>5. \A k, l \in jobs' : {k.kind, l.kind} \subseteq SessionWork => k = l
    BY <1>2, <1>3, <2>1, <2>2
  <2> QED BY <1>2, <2>1, <2>3, <2>4, <2>5
<1> QED BY <1>4, <1>5, <1>6, <1>7, Kept

\* A first request of t, sent by Send.
LEMMA SendShape ==
  ASSUME Typed, TabDiscipline, NEW t \in Tabs, NEW kind, NEW token, NEW u,
         Send(t, kind, token, u), NEW after, tab' = [tab EXCEPT ![t] = after], after.open,
         after.user = tab[t].user, after.access = tab[t].access,
         UNCHANGED <<owner, live, stored>>,
         kind = "renewal" => token = stored /\ token # 0 /\ tab[t].user = Nobody,
         kind = "logout" => token = stored /\ token # 0,
         kind = "password" => token = stored,
         kind \in {"renewal", "logout", "password", "name"}
  PROVE  TabDiscipline'
<1> DEFINE r == Request(t, kind, token, u)
<1>1. /\ r.tab = t /\ r.kind = kind /\ r.stage = "sent" /\ r.token = token
      /\ r.access = tab[t].access
  BY DEF Request
<1>2. jobs' = jobs \cup {r}
  BY DEF Send
<1> HIDE DEF r
<1>3. kind \in UserKinds /\ Doing(t, UserKinds) => t \in crossed'
  BY DEF Send
<1>4. crossed \subseteq crossed' /\ (disturbed => disturbed')
  BY DEF Send
<1>5. Fits(r)
  BY <1>1 DEF Fits
<1>6. ASSUME kind \in SessionWork, ~disturbed' PROVE Works(r) /\ \A k \in jobs : k.kind \notin SessionWork
  <2>1. ~disturbed /\ \A k \in jobs : k.kind \notin SessionWork
    BY <1>6 DEF Send, SessionWork, SessionKinds
  <2>2. live = StoredOnly
    BY <2>1, WorksAll DEF TabDiscipline
  <2>3. t # Gone
    OBVIOUS
  <2> QED BY <1>1, <2>1, <2>2, <2>3 DEF Works, StoredOnly
<1>7. Acted(t, after, {r})
  BY <1>1, <1>2, <1>3, <1>4, <1>5, <1>6 DEF Acted
<1> QED BY <1>7, ActedStep

LEMMA UserStep ==
  ASSUME Typed, TabDiscipline, NEW t \in Tabs,
         \/ \E path \in Paths : Mount(t, path) \/ Navigate(t, path)
         \/ \E u \in Accounts : SubmitForm(t, u)
         \/ Close(t) \/ ClickLogout(t) \/ SaveName(t) \/ SubmitPassword(t) \/ Redirect(t)
  PROVE  TabDiscipline'
<1>0. /\ JobsHaveTabs /\ (\A k \in jobs : Fits(k)) /\ (\A s \in Tabs : Calm(s)) /\ CalmBrowser
      /\ tab[t] \in Tab /\ tab = [tab EXCEPT ![t] = tab[t]] /\ t # Gone
      /\ disturbed \in BOOLEAN
  BY FitsAll, CalmAll DEF TabDiscipline, Typed
<1>1. ASSUME NEW path \in Paths, Mount(t, path) PROVE TabDiscipline'
  <2>1. PICK after : /\ after.open /\ after.user = Nobody /\ after.access = 0
                     /\ tab' = [tab EXCEPT ![t] = after]
    <3> DEFINE x == [tab[t] EXCEPT !.open = TRUE, !.initializing = (stored # 0), !.path = path]
    <3>1. tab[t] = Closed
      BY <1>0, <1>1 DEF Mount, JobsHaveTabs
    <3>2. x.open /\ x.user = Nobody /\ x.access = 0
      BY <3>1 DEF Closed
    <3>3. tab' = [tab EXCEPT ![t] = x]
      BY <1>0, <1>1 DEF Mount
    <3> HIDE DEF x
    <3> QED BY <3>2, <3>3
  <2>2. tab[t].user = Nobody /\ tab[t].access = 0 /\ UNCHANGED <<owner, live, stored>>
    BY <1>0, <1>1 DEF Mount, JobsHaveTabs, Closed, server
  <2>3. CASE stored = 0
    <3>1. Acted(t, after, {})
      BY <1>1, <2>1, <2>2, <2>3 DEF Acted, Mount
    <3> QED BY <3>1, ActedStep
  <2>4. CASE stored # 0
    <3>1. Send(t, "renewal", stored, Nobody)
      BY <1>1, <2>4 DEF Mount
    <3> QED BY <2>1, <2>2, <2>4, <3>1, SendShape
  <2> QED BY <2>3, <2>4
<1>2. ASSUME NEW path, tab[t].open, ShowPath(t, path) PROVE TabDiscipline'
  <2> DEFINE x == [tab[t] EXCEPT !.path = path]
  <2>1. x.open /\ x.user = tab[t].user /\ x.access = tab[t].access
    BY <1>0, <1>2 DEF Tab
  <2>2. tab' = [tab EXCEPT ![t] = x] /\ UNCHANGED <<server, stored, jobs, disturbed, crossed>>
    BY <1>0, <1>2 DEF ShowPath
  <2> HIDE DEF x
  <2>3. Acted(t, x, {})
    BY <2>1, <2>2 DEF Acted, server
  <2> QED BY <2>3, ActedStep
<1>3. ASSUME NEW u \in Accounts, SubmitForm(t, u) PROVE TabDiscipline'
  <2> DEFINE r == Request(t, "form", 0, u)
  <2>1. /\ r.tab = t /\ r.kind = "form" /\ r.stage = "sent" /\ r.user = u
        /\ r.access = tab[t].access
    BY DEF Request
  <2>2. jobs' = jobs \cup {r} /\ UNCHANGED <<owner, live, stored, tab>> /\ tab[t].open
    BY <1>3 DEF SubmitForm, server
  <2> HIDE DEF r
  <2>3. /\ Doing(t, UserKinds) => t \in crossed'
        /\ crossed \subseteq crossed' /\ (disturbed => disturbed')
    BY <1>3 DEF SubmitForm
  <2>4. Fits(r)
    BY <2>1 DEF Fits
  <2>5. ASSUME ~disturbed' PROVE Works(r) /\ \A k \in jobs : k.kind \notin SessionWork
    <3>1. ~disturbed /\ stored = 0 /\ \A k \in jobs : k.kind \notin SessionWork
      BY <1>3, <2>5 DEF SubmitForm, SessionWork, SessionKinds
    <3>2. live = StoredOnly
      BY <1>0, <3>1, WorksAll
    <3> QED BY <1>0, <2>1, <3>1, <3>2 DEF Works, StoredOnly
  <2>6. Acted(t, tab[t], {r})
    BY <1>0, <2>1, <2>2, <2>3, <2>4, <2>5 DEF Acted
  <2> QED BY <2>6, ActedStep
<1>4. CASE Close(t)
  <2>1. /\ tab' = [tab EXCEPT ![t] = Closed] /\ UNCHANGED <<owner, live, stored>>
        /\ crossed' = crossed \ {t} /\ (disturbed => disturbed')
        /\ ~disturbed' => \A k \in jobs : k.tab = t => k.kind \notin SessionWork
    BY <1>4 DEF Close, server, Doing, JobsOf, SessionWork
  <2>2. \A k \in jobs' : \/ k \in jobs /\ k.tab # t
                         \/ \E j \in jobs : /\ j.tab = t /\ j.kind \in SessionKinds
                                            /\ j.stage \in Early /\ k = [j EXCEPT !.tab = Gone]
    BY <1>4 DEF Close, JobsOf, Early
  <2>3. \A k \in jobs : k.tab # t => k \in jobs'
    BY <1>4 DEF Close, JobsOf
  <2>4. \A j \in jobs : \A k : k = [j EXCEPT !.tab = Gone] =>
          /\ k.tab = Gone /\ k.kind = j.kind /\ k.stage = j.stage
          /\ k.token = j.token /\ k.access = j.access /\ k.user = j.user
    BY DEF Typed, Job
  <2>5. \A k \in jobs' : \/ k \in jobs /\ k.tab # t
                         \/ k.tab = Gone /\ \E j \in jobs :
                              /\ j.tab = t /\ j.kind \in SessionKinds /\ j.stage \in Early
                              /\ k.kind = j.kind /\ k.stage = j.stage
                              /\ k.token = j.token /\ k.access = j.access /\ k.user = j.user
    BY <2>2, <2>4
  <2>6. tab'[t] = Closed /\ \A s \in Tabs : s # t => tab'[s] = tab[s]
    BY <2>1 DEF Typed
  <2>7. JobsHaveTabs'
    <3>1. \A k \in jobs' : IF k.tab = Gone THEN k.stage \in {"sent", "checked"} ELSE tab'[k.tab].open
      <4> SUFFICES ASSUME NEW k \in jobs'
                   PROVE  IF k.tab = Gone THEN k.stage \in {"sent", "checked"} ELSE tab'[k.tab].open
        OBVIOUS
      <4>1. CASE k \in jobs /\ k.tab # t
        <5>1. k.tab \in Tabs \cup {Gone}
          BY <4>1, JobFields
        <5> QED BY <1>0, <2>6, <4>1, <5>1 DEF JobsHaveTabs
      <4>2. CASE ~(k \in jobs /\ k.tab # t)
        BY <2>5, <4>2 DEF Early
      <4> QED BY <4>1, <4>2
    <3>2. \A s \in Tabs : ~tab'[s].open => tab'[s] = Closed
      BY <1>0, <2>6 DEF JobsHaveTabs
    <3> QED BY <3>1, <3>2 DEF JobsHaveTabs, Closed
  <2>8. \A k \in jobs' : Fits(k)'
    BY <1>0, <2>1, <2>5 DEF Fits
  <2>9. \A s \in Tabs : Calm(s)'
    <3> SUFFICES ASSUME NEW s \in Tabs PROVE Calm(s)'
      OBVIOUS
    <3>1. CASE s = t
      <4>1. \A k \in jobs' : k.tab # t
        BY <1>0, <2>5
      <4> QED BY <2>6, <3>1, <4>1 DEF Calm, Closed
    <3>2. CASE s # t
      <4>1. \A k \in jobs' : k.tab = s => k \in jobs
        BY <2>5
      <4> QED BY <1>0, <2>1, <2>6, <3>2, <4>1 DEF Calm
    <3> QED BY <3>1, <3>2
  <2>10. ASSUME ~disturbed'
         PROVE  /\ \A k, l \in jobs' : {k.kind, l.kind} \subseteq SessionWork => k = l
                /\ (\A k \in jobs' : k.kind \notin SessionWork) => live' = StoredOnly'
                /\ \A k \in jobs' : Works(k)'
    <3>1. \A k \in jobs' : k \in jobs
      BY <2>1, <2>5, <2>10 DEF SessionWork
    <3>2. \A k \in jobs : k \notin jobs' => k.kind \notin SessionWork
      BY <2>1, <2>3, <2>10
    <3>3. /\ \A k, l \in jobs : {k.kind, l.kind} \subseteq SessionWork => k = l
          /\ (\A k \in jobs : k.kind \notin SessionWork) => live = StoredOnly
          /\ \A k \in jobs : Works(k)
      BY <1>0, <2>1, <2>10, WorksAll
    <3>4. StoredOnly' = StoredOnly
      BY <2>1 DEF StoredOnly
    <3>5. \A k \in jobs' : Works(k)'
      BY <2>1, <3>1, <3>3, <3>4 DEF Works
    <3> QED BY <2>1, <3>1, <3>2, <3>3, <3>4, <3>5
  <2> QED BY <2>7, <2>8, <2>9, <2>10, Kept
<1>5. CASE ClickLogout(t)
  <2>0. UNCHANGED <<owner, live>> /\ tab[t].open
    BY <1>5 DEF ClickLogout, server, InApp
  <2>1. CASE stored = 0
    <3>1. PICK after : /\ after.open /\ after.user = Nobody
                       /\ tab' = [tab EXCEPT ![t] = after]
      <4> DEFINE x == [SignedOut(t) EXCEPT !.path = "public"]
      <4>1. x.open = tab[t].open /\ x.user = Nobody
        BY <1>0 DEF SignedOut, Tab
      <4>2. tab' = [tab EXCEPT ![t] = x]
        BY <1>5, <2>1 DEF ClickLogout, ClearSession
      <4> HIDE DEF x
      <4> QED BY <2>0, <4>1, <4>2
    <3>2. /\ UNCHANGED <<jobs, disturbed, stored>> /\ crossed \subseteq crossed'
          /\ t \notin crossed' => \A k \in jobs : k.tab = t => k.kind \notin UserKinds
      BY <1>5, <2>1 DEF ClickLogout, ClearSession, Doing, JobsOf
    <3>3. tab'[t] = after /\ \A s \in Tabs : s # t => tab'[s] = tab[s]
      BY <3>1 DEF Typed
    <3>4. JobsHaveTabs'
      <4>1. \A s \in Tabs : tab'[s].open = tab[s].open \/ tab'[s].open
        BY <3>1, <3>3
      <4>2. \A k \in jobs' : IF k.tab = Gone THEN k.stage \in {"sent", "checked"} ELSE tab'[k.tab].open
        BY <1>0, <3>2, <4>1, JobFields DEF JobsHaveTabs
      <4>3. \A s \in Tabs : ~tab'[s].open => tab'[s] = Closed
        BY <1>0, <3>1, <3>3 DEF JobsHaveTabs
      <4> QED BY <4>2, <4>3 DEF JobsHaveTabs, Closed
    <3>5. \A k \in jobs' : Fits(k)'
      BY <1>0, <2>0, <3>2 DEF Fits
    <3>6. \A s \in Tabs : Calm(s)'
      <4> SUFFICES ASSUME NEW s \in Tabs PROVE Calm(s)'
        OBVIOUS
      <4>1. CASE s = t
        BY <3>1, <3>2, <3>3, <4>1 DEF Calm, UserKinds
      <4>2. CASE s # t
        BY <1>0, <2>0, <3>2, <3>3, <4>2 DEF Calm
      <4> QED BY <4>1, <4>2
    <3>7. ASSUME ~disturbed'
          PROVE  /\ \A k, l \in jobs' : {k.kind, l.kind} \subseteq SessionWork => k = l
                 /\ (\A k \in jobs' : k.kind \notin SessionWork) => live' = StoredOnly'
                 /\ \A k \in jobs' : Works(k)'
      <4>1. /\ \A k, l \in jobs : {k.kind, l.kind} \subseteq SessionWork => k = l
            /\ (\A k \in jobs : k.kind \notin SessionWork) => live = StoredOnly
            /\ \A k \in jobs : Works(k)
        BY <1>0, <3>2, <3>7, WorksAll
      <4>2. StoredOnly' = StoredOnly
        BY <3>2 DEF StoredOnly
      <4>3. \A k \in jobs' : Works(k)'
        BY <2>0, <3>2, <4>1, <4>2 DEF Works
      <4> QED BY <2>0, <3>2, <4>1, <4>2, <4>3
    <3> QED BY <3>4, <3>5, <3>6, <3>7, Kept
  <2>2. CASE stored # 0
    <3>1. Send(t, "logout", stored, Nobody) /\ tab' = tab /\ stored' = stored
      BY <1>5, <2>2 DEF ClickLogout
    <3> QED BY <1>0, <2>0, <2>2, <3>1, SendShape
  <2> QED BY <2>1, <2>2
<1>6. CASE SaveName(t)
  <2>1. /\ Send(t, "name", 0, Nobody) /\ tab' = tab /\ UNCHANGED <<owner, live, stored>>
        /\ tab[t].open
    BY <1>6 DEF SaveName, server, InApp
  <2> QED BY <1>0, <2>1, SendShape
<1>7. CASE SubmitPassword(t)
  <2>1. /\ Send(t, "password", stored, Nobody) /\ tab' = tab /\ UNCHANGED <<owner, live, stored>>
        /\ tab[t].open
    BY <1>7 DEF SubmitPassword, server, InApp
  <2> QED BY <1>0, <2>1, SendShape
<1> QED BY <1>1, <1>2, <1>3, <1>4, <1>5, <1>6, <1>7 DEF Navigate, Redirect

-----------------------------------------------------------------------------
(* The theorems.                                                             *)

LEMMA DisciplineStep ==
  ASSUME Typed, TabDiscipline, [BrowserNext]_browserVars
  PROVE  TabDiscipline'
<1>1. CASE UNCHANGED browserVars \/ \E s \in Sessions : ExpireAccess(s)
  <2>1. UNCHANGED <<owner, live, stored, tab, jobs, disturbed, crossed>>
    BY <1>1 DEF browserVars, ExpireAccess
  <2> QED
    BY <2>1 DEF TabDiscipline, JobsHaveTabs, AnswersFit, CalmTabs, JobsOf, ShownUserSpeaks,
       CalmBrowser, Settled, StoredOnly
<1> QED BY <1>1, ServeStep, HandleStep, UserStep DEF BrowserNext

\* The parts of the invariant hold in every reachable state: requests have
\* tabs, answers name a session and its user, and a browser whose session
\* requests came one after the other keeps one session.
THEOREM DisciplineHolds == BrowserSpec => [](Typed /\ TabDiscipline)
<1>1. BrowserInit => Typed /\ TabDiscipline
  BY InitDiscipline
<1>2. Typed /\ TabDiscipline /\ [BrowserNext]_browserVars => (Typed /\ TabDiscipline)'
  BY TypesStep, DisciplineStep DEF TabDiscipline
<1> QED BY <1>1, <1>2, PTL DEF BrowserSpec

\* However many tabs, users and requests there are, while nothing disturbed the
\* browser's session requests, what localStorage holds between them is the one
\* session that AuthProvider can renew and logout revokes.
THEOREM StoreAgrees == BrowserSpec => []StoreMatchesServer
<1>1. TabDiscipline => StoreMatchesServer
  BY DEF TabDiscipline, CalmBrowser, StoreMatchesServer, StoredOnly
<1> QED BY <1>1, DisciplineHolds, PTL

\* However many tabs there are, one whose answers could not overtake each other
\* shows the user whose access token it sends.
THEOREM ShownUsersSpeak == BrowserSpec => []ShownUserSpeaks
<1>1. TabDiscipline => ShownUserSpeaks
  BY DEF TabDiscipline
<1> QED BY <1>1, DisciplineHolds, PTL
=============================================================================
