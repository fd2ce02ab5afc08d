---------------------- MODULE ReviewVoteServiceProofs ----------------------
(***************************************************************************)
(* Proofs about ReviewVoteService: its types, one vote per user, exact     *)
(* counts of toggles that meet no other, and truthful notifications.       *)
(***************************************************************************)
EXTENDS ReviewVoteService, FiniteSetTheorems, TLAPS

Inv == TypeOK /\ OneVotePerUser /\ VoteDiscipline

USE DEF Stages, Writing, Ended

LEMMA CountsAreNumbers ==
  ASSUME NEW rows \in SUBSET Requests, NEW v
  PROVE  Cardinality(VotesFor(rows, v)) \in Nat
<1>1. VotesFor(rows, v) \subseteq Requests
  BY DEF VotesFor
<1> QED BY <1>1, RequestsAreFinite, FS_Subset, FS_CardinalityType

\* A request sees the votes it saw as long as nobody commits and it writes nothing.
LEMMA SameView ==
  ASSUME NEW q, call' = call, votes' = votes, deleted'[q] = deleted[q], inserted'[q] = inserted[q]
  PROVE  VotesFor(Seen(q), call[q].review)' = VotesFor(Seen(q), call[q].review)
  BY DEF Seen, VotesFor

LEMMA Initially == Init => Inv
<1> SUFFICES ASSUME Init PROVE Inv
  OBVIOUS
<1>1. TypeOK
  BY DEF Init, TypeOK
<1>2. RowsAsFound /\ KeysApart
  BY DEF Init, RowsAsFound, KeysApart
<1>3. CountsStay /\ VotesToTell /\ OneVotePerUser
  BY DEF Init, CountsStay, VotesToTell, OneVotePerUser
<1> QED BY <1>1, <1>2, <1>3 DEF Inv, VoteDiscipline

LEMMA ToggleKeeps == ASSUME Inv, NEW r \in Requests, Toggle(r) PROVE Inv'
<1>1. TypeOK'
  BY DEF Inv, TypeOK, Toggle, GoTo, database
<1>2. RowsAsFound'
  BY DEF Inv, TypeOK, VoteDiscipline, RowsAsFound, Toggle, GoTo, database, SameKey
<1>3. KeysApart' /\ OneVotePerUser'
  BY DEF Inv, VoteDiscipline, KeysApart, OneVotePerUser, Toggle, database, SameKey
<1>4. CountsStay'
  <2>1. \A q \in Requests : VotesFor(Seen(q), call[q].review)' = VotesFor(Seen(q), call[q].review)
    BY SameView DEF Toggle, database
  <2>2. \A q, s \in Requests :
          q # s /\ pc'[q] \in Writing /\ pc'[s] \in Writing /\ call'[q].review = call'[s].review
            => met'[s]
    BY DEF Inv, TypeOK, VoteDiscipline, CountsStay, Toggle, GoTo, database
  <2>3. ASSUME NEW q \in Requests, pc'[q] \in {"store", "commit"}
        PROVE  /\ ~met'[q] => counted'[q] = Cardinality(VotesFor(Seen(q), call[q].review)')
               /\ pc'[q] = "commit" /\ call'[q].review \in open' => call'[q].review \in holds'[q]
    <3>1. q # r /\ pc'[q] = pc[q] /\ counted' = counted /\ (~met'[q] => ~met[q])
      BY <2>3 DEF Toggle, GoTo, Inv, TypeOK
    <3> QED BY <2>1, <2>3, <3>1 DEF Inv, VoteDiscipline, CountsStay, Toggle, database
  <2> QED BY <2>2, <2>3 DEF CountsStay
<1>5. VotesToTell'
  BY DEF Inv, TypeOK, VoteDiscipline, VotesToTell, Toggle, GoTo, database, SameKey
<1> QED BY <1>1, <1>2, <1>3, <1>4, <1>5 DEF Inv, VoteDiscipline

LEMMA FindVoteKeeps == ASSUME Inv, NEW r \in Requests, FindVote(r) PROVE Inv'
<1>1. TypeOK'
  BY DEF Inv, TypeOK, FindVote, GoTo, database
<1>2. RowsAsFound'
  BY DEF Inv, TypeOK, VoteDiscipline, RowsAsFound, FindVote, GoTo, database, SameKey
<1>3. KeysApart' /\ OneVotePerUser'
  BY DEF Inv, VoteDiscipline, KeysApart, OneVotePerUser, FindVote, database, SameKey
<1>4. CountsStay'
  <2>1. \A q \in Requests : VotesFor(Seen(q), call[q].review)' = VotesFor(Seen(q), call[q].review)
    BY SameView DEF FindVote, database
  <2>2. \A q, s \in Requests :
          q # s /\ pc'[q] \in Writing /\ pc'[s] \in Writing /\ call'[q].review = call'[s].review
            => met'[s]
    BY DEF Inv, TypeOK, VoteDiscipline, CountsStay, FindVote, GoTo, database
  <2>3. ASSUME NEW q \in Requests, pc'[q] \in {"store", "commit"}
        PROVE  /\ ~met'[q] => counted'[q] = Cardinality(VotesFor(Seen(q), call[q].review)')
               /\ pc'[q] = "commit" /\ call'[q].review \in open' => call'[q].review \in holds'[q]
    <3>1. q # r /\ pc'[q] = pc[q] /\ counted' = counted /\ (~met'[q] => ~met[q])
      BY <2>3 DEF FindVote, GoTo, Inv, TypeOK
    <3> QED BY <2>1, <2>3, <3>1 DEF Inv, VoteDiscipline, CountsStay, FindVote, database
  <2> QED BY <2>2, <2>3 DEF CountsStay
<1>5. VotesToTell'
  BY DEF Inv, TypeOK, VoteDiscipline, RowsAsFound, VotesToTell, FindVote, GoTo, database, SameKey
<1> QED BY <1>1, <1>2, <1>3, <1>4, <1>5 DEF Inv, VoteDiscipline

LEMMA UnvoteKeeps == ASSUME Inv, NEW r \in Requests, Unvote(r) PROVE Inv'
<1>1. TypeOK'
  BY DEF Inv, TypeOK, Unvote, GoTo
<1>2. RowsAsFound'
  BY DEF Inv, TypeOK, VoteDiscipline, RowsAsFound, Unvote, GoTo, SameKey
<1>3. KeysApart' /\ OneVotePerUser'
  BY DEF Inv, TypeOK, VoteDiscipline, KeysApart, OneVotePerUser, Unvote, RowLocked, SameKey
<1>4. CountsStay'
  BY DEF Inv, TypeOK, VoteDiscipline, CountsStay, Unvote, GoTo, Seen, VotesFor
<1>5. VotesToTell'
  BY DEF Inv, TypeOK, VoteDiscipline, VotesToTell, Unvote, GoTo, SameKey
<1> QED BY <1>1, <1>2, <1>3, <1>4, <1>5 DEF Inv, VoteDiscipline

LEMMA VoteKeeps == ASSUME Inv, NEW r \in Requests, Vote(r) PROVE Inv'
<1>1. TypeOK'
  BY DEF Inv, TypeOK, Vote, GoTo
<1>2. RowsAsFound'
  BY DEF Inv, TypeOK, VoteDiscipline, RowsAsFound, Vote, GoTo, SameKey
<1>3. KeysApart' /\ OneVotePerUser'
  BY DEF Inv, TypeOK, VoteDiscipline, RowsAsFound, KeysApart, OneVotePerUser, Vote,
     KeyPending, KeyTaken, SameKey
<1>4. CountsStay'
  BY DEF Inv, TypeOK, VoteDiscipline, CountsStay, Vote, GoTo, Seen, VotesFor
<1>5. VotesToTell'
  BY DEF Inv, TypeOK, VoteDiscipline, VotesToTell, Vote, GoTo, SameKey
<1> QED BY <1>1, <1>2, <1>3, <1>4, <1>5 DEF Inv, VoteDiscipline

LEMMA CountVotesKeeps == ASSUME Inv, NEW r \in Requests, CountVotes(r) PROVE Inv'
<1>0. Cardinality(Counted(r)) \in Nat
  BY CountsAreNumbers DEF Counted, Seen, Inv, TypeOK
<1>1. TypeOK'
  BY <1>0 DEF Inv, TypeOK, CountVotes, GoTo, database
<1>2. RowsAsFound'
  BY DEF Inv, TypeOK, VoteDiscipline, RowsAsFound, CountVotes, GoTo, database, SameKey
<1>3. KeysApart' /\ OneVotePerUser'
  BY DEF Inv, VoteDiscipline, KeysApart, OneVotePerUser, CountVotes, database, SameKey
<1>4. CountsStay'
  <2>1. \A q \in Requests : VotesFor(Seen(q), call[q].review)' = VotesFor(Seen(q), call[q].review)
    BY SameView DEF CountVotes, database
  <2>2. \A q, s \in Requests :
          q # s /\ pc'[q] \in Writing /\ pc'[s] \in Writing /\ call'[q].review = call'[s].review
            => met'[s]
    BY DEF Inv, TypeOK, VoteDiscipline, CountsStay, CountVotes, GoTo, database
  <2>3. counted'[r] = Cardinality(VotesFor(Seen(r), call[r].review)') /\ pc'[r] = "store"
    BY <2>1 DEF CountVotes, Counted, GoTo, Inv, TypeOK
  <2>4. ASSUME NEW q \in Requests, q # r, pc'[q] \in {"store", "commit"}
        PROVE  /\ ~met'[q] => counted'[q] = Cardinality(VotesFor(Seen(q), call[q].review)')
               /\ pc'[q] = "commit" /\ call'[q].review \in open' => call'[q].review \in holds'[q]
    <3>1. pc'[q] = pc[q] /\ counted'[q] = counted[q] /\ met' = met
      BY <2>4 DEF CountVotes, GoTo, Inv, TypeOK
    <3> QED BY <2>1, <2>4, <3>1 DEF Inv, VoteDiscipline, CountsStay, CountVotes, database
  <2> QED BY <2>2, <2>3, <2>4 DEF CountsStay
<1>5. VotesToTell'
  BY DEF Inv, TypeOK, VoteDiscipline, VotesToTell, CountVotes, GoTo, database, SameKey
<1> QED BY <1>1, <1>2, <1>3, <1>4, <1>5 DEF Inv, VoteDiscipline

LEMMA StoreKeeps == ASSUME Inv, NEW r \in Requests, Store(r) PROVE Inv'
<1>1. TypeOK'
  BY DEF Inv, TypeOK, Store, GoTo, Call
<1>2. RowsAsFound'
  BY DEF Inv, TypeOK, VoteDiscipline, RowsAsFound, Store, GoTo, SameKey
<1>3. KeysApart' /\ OneVotePerUser'
  BY DEF Inv, VoteDiscipline, KeysApart, OneVotePerUser, Store, SameKey
<1>4. CountsStay'
  BY DEF Inv, TypeOK, VoteDiscipline, CountsStay, Store, GoTo, Seen, VotesFor
<1>5. VotesToTell'
  BY DEF Inv, TypeOK, VoteDiscipline, VotesToTell, Store, GoTo, SameKey
<1> QED BY <1>1, <1>2, <1>3, <1>4, <1>5 DEF Inv, VoteDiscipline

\* What a commit on one review changes does not show on another.
LEMMA OtherReviews ==
  ASSUME Inv, NEW r \in Requests, Commit(r), NEW q \in Requests, q # r,
         call[q].review # call[r].review
  PROVE  VotesFor(Seen(q), call[q].review)' = VotesFor(Seen(q), call[q].review)
<1>1. \A v \in deleted[r] : call[v].review = call[r].review
  BY DEF Inv, VoteDiscipline, RowsAsFound, SameKey
<1>2. inserted[r] \subseteq {r}
  BY DEF Inv, VoteDiscipline, RowsAsFound
<1>3. /\ votes' = (votes \ deleted[r]) \cup inserted[r] /\ call' = call
      /\ deleted'[q] = deleted[q] /\ inserted'[q] = inserted[q]
  BY DEF Commit, Seen, Inv, TypeOK
<1>4. \A v : call[v].review = call[q].review => (v \in votes' <=> v \in votes)
  BY <1>1, <1>2, <1>3
<1>5. \A v : v \in VotesFor(Seen(q), call[q].review)' <=> v \in VotesFor(Seen(q), call[q].review)
  BY <1>3, <1>4 DEF Seen, VotesFor
<1> QED BY <1>5 DEF VotesFor

LEMMA CommitKeeps == ASSUME Inv, NEW r \in Requests, Commit(r) PROVE Inv'
<1>0. /\ votes' = (votes \ deleted[r]) \cup inserted[r] /\ call' = call
      /\ inserted[r] \subseteq {r}
      /\ \A q \in Requests : q # r => deleted[q] \cap deleted[r] = {}
      /\ \A q \in Requests : deleted[q] \subseteq votes
  BY DEF Commit, Seen, Inv, TypeOK, VoteDiscipline, RowsAsFound, KeysApart
<1>1. TypeOK'
  <2>1. deleted' \in [Requests -> SUBSET votes']
    BY <1>0 DEF Commit, Inv, TypeOK
  <2> QED BY <1>0, <2>1 DEF Commit, GoTo, Inv, TypeOK
<1>2. RowsAsFound'
  BY DEF Inv, TypeOK, VoteDiscipline, RowsAsFound, Commit, GoTo, SameKey
<1>3. KeysApart'
  <2>1. \A q, s \in Requests : q # s =>
          /\ deleted'[q] \cap deleted'[s] = {}
          /\ inserted'[q] # {} /\ inserted'[s] # {} => ~SameKey(q, s)'
    BY DEF Inv, TypeOK, VoteDiscipline, KeysApart, Commit, SameKey
  <2>2. \A q \in Requests : \A v \in votes' : inserted'[q] # {} => ~SameKey(v, q)'
    <3> SUFFICES ASSUME NEW q \in Requests, NEW v \in votes', inserted'[q] # {}
                 PROVE  ~SameKey(v, q)
      BY <1>0 DEF SameKey
    <3>1. q # r /\ inserted[q] # {}
      BY DEF Commit, Inv, TypeOK
    <3> QED BY <1>0, <3>1 DEF Inv, VoteDiscipline, KeysApart
  <2> QED BY <2>1, <2>2 DEF KeysApart
<1>4. OneVotePerUser'
  BY <1>0 DEF Inv, TypeOK, VoteDiscipline, KeysApart, OneVotePerUser, SameKey
<1>5. CountsStay'
  <2>1. \A q, s \in Requests :
          q # s /\ pc'[q] \in Writing /\ pc'[s] \in Writing /\ call'[q].review = call'[s].review
            => met'[s]
    BY DEF Commit, GoTo, Inv, TypeOK, VoteDiscipline, CountsStay
  <2>2. ASSUME NEW q \in Requests, pc'[q] \in {"store", "commit"}, ~met'[q]
        PROVE  counted'[q] = Cardinality(VotesFor(Seen(q), call[q].review)')
    <3>1. q # r /\ pc'[q] = pc[q] /\ met'[q] = met[q] /\ counted' = counted /\ pc[r] = "commit"
      BY <2>2 DEF Commit, GoTo, Inv, TypeOK
    <3>2. call[q].review # call[r].review
      BY <2>2, <3>1 DEF Inv, VoteDiscipline, CountsStay
    <3>3. counted[q] = Cardinality(VotesFor(Seen(q), call[q].review))
      BY <2>2, <3>1 DEF Inv, VoteDiscipline, CountsStay
    <3> QED BY <3>1, <3>2, <3>3, OtherReviews
  <2>3. \A q \in Requests :
          pc'[q] = "commit" /\ call'[q].review \in open' => call'[q].review \in holds'[q]
    BY DEF Commit, GoTo, Inv, TypeOK, VoteDiscipline, CountsStay
  <2> QED BY <2>1, <2>2, <2>3 DEF CountsStay
<1>6. VotesToTell'
  <2> SUFFICES ASSUME NEW q \in Requests, pc'[q] = "notify"
               PROVE  /\ ~existing[q] /\ Reviewer[call[q].review] # call[q].user
                      /\ \/ q \in votes'
                         \/ \E s \in Requests \ {q} : SameKey(s, q) /\ existing[s]
    BY DEF VotesToTell, Commit, SameKey
  <2>1. CASE q = r
    <3>1. ~existing[r] /\ ToldToReviewer(r)
      BY <2>1 DEF Commit, GoTo, Inv, TypeOK
    <3> QED BY <1>0, <2>1, <3>1 DEF Commit, ToldToReviewer, Inv, VoteDiscipline, RowsAsFound
  <2>2. CASE q # r
    <3>1. pc[q] = "notify"
      BY <2>2 DEF Commit, GoTo, Inv, TypeOK
    <3>2. q \in deleted[r] => SameKey(r, q) /\ existing[r]
      BY DEF Inv, VoteDiscipline, RowsAsFound, SameKey
    <3> QED BY <1>0, <2>2, <3>1, <3>2 DEF Inv, VoteDiscipline, VotesToTell
  <2> QED BY <2>1, <2>2
<1> QED BY <1>1, <1>2, <1>3, <1>4, <1>5, <1>6 DEF Inv, VoteDiscipline

LEMMA NotifyKeeps == ASSUME Inv, NEW r \in Requests, Notify(r) PROVE Inv'
<1>1. TypeOK'
  BY DEF Inv, TypeOK, Notify, GoTo, database
<1>2. RowsAsFound'
  BY DEF Inv, TypeOK, VoteDiscipline, RowsAsFound, Notify, GoTo, database, SameKey
<1>3. KeysApart' /\ OneVotePerUser'
  BY DEF Inv, VoteDiscipline, KeysApart, OneVotePerUser, Notify, database, SameKey
<1>4. CountsStay'
  BY DEF Inv, TypeOK, VoteDiscipline, CountsStay, Notify, GoTo, database, Seen, VotesFor
<1>5. VotesToTell'
  BY DEF Inv, TypeOK, VoteDiscipline, VotesToTell, Notify, GoTo, database, SameKey
<1> QED BY <1>1, <1>2, <1>3, <1>4, <1>5 DEF Inv, VoteDiscipline

LEMMA FailKeeps == ASSUME Inv, NEW r \in Requests, Fail(r) PROVE Inv'
<1>1. TypeOK'
  BY DEF Inv, TypeOK, Fail, GoTo
<1>2. RowsAsFound'
  BY DEF Inv, TypeOK, VoteDiscipline, RowsAsFound, Fail, GoTo, SameKey
<1>3. KeysApart' /\ OneVotePerUser'
  BY DEF Inv, TypeOK, VoteDiscipline, KeysApart, OneVotePerUser, Fail, SameKey
<1>4. CountsStay'
  <2>1. \A q \in Requests \ {r} :
          VotesFor(Seen(q), call[q].review)' = VotesFor(Seen(q), call[q].review)
    BY SameView DEF Fail, Inv, TypeOK
  <2>2. \A q, s \in Requests :
          q # s /\ pc'[q] \in Writing /\ pc'[s] \in Writing /\ call'[q].review = call'[s].review
            => met'[s]
    BY DEF Inv, TypeOK, VoteDiscipline, CountsStay, Fail, GoTo
  <2>3. ASSUME NEW q \in Requests, pc'[q] \in {"store", "commit"}
        PROVE  /\ ~met'[q] => counted'[q] = Cardinality(VotesFor(Seen(q), call[q].review)')
               /\ pc'[q] = "commit" /\ call'[q].review \in open' => call'[q].review \in holds'[q]
    <3>1. q # r /\ pc'[q] = pc[q] /\ holds'[q] = holds[q]
      BY <2>3 DEF Fail, GoTo, Inv, TypeOK
    <3> QED BY <2>1, <2>3, <3>1 DEF Inv, VoteDiscipline, CountsStay, Fail
  <2> QED BY <2>2, <2>3 DEF CountsStay
<1>5. VotesToTell'
  BY DEF Inv, TypeOK, VoteDiscipline, VotesToTell, Fail, GoTo, SameKey
<1> QED BY <1>1, <1>2, <1>3, <1>4, <1>5 DEF Inv, VoteDiscipline

LEMMA DeleteReviewKeeps == ASSUME Inv, NEW v \in Reviews, DeleteReview(v) PROVE Inv'
<1>1. TypeOK'
  BY DEF Inv, TypeOK, DeleteReview
<1>2. RowsAsFound' /\ KeysApart' /\ OneVotePerUser'
  BY DEF Inv, VoteDiscipline, RowsAsFound, KeysApart, OneVotePerUser, DeleteReview, SameKey
<1>3. CountsStay'
  BY DEF Inv, VoteDiscipline, CountsStay, DeleteReview, Seen, VotesFor
<1>4. VotesToTell'
  BY DEF Inv, VoteDiscipline, VotesToTell, DeleteReview, SameKey
<1> QED BY <1>1, <1>2, <1>3, <1>4 DEF Inv, VoteDiscipline

LEMMA NextKeeps == Inv /\ [Next]_vars => Inv'
<1> SUFFICES ASSUME Inv, [Next]_vars PROVE Inv'
  OBVIOUS
<1>1. ASSUME NEW r \in Requests, Toggle(r) \/ Progress(r) \/ Fail(r) PROVE Inv'
  BY <1>1, ToggleKeeps, FindVoteKeeps, UnvoteKeeps, VoteKeeps, CountVotesKeeps, StoreKeeps,
     CommitKeeps, NotifyKeeps, FailKeeps DEF Progress
<1>2. ASSUME NEW v \in Reviews, DeleteReview(v) PROVE Inv'
  BY <1>2, DeleteReviewKeeps
<1>3. CASE UNCHANGED vars
  BY <1>3 DEF vars, database, Inv, TypeOK, OneVotePerUser, VoteDiscipline, RowsAsFound,
     KeysApart, CountsStay, VotesToTell, SameKey, Seen, VotesFor
<1> QED BY <1>1, <1>2, <1>3 DEF Next, AllAnswered

LEMMA Invariance == Spec => []Inv
<1> QED BY Initially, NextKeeps, PTL DEF Spec

-----------------------------------------------------------------------------
\* The variables of reviewVoteService.ts keep their types.
THEOREM TypeCorrect == Spec => []TypeOK
<1>1. Inv => TypeOK
  BY DEF Inv
<1> QED BY <1>1, Invariance, PTL

\* The unique index and the row locks keep a user to one vote per review.
THEOREM NeverTwoVotes == Spec => []OneVotePerUser
<1>1. Inv => OneVotePerUser
  BY DEF Inv
<1> QED BY <1>1, Invariance, PTL

\* The recount inside of the transaction repairs the count of its review, unless
\* another toggle overlapped it.
THEOREM LoneTogglesCount == Spec => LoneToggleCountsExactly
<1>1. Inv /\ [Next]_vars => \A r \in Requests :
        Commit(r) /\ ~met[r] /\ call[r].review \in open => CountIsExact(call[r].review)'
  <2> SUFFICES ASSUME Inv, NEW r \in Requests, Commit(r), ~met[r], call[r].review \in open
               PROVE  CountIsExact(call[r].review)'
    OBVIOUS
  <2>1. call[r].review \in holds[r] /\ call[r].review \in Reviews /\ call' = call
    BY DEF Commit, Inv, TypeOK, VoteDiscipline, CountsStay
  <2>2. helpful'[call[r].review] = counted[r]
    BY <2>1 DEF Commit
  <2>3. counted[r] = Cardinality(VotesFor(Seen(r), call[r].review))
    BY DEF Commit, Inv, VoteDiscipline, CountsStay
  <2>4. VotesFor(votes, call[r].review)' = VotesFor(Seen(r), call[r].review)
    BY DEF Commit, VotesFor
  <2> QED BY <2>1, <2>2, <2>3, <2>4 DEF CountIsExact
<1> QED BY <1>1, Invariance, PTL DEF Spec, LoneToggleCountsExactly

\* HELPFUL_VOTE_RECEIVED follows a committed vote of somebody else.
THEOREM TruthIsTold == Spec => OnlyRealVotesAreTold
<1>1. Inv /\ [Next]_vars => \A r \in told' \ told :
        /\ Reviewer[call[r].review] # call[r].user
        /\ ~existing[r]
        /\ r \in votes \/ \E q \in Requests \ {r} : SameKey(q, r) /\ existing[q]
  <2> SUFFICES ASSUME Inv, [Next]_vars, NEW r \in told' \ told
               PROVE  /\ Reviewer[call[r].review] # call[r].user
                      /\ ~existing[r]
                      /\ r \in votes \/ \E q \in Requests \ {r} : SameKey(q, r) /\ existing[q]
    OBVIOUS
  <2>1. r \in Requests /\ Notify(r)
    BY DEF Next, AllAnswered, vars, Progress, Toggle, FindVote, Unvote, Vote, CountVotes, Store,
       Commit, Notify, Fail, DeleteReview, Inv, TypeOK
  <2> QED BY <2>1 DEF Notify, Inv, VoteDiscipline, VotesToTell
<1> QED BY <1>1, Invariance, PTL DEF Spec, OnlyRealVotesAreTold
=============================================================================
