------------------------- MODULE ReviewVoteService -------------------------
(***************************************************************************)
(* toggleHelpfulVote: ReviewVoteService.toggle of                          *)
(* backend/src/services/reviewVoteService.ts, by concurrent requests       *)
(* against PostgreSQL at READ COMMITTED (see ReviewService for how         *)
(* statements, transactions and locks are modelled).                       *)
(*                                                                         *)
(* A vote row bears the name of the request that inserted it.  Votes are   *)
(* deleted for good; the number of them is repeated in helpful_count.      *)
(***************************************************************************)
EXTENDS Integers, FiniteSets

CONSTANTS Users, Reviews, Requests, Reviewer

ASSUME ReviewerType == Reviewer \in [Reviews -> Users]
ASSUME RequestsAreFinite == IsFiniteSet(Requests)

VARIABLES
  call,      \* the user and the review of each request, fixed from the start
  pc,        \* the statement a request is about to run
  existing,  \* did it find a vote of its user?
  counted,   \* the count it has read
  votes,     \* committed rows of providers_review_votes
  helpful,   \* committed helpful_count of each review
  open,      \* reviews that are not soft-deleted
  inserted,  \* uncommitted inserts of each request
  deleted,   \* uncommitted deletes
  holds,     \* reviews whose row a request has updated but not committed
  told,      \* HELPFUL_VOTE_RECEIVED notifications, by request
  met        \* history: did another transaction on the review overlap it?

database == <<votes, helpful, open, inserted, deleted, holds>>
vars == <<call, pc, existing, counted, database, told, met>>

-----------------------------------------------------------------------------
Call == [user : Users, review : Reviews]
Writing == {"write", "count", "store", "commit"}
Ended == {"voted", "unvoted", "error"}
Stages == {"new", "find", "notify"} \cup Writing \cup Ended

SameKey(q, r) == call[q] = call[r]
Seen(r) == (votes \ deleted[r]) \cup inserted[r]
VotesFor(rows, review) == {q \in rows : call[q].review = review}

GoTo(r, stage) == pc' = [pc EXCEPT ![r] = stage]

-----------------------------------------------------------------------------
Toggle(r) ==
  /\ pc[r] = "new"
  /\ GoTo(r, IF call[r].review \in open THEN "find" ELSE "error")
  /\ UNCHANGED <<call, existing, counted, database, told, met>>

\* The vote is looked up before the transaction starts.
FindVote(r) ==
  /\ pc[r] = "find"
  /\ existing' = [existing EXCEPT ![r] = \E q \in votes : SameKey(q, r)]
  /\ LET others == {q \in Requests \ {r} :
                      pc[q] \in Writing /\ call[q].review = call[r].review}
     IN  met' = [q \in Requests |-> IF q = r THEN others # {}
                                    ELSE met[q] \/ q \in others]
  /\ GoTo(r, "write")
  /\ UNCHANGED <<call, counted, database, told>>

\* deleteMany: it waits for a row that another request is deleting, and does
\* not see one that is being inserted.
RowLocked(r) == \E q \in Requests \ {r} : \E v \in deleted[q] : SameKey(v, r)

Unvote(r) ==
  /\ pc[r] = "write" /\ existing[r]
  /\ ~RowLocked(r)
  /\ deleted' = [deleted EXCEPT ![r] = {q \in votes : SameKey(q, r)}]
  /\ GoTo(r, "count")
  /\ UNCHANGED <<call, existing, counted, votes, helpful, open, inserted, holds, told, met>>

\* The unique index on (review_id, user_id): an insert waits while the same key
\* is being inserted or deleted, and fails where it is taken.
NoUniqueIndex(r) == FALSE                                    \* (mutant)
KeyPending(r) == \E q \in Requests \ {r} : \E v \in inserted[q] \cup deleted[q] : SameKey(v, r)
KeyTaken(r) == \E q \in votes : SameKey(q, r)

Vote(r) ==
  /\ pc[r] = "write" /\ ~existing[r]
  /\ ~KeyPending(r)
  /\ IF KeyTaken(r)
     THEN GoTo(r, "error") /\ UNCHANGED inserted
     ELSE GoTo(r, "count") /\ inserted' = [inserted EXCEPT ![r] = {r}]
  /\ UNCHANGED <<call, existing, counted, votes, helpful, open, deleted, holds, told, met>>

CountedOutsideTransaction(r) == VotesFor(votes, call[r].review)  \* (mutant)
Counted(r) == VotesFor(Seen(r), call[r].review)

CountVotes(r) ==
  /\ pc[r] = "count"
  /\ counted' = [counted EXCEPT ![r] = Cardinality(Counted(r))]
  /\ GoTo(r, "store")
  /\ UNCHANGED <<call, existing, database, told, met>>

Store(r) ==
  /\ pc[r] = "store"
  /\ \A q \in Requests \ {r} : call[r].review \notin holds[q]
  /\ holds' = [holds EXCEPT ![r] = {call[r].review} \cap open]
  /\ GoTo(r, "commit")
  /\ UNCHANGED <<call, existing, counted, votes, helpful, open, inserted, deleted, told, met>>

\* Only a new vote is notified, and never to the one who cast it.
ToldToAnyone(r) == TRUE                                      \* (mutant)
ToldToReviewer(r) == Reviewer[call[r].review] # call[r].user

Commit(r) ==
  /\ pc[r] = "commit"
  /\ votes' = Seen(r)
  /\ helpful' = [v \in Reviews |-> IF v \in holds[r] THEN counted[r] ELSE helpful[v]]
  /\ inserted' = [inserted EXCEPT ![r] = {}]
  /\ deleted' = [deleted EXCEPT ![r] = {}]
  /\ holds' = [holds EXCEPT ![r] = {}]
  /\ GoTo(r, IF existing[r] THEN "unvoted"
             ELSE IF ToldToReviewer(r) THEN "notify" ELSE "voted")
  /\ UNCHANGED <<call, existing, counted, open, told, met>>

Notify(r) ==
  /\ pc[r] = "notify"
  /\ told' = told \cup {r}
  /\ GoTo(r, "voted")
  /\ UNCHANGED <<call, existing, counted, database, met>>

\* A statement fails, or the server stops; a transaction is rolled back.
FailNoRollback(r) ==                                         \* (mutant)
  /\ pc[r] \in {"find", "notify"} \cup Writing
  /\ GoTo(r, "error")
  /\ UNCHANGED <<call, existing, counted, database, told, met>>
Fail(r) ==
  /\ pc[r] \in {"find", "notify"} \cup Writing
  /\ GoTo(r, "error")
  /\ inserted' = [inserted EXCEPT ![r] = {}]
  /\ deleted' = [deleted EXCEPT ![r] = {}]
  /\ holds' = [holds EXCEPT ![r] = {}]
  /\ UNCHANGED <<call, existing, counted, votes, helpful, open, told, met>>

\* deleteReview soft-deletes a review under its row lock; its votes stay.
DeleteReview(v) ==
  /\ v \in open
  /\ \A q \in Requests : v \notin holds[q]
  /\ open' = open \ {v}
  /\ UNCHANGED <<call, pc, existing, counted, votes, helpful, inserted, deleted, holds, told, met>>

Init ==
  /\ call \in [Requests -> Call]
  /\ pc = [r \in Requests |-> "new"]
  /\ existing = [r \in Requests |-> FALSE]
  /\ counted = [r \in Requests |-> 0]
  /\ votes = {} /\ told = {}
  /\ helpful = [v \in Reviews |-> 0]
  /\ open = Reviews
  /\ inserted = [r \in Requests |-> {}]
  /\ deleted = [r \in Requests |-> {}]
  /\ holds = [r \in Requests |-> {}]
  /\ met = [r \in Requests |-> FALSE]

Progress(r) ==
  \/ FindVote(r) \/ Unvote(r) \/ Vote(r) \/ CountVotes(r) \/ Store(r)
  \/ Commit(r) \/ Notify(r)

AllAnswered == (\A r \in Requests : pc[r] \in Ended) /\ UNCHANGED vars

Next ==
  \/ \E r \in Requests : Toggle(r) \/ Progress(r) \/ Fail(r)
  \/ \E v \in Reviews : DeleteReview(v)
  \/ AllAnswered

Spec == Init /\ [][Next]_vars

\* A statement that can proceed does; see ReviewService.
FairSpec == Spec /\ \A r \in Requests : WF_vars(Progress(r))

-----------------------------------------------------------------------------
(* Properties. *)

TypeOK ==
  /\ call \in [Requests -> Call]
  /\ pc \in [Requests -> Stages]
  /\ existing \in [Requests -> BOOLEAN]
  /\ counted \in [Requests -> Nat]
  /\ votes \subseteq Requests /\ told \subseteq Requests
  /\ helpful \in [Reviews -> Nat]
  /\ open \subseteq Reviews
  /\ inserted \in [Requests -> SUBSET Requests]
  /\ deleted \in [Requests -> SUBSET votes]
  /\ holds \in [Requests -> SUBSET Reviews]
  /\ met \in [Requests -> BOOLEAN]

(* What the statements and locks keep to, of which the rest follows. *)

\* A transaction inserts its own vote or deletes votes of its key, as it found.
RowsAsFound ==
  \A r \in Requests :
    /\ inserted[r] \subseteq {r}
    /\ \A v \in deleted[r] : SameKey(v, r) /\ existing[r]
    /\ existing[r] => pc[r] \notin {"new", "find"} /\ inserted[r] = {}
    /\ inserted[r] = {r} <=> pc[r] \in {"count", "store", "commit"} /\ ~existing[r]

\* Pending rows exclude each other, and a pending insert its committed key.
KeysApart ==
  /\ \A q, r \in Requests : q # r =>
       /\ deleted[q] \cap deleted[r] = {}
       /\ inserted[q] # {} /\ inserted[r] # {} => ~SameKey(q, r)
  /\ \A r \in Requests : \A v \in votes : inserted[r] # {} => ~SameKey(v, r)

\* A count that nobody disturbed is exact until it is stored and committed.
CountsStay ==
  /\ \A q, r \in Requests :
       q # r /\ pc[q] \in Writing /\ pc[r] \in Writing /\ call[q].review = call[r].review
         => met[r]
  /\ \A r \in Requests :
       /\ pc[r] \in {"store", "commit"} /\ ~met[r] =>
            counted[r] = Cardinality(VotesFor(Seen(r), call[r].review))
       /\ pc[r] = "commit" /\ call[r].review \in open => call[r].review \in holds[r]

\* The vote a notification is about was cast, and only a toggle takes it back.
VotesToTell ==
  \A r \in Requests : pc[r] = "notify" =>
    /\ ~existing[r] /\ Reviewer[call[r].review] # call[r].user
    /\ r \in votes \/ \E q \in Requests \ {r} : SameKey(q, r) /\ existing[q]

VoteDiscipline == RowsAsFound /\ KeysApart /\ CountsStay /\ VotesToTell

\* However often a user taps, and whatever was read before the transaction,
\* a user never has two votes for a review.
OneVotePerUser == \A q, r \in votes : SameKey(q, r) => q = r

CountIsExact(v) == helpful[v] = Cardinality(VotesFor(votes, v))

\* A toggle whose transaction met no other on its review leaves the helpful
\* count exact, whatever drift it found.
LoneToggleCountsExactly ==
  [][\A r \in Requests :
       Commit(r) /\ ~met[r] /\ call[r].review \in open => CountIsExact(call[r].review)']_vars

\* A user is told of votes that were cast and committed, by somebody else; the
\* vote itself may be gone again by then.
OnlyRealVotesAreTold ==
  [][\A r \in told' \ told :
       /\ Reviewer[call[r].review] # call[r].user
       /\ ~existing[r]
       /\ r \in votes \/ \E q \in Requests \ {r} : SameKey(q, r) /\ existing[q]]_vars

\* A toggle that has been sent is answered: vote rows are locked before the
\* row of their review, so toggles never wait for each other in a circle.
EveryRequestEnds ==
  \A r \in Requests : pc[r] \notin Ended \cup {"new"} ~> pc[r] \in Ended
=============================================================================
