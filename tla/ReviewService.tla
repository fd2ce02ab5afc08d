--------------------------- MODULE ReviewService ---------------------------
(***************************************************************************)
(* createReview, updateReview and deleteReview of                          *)
(* backend/src/services/reviewService.ts, run by concurrent requests       *)
(* against PostgreSQL at its default READ COMMITTED level.                 *)
(*                                                                         *)
(* Definitions marked (mutant) are plausible mistakes in the definition    *)
(* below them; nothing uses them but the mutation of the model.            *)
(*                                                                         *)
(* One action is one awaited statement.  The database is the committed     *)
(* state (reviews, stats, open) and, per request, the uncommitted writes   *)
(* of its transaction (wrote, wroteStats).  A statement reads what is      *)
(* committed when it runs, plus its own transaction's writes; a row        *)
(* written by an open transaction is locked until that transaction ends.   *)
(*                                                                         *)
(* A request is one GraphQL mutation.  The review a request creates has    *)
(* that request as its id (ids are serial numbers, so never reused).       *)
(***************************************************************************)
EXTENDS Integers, FiniteSets

CONSTANTS
  Users, Places, Requests,
  Owner,      \* [Places -> Users], providers_places.owner_id
  Savers,     \* [Places -> SUBSET Users], who has the place in saved places
  Ratings     \* the star values requests use

ASSUME ReviewConstants ==
  /\ Owner \in [Places -> Users]
  /\ Savers \in [Places -> SUBSET Users]
  /\ Ratings \subseteq 1..5

VARIABLES
  call,        \* the mutation each request makes, fixed from the start
  pc,          \* the statement a request is about to run
  found,       \* existingReview: the row an edit or a delete read first
  counted,     \* the count that getRatingStats has read
  average,     \* the average that getRatingStats has read, in tenths
  reviews,     \* committed rows of providers_reviews
  open,        \* places that are not soft-deleted
  stats,       \* committed review_count and average_rating of each place
  wrote,       \* uncommitted review rows of each request
  wroteStats,  \* uncommitted places whose stats each request has updated
  inbox,       \* rows of the notifications table, with the review they tell of
  met          \* history: has another transaction on the place overlapped?

database == <<reviews, open, stats, wrote, wroteStats>>
vars == <<call, pc, found, counted, average, database, inbox, met>>

-----------------------------------------------------------------------------
(* Rows, calls and stages. *)

Row == [id : Requests, place : Places, by : Users, rating : Ratings,
        live : BOOLEAN]

Create == [op : {"create"}, user : Users, place : Places, rating : Ratings]
Edit   == [op : {"edit"}, user : Users, target : Requests,
           rating : Ratings \cup {0}]             \* 0: rating is undefined
Remove == [op : {"delete"}, user : Users, target : Requests]
Call   == Create \cup Edit \cup Remove

InTransaction == {"count", "average", "store", "commit"}
Ended == {"ok", "error"}
Stages == {"new", "check", "write", "tell", "watch"} \cup InTransaction \cup Ended

Notification ==
  [to : Users, type : {"NEW_REVIEW", "WATCHED_PLACE_REVIEW"}, about : Requests]

\* SQL COUNT and AVG over a set of rows; average_rating is DECIMAL(2,1), so
\* the stored average is rounded to tenths, halves upwards.
Stars(rows, k) == Cardinality({x \in rows : x.rating = k})
Sum(rows) == Stars(rows, 1) + 2 * Stars(rows, 2) + 3 * Stars(rows, 3)
               + 4 * Stars(rows, 4) + 5 * Stars(rows, 5)
Tenths(rows) ==
  IF rows = {} THEN 0
  ELSE (20 * Sum(rows) + Cardinality(rows)) \div (2 * Cardinality(rows))

Live(rows, place) == {x \in rows : x.live /\ x.place = place}
LiveKey(rows, place, user) == {x \in Live(rows, place) : x.by = user}

\* What a statement of request r reads: committed rows, with its own writes.
Seen(r) == {x \in reviews : \A w \in wrote[r] : w.id # x.id} \cup wrote[r]

\* Rows of another open transaction are locked; so is their index entry.
NoRowLock(r, row) == FALSE                                   \* (mutant)
LockedByOther(r, row) == \E q \in Requests \ {r} : \E w \in wrote[q] : w.id = row.id
NoUniqueIndex(r, place, user) == FALSE                       \* (mutant)
KeyPending(r, place, user) ==
  \E q \in Requests \ {r} : \E w \in wrote[q] : w.place = place /\ w.by = user

\* placeId of the review being written.
PlaceOf(r) ==
  IF call[r].op = "create" THEN call[r].place
  ELSE (CHOOSE x \in found[r] : TRUE).place

-----------------------------------------------------------------------------
(* Before the transaction: lookups, ownership and duplicate checks. *)

StartCreate(r) ==
  /\ pc[r] = "new" /\ call[r].op = "create"
  /\ pc' = [pc EXCEPT ![r] =
       IF call[r].place \in open /\ Owner[call[r].place] # call[r].user
       THEN "check" ELSE "error"]
  /\ UNCHANGED <<call, found, counted, average, database, inbox, met>>

CheckExisting(r) ==
  /\ pc[r] = "check"
  /\ pc' = [pc EXCEPT ![r] =
       IF LiveKey(reviews, call[r].place, call[r].user) = {}
       THEN "write" ELSE "error"]
  /\ UNCHANGED <<call, found, counted, average, database, inbox, met>>

StartChange(r) ==
  /\ pc[r] = "new" /\ call[r].op # "create"
  /\ found' = [found EXCEPT ![r] =
       {x \in reviews : x.id = call[r].target /\ x.live /\ x.by = call[r].user}]
  /\ pc' = [pc EXCEPT ![r] = IF found'[r] = {} THEN "error" ELSE "write"]
  /\ UNCHANGED <<call, counted, average, database, inbox, met>>

-----------------------------------------------------------------------------
(* The transaction: write the review, recompute the place, commit. *)

\* History: r's transaction begins on its place; note whom it overlaps.
Enter(r) ==
  LET others == {q \in Requests \ {r} :
                   pc[q] \in InTransaction /\ PlaceOf(q) = PlaceOf(r)}
  IN  met' = [q \in Requests |-> IF q = r THEN others # {}
                                 ELSE met[q] \/ q \in others]

\* The partial unique index on (place_id, reviewer_id) WHERE deleted_at IS
\* NULL: wait for an open transaction that wrote the key, then fail if a live
\* row has it.  The place is not looked up again (the foreign key accepts a
\* soft-deleted place).
Insert(r) ==
  /\ pc[r] = "write" /\ call[r].op = "create"
  /\ ~KeyPending(r, call[r].place, call[r].user)
  /\ IF LiveKey(reviews, call[r].place, call[r].user) # {}
     THEN /\ pc' = [pc EXCEPT ![r] = "error"]
          /\ UNCHANGED <<wrote, met>>
     ELSE /\ pc' = [pc EXCEPT ![r] = "count"]
          /\ wrote' = [wrote EXCEPT ![r] =
               {[id |-> r, place |-> call[r].place, by |-> call[r].user,
                 rating |-> call[r].rating, live |-> TRUE]}]
          /\ Enter(r)
  /\ UNCHANGED <<call, found, counted, average, reviews, open, stats,
                 wroteStats, inbox>>

\* The row version an edit or a delete leaves behind.
Changed(r, x) ==
  [id |-> x.id, place |-> x.place, by |-> x.by,
   rating |-> IF call[r].op = "edit" /\ call[r].rating # 0 THEN call[r].rating
              ELSE x.rating,
   live |-> call[r].op # "delete"]

\* UPDATE ... WHERE id = ? AND deleted_at IS NULL waits for the row lock and
\* then looks at the row again: a row deleted meanwhile is not touched.
Modify(r) ==
  /\ pc[r] = "write" /\ call[r].op # "create"
  /\ \A x \in found[r] : ~LockedByOther(r, x)
  /\ wrote' = [wrote EXCEPT ![r] =
       {Changed(r, x) : x \in {y \in reviews : y.id = call[r].target /\ y.live}}]
  /\ pc' = [pc EXCEPT ![r] = "count"]
  /\ Enter(r)
  /\ UNCHANGED <<call, found, counted, average, reviews, open, stats,
                 wroteStats, inbox>>

\* The rows getRatingStats looks at, inside the transaction.
RatedOutsideTransaction(r) == Live(reviews, PlaceOf(r))      \* (mutant)
Rated(r) == Live(Seen(r), PlaceOf(r))

\* getRatingStats is two statements, each with a snapshot of its own.
Count(r) ==
  /\ pc[r] = "count"
  /\ LET n == Cardinality(Rated(r))
     IN  /\ counted' = [counted EXCEPT ![r] = n]
         /\ average' = [average EXCEPT ![r] = 0]
         /\ pc' = [pc EXCEPT ![r] = IF n = 0 THEN "store" ELSE "average"]
  /\ UNCHANGED <<call, found, database, inbox, met>>

Average(r) ==
  /\ pc[r] = "average"
  /\ average' = [average EXCEPT ![r] = Tenths(Rated(r))]
  /\ pc' = [pc EXCEPT ![r] = "store"]
  /\ UNCHANGED <<call, found, counted, database, inbox, met>>

\* updateRatingStats: waits for the row lock on the place; a soft-deleted
\* place matches no row.
Store(r) ==
  /\ pc[r] = "store"
  /\ \A q \in Requests \ {r} : PlaceOf(r) \notin wroteStats[q]
  /\ wroteStats' = [wroteStats EXCEPT ![r] = {PlaceOf(r)} \cap open]
  /\ pc' = [pc EXCEPT ![r] = "commit"]
  /\ UNCHANGED <<call, found, counted, average, reviews, open, stats, wrote,
                 inbox, met>>

\* COMMIT publishes both writes at once and drops the locks.  The answer may
\* be lost on the way back (acknowledged = FALSE): the caller sees an error
\* although the transaction has committed.
Commit(r) ==
  /\ pc[r] = "commit"
  /\ reviews' = Seen(r)
  /\ stats' = [p \in Places |-> IF p \in wroteStats[r]
                 THEN [count |-> counted[r], tenths |-> average[r]]
                 ELSE stats[p]]
  /\ wrote' = [wrote EXCEPT ![r] = {}]
  /\ wroteStats' = [wroteStats EXCEPT ![r] = {}]
  /\ \E acknowledged \in BOOLEAN :
       pc' = [pc EXCEPT ![r] =
         IF ~acknowledged THEN "error"
         ELSE IF call[r].op = "create" THEN "tell" ELSE "ok"]
  /\ UNCHANGED <<call, found, counted, average, open, inbox, met>>

-----------------------------------------------------------------------------
(* After the transaction: notifications. *)

TellOwner(r) ==
  /\ pc[r] = "tell"
  /\ inbox' = inbox \cup {[to |-> Owner[call[r].place], type |-> "NEW_REVIEW",
                           about |-> r]}
  /\ pc' = [pc EXCEPT ![r] = "watch"]
  /\ UNCHANGED <<call, found, counted, average, database, met>>

\* Savers and past reviewers, without the author and the owner.
WatchersAndOwner(r) ==                                       \* (mutant)
  (Savers[call[r].place] \cup {x.by : x \in Live(reviews, call[r].place)}
     \cup {Owner[call[r].place]}) \ {call[r].user}
Watchers(r) ==
  (Savers[call[r].place] \cup {x.by : x \in Live(reviews, call[r].place)})
    \ {call[r].user, Owner[call[r].place]}

\* notifyWatchers: the creates run side by side and each may fail; one
\* failure fails the mutation, whatever the others did.
TellWatchers(r) ==
  /\ pc[r] = "watch"
  /\ \E told \in SUBSET Watchers(r) :
       /\ inbox' = inbox \cup [to : told, type : {"WATCHED_PLACE_REVIEW"}, about : {r}]
       /\ pc' = [pc EXCEPT ![r] = IF told = Watchers(r) THEN "ok" ELSE "error"]
  /\ UNCHANGED <<call, found, counted, average, database, met>>

-----------------------------------------------------------------------------
(* Failures, other writers of the place, and the whole system. *)

\* A statement fails or the connection is lost: the transaction rolls back.
FailNoRollback(r) ==                                         \* (mutant)
  /\ pc[r] \in {"check", "write", "tell"} \cup InTransaction
  /\ pc' = [pc EXCEPT ![r] = "error"]
  /\ UNCHANGED <<call, found, counted, average, database, inbox, met>>
Fail(r) ==
  /\ pc[r] \in {"check", "write", "tell"} \cup InTransaction
  /\ pc' = [pc EXCEPT ![r] = "error"]
  /\ wrote' = [wrote EXCEPT ![r] = {}]
  /\ wroteStats' = [wroteStats EXCEPT ![r] = {}]
  /\ UNCHANGED <<call, found, counted, average, reviews, open, stats, inbox, met>>

\* PlaceService.delete soft-deletes the place; it needs the row lock that an
\* open updateRatingStats holds.
DeletePlace(p) ==
  /\ p \in open
  /\ \A q \in Requests : p \notin wroteStats[q]
  /\ open' = open \ {p}
  /\ UNCHANGED <<call, pc, found, counted, average, reviews, stats, wrote,
                 wroteStats, inbox, met>>

Init ==
  /\ call \in [Requests -> Call]
  /\ pc = [r \in Requests |-> "new"]
  /\ found = [r \in Requests |-> {}]
  /\ counted = [r \in Requests |-> 0]
  /\ average = [r \in Requests |-> 0]
  /\ reviews = {}
  /\ open = Places
  /\ stats = [p \in Places |-> [count |-> 0, tenths |-> 0]]
  /\ wrote = [r \in Requests |-> {}]
  /\ wroteStats = [r \in Requests |-> {}]
  /\ inbox = {}
  /\ met = [r \in Requests |-> FALSE]

\* A request's own progress, once its client has sent it.
Progress(r) ==
  \/ CheckExisting(r) \/ Insert(r) \/ Modify(r)
  \/ Count(r) \/ Average(r) \/ Store(r) \/ Commit(r)
  \/ TellOwner(r) \/ TellWatchers(r)

\* Every request has been answered and stays so.
AllAnswered == (\A r \in Requests : pc[r] \in Ended) /\ UNCHANGED vars

Next ==
  \/ \E r \in Requests : StartCreate(r) \/ StartChange(r) \/ Progress(r) \/ Fail(r)
  \/ \E p \in Places : DeletePlace(p)
  \/ AllAnswered

Spec == Init /\ [][Next]_vars

\* The event loop keeps running a request whose statement can proceed; a
\* waiter gets its lock once the holders have ended.
FairSpec == Spec /\ \A r \in Requests : WF_vars(Progress(r))

-----------------------------------------------------------------------------
(* Properties. *)

TypeOK ==
  /\ call \in [Requests -> Call]
  /\ pc \in [Requests -> Stages]
  /\ found \in [Requests -> SUBSET Row]
  /\ counted \in [Requests -> Nat]
  /\ average \in [Requests -> Nat]
  /\ reviews \subseteq Row
  /\ open \subseteq Places
  /\ stats \in [Places -> [count : Nat, tenths : Nat]]
  /\ wrote \in [Requests -> SUBSET Row]
  /\ wroteStats \in [Requests -> SUBSET Places]
  /\ inbox \subseteq Notification
  /\ met \in [Requests -> BOOLEAN]

\* A user never has two live reviews of one place, although createReview looks
\* for an existing one before its transaction and any number of requests may
\* pass that check together.
OneLiveReview ==
  \A x, y \in reviews :
    x.live /\ y.live /\ x.place = y.place /\ x.by = y.by => x = y

\* A notification tells of a review that has committed (it may be deleted
\* since), never reaches the review's author, and the owner of the place gets
\* NEW_REVIEW and no other kind.
NotificationsFit ==
  \A n \in inbox : \E x \in reviews :
    /\ x.id = n.about
    /\ n.to # x.by
    /\ n.type = "NEW_REVIEW" <=> n.to = Owner[x.place]

\* The stored stats of a place are those of its live reviews.
Exact(p) ==
  stats[p] = [count  |-> Cardinality(Live(reviews, p)),
              tenths |-> Tenths(Live(reviews, p))]

\* A transaction that no other transaction on the place overlapped leaves the
\* place's stats exact, whatever drift earlier transactions had left behind.
SoloWriterLeavesStatsExact ==
  [][\A r \in Requests :
       Commit(r) /\ ~met[r] /\ PlaceOf(r) \in open => Exact(PlaceOf(r))']_vars

\* The live reviews, as a book of entries.
Shelf == {[id |-> x.id, place |-> x.place, by |-> x.by, rating |-> x.rating] :
            x \in {y \in reviews : y.live}}
Book == INSTANCE ReviewBook
          WITH Ids <- Requests, book <- Shelf, posted <- {x.id : x \in reviews}

\* However requests interleave and fail, readers see reviews posted, re-rated
\* and withdrawn one at a time, one per author and place, none by the owner,
\* and no edit brings back a review that a delete has withdrawn.
ImplementsBook == Book!Spec

\* A request that has been sent is answered: the row locks of concurrent
\* reviews of one place are always taken in the order review, place, so no
\* set of requests waits for itself.
EveryRequestEnds ==
  \A r \in Requests : pc[r] \notin Ended \cup {"new"} ~> pc[r] \in Ended

\* The claim "recomputePlaceStats ... must never drift from the reviews it's
\* derived from" (notificationService.ts:19): when no transaction is open, the
\* stats of every open place are exact.
StatsNeverDrift ==
  (\A r \in Requests : pc[r] \notin InTransaction) => \A p \in open : Exact(p)

-----------------------------------------------------------------------------
(* Why OneLiveReview and NotificationsFit hold: the parts of an invariant    *)
(* that every step preserves (ReviewServiceProofs.tla).                      *)

\* A row keeps the place and the author of the request that created it, and
\* the author is not the owner.
AsCalled(x) ==
  LET c == call[x.id]
  IN  c.op = "create" /\ x.place = c.place /\ x.by = c.user /\ x.by # Owner[x.place]

\* The table has one version of a row, and only of requests past their commit.
RowsCommitted ==
  /\ \A x \in reviews : AsCalled(x) /\ pc[x.id] \in {"tell", "watch"} \cup Ended
  /\ \A x, y \in reviews : x.id = y.id => x = y

\* An edit or a delete goes on with the one row it found.
FoundRows ==
  \A r \in Requests : call[r].op # "create" =>
    /\ pc[r] \in {"write"} \cup InTransaction => found[r] # {}
    /\ \A x \in found[r] : AsCalled(x) /\ x.id = call[r].target

\* A transaction writes one row: a new one whose key no live row has, or a
\* version of a live row.
WritesAllowed ==
  \A r \in Requests :
    /\ wrote[r] # {} => pc[r] \in InTransaction
    /\ \A v, w \in wrote[r] : v = w
    /\ \A w \in wrote[r] :
         /\ AsCalled(w)
         /\ call[r].op = "create" =>
              w.id = r /\ w.live /\ LiveKey(reviews, w.place, w.by) = {}
         /\ call[r].op # "create" =>
              w.id = call[r].target /\ \E x \in reviews : x.id = w.id /\ x.live

\* No two open transactions have written one key.
KeysLocked ==
  \A r, q \in Requests : r # q =>
    \A v \in wrote[r], w \in wrote[q] : ~(v.place = w.place /\ v.by = w.by)

\* Where a create stands: past the owner check, holding its row, announcing it.
CreatesOnTrack ==
  \A r \in Requests :
    /\ pc[r] \in {"check", "tell", "watch"} => call[r].op = "create"
    /\ call[r].op = "create" =>
         /\ pc[r] \in {"check", "write"} => call[r].user # Owner[call[r].place]
         /\ pc[r] \in InTransaction => wrote[r] # {}
         /\ pc[r] \in {"tell", "watch"} => \E x \in reviews : x.id = r

LockDiscipline ==
  /\ RowsCommitted /\ FoundRows /\ WritesAllowed /\ KeysLocked
  /\ CreatesOnTrack /\ OneLiveReview /\ NotificationsFit

\* Why SoloWriterLeavesStatsExact holds: what a transaction that has met no
\* other has read is still what it would read.
SoloView ==
  \A r \in Requests : pc[r] \in InTransaction /\ ~met[r] =>
    LET mine == Live(Seen(r), PlaceOf(r))
    IN  /\ \A q \in Requests \ {r} :
             pc[q] \in InTransaction => PlaceOf(q) # PlaceOf(r)
        /\ pc[r] # "count" => counted[r] = Cardinality(mine)
        /\ pc[r] \in {"store", "commit"} => average[r] = Tenths(mine)
        /\ pc[r] = "commit" => PlaceOf(r) \in wroteStats[r] \/ PlaceOf(r) \notin open
=============================================================================
