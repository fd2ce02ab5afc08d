---------------------------- MODULE BadgeService ----------------------------
(***************************************************************************)
(* Badges, awarded when they are read: getForUser of backend/src/services/ *)
(* badgeService.ts.  What Promise.all starts runs in any order, and goes   *)
(* on after one of its parts has failed and the error has been answered.   *)
(***************************************************************************)
EXTENDS Integers, FiniteSets, Functions

CONSTANTS Users, Places, Reviews, Requests, PlaceOf, AuthorOf,
          Catalog,            \* keys of the rows of providers_badges
          ManyReviews, ManyVotes, ManyPlaces, EliteVotes, \* thresholds of CRITERIA
          NotRead

Badges == {"FIRST_REVIEW", "PROLIFIC_REVIEWER", "HELPFUL_REVIEWER", "EXPLORER", "ELITE_REVIEWER"}

VARIABLES
  call, pc,
  review,   \* state of each review row
  helpful,  \* helpful_count of each review
  awards,   \* rows of providers_user_badges
  earned,   \* the badges a request has found awarded
  stats,    \* the statistics it has read
  todo,     \* badges whose insert or notice is in flight
  notices

badgeRows == <<awards, earned, stats, todo>>

-----------------------------------------------------------------------------
BadgeCalls == [op : {"badges"}, user : Users]

Award == [user : Users, badge : Badges, by : Requests]
Stats == [count : Nat, votes : Nat, places : Nat]
NoReviews == [count |-> 0, votes |-> 0, places |-> 0]

GoTo(r, stage) == pc' = [pc EXCEPT ![r] = stage]

WrittenBy(u) == {v \in Reviews : AuthorOf[v] = u /\ review[v] = "live"}
Votes(u) == SumFunctionOnSet(helpful, WrittenBy(u))
PlacesOf(u) == {PlaceOf[v] : v \in WrittenBy(u)}
StatsOf(u) ==
  [count |-> Cardinality(WrittenBy(u)), votes |-> Votes(u), places |-> Cardinality(PlacesOf(u))]

Criteria(badge, s) ==
  CASE badge = "FIRST_REVIEW" -> s.count >= 1
    [] badge = "PROLIFIC_REVIEWER" -> s.count >= ManyReviews
    [] badge = "HELPFUL_REVIEWER" -> s.votes >= ManyVotes
    [] badge = "EXPLORER" -> s.places >= ManyPlaces
    [] badge = "ELITE_REVIEWER" -> s.count >= ManyReviews /\ s.votes >= EliteVotes

AwardsOf(u) == {a \in awards : a.user = u}

-----------------------------------------------------------------------------
StartBadges(r) ==
  /\ call[r].op = "badges" /\ pc[r] = "start"
  /\ GoTo(r, "count")
  /\ UNCHANGED <<badgeRows, notices>>

\* The awarded badges are read in parallel with the statistics.
ReadEarned(r) ==
  /\ pc[r] \in {"count", "sum", "distinct", "criteria"} /\ earned[r] = NotRead
  /\ earned' = [earned EXCEPT ![r] = {a.badge : a \in AwardsOf(call[r].user)}]
  /\ UNCHANGED <<pc, awards, stats, todo, notices>>

\* getReviewerStats: three statements, or one for a user without reviews.
ReadCount(r) ==
  /\ pc[r] = "count"
  /\ stats' = [stats EXCEPT ![r].count = StatsOf(call[r].user).count]
  /\ GoTo(r, IF WrittenBy(call[r].user) = {} THEN "criteria" ELSE "sum")
  /\ UNCHANGED <<awards, earned, todo, notices>>

ReadVotes(r) ==
  /\ pc[r] = "sum"
  /\ stats' = [stats EXCEPT ![r].votes = StatsOf(call[r].user).votes]
  /\ GoTo(r, "distinct")
  /\ UNCHANGED <<awards, earned, todo, notices>>

ReadPlaces(r) ==
  /\ pc[r] = "distinct"
  /\ stats' = [stats EXCEPT ![r].places = StatsOf(call[r].user).places]
  /\ GoTo(r, "criteria")
  /\ UNCHANGED <<awards, earned, todo, notices>>

NewlyEarned(r) == {b \in Catalog \ earned[r] : Criteria(b, stats[r])}

ApplyCriteria(r) ==
  /\ pc[r] = "criteria" /\ earned[r] # NotRead
  /\ todo' = [todo EXCEPT ![r] = NewlyEarned(r)]
  /\ GoTo(r, IF NewlyEarned(r) = {} THEN "done" ELSE "award")
  /\ UNCHANGED <<awards, earned, stats, notices>>

\* UNIQUE(user_id, badge_id).
KeyTaken(r, b) == \E a \in AwardsOf(call[r].user) : a.badge = b

\* All the inserts are in flight at once.  The first failure is the answer.
AnnouncedAnyway(r, b, fails) ==                              \* (mutant)
  IF todo[r] = {b} THEN "announce" ELSE pc[r]
AfterAward(r, b, fails) ==
  IF fails THEN "award failed"
  ELSE IF todo[r] = {b} /\ pc[r] = "award" THEN "announce" ELSE pc[r]

InsertAward(r, b, fails) ==
  /\ pc[r] \in {"award", "award failed"} /\ b \in todo[r]
  /\ KeyTaken(r, b) => fails
  /\ awards' = IF fails THEN awards
               ELSE awards \cup {[user |-> call[r].user, badge |-> b, by |-> r]}
  /\ GoTo(r, AfterAward(r, b, fails))
  /\ todo' = [todo EXCEPT ![r] = IF AfterAward(r, b, fails) = "announce"
                                 THEN NewlyEarned(r) ELSE @ \ {b}]
  /\ UNCHANGED <<earned, stats, notices>>

BadgeNotice(r, b) == [by |-> r, about |-> b, to |-> call[r].user]

Announce(r, b, fails) ==
  /\ pc[r] \in {"announce", "announce failed"} /\ b \in todo[r]
  /\ notices' = IF fails THEN notices ELSE notices \cup {BadgeNotice(r, b)}
  /\ GoTo(r, IF fails THEN "announce failed"
             ELSE IF todo[r] = {b} /\ pc[r] = "announce" THEN "done" ELSE pc[r])
  /\ todo' = [todo EXCEPT ![r] = @ \ {b}]
  /\ UNCHANGED <<awards, earned, stats>>

BadgeStep(r) ==
  \/ StartBadges(r) \/ ReadEarned(r) \/ ReadCount(r) \/ ReadVotes(r) \/ ReadPlaces(r)
  \/ ApplyCriteria(r)
  \/ \E b \in Badges, fails \in BOOLEAN : InsertAward(r, b, fails) \/ Announce(r, b, fails)

BadgeInit ==
  /\ awards = {}
  /\ earned = [r \in Requests |-> NotRead]
  /\ stats = [r \in Requests |-> NoReviews]
  /\ todo = [r \in Requests |-> {}]

BadgeType ==
  /\ awards \subseteq Award
  /\ earned \in [Requests -> (SUBSET Badges) \cup {NotRead}]
  /\ stats \in [Requests -> Stats]
  /\ todo \in [Requests -> SUBSET Badges]

-----------------------------------------------------------------------------
(* Properties. *)

\* Two readers that both find a badge newly earned award it once.
AwardedOnce == \A a, b \in awards : a.user = b.user /\ a.badge = b.badge => a = b

\* A badge is announced by the request that awarded it, hence once: a request
\* that loses one of its inserts announces none of the badges it found.
AnnouncedByItsAwarder ==
  \A n \in notices : n.about \in Badges =>
    [user |-> n.to, badge |-> n.about, by |-> n.by] \in awards
=============================================================================
