-------------------------- MODULE EngagementProofs --------------------------
(***************************************************************************)
(* Proofs about Engagement: rows that look-ups and inserts apart keep      *)
(* unique, writes that hit the row that was looked up, and notifications   *)
(* that tell the truth, for any number of users, places and requests.      *)
(***************************************************************************)
EXTENDS Engagement, FiniteSetTheorems, WellFoundedInduction, TLAPS

Shape ==
  /\ DOMAIN call = Requests /\ DOMAIN pc = Requests
  /\ text \in [Requests -> Requests]
  /\ DOMAIN listType = Requests /\ DOMAIN found = Requests
  /\ DOMAIN earned = Requests /\ DOMAIN todo = Requests /\ DOMAIN stats = Requests
  /\ \A r \in Requests : stats[r] = [count |-> stats[r].count, votes |-> stats[r].votes,
                                     places |-> stats[r].places]
  /\ replies \subseteq Requests /\ saves \subseteq Requests

Unique == Replies!OneReplyPerReview /\ Saved!OneSavePerUser /\ Badge!AwardedOnce
Truthful == Replies!RepliesSpeakForThePlace /\ Badge!AnnouncedByItsAwarder

Inv == Shape /\ Unique /\ Truthful /\ EngagementDiscipline

USE DEF BadgeKeys, Subjects, Answered

\* Everything but what the other services change.
rows == <<call, pc, notices, read, replies, text, saves, listType, found, awards, earned,
          stats, todo>>

-----------------------------------------------------------------------------
(* What a step leaves alone. *)

LEMMA SameDeserving ==
  ASSUME review' = review, helpful' = helpful
  PROVE  \A u \in Users : Deserving(u)' = Deserving(u)
<1> SUFFICES ASSUME NEW u \in Users PROVE Deserving(u)' = Deserving(u)
  OBVIOUS
<1>1. Badge!WrittenBy(u)' = Badge!WrittenBy(u)
  BY DEF Badge!WrittenBy
<1>2. Badge!Votes(u)' = Badge!Votes(u)
  BY <1>1 DEF Badge!Votes
<1>3. Badge!PlacesOf(u)' = Badge!PlacesOf(u)
  BY <1>1 DEF Badge!PlacesOf
<1>4. Badge!StatsOf(u)' = Badge!StatsOf(u)
  BY <1>1, <1>2, <1>3 DEF Badge!StatsOf
<1> QED BY <1>4 DEF Deserving

LEMMA SameNewlyEarned ==
  ASSUME NEW r, earned'[r] = earned[r], stats'[r] = stats[r]
  PROVE  Badge!NewlyEarned(r)' = Badge!NewlyEarned(r)
  BY DEF Badge!NewlyEarned

\* A request that was sent runs a statement.
Advances(r) ==
  /\ call' = call
  /\ \A q \in Requests \ {r} : pc'[q] = pc[q]
  /\ pc[r] # "new" /\ pc'[r] \notin {"new", "start"}

AwardStages == {"award", "award failed", "announce", "announce failed"}

LEMMA UniqueStays ==
  ASSUME Inv, call' = call, replies' \subseteq replies, saves' \subseteq saves, awards' = awards
  PROVE  Unique'
  BY DEF Inv, Unique, Replies!OneReplyPerReview, Saved!OneSavePerUser, Saved!SameKey,
         Badge!AwardedOnce

LEMMA TruthfulStays ==
  ASSUME Inv, call' = call, replies' \subseteq replies, UNCHANGED <<text, awards>>,
         notices' \subseteq notices
  PROVE  Truthful'
  BY DEF Inv, Truthful, Replies!RepliesSpeakForThePlace, Replies!Keeper,
         Badge!AnnouncedByItsAwarder

LEMMA NamedStay ==
  ASSUME Inv, NEW r \in Requests, Advances(r), text' = text, awards' = awards,
         replies' \subseteq replies, saves' \subseteq saves, notices' \subseteq notices
  PROVE  NamedRows'
<1>1. \A q : Begun(q) <=> Begun(q)'
  BY DEF Begun, Advances
<1> QED BY <1>1 DEF Advances, Inv, EngagementDiscipline, NamedRows

LEMMA AuthorisedStays ==
  ASSUME Inv, NEW r \in Requests, Advances(r),
         call[r].op = "reply" /\ pc'[r] \in {"existing", "insert"} => Replies!OwnsPlace(r),
         call[r].op = "edit reply" /\ pc'[r] = "write" =>
           Begun(call[r].reply) /\ Replies!Keeper(call[call[r].reply].review) = call[r].user,
         call[r].op \in {"mark read", "delete notice"} /\ pc'[r] = "write" =>
           call[r].notice.to = call[r].user
  PROVE  Authorised'
<1>1. \A q : Begun(q) <=> Begun(q)'
  BY DEF Begun, Advances
<1>2. \A q : Replies!OwnsPlace(q)' <=> Replies!OwnsPlace(q)
  BY DEF Advances, Replies!OwnsPlace, Replies!Keeper
<1>3. \A q \in Requests \ {r} : pc'[q] = pc[q] /\ call' = call
  BY DEF Advances
<1> SUFFICES ASSUME NEW q \in Requests
             PROVE  /\ call'[q].op = "reply" /\ pc'[q] \in {"existing", "insert"} =>
                         Replies!OwnsPlace(q)'
                    /\ call'[q].op = "edit reply" /\ pc'[q] = "write" =>
                         /\ Begun(call[q].reply)'
                         /\ Replies!Keeper(call[call[q].reply].review)' = call'[q].user
                    /\ call'[q].op \in {"mark read", "delete notice"} /\ pc'[q] = "write" =>
                         call'[q].notice.to = call'[q].user
  BY DEF Authorised
<1>4. call' = call /\ \A v : Replies!Keeper(v)' = Replies!Keeper(v)
  BY DEF Advances, Replies!Keeper
<1>5. CASE q = r
  BY <1>1, <1>2, <1>4, <1>5 DEF Replies!Keeper
<1>6. CASE q # r
  BY <1>1, <1>2, <1>3, <1>6 DEF Inv, EngagementDiscipline, Authorised, Replies!Keeper
<1> QED BY <1>5, <1>6

LEMMA ListingStays ==
  ASSUME Inv, NEW r \in Requests, Advances(r),
         \A q \in saves' : listType'[q] # "SAVED" =>
           \/ q \in saves /\ listType'[q] = listType[q]
           \/ call[r].op = "set list" /\ found'[r] = q /\ call[r].list = listType'[q],
         \A q \in Requests : pc[q] # "start" => found'[q] = found[q]
  PROVE  Listing'
<1> SUFFICES ASSUME NEW q \in saves', listType'[q] # "SAVED"
             PROVE  \E w \in Requests : /\ call'[w].op = "set list" /\ pc'[w] \notin {"new", "start"}
                                        /\ found'[w] = q /\ call'[w].list = listType'[q]
  BY DEF Listing
<1>1. CASE call[r].op = "set list" /\ found'[r] = q /\ call[r].list = listType'[q]
  BY <1>1 DEF Advances
<1>2. CASE q \in saves /\ listType'[q] = listType[q]
  <2>1. PICK w \in Requests : /\ call[w].op = "set list" /\ pc[w] \notin {"new", "start"}
                              /\ found[w] = q /\ call[w].list = listType[q]
    BY <1>2 DEF Inv, EngagementDiscipline, Listing
  <2>2. pc'[w] \notin {"new", "start"} /\ found'[w] = q
    BY <2>1 DEF Advances
  <2> QED BY <1>2, <2>1, <2>2 DEF Advances
<1> QED BY <1>1, <1>2

LEMMA StoredStays ==
  ASSUME NEW r \in Requests, Advances(r),
         \A q \in replies \ replies' : call[r].op = "delete reply" /\ call[r].reply = q
  PROVE  \A q : StoredOrDeleted(q) => StoredOrDeleted(q)'
<1> SUFFICES ASSUME NEW q, StoredOrDeleted(q) PROVE StoredOrDeleted(q)'
  OBVIOUS
<1>1. \A w : Begun(w) <=> Begun(w)'
  BY DEF Begun, Advances
<1>2. CASE q \in replies
  BY <1>1, <1>2 DEF StoredOrDeleted, Advances, Begun
<1>3. CASE q \notin replies
  BY <1>1, <1>3 DEF StoredOrDeleted, Advances
<1> QED BY <1>2, <1>3

LEMMA TellStays ==
  ASSUME Inv, NEW r \in Requests, Advances(r),
         \A q \in replies \ replies' : call[r].op = "delete reply" /\ call[r].reply = q,
         \A n \in notices' \ notices : n.about = "reply" =>
           n.by = r /\ call[r].op = "reply" /\ n.to = AuthorOf[call[r].review] /\ StoredOrDeleted(r),
         call[r].op = "reply" /\ pc'[r] = "tell" => StoredOrDeleted(r)'
  PROVE  RepliesToTell'
<1>1. \A q : StoredOrDeleted(q) => StoredOrDeleted(q)'
  BY StoredStays
<1>2. \A q \in Requests \ {r} : pc'[q] = pc[q] /\ call' = call
  BY DEF Advances
<1>3. \A q \in Requests : call'[q].op = "reply" /\ pc'[q] = "tell" => StoredOrDeleted(q)'
  BY <1>1, <1>2 DEF Inv, EngagementDiscipline, RepliesToTell, Advances
<1>4. \A n \in notices' : n.about = "reply" =>
        /\ call'[n.by].op = "reply" /\ n.to = AuthorOf[call'[n.by].review]
        /\ StoredOrDeleted(n.by)'
  BY <1>1 DEF Inv, EngagementDiscipline, RepliesToTell, Advances
<1> QED BY <1>3, <1>4 DEF RepliesToTell

LEMMA AwardingStays ==
  ASSUME Inv, NEW r \in Requests, Advances(r), awards \subseteq awards',
         \A q \in Requests \ {r} :
           todo'[q] = todo[q] /\ earned'[q] = earned[q] /\ stats'[q] = stats[q],
         pc'[r] \in AwardStages => AwardingBy(r)'
  PROVE  Awarding'
<1>1. AwardingBy(r)'
  BY DEF AwardingBy, AwardStages
<1>2. ASSUME NEW q \in Requests \ {r} PROVE AwardingBy(q)'
  <2>1. Badge!NewlyEarned(q)' = Badge!NewlyEarned(q) /\ pc'[q] = pc[q]
    BY SameNewlyEarned DEF Advances
  <2>2. \A b : AwardOf(q, b)' = AwardOf(q, b)
    BY DEF AwardOf, Advances
  <2> QED BY <2>1, <2>2 DEF Inv, EngagementDiscipline, Awarding, AwardingBy
<1> QED BY <1>1, <1>2 DEF Awarding

LEMMA EarningStays ==
  ASSUME Inv, NEW r \in Requests, Advances(r), UNCHANGED world,
         \A q \in Requests \ {r} : stats'[q] = stats[q],
         \A b \in Catalog \ {"ELITE_REVIEWER"} :
           Badge!Criteria(b, stats'[r]) => b \in deserved[call[r].user],
         \A a \in awards' \ awards :
           /\ a.by = r /\ pc'[r] \in AwardStages
           /\ a.badge \in Catalog /\ Badge!Criteria(a.badge, stats'[r]),
         pc[r] \in AwardStages \cup {"done"} =>
           pc'[r] \in AwardStages \cup {"done"} /\ stats'[r] = stats[r]
  PROVE  Earning'
<1>1. \A u \in Users : Deserving(u)' \subseteq deserved'[u]
  BY SameDeserving DEF world, Inv, EngagementDiscipline, Earning
<1>2. ASSUME NEW q \in Requests
      PROVE  /\ pc'[q] \in {"new", "start"} => stats'[q] = Badge!NoReviews
             /\ \A b \in Catalog \ {"ELITE_REVIEWER"} :
                  Badge!Criteria(b, stats'[q]) => b \in deserved'[call'[q].user]
  BY DEF world, Advances, Inv, EngagementDiscipline, Earning
<1>3. ASSUME NEW a \in awards'
      PROVE  /\ pc'[a.by] \in AwardStages \cup {"done"}
             /\ a.badge \in Catalog /\ Badge!Criteria(a.badge, stats'[a.by])
  <2>1. CASE a \notin awards
    BY <2>1
  <2>2. CASE a \in awards
    <3>1. /\ a.by \in Requests /\ pc[a.by] \in AwardStages \cup {"done"}
          /\ a.badge \in Catalog /\ Badge!Criteria(a.badge, stats[a.by])
      BY <2>2 DEF Inv, EngagementDiscipline, Earning, NamedRows, Begun, AwardStages
    <3> QED BY <3>1 DEF Advances
  <2> QED BY <2>1, <2>2
<1> QED BY <1>1, <1>2, <1>3 DEF Earning, AwardStages

\* A statistic that has not changed, or that was read just now, earns nothing undeserved.
LEMMA SameEarnings ==
  ASSUME Inv, NEW r \in Requests, stats'[r] = stats[r]
  PROVE  \A b \in Catalog \ {"ELITE_REVIEWER"} :
           Badge!Criteria(b, stats'[r]) => b \in deserved[call[r].user]
  BY DEF Inv, EngagementDiscipline, Earning

LEMMA NothingEarnedYet == \A b \in Catalog : ~Badge!Criteria(b, Badge!NoReviews)
<1>1. /\ ManyReviews \in Nat \ {0} /\ ManyVotes \in Nat \ {0}
      /\ ManyPlaces \in Nat \ {0} /\ EliteVotes \in Nat \ {0}
  BY CriteriaType
<1>2. /\ Badge!NoReviews.count = 0 /\ Badge!NoReviews.votes = 0 /\ Badge!NoReviews.places = 0
  BY DEF Badge!NoReviews
<1>3. \A n \in Nat \ {0} : ~(0 >= n)
  OBVIOUS
<1> SUFFICES ASSUME NEW b \in Catalog PROVE ~Badge!Criteria(b, Badge!NoReviews)
  OBVIOUS
<1>4. b \in BadgeKeys
  BY CriteriaType
<1>5. b = "FIRST_REVIEW" => ~Badge!Criteria(b, Badge!NoReviews)
  BY <1>2, <1>3 DEF Badge!Criteria
<1>6. b \in {"PROLIFIC_REVIEWER", "ELITE_REVIEWER"} => ~Badge!Criteria(b, Badge!NoReviews)
  BY <1>1, <1>2, <1>3 DEF Badge!Criteria
<1>7. b = "HELPFUL_REVIEWER" => ~Badge!Criteria(b, Badge!NoReviews)
  BY <1>1, <1>2, <1>3 DEF Badge!Criteria
<1>8. b = "EXPLORER" => ~Badge!Criteria(b, Badge!NoReviews)
  BY <1>1, <1>2, <1>3 DEF Badge!Criteria
<1> QED BY <1>4, <1>5, <1>6, <1>7, <1>8

-----------------------------------------------------------------------------
(* One lemma per action. *)

\* A request is sent.
LEMMA BeginKeeps == ASSUME Inv, NEW r \in Requests, Begin(r) PROVE Inv'
<1>1. /\ pc[r] = "new" /\ pc'[r] = "start" /\ call'[r].user \in Users
      /\ \A q \in Requests \ {r} : pc'[q] = pc[q] /\ call'[q] = call[q]
  BY DEF Begin, Calls, Inv, Shape, Replies!CreateReplyCalls, Replies!ChangeReplyCalls,
     Saved!SaveCalls, Badge!BadgeCalls, Notices!NoticeCalls
<1>2. UNCHANGED <<world, notices, read, replies, text, saves, listType, found, awards, earned,
                  stats, todo>>
  BY DEF Begin
<1>3. \A q : Begun(q) => q # r /\ Begun(q)' /\ call'[q] = call[q]
  BY <1>1 DEF Begun
<1>4. Shape'
  BY <1>2 DEF Inv, Shape, Begin
<1>5. NamedRows'
  <2>1. \A q \in Requests : Begun(q)' => call'[q].user \in Users
    BY <1>1 DEF Begun, Inv, EngagementDiscipline, NamedRows
  <2> QED BY <1>2, <1>3, <2>1 DEF Inv, EngagementDiscipline, NamedRows
<1>6. Unique'
  BY <1>2, <1>3 DEF Inv, EngagementDiscipline, NamedRows, Unique, Replies!OneReplyPerReview,
     Saved!OneSavePerUser, Saved!SameKey, Badge!AwardedOnce
<1>7. Truthful'
  BY <1>2, <1>3 DEF Inv, EngagementDiscipline, NamedRows, Truthful,
     Replies!RepliesSpeakForThePlace, Replies!Keeper, Badge!AnnouncedByItsAwarder
<1>8. Authorised'
  <2> SUFFICES ASSUME NEW q \in Requests
               PROVE  /\ call'[q].op = "reply" /\ pc'[q] \in {"existing", "insert"} =>
                           Replies!OwnsPlace(q)'
                      /\ call'[q].op = "edit reply" /\ pc'[q] = "write" =>
                           /\ Begun(call[q].reply)'
                           /\ Replies!Keeper(call[call[q].reply].review)' = call'[q].user
                      /\ call'[q].op \in {"mark read", "delete notice"} /\ pc'[q] = "write" =>
                           call'[q].notice.to = call'[q].user
    BY DEF Authorised
  <2>1. CASE q = r
    BY <1>1, <2>1
  <2>2. CASE q # r
    <3>1. pc'[q] = pc[q] /\ call'[q] = call[q]
      BY <1>1, <2>2
    <3>2. Begun(call[q].reply) => Begun(call[q].reply)' /\ call'[call[q].reply] = call[call[q].reply]
      BY <1>3, <3>1
    <3> QED BY <3>1, <3>2 DEF Inv, EngagementDiscipline, Authorised, Replies!OwnsPlace, Replies!Keeper
  <2> QED BY <2>1, <2>2
<1>9. Listing'
  <2> SUFFICES ASSUME NEW q \in saves, listType[q] # "SAVED"
               PROVE  \E w \in Requests : /\ call'[w].op = "set list" /\ pc'[w] \notin {"new", "start"}
                                          /\ found[w] = q /\ call'[w].list = listType[q]
    BY <1>2 DEF Listing
  <2>1. PICK w \in Requests : /\ call[w].op = "set list" /\ pc[w] \notin {"new", "start"}
                              /\ found[w] = q /\ call[w].list = listType[q]
    BY DEF Inv, EngagementDiscipline, Listing
  <2> QED BY <1>1, <2>1
<1>10. RepliesToTell'
  <2>1. \A q : StoredOrDeleted(q) => StoredOrDeleted(q)'
    BY <1>2, <1>3 DEF StoredOrDeleted
  <2>2. \A q \in Requests : call'[q].op = "reply" /\ pc'[q] = "tell" => StoredOrDeleted(q)'
    BY <1>1, <2>1 DEF Inv, EngagementDiscipline, RepliesToTell
  <2>3. \A n \in notices : n.about = "reply" =>
          /\ call'[n.by].op = "reply" /\ n.to = AuthorOf[call'[n.by].review]
          /\ StoredOrDeleted(n.by)'
    BY <1>3, <2>1 DEF Inv, EngagementDiscipline, NamedRows, RepliesToTell
  <2> QED BY <1>2, <2>2, <2>3 DEF RepliesToTell
<1>11. Awarding'
  <2> SUFFICES ASSUME NEW q \in Requests PROVE AwardingBy(q)'
    BY DEF Awarding
  <2>1. Badge!NewlyEarned(q)' = Badge!NewlyEarned(q)
    BY <1>2, SameNewlyEarned
  <2>2. CASE q = r
    BY <1>1, <2>2 DEF AwardingBy
  <2>3. CASE q # r
    BY <1>1, <1>2, <2>1, <2>3 DEF AwardingBy, AwardOf, Inv, EngagementDiscipline, Awarding
  <2> QED BY <2>2, <2>3
<1>12. Earning'
  <2>1. \A u \in Users : Deserving(u)' \subseteq deserved'[u]
    BY <1>2, SameDeserving DEF world, Inv, EngagementDiscipline, Earning
  <2>2. ASSUME NEW q \in Requests
        PROVE  /\ pc'[q] \in {"new", "start"} => stats[q] = Badge!NoReviews
               /\ \A b \in Catalog \ {"ELITE_REVIEWER"} :
                    Badge!Criteria(b, stats[q]) => b \in deserved[call'[q].user]
    BY <1>1, NothingEarnedYet DEF Inv, EngagementDiscipline, Earning
  <2>3. \A a \in awards : /\ pc'[a.by] \in AwardStages \cup {"done"}
                          /\ a.badge \in Catalog /\ Badge!Criteria(a.badge, stats[a.by])
    BY <1>1, <1>3 DEF Inv, EngagementDiscipline, NamedRows, Earning, Begun, AwardStages
  <2> QED BY <1>2, <2>1, <2>2, <2>3 DEF world, Earning, AwardStages
<1> QED BY <1>4, <1>5, <1>6, <1>7, <1>8, <1>9, <1>10, <1>11, <1>12 DEF Inv, EngagementDiscipline

\* A look-up, a failure or an answer: the request goes on and writes nothing.
LEMMA MoveKeeps ==
  ASSUME Inv, NEW r \in Requests, pc[r] # "new", NEW stage, pc' = [pc EXCEPT ![r] = stage],
         stage \notin {"new", "start", "tell"} \cup AwardStages,
         pc[r] \notin AwardStages \cup {"done"},
         call[r].op = "reply" /\ stage \in {"existing", "insert"} => Replies!OwnsPlace(r),
         call[r].op = "edit reply" /\ stage = "write" => Replies!Writable(r),
         call[r].op \in {"mark read", "delete notice"} /\ stage = "write" =>
           call[r].notice.to = call[r].user,
         UNCHANGED <<call, world, notices, read, replies, text, saves, listType, found, awards,
                     earned, stats, todo>>
  PROVE  Inv'
<1>1. Advances(r) /\ pc[r] \in {pc[r]} /\ pc'[r] \in {stage}
  BY DEF Advances, Inv, Shape, AwardStages
<1>2. Shape'
  BY <1>1 DEF Inv, EngagementDiscipline, Shape, NamedRows, Advances, AwardStages
<1>3. Unique'
  BY <1>1, UniqueStays DEF Advances, AwardStages
<1>4. Truthful'
  BY <1>1, TruthfulStays DEF Advances, AwardStages
<1>5. NamedRows'
  BY <1>1, NamedStay DEF AwardStages
<1>6. Authorised'
  BY <1>1, AuthorisedStays DEF Replies!Writable, Inv, EngagementDiscipline, NamedRows
<1>7. Listing'
  BY <1>1, ListingStays DEF Inv, Shape, AwardStages
<1>8. RepliesToTell'
  BY <1>1, TellStays DEF AwardStages
<1>9. Awarding'
  BY <1>1, AwardingStays DEF Inv, Shape, AwardStages, AwardStages
<1>10. Earning'
  BY <1>1, EarningStays, SameEarnings DEF Inv, Shape, world, AwardStages, AwardStages
<1> QED BY <1>2, <1>3, <1>4, <1>5, <1>6, <1>7, <1>8, <1>9, <1>10 DEF Inv, EngagementDiscipline

LEMMA InsertReplyKeeps ==
  ASSUME Inv, NEW r \in Requests, Replies!InsertReply(r),
         UNCHANGED <<call, world, read, saves, listType, found, awards, earned, stats, todo>>
  PROVE  Inv'
<1>1. Advances(r) /\ pc[r] \in {"insert"} /\ pc'[r] \in {"tell", "error"}
  BY DEF Advances, Inv, Shape, Replies!InsertReply, Replies!At, Replies!GoTo, Replies!replyRows,
     Replies!KeyTaken, Replies!RepliesTo
<1>11. \/ UNCHANGED <<replies, text>> /\ pc'[r] = "error"
       \/ /\ replies' = replies \cup {r} /\ text' = [text EXCEPT ![r] = r]
          /\ \A q \in replies : call[q].review # call[r].review
  BY <1>1 DEF Inv, Shape, Replies!InsertReply, Replies!GoTo, Replies!replyRows, Replies!KeyTaken,
     Replies!RepliesTo
<1>12. Replies!OwnsPlace(r) /\ call[r].op = "reply" /\ UNCHANGED <<notices, saves, awards>>
  BY DEF Replies!InsertReply, Replies!At, Inv, EngagementDiscipline, Authorised
<1>2. Shape'
  BY <1>1, <1>11, <1>12 DEF Inv, EngagementDiscipline, Shape, NamedRows, Advances,
     Replies!InsertReply, Replies!At, Replies!GoTo, Replies!replyRows, Replies!KeyTaken,
     Replies!RepliesTo
<1>3. Unique'
  BY <1>1, <1>11, <1>12 DEF Inv, EngagementDiscipline, Shape, NamedRows, Unique,
     Replies!OneReplyPerReview, Saved!OneSavePerUser, Saved!SameKey, Badge!AwardedOnce,
     Advances, Replies!OwnsPlace
<1>4. Truthful'
  BY <1>1, <1>11, <1>12 DEF Inv, EngagementDiscipline, Shape, NamedRows, Truthful,
     Replies!RepliesSpeakForThePlace, Replies!Keeper, Badge!AnnouncedByItsAwarder, Badge!Badges,
     Advances, Replies!OwnsPlace
<1>5. NamedRows'
  BY <1>1, <1>11, <1>12 DEF Inv, EngagementDiscipline, Shape, NamedRows, Begun, Advances,
     Replies!OwnsPlace
<1>6. Authorised'
  BY <1>1, AuthorisedStays DEF Replies!InsertReply, Replies!replyRows, Replies!KeyTaken,
     Replies!RepliesTo
<1>7. Listing'
  BY <1>1, <1>11, <1>12, ListingStays DEF Inv, Shape, Replies!InsertReply, Replies!replyRows,
     Replies!KeyTaken, Replies!RepliesTo
<1>8. RepliesToTell'
  <2>1. pc'[r] = "tell" => StoredOrDeleted(r)'
    BY <1>11 DEF StoredOrDeleted
  <2> QED BY <1>1, <1>11, <1>12, <2>1, TellStays
<1>9. Awarding'
  BY <1>1, AwardingStays DEF Inv, Shape, AwardStages, Replies!InsertReply, Replies!replyRows,
     Replies!KeyTaken, Replies!RepliesTo
<1>10. Earning'
  BY <1>1, EarningStays, SameEarnings DEF Inv, Shape, world, AwardStages, Replies!InsertReply,
     Replies!replyRows, Replies!KeyTaken, Replies!RepliesTo
<1> QED BY <1>2, <1>3, <1>4, <1>5, <1>6, <1>7, <1>8, <1>9, <1>10 DEF Inv, EngagementDiscipline

LEMMA TellReviewerKeeps ==
  ASSUME Inv, NEW r \in Requests, Replies!TellReviewer(r),
         UNCHANGED <<call, world, read, saves, listType, found, awards, earned, stats, todo>>
  PROVE  Inv'
<1>1. Advances(r) /\ pc[r] \in {"tell"} /\ pc'[r] \in {"done"}
  BY DEF Advances, Inv, Shape, Replies!TellReviewer, Replies!At, Replies!GoTo,
     Replies!replyRows, Replies!ReplyNotice
<1>11. StoredOrDeleted(r) /\ call[r].op = "reply"
  BY DEF Replies!TellReviewer, Replies!At, Inv, EngagementDiscipline, RepliesToTell
<1>12. /\ notices' = notices \cup {[by |-> r, about |-> "reply", to |-> AuthorOf[call[r].review]]}
       /\ replies' = replies
  BY DEF Replies!TellReviewer, Replies!ReplyNotice, Replies!replyRows
<1>2. Shape'
  BY <1>1, <1>11, <1>12 DEF Inv, EngagementDiscipline, Shape, NamedRows, Advances,
     Replies!TellReviewer, Replies!At, Replies!GoTo, Replies!replyRows, Replies!ReplyNotice
<1>3. Unique'
  BY <1>1, UniqueStays DEF Advances, Replies!TellReviewer, Replies!replyRows, Replies!ReplyNotice
<1>4. Truthful'
  BY <1>1, <1>11, <1>12 DEF Inv, EngagementDiscipline, Shape, NamedRows, Truthful,
     Replies!RepliesSpeakForThePlace, Replies!Keeper, Badge!AnnouncedByItsAwarder, Badge!Badges,
     Advances, Replies!TellReviewer, Replies!At, Replies!GoTo, Replies!replyRows,
     Replies!ReplyNotice
<1>5. NamedRows'
  BY <1>1, <1>11, <1>12 DEF Inv, EngagementDiscipline, Shape, NamedRows, Begun, Advances,
     Replies!TellReviewer, Replies!At, Replies!GoTo, Replies!replyRows, Replies!ReplyNotice
<1>6. Authorised'
  BY <1>1, AuthorisedStays DEF Replies!TellReviewer, Replies!replyRows, Replies!ReplyNotice
<1>7. Listing'
  BY <1>1, <1>11, <1>12, ListingStays DEF Inv, Shape, Replies!TellReviewer, Replies!replyRows,
     Replies!ReplyNotice
<1>8. RepliesToTell'
  <2>1. \A n \in notices' \ notices : n.by = r /\ n.to = AuthorOf[call[r].review]
    BY <1>12
  <2>2. pc'[r] # "tell"
    BY <1>1
  <2> QED BY <1>1, <1>11, <1>12, <2>1, <2>2, TellStays
<1>9. Awarding'
  BY <1>1, AwardingStays DEF Inv, Shape, AwardStages, Replies!TellReviewer, Replies!replyRows,
     Replies!ReplyNotice
<1>10. Earning'
  BY <1>1, EarningStays, SameEarnings DEF Inv, Shape, world, AwardStages, Replies!TellReviewer,
     Replies!replyRows, Replies!ReplyNotice
<1> QED BY <1>2, <1>3, <1>4, <1>5, <1>6, <1>7, <1>8, <1>9, <1>10 DEF Inv, EngagementDiscipline

LEMMA EditReplyKeeps ==
  ASSUME Inv, NEW r \in Requests, Replies!EditReply(r),
         UNCHANGED <<call, world, read, saves, listType, found, awards, earned, stats, todo>>
  PROVE  Inv'
<1>1. Advances(r) /\ pc[r] \in {"write"} /\ pc'[r] \in {"done"}
  BY DEF Advances, Inv, Shape, Replies!EditReply, Replies!At, Replies!GoTo
<1>11. Begun(call[r].reply) /\ Replies!Keeper(call[call[r].reply].review) = call[r].user
  BY DEF Replies!EditReply, Replies!At, Inv, EngagementDiscipline, Authorised
<1>12. /\ UNCHANGED <<replies, notices, awards>>
       /\ \A q \in Requests : text'[q] = text[q] \/ (q = call[r].reply /\ text'[q] = r)
  BY DEF Replies!EditReply, Inv, Shape
<1>2. Shape'
  BY <1>1, <1>11, <1>12 DEF Inv, EngagementDiscipline, Shape, NamedRows, Advances,
     Replies!EditReply, Replies!At, Replies!GoTo
<1>3. Unique'
  BY <1>1, UniqueStays DEF Advances, Replies!EditReply
<1>4. Truthful'
  <2>1. ASSUME NEW q \in replies PROVE call[text'[q]].user = Replies!Keeper(call[q].review)
    <3>1. q \in Requests /\ call[text[q]].user = Replies!Keeper(call[q].review)
      BY DEF Inv, Shape, Truthful, Replies!RepliesSpeakForThePlace
    <3> QED BY <1>11, <1>12, <3>1
  <2> QED BY <1>12, <2>1 DEF Advances, Inv, Truthful, Replies!RepliesSpeakForThePlace, Replies!Keeper,
       Badge!AnnouncedByItsAwarder
<1>5. NamedRows'
  BY <1>1, <1>11, <1>12 DEF Inv, EngagementDiscipline, Shape, NamedRows, Begun, Advances,
     Replies!EditReply, Replies!At, Replies!GoTo
<1>6. Authorised'
  BY <1>1, AuthorisedStays DEF Replies!EditReply
<1>7. Listing'
  BY <1>1, <1>11, <1>12, ListingStays DEF Inv, Shape, Replies!EditReply
<1>8. RepliesToTell'
  BY <1>1, <1>11, <1>12, TellStays DEF Replies!EditReply
<1>9. Awarding'
  BY <1>1, AwardingStays DEF Inv, Shape, AwardStages, Replies!EditReply
<1>10. Earning'
  BY <1>1, EarningStays, SameEarnings DEF Inv, Shape, world, AwardStages, Replies!EditReply
<1> QED BY <1>2, <1>3, <1>4, <1>5, <1>6, <1>7, <1>8, <1>9, <1>10 DEF Inv, EngagementDiscipline

LEMMA DeleteReplyKeeps ==
  ASSUME Inv, NEW r \in Requests, Replies!DeleteReply(r),
         UNCHANGED <<call, world, read, saves, listType, found, awards, earned, stats, todo>>
  PROVE  Inv'
<1>1. Advances(r) /\ pc[r] \in {"write"} /\ pc'[r] \in {"done"}
  BY DEF Advances, Inv, Shape, Replies!DeleteReply, Replies!At, Replies!GoTo
<1>2. Shape'
  BY <1>1 DEF Inv, EngagementDiscipline, Shape, NamedRows, Advances, Replies!DeleteReply,
     Replies!At, Replies!GoTo
<1>3. Unique'
  BY <1>1, UniqueStays DEF Advances, Replies!DeleteReply
<1>4. Truthful'
  BY <1>1, TruthfulStays DEF Advances, Replies!DeleteReply
<1>5. NamedRows'
  BY <1>1, NamedStay DEF Replies!DeleteReply
<1>6. Authorised'
  BY <1>1, AuthorisedStays DEF Replies!DeleteReply
<1>7. Listing'
  BY <1>1, ListingStays DEF Inv, Shape, Replies!DeleteReply
<1>8. RepliesToTell'
  BY <1>1, TellStays DEF Replies!DeleteReply, Replies!At
<1>9. Awarding'
  BY <1>1, AwardingStays DEF Inv, Shape, AwardStages, Replies!DeleteReply
<1>10. Earning'
  BY <1>1, EarningStays, SameEarnings DEF Inv, Shape, world, AwardStages, Replies!DeleteReply
<1> QED BY <1>2, <1>3, <1>4, <1>5, <1>6, <1>7, <1>8, <1>9, <1>10 DEF Inv, EngagementDiscipline

LEMMA FindSaveKeeps ==
  ASSUME Inv, NEW r \in Requests, Saved!FindSave(r),
         UNCHANGED <<call, world, notices, read, replies, text, awards, earned, stats, todo>>
  PROVE  Inv'
<1>1. Advances(r) /\ pc[r] \in {"start"} /\ pc'[r] \in {"write", "error"}
  BY DEF Advances, Inv, Shape, Saved!FindSave, Saved!GoTo
<1>2. Shape'
  BY <1>1 DEF Inv, EngagementDiscipline, Shape, NamedRows, Advances, Saved!FindSave, Saved!GoTo
<1>3. Unique'
  BY <1>1, UniqueStays DEF Advances, Saved!FindSave
<1>4. Truthful'
  BY <1>1, TruthfulStays DEF Advances, Saved!FindSave
<1>5. NamedRows'
  BY <1>1, NamedStay DEF Saved!FindSave
<1>6. Authorised'
  BY <1>1, AuthorisedStays DEF Saved!FindSave
<1>7. Listing'
  BY <1>1, ListingStays DEF Inv, Shape, Saved!FindSave
<1>8. RepliesToTell'
  BY <1>1, TellStays DEF Saved!FindSave
<1>9. Awarding'
  BY <1>1, AwardingStays DEF Inv, Shape, AwardStages, Saved!FindSave
<1>10. Earning'
  BY <1>1, EarningStays, SameEarnings DEF Inv, Shape, world, AwardStages, Saved!FindSave
<1> QED BY <1>2, <1>3, <1>4, <1>5, <1>6, <1>7, <1>8, <1>9, <1>10 DEF Inv, EngagementDiscipline

LEMMA UnsaveKeeps ==
  ASSUME Inv, NEW r \in Requests, Saved!Unsave(r),
         UNCHANGED <<call, world, notices, read, replies, text, awards, earned, stats, todo>>
  PROVE  Inv'
<1>1. Advances(r) /\ pc[r] \in {"write"} /\ pc'[r] \in {"unsaved"}
  BY DEF Advances, Inv, Shape, Saved!Unsave, Saved!GoTo
<1>2. Shape'
  BY <1>1 DEF Inv, EngagementDiscipline, Shape, NamedRows, Advances, Saved!Unsave, Saved!GoTo
<1>3. Unique'
  BY <1>1, UniqueStays DEF Advances, Saved!Unsave
<1>4. Truthful'
  BY <1>1, TruthfulStays DEF Advances, Saved!Unsave
<1>5. NamedRows'
  BY <1>1, NamedStay DEF Saved!Unsave
<1>6. Authorised'
  BY <1>1, AuthorisedStays DEF Saved!Unsave
<1>7. Listing'
  BY <1>1, ListingStays DEF Inv, Shape, Saved!Unsave
<1>8. RepliesToTell'
  BY <1>1, TellStays DEF Saved!Unsave
<1>9. Awarding'
  BY <1>1, AwardingStays DEF Inv, Shape, AwardStages, Saved!Unsave
<1>10. Earning'
  BY <1>1, EarningStays, SameEarnings DEF Inv, Shape, world, AwardStages, Saved!Unsave
<1> QED BY <1>2, <1>3, <1>4, <1>5, <1>6, <1>7, <1>8, <1>9, <1>10 DEF Inv, EngagementDiscipline

LEMMA SaveKeeps ==
  ASSUME Inv, NEW r \in Requests, Saved!Save(r),
         UNCHANGED <<call, world, notices, read, replies, text, awards, earned, stats, todo>>
  PROVE  Inv'
<1>1. Advances(r) /\ pc[r] \in {"write"} /\ pc'[r] \in {"saved", "error"}
  BY DEF Advances, Inv, Shape, Saved!Save, Saved!GoTo, Saved!KeyTaken, Saved!RowsOf
<1>11. \/ UNCHANGED <<saves, listType>>
       \/ /\ saves' = saves \cup {r} /\ listType' = [listType EXCEPT ![r] = "SAVED"]
          /\ \A q \in saves : ~Saved!SameKey(q, r)
  BY DEF Saved!Save, Saved!KeyTaken, Saved!RowsOf
<1>2. Shape'
  BY <1>1, <1>11 DEF Inv, EngagementDiscipline, Shape, NamedRows, Advances, Saved!Save, Saved!GoTo
<1>3. Unique'
  <2>1. \A q, w \in saves' : Saved!SameKey(q, w) => q = w
    <3>1. \A q, w : Saved!SameKey(q, w) => Saved!SameKey(w, q)
      BY DEF Saved!SameKey
    <3> QED BY <1>11, <3>1 DEF Inv, Unique, Saved!OneSavePerUser
  <2>2. call' = call
    BY DEF Advances
  <2> QED BY <2>1, <2>2 DEF Inv, Unique, Replies!OneReplyPerReview, Saved!OneSavePerUser,
       Saved!SameKey, Badge!AwardedOnce
<1>4. Truthful'
  BY <1>1, TruthfulStays DEF Advances, Saved!Save, Saved!KeyTaken, Saved!RowsOf
<1>5. NamedRows'
  <2>1. \A q : Begun(q) => Begun(q)'
    BY <1>1 DEF Begun, Advances
  <2>2. Begun(r)
    BY <1>1 DEF Begun
  <2>3. \A q \in saves' : Begun(q)'
    BY <1>11, <2>1, <2>2 DEF Inv, EngagementDiscipline, NamedRows
  <2>4. \A q : Begun(q)' => Begun(q)
    BY <1>1 DEF Begun, Advances
  <2> QED BY <2>1, <2>3, <2>4 DEF Inv, EngagementDiscipline, NamedRows
<1>6. Authorised'
  BY <1>1, AuthorisedStays DEF Saved!Save, Saved!KeyTaken, Saved!RowsOf
<1>7. Listing'
  BY <1>1, <1>11, ListingStays DEF Inv, Shape, Saved!Save, Saved!KeyTaken, Saved!RowsOf
<1>8. RepliesToTell'
  BY <1>1, <1>11, TellStays DEF Saved!Save, Saved!KeyTaken, Saved!RowsOf
<1>9. Awarding'
  BY <1>1, AwardingStays DEF Inv, Shape, AwardStages, Saved!Save, Saved!KeyTaken, Saved!RowsOf
<1>10. Earning'
  BY <1>1, EarningStays, SameEarnings DEF Inv, Shape, world, AwardStages, Saved!Save,
     Saved!KeyTaken, Saved!RowsOf
<1> QED BY <1>2, <1>3, <1>4, <1>5, <1>6, <1>7, <1>8, <1>9, <1>10 DEF Inv, EngagementDiscipline

LEMMA SetListKeeps ==
  ASSUME Inv, NEW r \in Requests, Saved!SetList(r),
         UNCHANGED <<call, world, notices, read, replies, text, awards, earned, stats, todo>>
  PROVE  Inv'
<1>1. Advances(r) /\ pc[r] \in {"write"} /\ pc'[r] \in {"read back"}
  BY DEF Advances, Inv, Shape, Saved!SetList, Saved!GoTo, Saved!Listed
<1>2. Shape'
  BY <1>1 DEF Inv, EngagementDiscipline, Shape, NamedRows, Advances, Saved!SetList, Saved!GoTo,
     Saved!Listed
<1>3. Unique'
  BY <1>1, UniqueStays DEF Advances, Saved!SetList, Saved!Listed
<1>4. Truthful'
  BY <1>1, TruthfulStays DEF Advances, Saved!SetList, Saved!Listed
<1>5. NamedRows'
  BY <1>1, NamedStay DEF Saved!SetList, Saved!Listed
<1>6. Authorised'
  BY <1>1, AuthorisedStays DEF Saved!SetList, Saved!Listed
<1>7. Listing'
  BY <1>1, ListingStays DEF Inv, Shape, Saved!SetList, Saved!Listed
<1>8. RepliesToTell'
  BY <1>1, TellStays DEF Saved!SetList, Saved!Listed
<1>9. Awarding'
  BY <1>1, AwardingStays DEF Inv, Shape, AwardStages, Saved!SetList, Saved!Listed
<1>10. Earning'
  BY <1>1, EarningStays, SameEarnings DEF Inv, Shape, world, AwardStages, Saved!SetList,
     Saved!Listed
<1> QED BY <1>2, <1>3, <1>4, <1>5, <1>6, <1>7, <1>8, <1>9, <1>10 DEF Inv, EngagementDiscipline

LEMMA ReadEarnedKeeps ==
  ASSUME Inv, NEW r \in Requests, Badge!ReadEarned(r),
         UNCHANGED <<call, world, read, replies, text, saves, listType, found>>
  PROVE  Inv'
<1>1. Advances(r) /\ pc[r] \in {"count", "sum", "distinct", "criteria"} /\ pc'[r] \in {pc[r]}
  BY DEF Advances, Inv, Shape, Badge!ReadEarned
<1>2. Shape'
  BY <1>1 DEF Inv, EngagementDiscipline, Shape, NamedRows, Advances, Badge!ReadEarned
<1>3. Unique'
  BY <1>1, UniqueStays DEF Advances, Badge!ReadEarned
<1>4. Truthful'
  BY <1>1, TruthfulStays DEF Advances, Badge!ReadEarned
<1>5. NamedRows'
  BY <1>1, NamedStay DEF Badge!ReadEarned
<1>6. Authorised'
  BY <1>1, AuthorisedStays DEF Badge!ReadEarned
<1>7. Listing'
  BY <1>1, ListingStays DEF Inv, Shape, Badge!ReadEarned
<1>8. RepliesToTell'
  BY <1>1, TellStays DEF Badge!ReadEarned
<1>9. Awarding'
  BY <1>1, AwardingStays DEF Inv, Shape, AwardStages, Badge!ReadEarned
<1>10. Earning'
  BY <1>1, EarningStays, SameEarnings DEF Inv, Shape, world, AwardStages, Badge!ReadEarned
<1> QED BY <1>2, <1>3, <1>4, <1>5, <1>6, <1>7, <1>8, <1>9, <1>10 DEF Inv, EngagementDiscipline

LEMMA ReadStatsKeeps ==
  ASSUME Inv, NEW r \in Requests, Badge!ReadCount(r) \/ Badge!ReadVotes(r) \/ Badge!ReadPlaces(r),
         UNCHANGED <<call, world, read, replies, text, saves, listType, found>>
  PROVE  Inv'
<1>1. /\ Advances(r) /\ pc[r] \in {"count", "sum", "distinct"}
      /\ pc'[r] \in {"sum", "distinct", "criteria"}
  BY DEF Advances, Inv, Shape, Badge!ReadCount, Badge!ReadVotes, Badge!ReadPlaces, Badge!GoTo
<1>11. LET s == Badge!StatsOf(call[r].user)
       IN  /\ stats'[r].count \in {stats[r].count, s.count}
           /\ stats'[r].votes \in {stats[r].votes, s.votes}
           /\ stats'[r].places \in {stats[r].places, s.places}
  BY DEF Inv, Shape, Badge!ReadCount, Badge!ReadVotes, Badge!ReadPlaces
<1>2. Shape'
  BY <1>1, <1>11 DEF Inv, EngagementDiscipline, Shape, NamedRows, Advances, Badge!ReadCount,
     Badge!ReadVotes, Badge!ReadPlaces, Badge!GoTo
<1>3. Unique'
  BY <1>1, UniqueStays DEF Advances, Badge!ReadCount, Badge!ReadVotes, Badge!ReadPlaces
<1>4. Truthful'
  BY <1>1, TruthfulStays DEF Advances, Badge!ReadCount, Badge!ReadVotes, Badge!ReadPlaces
<1>5. NamedRows'
  BY <1>1, NamedStay DEF Badge!ReadCount, Badge!ReadVotes, Badge!ReadPlaces
<1>6. Authorised'
  BY <1>1, AuthorisedStays DEF Badge!ReadCount, Badge!ReadVotes, Badge!ReadPlaces
<1>7. Listing'
  BY <1>1, <1>11, ListingStays DEF Inv, Shape, Badge!ReadCount, Badge!ReadVotes, Badge!ReadPlaces
<1>8. RepliesToTell'
  BY <1>1, <1>11, TellStays DEF Badge!ReadCount, Badge!ReadVotes, Badge!ReadPlaces
<1>9. Awarding'
  BY <1>1, AwardingStays DEF Inv, Shape, AwardStages, Badge!ReadCount, Badge!ReadVotes,
     Badge!ReadPlaces
<1>10. Earning'
  <2>1. ASSUME NEW b \in Catalog \ {"ELITE_REVIEWER"}, Badge!Criteria(b, stats'[r])
        PROVE  b \in deserved[call[r].user]
    <3>1. \/ Badge!Criteria(b, stats[r])
          \/ Badge!Criteria(b, Badge!StatsOf(call[r].user))
      BY <1>11, <2>1, CriteriaType DEF Badge!Criteria
    <3>2. call[r].user \in Users
      BY <1>1 DEF Inv, EngagementDiscipline, NamedRows, Begun, Advances
    <3> QED BY <3>1, <3>2 DEF Inv, EngagementDiscipline, Earning, Deserving
  <2>2. \A q \in Requests \ {r} : stats'[q] = stats[q]
    BY DEF Inv, Shape, Badge!ReadCount, Badge!ReadVotes, Badge!ReadPlaces
  <2>3. awards' = awards
    BY DEF Badge!ReadCount, Badge!ReadVotes, Badge!ReadPlaces
  <2> QED BY <1>1, <2>1, <2>2, <2>3, EarningStays DEF AwardStages
<1> QED BY <1>2, <1>3, <1>4, <1>5, <1>6, <1>7, <1>8, <1>9, <1>10 DEF Inv, EngagementDiscipline

LEMMA ApplyCriteriaKeeps ==
  ASSUME Inv, NEW r \in Requests, Badge!ApplyCriteria(r),
         UNCHANGED <<call, world, read, replies, text, saves, listType, found>>
  PROVE  Inv'
<1>1. Advances(r) /\ pc[r] \in {"criteria"} /\ pc'[r] \in {"done", "award"}
  BY DEF Advances, Inv, Shape, Badge!ApplyCriteria, Badge!GoTo
<1>2. Shape'
  BY <1>1 DEF Inv, EngagementDiscipline, Shape, NamedRows, Advances, Badge!ApplyCriteria,
     Badge!GoTo
<1>3. Unique'
  BY <1>1, UniqueStays DEF Advances, Badge!ApplyCriteria
<1>4. Truthful'
  BY <1>1, TruthfulStays DEF Advances, Badge!ApplyCriteria
<1>5. NamedRows'
  BY <1>1, NamedStay DEF Badge!ApplyCriteria
<1>6. Authorised'
  BY <1>1, AuthorisedStays DEF Badge!ApplyCriteria
<1>7. Listing'
  BY <1>1, ListingStays DEF Inv, Shape, Badge!ApplyCriteria
<1>8. RepliesToTell'
  BY <1>1, TellStays DEF Badge!ApplyCriteria
<1>9. Awarding'
  <2>1. Badge!NewlyEarned(r)' = Badge!NewlyEarned(r)
    BY SameNewlyEarned DEF Badge!ApplyCriteria
  <2>2. AwardingBy(r)'
    BY <1>1, <2>1 DEF Inv, Shape, AwardingBy, Badge!ApplyCriteria
  <2> QED BY <1>1, <2>2, AwardingStays DEF Inv, Shape, Badge!ApplyCriteria
<1>10. Earning'
  BY <1>1, EarningStays, SameEarnings DEF Inv, Shape, world, AwardStages, Badge!ApplyCriteria
<1> QED BY <1>2, <1>3, <1>4, <1>5, <1>6, <1>7, <1>8, <1>9, <1>10 DEF Inv, EngagementDiscipline

LEMMA InsertAwardKeeps ==
  ASSUME Inv, NEW r \in Requests, NEW b \in Badge!Badges, NEW fails \in BOOLEAN,
         Badge!InsertAward(r, b, fails),
         UNCHANGED <<call, world, read, replies, text, saves, listType, found>>
  PROVE  Inv'
<1>1. /\ Advances(r) /\ pc[r] \in {"award", "award failed"}
      /\ pc'[r] \in {"award", "award failed", "announce"}
  BY DEF Advances, Inv, Shape, Badge!InsertAward, Badge!GoTo, Badge!AfterAward, Badge!KeyTaken,
     Badge!AwardsOf
<1>11. \/ awards' = awards
       \/ /\ awards' = awards \cup {AwardOf(r, b)}
          /\ \A a \in awards : a.user = call[r].user => a.badge # b
  BY DEF Inv, Shape, Badge!InsertAward, Badge!GoTo, Badge!AfterAward, Badge!KeyTaken,
     Badge!AwardsOf, AwardOf
<1>2. Shape'
  BY <1>1, <1>11 DEF Inv, EngagementDiscipline, Shape, NamedRows, Advances, Badge!InsertAward,
     Badge!GoTo, Badge!AfterAward, Badge!KeyTaken, Badge!AwardsOf
<1>3. Unique'
  <2>1. ASSUME NEW a \in awards', NEW c \in awards', a.user = c.user, a.badge = c.badge
        PROVE  a = c
    BY <1>11, <2>1 DEF AwardOf, Inv, Unique, Badge!AwardedOnce
  <2>2. call' = call
    BY <1>1 DEF Advances
  <2> QED BY <2>1, <2>2 DEF Inv, Unique, Replies!OneReplyPerReview, Saved!OneSavePerUser,
       Saved!SameKey, Badge!AwardedOnce
<1>4. Truthful'
  BY <1>1, <1>11 DEF Inv, EngagementDiscipline, Shape, NamedRows, Truthful,
     Replies!RepliesSpeakForThePlace, Replies!Keeper, Badge!AnnouncedByItsAwarder, Badge!Badges,
     Advances, Badge!InsertAward, AwardOf
<1>5. NamedRows'
  <2>1. \A q : Begun(q)' <=> Begun(q)
    BY <1>1 DEF Begun, Advances
  <2>2. Begun(r) /\ notices' = notices /\ call' = call
    BY <1>1 DEF Begun, Advances, Badge!InsertAward
  <2>3. \A a \in awards' : Begun(a.by) /\ a.user = call[a.by].user
    BY <1>11, <2>2 DEF AwardOf, Inv, EngagementDiscipline, NamedRows
  <2> QED BY <2>1, <2>2, <2>3 DEF Inv, EngagementDiscipline, NamedRows
<1>6. Authorised'
  BY <1>1, AuthorisedStays DEF Badge!InsertAward, Badge!AfterAward, Badge!KeyTaken, Badge!AwardsOf
<1>7. Listing'
  BY <1>1, <1>11, ListingStays DEF Inv, Shape, Badge!InsertAward, Badge!AfterAward,
     Badge!KeyTaken, Badge!AwardsOf
<1>8. RepliesToTell'
  BY <1>1, <1>11, TellStays DEF Badge!InsertAward, Badge!AfterAward, Badge!KeyTaken,
     Badge!AwardsOf
<1>9. Awarding'
  <2>1. pc[r] \in {"award", "award failed"} => b \in todo[r]
    BY DEF Badge!InsertAward
  <2>2. Badge!NewlyEarned(r)' = Badge!NewlyEarned(r) /\ \A c : AwardOf(r, c)' = AwardOf(r, c)
    BY SameNewlyEarned DEF Badge!InsertAward, AwardOf, Advances
  <2>3. AwardingBy(r)
    BY DEF Inv, EngagementDiscipline, Awarding
  <2>4. ASSUME fails = TRUE PROVE AwardingBy(r)'
    <3>1. pc'[r] = "award failed" /\ todo'[r] = todo[r] \ {b}
      BY <2>4 DEF Inv, Shape, Badge!InsertAward, Badge!AfterAward, Badge!GoTo
    <3> QED BY <1>1, <2>2, <2>3, <3>1 DEF AwardingBy
  <2>5. ASSUME fails = FALSE PROVE AwardingBy(r)'
    <3>1. AwardOf(r, b) \in awards' /\ awards \subseteq awards'
      BY <2>5 DEF Badge!InsertAward, AwardOf
    <3>2. CASE todo[r] = {b} /\ pc[r] = "award"
      <4>1. pc'[r] = "announce" /\ todo'[r] = Badge!NewlyEarned(r)
        BY <2>5, <3>2 DEF Inv, Shape, Badge!InsertAward, Badge!AfterAward, Badge!GoTo
      <4> QED BY <2>2, <2>3, <3>1, <3>2, <4>1 DEF AwardingBy
    <3>3. CASE ~(todo[r] = {b} /\ pc[r] = "award")
      <4>1. pc'[r] = pc[r] /\ todo'[r] = todo[r] \ {b}
        BY <1>1, <2>5, <3>3 DEF Inv, Shape, Badge!InsertAward, Badge!AfterAward, Badge!GoTo
      <4> QED BY <1>1, <2>2, <2>3, <3>1, <4>1 DEF AwardingBy
    <3> QED BY <3>2, <3>3
  <2>6. AwardingBy(r)'
    BY <2>4, <2>5
  <2> QED BY <1>1, <1>11, <2>6, AwardingStays DEF Inv, Shape, Badge!InsertAward
<1>10. Earning'
  <2>1. stats' = stats
    BY DEF Badge!InsertAward
  <2>2. b \in Catalog /\ Badge!Criteria(b, stats[r])
    <3>1. b \in Badge!NewlyEarned(r)
      BY <1>1 DEF Badge!InsertAward, Inv, EngagementDiscipline, Awarding, AwardingBy
    <3> QED BY <3>1 DEF Badge!NewlyEarned
  <2>3. \A a \in awards' \ awards : a.by = r /\ a.badge = b
    BY <1>11 DEF AwardOf
  <2>4. pc'[r] \in AwardStages
    BY <1>1 DEF AwardStages
  <2> QED BY <1>1, <2>1, <2>2, <2>3, <2>4, EarningStays, SameEarnings DEF AwardStages
<1> QED BY <1>2, <1>3, <1>4, <1>5, <1>6, <1>7, <1>8, <1>9, <1>10 DEF Inv, EngagementDiscipline

LEMMA AnnounceKeeps ==
  ASSUME Inv, NEW r \in Requests, NEW b \in Badge!Badges, NEW fails \in BOOLEAN,
         Badge!Announce(r, b, fails),
         UNCHANGED <<call, world, read, replies, text, saves, listType, found>>
  PROVE  Inv'
<1>1. /\ Advances(r) /\ pc[r] \in {"announce", "announce failed"}
      /\ pc'[r] \in {"announce", "announce failed", "done"}
  BY DEF Advances, Inv, Shape, Badge!Announce, Badge!GoTo, Badge!BadgeNotice
<1>11. AwardOf(r, b) \in awards /\ b # "reply"
  BY DEF Badge!Announce, Inv, EngagementDiscipline, Awarding, AwardingBy, Badge!Badges
<1>12. notices' = notices \/ notices' = notices \cup {Badge!BadgeNotice(r, b)}
  BY DEF Badge!Announce
<1>2. Shape'
  BY <1>1, <1>11, <1>12 DEF Inv, EngagementDiscipline, Shape, NamedRows, Advances,
     Badge!Announce, Badge!GoTo, Badge!BadgeNotice
<1>3. Unique'
  BY <1>1, UniqueStays DEF Advances, Badge!Announce, Badge!BadgeNotice
<1>4. Truthful'
  <2>1. \A n \in notices' : n.about \in Badge!Badges =>
          [user |-> n.to, badge |-> n.about, by |-> n.by] \in awards
    BY <1>11, <1>12 DEF AwardOf, Badge!BadgeNotice, Inv, Truthful, Badge!AnnouncedByItsAwarder
  <2>2. call' = call /\ awards' = awards
    BY <1>1 DEF Advances, Badge!Announce
  <2> QED BY <2>1, <2>2 DEF Inv, Truthful, Replies!RepliesSpeakForThePlace, Replies!Keeper,
       Badge!AnnouncedByItsAwarder
<1>5. NamedRows'
  <2>1. \A q : Begun(q)' <=> Begun(q)
    BY <1>1 DEF Begun, Advances
  <2>2. Begun(r) /\ awards' = awards /\ call' = call
    BY <1>1 DEF Begun, Advances, Badge!Announce
  <2>3. \A n \in notices' : Begun(n.by)
    BY <1>12, <2>2 DEF Badge!BadgeNotice, Inv, EngagementDiscipline, NamedRows
  <2> QED BY <2>1, <2>2, <2>3 DEF Inv, EngagementDiscipline, NamedRows
<1>6. Authorised'
  BY <1>1, AuthorisedStays DEF Badge!Announce, Badge!BadgeNotice
<1>7. Listing'
  BY <1>1, <1>11, <1>12, ListingStays DEF Inv, Shape, Badge!Announce, Badge!BadgeNotice
<1>8. RepliesToTell'
  <2>1. \A n \in notices' \ notices : n.about # "reply"
    BY <1>11, <1>12 DEF Badge!BadgeNotice
  <2>2. pc'[r] # "tell"
    BY <1>1
  <2> QED BY <1>1, <2>1, <2>2, TellStays
<1>9. Awarding'
  <2>1. Badge!NewlyEarned(r)' = Badge!NewlyEarned(r) /\ \A c : AwardOf(r, c)' = AwardOf(r, c)
    BY SameNewlyEarned DEF Badge!Announce, AwardOf, Advances
  <2>2. AwardingBy(r)'
    BY <1>1, <2>1 DEF Inv, Shape, EngagementDiscipline, Awarding, AwardingBy, Badge!Announce
  <2> QED BY <1>1, <2>2, AwardingStays DEF Inv, Shape, Badge!Announce
<1>10. Earning'
  BY <1>1, EarningStays, SameEarnings DEF Inv, Shape, world, AwardStages, Badge!Announce,
     Badge!BadgeNotice
<1> QED BY <1>2, <1>3, <1>4, <1>5, <1>6, <1>7, <1>8, <1>9, <1>10 DEF Inv, EngagementDiscipline

LEMMA MarkReadKeeps ==
  ASSUME Inv, NEW r \in Requests, Notices!MarkRead(r) \/ Notices!MarkAllRead(r),
         UNCHANGED <<call, world, replies, text, saves, listType, found, awards, earned, stats, todo>>
  PROVE  Inv'
<1>1. Advances(r) /\ pc[r] \in {"start", "write"} /\ pc'[r] \in {"done"}
  BY DEF Advances, Inv, Shape, Notices!MarkRead, Notices!MarkAllRead, Notices!GoTo
<1>2. Shape'
  BY <1>1 DEF Inv, EngagementDiscipline, Shape, NamedRows, Advances, Notices!MarkRead,
     Notices!MarkAllRead, Notices!GoTo
<1>3. Unique'
  BY <1>1, UniqueStays DEF Advances, Notices!MarkRead, Notices!MarkAllRead
<1>4. Truthful'
  BY <1>1, TruthfulStays DEF Advances, Notices!MarkRead, Notices!MarkAllRead
<1>5. NamedRows'
  BY <1>1, NamedStay DEF Notices!MarkRead, Notices!MarkAllRead
<1>6. Authorised'
  BY <1>1, AuthorisedStays DEF Notices!MarkRead, Notices!MarkAllRead
<1>7. Listing'
  BY <1>1, ListingStays DEF Inv, Shape, Notices!MarkRead, Notices!MarkAllRead
<1>8. RepliesToTell'
  BY <1>1, TellStays DEF Notices!MarkRead, Notices!MarkAllRead
<1>9. Awarding'
  BY <1>1, AwardingStays DEF Inv, Shape, AwardStages, Notices!MarkRead, Notices!MarkAllRead
<1>10. Earning'
  BY <1>1, EarningStays, SameEarnings DEF Inv, Shape, world, AwardStages, Notices!MarkRead,
     Notices!MarkAllRead
<1> QED BY <1>2, <1>3, <1>4, <1>5, <1>6, <1>7, <1>8, <1>9, <1>10 DEF Inv, EngagementDiscipline

LEMMA DeleteNoticeKeeps ==
  ASSUME Inv, NEW r \in Requests, Notices!DeleteNotice(r),
         UNCHANGED <<call, world, replies, text, saves, listType, found, awards, earned, stats, todo>>
  PROVE  Inv'
<1>1. Advances(r) /\ pc[r] \in {"write"} /\ pc'[r] \in {"done"}
  BY DEF Advances, Inv, Shape, Notices!DeleteNotice, Notices!GoTo
<1>2. Shape'
  BY <1>1 DEF Inv, EngagementDiscipline, Shape, NamedRows, Advances, Notices!DeleteNotice,
     Notices!GoTo
<1>3. Unique'
  BY <1>1, UniqueStays DEF Advances, Notices!DeleteNotice
<1>4. Truthful'
  BY <1>1, TruthfulStays DEF Advances, Notices!DeleteNotice
<1>5. NamedRows'
  BY <1>1, NamedStay DEF Notices!DeleteNotice
<1>6. Authorised'
  BY <1>1, AuthorisedStays DEF Notices!DeleteNotice
<1>7. Listing'
  BY <1>1, ListingStays DEF Inv, Shape, Notices!DeleteNotice
<1>8. RepliesToTell'
  BY <1>1, TellStays DEF Notices!DeleteNotice
<1>9. Awarding'
  BY <1>1, AwardingStays DEF Inv, Shape, AwardStages, Notices!DeleteNotice
<1>10. Earning'
  BY <1>1, EarningStays, SameEarnings DEF Inv, Shape, world, AwardStages, Notices!DeleteNotice
<1> QED BY <1>2, <1>3, <1>4, <1>5, <1>6, <1>7, <1>8, <1>9, <1>10 DEF Inv, EngagementDiscipline

\* The other services write reviews, votes and places; or nothing happens.
LEMMA WorldKeeps ==
  ASSUME Inv, UNCHANGED rows, WorldChanges \/ UNCHANGED world
  PROVE  Inv'
<1>1. /\ UNCHANGED <<call, pc, notices, replies, text, saves, listType, found>>
      /\ UNCHANGED <<awards, earned, stats, todo>>
  BY DEF rows
<1>2. \A q : (Begun(q) <=> Begun(q)') /\ (StoredOrDeleted(q) <=> StoredOrDeleted(q)')
  BY <1>1 DEF Begun, StoredOrDeleted
<1>3. Shape' /\ Unique' /\ Truthful'
  BY <1>1 DEF Inv, Shape, Unique, Truthful, Replies!OneReplyPerReview, Saved!OneSavePerUser,
     Saved!SameKey, Badge!AwardedOnce, Replies!RepliesSpeakForThePlace, Replies!Keeper,
     Badge!AnnouncedByItsAwarder
<1>4. NamedRows'
  BY <1>1, <1>2 DEF Inv, EngagementDiscipline, NamedRows
<1>5. Authorised' /\ Listing'
  BY <1>1, <1>2 DEF Inv, EngagementDiscipline, Authorised, Listing, Replies!OwnsPlace,
     Replies!Keeper
<1>6. RepliesToTell'
  BY <1>1, <1>2 DEF Inv, EngagementDiscipline, RepliesToTell
<1>7. Awarding'
  <2>1. \A q : Badge!NewlyEarned(q)' = Badge!NewlyEarned(q)
    BY <1>1, SameNewlyEarned
  <2> QED BY <1>1, <2>1 DEF Inv, EngagementDiscipline, Awarding, AwardingBy, AwardOf
<1>8. Earning'
  <2>1. \A u \in Users : Deserving(u)' \subseteq deserved'[u] /\ deserved[u] \subseteq deserved'[u]
    BY SameDeserving DEF WorldChanges, world, Inv, EngagementDiscipline, Earning
  <2>2. \A q \in Requests : Begun(q) => call[q].user \in Users
    BY DEF Inv, EngagementDiscipline, NamedRows
  <2>3. ASSUME NEW q \in Requests, NEW b \in Catalog \ {"ELITE_REVIEWER"},
               Badge!Criteria(b, stats[q])
        PROVE  b \in deserved'[call[q].user]
    <3>1. Begun(q) /\ b \in deserved[call[q].user]
      BY <2>3, NothingEarnedYet DEF Begun, Inv, EngagementDiscipline, Earning
    <3> QED BY <2>1, <2>2, <3>1
  <2> QED BY <1>1, <2>1, <2>3 DEF Inv, EngagementDiscipline, Earning
<1> QED BY <1>3, <1>4, <1>5, <1>6, <1>7, <1>8 DEF Inv, EngagementDiscipline

LEMMA Initially == Init => Inv
<1> SUFFICES ASSUME Init PROVE Inv
  OBVIOUS
<1>1. /\ call = [r \in Requests |-> IF r = Earlier THEN EarlierCall ELSE Idle]
      /\ pc = [r \in Requests |-> IF r = Earlier THEN "saved" ELSE "new"]
      /\ replies = {} /\ saves = {Earlier} /\ awards = {} /\ notices = {}
      /\ listType = [r \in Requests |-> "SAVED"]
      /\ deserved = [u \in Users |-> Deserving(u)]
      /\ stats = [r \in Requests |-> Badge!NoReviews]
  BY DEF Init, Replies!ReplyInit, Saved!SaveInit, Badge!BadgeInit
<1>2. Earlier \in Requests /\ EarlierCall.op = "toggle save" /\ EarlierCall.user \in Users
  BY EngagementType
<1>3. Shape
  <2>1. /\ DOMAIN call = Requests /\ DOMAIN pc = Requests /\ DOMAIN listType = Requests
        /\ DOMAIN stats = Requests /\ replies \subseteq Requests /\ saves \subseteq Requests
    BY <1>1, <1>2
  <2>2. text \in [Requests -> Requests] /\ DOMAIN found = Requests
    BY DEF Init, Replies!ReplyInit, Saved!SaveInit
  <2>3. DOMAIN earned = Requests /\ DOMAIN todo = Requests
    BY DEF Init, Badge!BadgeInit
  <2>4. \A r \in Requests : stats[r] = [count |-> stats[r].count, votes |-> stats[r].votes,
                                        places |-> stats[r].places]
    BY <1>1 DEF Badge!NoReviews
  <2> QED BY <2>1, <2>2, <2>3, <2>4 DEF Shape
<1>4. Unique /\ Truthful
  BY <1>1 DEF Unique, Truthful, Replies!OneReplyPerReview, Saved!OneSavePerUser,
     Badge!AwardedOnce, Replies!RepliesSpeakForThePlace, Badge!AnnouncedByItsAwarder
<1>5. NamedRows
  BY <1>1, <1>2 DEF NamedRows, Begun
<1>6. Authorised /\ Listing
  BY <1>1, <1>2 DEF Authorised, Listing
<1>7. RepliesToTell
  BY <1>1 DEF RepliesToTell
<1>8. Awarding
  BY <1>1 DEF Awarding, AwardingBy
<1>9. Earning
  <2>1. \A r \in Requests, b \in Catalog : ~Badge!Criteria(b, stats[r])
    BY <1>1, NothingEarnedYet
  <2> QED BY <1>1, <2>1 DEF Earning
<1> QED BY <1>3, <1>4, <1>5, <1>6, <1>7, <1>8, <1>9 DEF Inv, EngagementDiscipline

-----------------------------------------------------------------------------
(* The services, and what Next makes of them. *)

LEMMA ReplyKeeps ==
  ASSUME Inv, NEW r \in Requests, Replies!ReplyStep(r),
         UNCHANGED <<call, world, read, saves, listType, found, awards, earned, stats, todo>>
  PROVE  Inv'
<1>1. CASE Replies!FindReview(r)
  <2> DEFINE stage == IF review[call[r].review] = "live" THEN "place" ELSE "error"
  <2>1. pc' = [pc EXCEPT ![r] = stage] /\ pc[r] = "start" /\ UNCHANGED <<replies, text, notices>>
    BY <1>1 DEF Replies!FindReview, Replies!At, Replies!Answer, Replies!GoTo, Replies!replyRows
  <2> QED BY <2>1, MoveKeeps DEF AwardStages
<1>2. CASE Replies!FindPlace(r)
  <2> DEFINE stage == IF PlaceOf[call[r].review] \in open /\ Replies!OwnsPlace(r)
                      THEN "existing" ELSE "error"
  <2>1. /\ pc' = [pc EXCEPT ![r] = stage] /\ pc[r] = "place" /\ call[r].op = "reply"
        /\ UNCHANGED <<replies, text, notices>>
    BY <1>2 DEF Replies!FindPlace, Replies!At, Replies!Answer, Replies!GoTo, Replies!replyRows
  <2> QED BY <2>1, MoveKeeps DEF AwardStages
<1>3. CASE Replies!FindReply(r)
  <2> DEFINE stage == IF Replies!RepliesTo(call[r].review) = {} THEN "insert" ELSE "error"
  <2>1. /\ pc' = [pc EXCEPT ![r] = stage] /\ pc[r] = "existing" /\ call[r].op = "reply"
        /\ UNCHANGED <<replies, text, notices>>
    BY <1>3 DEF Replies!FindReply, Replies!At, Replies!Answer, Replies!GoTo, Replies!replyRows
  <2>2. Replies!OwnsPlace(r)
    BY <2>1 DEF Inv, EngagementDiscipline, Authorised
  <2> QED BY <2>1, <2>2, MoveKeeps DEF AwardStages
<1>4. CASE Replies!FindOwnReply(r)
  <2> DEFINE stage == IF Replies!Writable(r) THEN "write" ELSE "error"
  <2>1. /\ pc' = [pc EXCEPT ![r] = stage] /\ pc[r] = "start"
        /\ call[r].op \in {"edit reply", "delete reply"}
        /\ UNCHANGED <<replies, text, notices>>
    BY <1>4 DEF Replies!FindOwnReply, Replies!Answer, Replies!GoTo, Replies!replyRows
  <2> QED BY <2>1, MoveKeeps DEF AwardStages
<1> QED BY <1>1, <1>2, <1>3, <1>4, InsertReplyKeeps, TellReviewerKeeps, EditReplyKeeps,
           DeleteReplyKeeps DEF Replies!ReplyStep

LEMMA SaveKeepsAll ==
  ASSUME Inv, NEW r \in Requests, Saved!SaveStep(r),
         UNCHANGED <<call, world, notices, read, replies, text, awards, earned, stats, todo>>
  PROVE  Inv'
<1>1. CASE Saved!ReadBack(r)
  <2>1. /\ pc' = [pc EXCEPT ![r] = "done"] /\ pc[r] = "read back"
        /\ UNCHANGED <<saves, listType, found>>
    BY <1>1 DEF Saved!ReadBack, Saved!GoTo, Saved!saveRows
  <2> QED BY <2>1, MoveKeeps DEF AwardStages
<1> QED BY <1>1, FindSaveKeeps, UnsaveKeeps, SaveKeeps, SetListKeeps DEF Saved!SaveStep

LEMMA BadgeKeeps ==
  ASSUME Inv, NEW r \in Requests, Badge!BadgeStep(r),
         UNCHANGED <<call, world, read, replies, text, saves, listType, found>>
  PROVE  Inv'
<1>1. CASE Badge!StartBadges(r)
  <2>1. /\ pc' = [pc EXCEPT ![r] = "count"] /\ pc[r] = "start" /\ call[r].op = "badges"
        /\ UNCHANGED <<awards, earned, stats, todo, notices>>
    BY <1>1 DEF Badge!StartBadges, Badge!GoTo, Badge!badgeRows
  <2> QED BY <2>1, MoveKeeps DEF AwardStages
<1> QED BY <1>1, ReadEarnedKeeps, ReadStatsKeeps, ApplyCriteriaKeeps, InsertAwardKeeps,
           AnnounceKeeps DEF Badge!BadgeStep

LEMMA NoticeKeeps ==
  ASSUME Inv, NEW r \in Requests, Notices!NoticeStep(r),
         UNCHANGED <<call, world, replies, text, saves, listType, found, awards, earned, stats, todo>>
  PROVE  Inv'
<1>1. CASE Notices!FindNotice(r)
  <2> DEFINE stage == IF Notices!OwnNotice(r) THEN "write" ELSE "error"
  <2>1. /\ pc' = [pc EXCEPT ![r] = stage] /\ pc[r] = "start" /\ UNCHANGED <<notices, read>>
        /\ call[r].op \in {"mark read", "delete notice"}
    BY <1>1 DEF Notices!FindNotice, Notices!GoTo
  <2>2. stage = "write" => call[r].notice.to = call[r].user
    BY DEF Notices!OwnNotice, Notices!Of
  <2> QED BY <2>1, <2>2, MoveKeeps DEF AwardStages
<1> QED BY <1>1, MarkReadKeeps, DeleteNoticeKeeps DEF Notices!NoticeStep

LEMMA NextKeeps == Inv /\ [Next]_vars => Inv'
<1> SUFFICES ASSUME Inv, [Next]_vars PROVE Inv'
  OBVIOUS
<1>1. ASSUME NEW r \in Requests, Begin(r) PROVE Inv'
  BY <1>1, BeginKeeps
<1>2. ASSUME NEW r \in Requests, Step(r) PROVE Inv'
  BY <1>2, ReplyKeeps, SaveKeepsAll, BadgeKeeps, NoticeKeeps DEF Step
<1>3. ASSUME NEW r \in Requests, Fail(r) PROVE Inv'
  BY <1>3, MoveKeeps DEF Fail, AwardStages
<1>4. ASSUME WorldChanges PROVE Inv'
  BY <1>4, WorldKeeps DEF WorldChanges, rows
<1>5. CASE UNCHANGED vars
  BY <1>5, WorldKeeps DEF vars, rows
<1> QED BY <1>1, <1>2, <1>3, <1>4, <1>5
        DEF Next, AllAnswered, WriteReview, DeleteReview, Vote, DeletePlace

LEMMA Invariance == Spec => []Inv
<1> QED BY Initially, NextKeeps, PTL DEF Spec

-----------------------------------------------------------------------------
(* A sum of votes is a number: the table of partial sums that              *)
(* SumFunctionOnSet chooses exists and is the only one.                    *)

\* What SumFunctionOnSet computes, as an equation of its table of partial sums.
One(s) == CHOOSE x \in s : TRUE
IsSum(table, f, S) ==
  table = [s \in SUBSET S |-> IF s = {} THEN 0 ELSE f[One(s)] + table[s \ {One(s)}]]

LEMMA SmallestSet ==
  ASSUME NEW S, IsFiniteSet(S), NEW T \in SUBSET SUBSET S, T # {}
  PROVE  \E s \in T : \A t \in T : Cardinality(s) <= Cardinality(t)
<1> DEFINE N == {Cardinality(s) : s \in T}
           R == OpToRel(<, Nat)
<1>1. \A s \in T : Cardinality(s) \in Nat
  BY FS_Subset, FS_CardinalityType
<1>2. PICK n \in N : \A m \in N : ~(<<m, n>> \in R)
  <2>1. N \subseteq Nat /\ N # {}
    BY <1>1
  <2>2. IsWellFoundedOn(R, Nat)
    BY NatLessThanWellFounded
  <2> HIDE DEF N, R
  <2> QED BY <2>1, <2>2, WFMin
<1>3. \A m \in N : n <= m
  <2>1. \A i, j \in Nat : i < j => <<i, j>> \in R
    BY Zenon DEF OpToRel
  <2>2. N \subseteq Nat
    BY <1>1
  <2> SUFFICES ASSUME NEW m \in N PROVE n <= m
    OBVIOUS
  <2> HIDE DEF N, R
  <2>3. m \in Nat /\ n \in Nat
    BY <2>2
  <2>4. ~(m < n)
    BY Zenon, <1>2, <2>1, <2>3
  <2> QED BY <2>3, <2>4
<1> QED BY <1>3

LEMMA OneOf == ASSUME NEW s, s # {} PROVE One(s) \in s
  BY DEF One

LEMMA SumsAgree ==
  ASSUME NEW f, NEW S, IsFiniteSet(S), NEW T \in SUBSET S,
         NEW g, IsSum(g, f, S), NEW h, IsSum(h, f, T)
  PROVE  \A s \in SUBSET T : g[s] = h[s]
<1> DEFINE Bad == {s \in SUBSET T : g[s] # h[s]}
<1> SUFFICES ASSUME Bad # {} PROVE FALSE
  OBVIOUS
<1>1. PICK s \in Bad : \A t \in Bad : Cardinality(s) <= Cardinality(t)
  <2>1. Bad \in SUBSET SUBSET S
    OBVIOUS
  <2> HIDE DEF Bad
  <2> QED BY <2>1, SmallestSet
<1> DEFINE Rest == s \ {One(s)}
<1>2. \A t \in SUBSET T : /\ g[t] = IF t = {} THEN 0 ELSE f[One(t)] + g[t \ {One(t)}]
                          /\ h[t] = IF t = {} THEN 0 ELSE f[One(t)] + h[t \ {One(t)}]
  BY DEF IsSum
<1>3. s # {}
  BY <1>2
<1>4. IsFiniteSet(s) /\ Cardinality(s) \in Nat /\ Cardinality(Rest) = Cardinality(s) - 1
  BY <1>3, OneOf, FS_Subset, FS_RemoveElement, FS_CardinalityType
<1>5. Rest \in SUBSET T /\ Rest \notin Bad
  <2>1. ~(Cardinality(s) <= Cardinality(Rest))
    BY <1>4
  <2> QED BY <1>1, <2>1
<1> QED BY <1>2, <1>3, <1>5

LEMMA SumExists ==
  ASSUME NEW f, NEW S, IsFiniteSet(S), \A x \in S : f[x] \in Nat
  PROVE  \E g \in [SUBSET S -> Nat] : IsSum(g, f, S)
<1> DEFINE Sums(s) == {g \in [SUBSET s -> Nat] : IsSum(g, f, s)}
           Bad == {s \in SUBSET S : Sums(s) = {}}
<1> SUFFICES ASSUME Bad # {} PROVE FALSE
  OBVIOUS
<1>1. PICK s \in Bad : \A t \in Bad : Cardinality(s) <= Cardinality(t)
  <2>1. Bad \in SUBSET SUBSET S
    OBVIOUS
  <2> HIDE DEF Bad
  <2> QED BY <2>1, SmallestSet
<1> DEFINE Table(t) == CHOOSE g : g \in Sums(t)
<1>2. \A t \in SUBSET s : t # s => Table(t) \in Sums(t)
  <2> SUFFICES ASSUME NEW t \in SUBSET s, t # s PROVE Sums(t) # {}
    BY Zenon
  <2>1. IsFiniteSet(s) /\ s \in SUBSET S
    BY FS_Subset
  <2>2. IsFiniteSet(t) /\ Cardinality(t) <= Cardinality(s) /\ Cardinality(t) # Cardinality(s)
    BY <2>1, FS_Subset
  <2>3. Cardinality(t) \in Nat /\ Cardinality(s) \in Nat
    BY <2>1, <2>2, FS_CardinalityType
  <2>4. ~(Cardinality(s) <= Cardinality(t))
    BY <2>2, <2>3
  <2> QED BY <1>1, <2>1, <2>4
<1> DEFINE Rest == s \ {One(s)}
           sum == [t \in SUBSET s |->
                     IF t # s THEN Table(t)[t]
                     ELSE IF s = {} THEN 0 ELSE f[One(s)] + Table(Rest)[Rest]]
<1>3. s # {} => Rest \in SUBSET s /\ Rest # s
  BY OneOf
<1>4. sum \in [SUBSET s -> Nat]
  <2>1. \A t \in SUBSET s : t # s => Table(t)[t] \in Nat
    <3> HIDE DEF Table
    <3> QED BY <1>2
  <2>2. s # {} => Table(Rest)[Rest] \in Nat /\ f[One(s)] \in Nat
    BY <1>3, <2>1, OneOf
  <2> HIDE DEF Table, Rest
  <2> QED BY <2>1, <2>2
<1>5. \A t \in SUBSET s : sum[t] = IF t = {} THEN 0 ELSE f[One(t)] + sum[t \ {One(t)}]
  <2> SUFFICES ASSUME NEW t \in SUBSET s
               PROVE  sum[t] = IF t = {} THEN 0 ELSE f[One(t)] + sum[t \ {One(t)}]
    OBVIOUS
  <2>1. CASE t = s
    <3>1. s # {} => sum[Rest] = Table(Rest)[Rest]
      <4> HIDE DEF Table
      <4> QED BY <1>3
    <3> HIDE DEF Table
    <3> QED BY <2>1, <3>1
  <2>2. CASE t # s
    <3> DEFINE Less == t \ {One(t)}
    <3>1. t # {} => Less \in SUBSET t /\ Less # s /\ Less # t
      BY <2>2, OneOf
    <3>2. IsSum(Table(t), f, t) /\ sum[t] = Table(t)[t]
      <4> HIDE DEF Table
      <4> QED BY <1>2, <2>2
    <3>3. Table(t)[t] = IF t = {} THEN 0 ELSE f[One(t)] + Table(t)[Less]
      <4> HIDE DEF Table
      <4> QED BY <3>2 DEF IsSum
    <3>4. t # {} => IsSum(Table(Less), f, Less) /\ sum[Less] = Table(Less)[Less]
      <4> HIDE DEF Table
      <4> QED BY <1>2, <3>1
    <3>5. t # {} => Table(t)[Less] = Table(Less)[Less]
      <4>1. IsFiniteSet(t)
        BY FS_Subset
      <4> HIDE DEF Table, Less, Bad, Sums, sum, Rest
      <4>2. \A T \in SUBSET t : \A h : IsSum(h, f, T) => Table(t)[T] = h[T]
        BY <3>2, <4>1, SumsAgree
      <4> QED BY <3>1, <3>4, <4>2
    <3> HIDE DEF Table, sum
    <3> QED BY <3>2, <3>3, <3>4, <3>5
  <2> QED BY <2>1, <2>2
<1>6. IsSum(sum, f, s)
  <2> HIDE DEF Table, Rest
  <2>1. DOMAIN sum = SUBSET s
    OBVIOUS
  <2> HIDE DEF sum
  <2> QED BY <1>4, <1>5 DEF IsSum
<1> HIDE DEF sum
<1> QED BY <1>1, <1>4, <1>6

LEMMA SumIsNumber ==
  ASSUME NEW f, NEW S, IsFiniteSet(S), \A x \in S : f[x] \in Nat
  PROVE  Badge!SumFunctionOnSet(f, S) \in Nat
<1>1. PICK table \in [SUBSET S -> Nat] : IsSum(table, f, S)
  BY SumExists
<1>2. \A g : IsSum(g, f, S) => g = table
  <2> SUFFICES ASSUME NEW g, IsSum(g, f, S) PROVE g = table
    OBVIOUS
  <2>1. \A s \in SUBSET S : g[s] = table[s]
    BY <1>1, SumsAgree
  <2>2. g = [s \in SUBSET S |-> g[s]]
    BY DEF IsSum
  <2> QED BY <2>1, <2>2
<1>3. Badge!SumFunctionOnSet(f, S) = (CHOOSE g : IsSum(g, f, S))[S]
  BY Zenon DEF Badge!SumFunctionOnSet, Badge!FoldFunctionOnSet, Badge!MapThenFoldSet, IsSum, One
<1>4. (CHOOSE g : IsSum(g, f, S)) = table
  BY <1>1, <1>2
<1> QED BY <1>3, <1>4

-----------------------------------------------------------------------------
(* Types. *)

WellSent ==
  \A r \in Requests :
    /\ call[r].op = "reply" => call[r].review \in Reviews
    /\ call[r].op = "set list" => call[r].list \in ListTypes

Typed == TypeOK /\ WellSent

LEMMA SameCardinality == \A S : Badge!Cardinality(S) = Cardinality(S)
  BY Zenon DEF Cardinality, Badge!Cardinality

LEMMA StatsAreNumbers ==
  ASSUME TypeOK, NEW u
  PROVE  Badge!StatsOf(u) \in Badge!Stats
<1>1. IsFiniteSet(Badge!WrittenBy(u)) /\ Badge!WrittenBy(u) \subseteq Reviews
  BY EngagementType, FS_Subset DEF Badge!WrittenBy
<1>2. Badge!Votes(u) \in Nat
  <2>1. helpful \in [Reviews -> 0..MaxHelpful]
    BY DEF TypeOK
  <2>2. \A v \in Badge!WrittenBy(u) : helpful[v] \in Nat
    BY <1>1, <2>1
  <2> QED BY <1>1, <2>2, SumIsNumber DEF Badge!Votes
<1>3. Badge!Cardinality(Badge!PlacesOf(u)) \in Nat
  <2> DEFINE place == [v \in Badge!WrittenBy(u) |-> PlaceOf[v]]
  <2>1. place \in Surjection(Badge!WrittenBy(u), Badge!PlacesOf(u))
    BY DEF Surjection, Badge!PlacesOf
  <2>2. IsFiniteSet(Badge!PlacesOf(u))
    BY <1>1, <2>1, FS_Surjection
  <2> QED BY <2>2, FS_CardinalityType, SameCardinality
<1>4. Badge!Cardinality(Badge!WrittenBy(u)) \in Nat
  BY <1>1, FS_CardinalityType, SameCardinality
<1> QED BY <1>2, <1>3, <1>4 DEF Badge!StatsOf, Badge!Stats

LEMMA TypesAtFirst == Init => Typed
<1> SUFFICES ASSUME Init PROVE Typed
  OBVIOUS
<1>1. pc \in [Requests -> Stages]
  BY DEF Init, Stages
<1>2. review \in [Reviews -> {"unwritten", "live", "deleted"}] /\ open \subseteq Places
  BY DEF Init
<1>3. helpful \in [Reviews -> 0..MaxHelpful]
  <2>1. 0 \in 0..MaxHelpful
    <3>1. MaxHelpful \in Nat
      BY Zenon, EngagementType
    <3> QED BY <3>1
  <2>2. helpful = [v \in Reviews |-> 0]
    BY DEF Init
  <2> QED BY <2>1, <2>2
<1>4. Replies!ReplyType
  BY DEF Init, Replies!ReplyInit, Replies!ReplyType
<1>5. Saved!SaveType
  <2>1. call[Earlier].op = "toggle save" /\ Earlier \in Requests /\ "SAVED" \in ListTypes
    BY EngagementType DEF Init
  <2> QED BY <2>1 DEF Init, Saved!SaveInit, Saved!SaveType
<1>6. Badge!BadgeType
  <2>1. Badge!NoReviews \in Badge!Stats
    BY DEF Badge!NoReviews, Badge!Stats
  <2>2. /\ awards = {} /\ earned = [r \in Requests |-> NotRead]
        /\ stats = [r \in Requests |-> Badge!NoReviews] /\ todo = [r \in Requests |-> {}]
    BY DEF Init, Badge!BadgeInit
  <2> QED BY <2>1, <2>2 DEF Badge!BadgeType
<1>7. Notices!NoticeType
  BY DEF Init, Notices!NoticeType
<1>8. WellSent
  BY EngagementType DEF Init, WellSent, Idle
<1> QED BY <1>1, <1>2, <1>3, <1>4, <1>5, <1>6, <1>7, <1>8 DEF Typed, TypeOK

LEMMA TypesBegin ==
  ASSUME Inv, Typed, NEW r \in Requests, Begin(r)
  PROVE  Typed'
<1>1. PICK c \in Calls : call' = [call EXCEPT ![r] = c]
  BY DEF Begin
<1>2. /\ pc' = [pc EXCEPT ![r] = "start"] /\ pc[r] = "new"
      /\ UNCHANGED <<review, open, helpful, notices, read, replies, text, saves, listType, found,
                     awards, earned, stats, todo>>
  BY DEF Begin, world
<1>3. DOMAIN call = Requests /\ r \notin replies /\ r \notin saves
  BY <1>2 DEF Inv, Shape, EngagementDiscipline, NamedRows, Begun
<1>4. pc' \in [Requests -> Stages]
  BY <1>2 DEF Typed, TypeOK, Stages
<1>5. Replies!ReplyType' /\ Saved!SaveType'
  BY <1>1, <1>2, <1>3 DEF Typed, TypeOK, Replies!ReplyType, Saved!SaveType
<1>6. Badge!BadgeType' /\ Notices!NoticeType'
  BY <1>2 DEF Typed, TypeOK, Badge!BadgeType, Notices!NoticeType
<1>7. /\ c.op = "reply" => c.review \in Reviews
      /\ c.op = "set list" => c.list \in ListTypes
  <2>1. c \in Replies!CreateReplyCalls \cup Replies!ChangeReplyCalls \cup Saved!SaveCalls
               \cup Badge!BadgeCalls \cup Notices!NoticeCalls
    BY DEF Calls
  <2> QED BY <2>1 DEF Replies!CreateReplyCalls, Replies!ChangeReplyCalls, Saved!SaveCalls,
                      Badge!BadgeCalls, Notices!NoticeCalls
<1>8. WellSent'
  BY <1>1, <1>3, <1>7 DEF Typed, WellSent
<1> QED BY <1>2, <1>4, <1>5, <1>6, <1>8 DEF Typed, TypeOK

\* A statement of one service leaves the types of the others alone.
LEMMA TypesOfStep ==
  ASSUME Typed, NEW r \in Requests, NEW stage \in Stages, pc' = [pc EXCEPT ![r] = stage] \/ pc' = pc,
         UNCHANGED <<call, world>>,
         Replies!ReplyType', Saved!SaveType', Badge!BadgeType', Notices!NoticeType'
  PROVE  Typed'
<1>1. pc' \in [Requests -> Stages]
  BY DEF Typed, TypeOK
<1> QED BY <1>1 DEF Typed, TypeOK, WellSent, world

LEMMA TypesOfReplies ==
  ASSUME Inv, Typed, NEW r \in Requests, Replies!ReplyStep(r),
         UNCHANGED <<call, world, read, saves, listType, found, awards, earned, stats, todo>>
  PROVE  Typed'
<1>1. \E stage \in Stages : pc' = [pc EXCEPT ![r] = stage]
  <2> DEFINE to == {"place", "existing", "insert", "error", "tell", "done", "write"}
  <2>1. \E stage \in to : pc' = [pc EXCEPT ![r] = stage]
    BY DEF Replies!ReplyStep, Replies!FindReview, Replies!FindPlace, Replies!FindReply,
       Replies!InsertReply, Replies!TellReviewer, Replies!FindOwnReply, Replies!EditReply,
       Replies!DeleteReply, Replies!Answer, Replies!GoTo
  <2> QED BY <2>1 DEF Stages
<1>2. Saved!SaveType' /\ Badge!BadgeType'
  BY DEF Typed, TypeOK, Saved!SaveType, Badge!BadgeType
<1>3. /\ replies' \subseteq replies \/ (call[r].op = "reply" /\ replies' = replies \cup {r})
      /\ text' \in [Requests -> Requests]
  <2>1. text \in [Requests -> Requests]
    BY DEF Typed, TypeOK, Replies!ReplyType
  <2> QED BY <2>1 DEF Replies!ReplyStep, Replies!FindReview, Replies!FindPlace, Replies!FindReply,
       Replies!InsertReply, Replies!TellReviewer, Replies!FindOwnReply, Replies!EditReply,
       Replies!DeleteReply, Replies!replyRows, Replies!At
<1>4. Replies!ReplyType'
  BY <1>3 DEF Typed, TypeOK, Replies!ReplyType
<1>5. Notices!NoticeType'
  <2>1. notices' = notices \/ (call[r].op = "reply" /\ notices' = notices \cup {Replies!ReplyNotice(r)})
    BY DEF Replies!ReplyStep, Replies!FindReview, Replies!FindPlace, Replies!FindReply,
       Replies!InsertReply, Replies!TellReviewer, Replies!FindOwnReply, Replies!EditReply,
       Replies!DeleteReply, Replies!At
  <2>2. call[r].op = "reply" => Replies!ReplyNotice(r) \in Notices!Notice
    BY EngagementType DEF Typed, WellSent, Replies!ReplyNotice, Notices!Notice
  <2> QED BY <2>1, <2>2 DEF Typed, TypeOK, Notices!NoticeType
<1> QED BY <1>1, <1>2, <1>4, <1>5, TypesOfStep

LEMMA TypesOfSaves ==
  ASSUME Inv, Typed, NEW r \in Requests, Saved!SaveStep(r),
         UNCHANGED <<call, world, notices, read, replies, text, awards, earned, stats, todo>>
  PROVE  Typed'
<1>1. \E stage \in Stages : pc' = [pc EXCEPT ![r] = stage]
  <2> DEFINE to == {"error", "write", "unsaved", "saved", "read back", "done"}
  <2>1. \E stage \in to : pc' = [pc EXCEPT ![r] = stage]
    BY DEF Saved!SaveStep, Saved!FindSave, Saved!Unsave, Saved!Save, Saved!SetList,
       Saved!ReadBack, Saved!GoTo
  <2> QED BY <2>1 DEF Stages
<1>2. Replies!ReplyType' /\ Badge!BadgeType' /\ Notices!NoticeType'
  BY DEF Typed, TypeOK, Replies!ReplyType, Badge!BadgeType, Notices!NoticeType
<1>3. /\ saves \subseteq {q \in Requests : call[q].op = "toggle save"}
      /\ listType \in [Requests -> ListTypes] /\ found \in [Requests -> Requests \cup {NoRow}]
  BY DEF Typed, TypeOK, Saved!SaveType
<1>4. saves' \subseteq {q \in Requests : call[q].op = "toggle save"}
  BY <1>3 DEF Saved!SaveStep, Saved!FindSave, Saved!Unsave, Saved!Save, Saved!SetList,
     Saved!ReadBack, Saved!saveRows
<1>5. found' \in [Requests -> Requests \cup {NoRow}]
  BY <1>3 DEF Saved!SaveStep, Saved!FindSave, Saved!Unsave, Saved!Save, Saved!SetList,
     Saved!ReadBack, Saved!saveRows, Saved!RowsOf
<1>6. listType' \in [Requests -> ListTypes]
  <2>1. CASE Saved!SetList(r)
    BY <1>3, <2>1 DEF Saved!SetList, Typed, WellSent
  <2>2. CASE ~Saved!SetList(r)
    BY <1>3, <2>2, EngagementType DEF Saved!SaveStep, Saved!FindSave, Saved!Unsave, Saved!Save,
       Saved!ReadBack, Saved!saveRows
  <2> QED BY <2>1, <2>2
<1>7. Saved!SaveType'
  BY <1>4, <1>5, <1>6 DEF Saved!SaveType
<1> QED BY <1>1, <1>2, <1>7, TypesOfStep

LEMMA TypesOfBadges ==
  ASSUME Inv, Typed, NEW r \in Requests, Badge!BadgeStep(r),
         UNCHANGED <<call, world, read, replies, text, saves, listType, found>>
  PROVE  Typed'
<1>1. \/ \E stage \in Stages : pc' = [pc EXCEPT ![r] = stage]
      \/ pc' = pc
  <2>1. pc[r] \in Stages
    BY DEF Typed, TypeOK
  <2> DEFINE to == {"count", "sum", "distinct", "criteria", "done", "award", "award failed",
                    "announce", "announce failed"} \cup {pc[r]}
  <2>2. pc' = pc \/ \E stage \in to : pc' = [pc EXCEPT ![r] = stage]
    BY DEF Badge!BadgeStep, Badge!StartBadges, Badge!ReadEarned, Badge!ReadCount,
       Badge!ReadVotes, Badge!ReadPlaces, Badge!ApplyCriteria, Badge!InsertAward,
       Badge!AfterAward, Badge!Announce, Badge!GoTo
  <2> QED BY <2>1, <2>2 DEF Stages
<1>2. Replies!ReplyType' /\ Saved!SaveType'
  BY DEF Typed, TypeOK, Replies!ReplyType, Saved!SaveType
<1>3. /\ awards \subseteq Badge!Award /\ stats \in [Requests -> Badge!Stats]
      /\ earned \in [Requests -> (SUBSET Badge!Badges) \cup {NotRead}]
      /\ todo \in [Requests -> SUBSET Badge!Badges]
      /\ notices \subseteq Notices!Notice /\ read \subseteq Notices!Notice
  BY DEF Typed, TypeOK, Badge!BadgeType, Notices!NoticeType
<1>4. call[r].user \in Users
  BY DEF Inv, EngagementDiscipline, NamedRows, Begun, Badge!BadgeStep, Badge!StartBadges,
     Badge!ReadEarned, Badge!ReadCount, Badge!ReadVotes, Badge!ReadPlaces, Badge!ApplyCriteria,
     Badge!InsertAward, Badge!Announce
<1>5. Badge!StatsOf(call[r].user) \in Badge!Stats
  BY StatsAreNumbers DEF Typed
<1>6. Badge!NewlyEarned(r) \subseteq Badge!Badges
  BY CriteriaType DEF Badge!NewlyEarned, Badge!Badges
<1>7. Badge!BadgeType' /\ Notices!NoticeType'
  <2>1. CASE Badge!StartBadges(r)
    BY <1>3, <2>1 DEF Badge!StartBadges, Badge!badgeRows, Badge!BadgeType, Notices!NoticeType
  <2>2. CASE Badge!ReadEarned(r)
    <3>1. {a.badge : a \in Badge!AwardsOf(call[r].user)} \subseteq Badge!Badges
      BY <1>3 DEF Badge!AwardsOf, Badge!Award
    <3> QED BY <1>3, <2>2, <3>1 DEF Badge!ReadEarned, Badge!BadgeType, Notices!NoticeType
  <2>3. CASE Badge!ReadCount(r) \/ Badge!ReadVotes(r) \/ Badge!ReadPlaces(r)
    <3>1. stats' \in [Requests -> Badge!Stats]
      <4>1. stats[r] \in Badge!Stats
        BY <1>3
      <4> QED BY <1>3, <1>5, <2>3, <4>1 DEF Badge!ReadCount, Badge!ReadVotes, Badge!ReadPlaces,
                Badge!Stats
    <3> QED BY <1>3, <2>3, <3>1 DEF Badge!ReadCount, Badge!ReadVotes, Badge!ReadPlaces,
            Badge!BadgeType, Notices!NoticeType
  <2>4. CASE Badge!ApplyCriteria(r)
    BY <1>3, <1>6, <2>4 DEF Badge!ApplyCriteria, Badge!BadgeType, Notices!NoticeType
  <2>5. ASSUME NEW b \in Badge!Badges, NEW fails \in BOOLEAN, Badge!InsertAward(r, b, fails)
        PROVE  Badge!BadgeType' /\ Notices!NoticeType'
    <3>1. AwardOf(r, b) \in Badge!Award
      BY <1>4 DEF AwardOf, Badge!Award
    <3>2. awards' \subseteq Badge!Award
      BY <1>3, <2>5, <3>1 DEF Badge!InsertAward, AwardOf
    <3>3. todo' \in [Requests -> SUBSET Badge!Badges]
      <4>1. \/ todo' = [todo EXCEPT ![r] = Badge!NewlyEarned(r)]
            \/ todo' = [todo EXCEPT ![r] = todo[r] \ {b}]
        BY <1>3, <2>5 DEF Badge!InsertAward
      <4> QED BY <1>3, <1>6, <4>1
    <3> QED BY <1>3, <2>5, <3>2, <3>3 DEF Badge!InsertAward, Badge!BadgeType, Notices!NoticeType
  <2>6. ASSUME NEW b \in Badge!Badges, NEW fails \in BOOLEAN, Badge!Announce(r, b, fails)
        PROVE  Badge!BadgeType' /\ Notices!NoticeType'
    <3>1. Badge!BadgeNotice(r, b) \in Notices!Notice
      BY <1>4 DEF Badge!BadgeNotice, Badge!Badges, Notices!Notice
    <3>2. notices' \subseteq Notices!Notice
      BY <1>3, <2>6, <3>1 DEF Badge!Announce
    <3>3. todo' \in [Requests -> SUBSET Badge!Badges]
      BY <1>3, <2>6 DEF Badge!Announce
    <3> QED BY <1>3, <2>6, <3>2, <3>3 DEF Badge!Announce, Badge!BadgeType, Notices!NoticeType
  <2> QED BY <2>1, <2>2, <2>3, <2>4, <2>5, <2>6 DEF Badge!BadgeStep
<1>8. UNCHANGED <<call, world>>
  OBVIOUS
<1>9. "new" \in Stages
  BY DEF Stages
<1> QED BY <1>1, <1>2, <1>7, <1>8, <1>9, TypesOfStep

LEMMA TypesOfNotices ==
  ASSUME Inv, Typed, NEW r \in Requests, Notices!NoticeStep(r),
         UNCHANGED <<call, world, replies, text, saves, listType, found, awards, earned, stats, todo>>
  PROVE  Typed'
<1>1. \E stage \in Stages : pc' = [pc EXCEPT ![r] = stage]
  <2> DEFINE to == {"error", "write", "done"}
  <2>1. \E stage \in to : pc' = [pc EXCEPT ![r] = stage]
    BY DEF Notices!NoticeStep, Notices!FindNotice, Notices!MarkRead, Notices!DeleteNotice,
       Notices!MarkAllRead, Notices!GoTo
  <2> QED BY <2>1 DEF Stages
<1>2. Replies!ReplyType' /\ Saved!SaveType' /\ Badge!BadgeType'
  BY DEF Typed, TypeOK, Replies!ReplyType, Saved!SaveType, Badge!BadgeType
<1>3. Notices!NoticeType'
  BY DEF Typed, TypeOK, Notices!NoticeType, Notices!NoticeStep, Notices!FindNotice,
     Notices!MarkRead, Notices!DeleteNotice, Notices!MarkAllRead, Notices!Of
<1> QED BY <1>1, <1>2, <1>3, TypesOfStep

\* Reviews, votes and places change, or nothing does.
LEMMA TypesOfRows ==
  ASSUME Typed, UNCHANGED rows,
         review' \in [Reviews -> {"unwritten", "live", "deleted"}], open' \subseteq Places,
         helpful' \in [Reviews -> 0..MaxHelpful]
  PROVE  Typed'
<1>1. Replies!ReplyType' /\ Saved!SaveType'
  BY DEF rows, Typed, TypeOK, Replies!ReplyType, Saved!SaveType
<1>2. Badge!BadgeType' /\ Notices!NoticeType'
  BY DEF rows, Typed, TypeOK, Badge!BadgeType, Notices!NoticeType
<1> QED BY <1>1, <1>2 DEF rows, Typed, TypeOK, WellSent

LEMMA TypesKept == Inv /\ Typed /\ [Next]_vars => Typed'
<1> SUFFICES ASSUME Inv, Typed, [Next]_vars PROVE Typed'
  OBVIOUS
<1>1. ASSUME NEW r \in Requests, Begin(r) PROVE Typed'
  BY <1>1, TypesBegin
<1>2. ASSUME NEW r \in Requests, Step(r) PROVE Typed'
  BY <1>2, TypesOfReplies, TypesOfSaves, TypesOfBadges, TypesOfNotices DEF Step
<1>3. ASSUME NEW r \in Requests, Fail(r) PROVE Typed'
  <2>1. Replies!ReplyType' /\ Saved!SaveType' /\ Badge!BadgeType' /\ Notices!NoticeType'
    BY <1>3 DEF Fail, Typed, TypeOK, Replies!ReplyType, Saved!SaveType, Badge!BadgeType,
       Notices!NoticeType
  <2>2. "error" \in Stages
    BY DEF Stages
  <2> QED BY <1>3, <2>1, <2>2, TypesOfStep DEF Fail
<1>4. /\ review \in [Reviews -> {"unwritten", "live", "deleted"}] /\ open \subseteq Places
      /\ helpful \in [Reviews -> 0..MaxHelpful]
  BY DEF Typed, TypeOK
<1>5. ASSUME NEW v \in Reviews, WriteReview(v) \/ DeleteReview(v) \/ Vote(v) PROVE Typed'
  <2>1. UNCHANGED rows
    BY <1>5 DEF WriteReview, DeleteReview, Vote, WorldChanges, rows
  <2> QED BY <1>4, <1>5, <2>1, TypesOfRows DEF WriteReview, DeleteReview, Vote
<1>6. ASSUME NEW p \in Places, DeletePlace(p) PROVE Typed'
  <2>1. UNCHANGED rows
    BY <1>6 DEF DeletePlace, WorldChanges, rows
  <2> QED BY <1>4, <1>6, <2>1, TypesOfRows DEF DeletePlace
<1>7. CASE UNCHANGED vars
  BY <1>4, <1>7, TypesOfRows DEF vars, world, rows
<1> QED BY <1>1, <1>2, <1>3, <1>5, <1>6, <1>7 DEF Next, AllAnswered

-----------------------------------------------------------------------------
(* Theorems. *)

\* The tables and the requests keep their types; above all the statistics that
\* badgeRepository.ts sums up are numbers.
THEOREM TypeCorrect == Spec => []TypeOK
<1>1. Spec => []Typed
  BY TypesAtFirst, TypesKept, Invariance, PTL DEF Spec
<1>2. Typed => TypeOK
  BY DEF Typed
<1> QED BY <1>1, <1>2, PTL

\* reviewReplyService.ts, savedPlaceService.ts and badgeService.ts look up and
\* insert in two statements: a review keeps one reply, a user saves a place once
\* and earns a badge once all the same.
THEOREM RowsStayUnique == Spec => []RowsAreUnique
<1>1. Inv /\ TypeOK => RowsAreUnique
  BY DEF Inv, Unique, RowsAreUnique
<1> QED BY <1>1, Invariance, TypeCorrect, PTL

\* What is shown as a reply was written by the owner of the place, and a saved
\* place is on a list that somebody asked for it.
THEOREM WritesHitTheirRows == Spec => []WritesHitWhatWasFound
<1>1. Inv => WritesHitWhatWasFound
  BY DEF Inv, Truthful, EngagementDiscipline, Listing, WritesHitWhatWasFound,
     Saved!ListsMoveOnlyWhatWasFound
<1> QED BY <1>1, Invariance, PTL

\* Replies are told once and by the request that stored them, badges by the one
\* that awarded them, and what was awarded had been deserved.
THEOREM NoticesAreTrue == Spec => []NoticesTellTheTruth
<1>1. Inv => RepliesToldOnce
  <2> SUFFICES ASSUME Inv, NEW n \in notices, n.about = "reply"
               PROVE  /\ call[n.by].op = "reply" /\ n.to = AuthorOf[call[n.by].review]
                      /\ \/ n.by \in replies
                         \/ \E q \in Requests : call[q].op = "delete reply" /\ call[q].reply = n.by
    BY DEF RepliesToldOnce
  <2> QED BY DEF Inv, EngagementDiscipline, RepliesToTell, StoredOrDeleted
<1>2. Inv => BadgesWereDeserved
  <2> SUFFICES ASSUME Inv, NEW a \in awards
               PROVE  IF a.badge # "ELITE_REVIEWER" THEN a.badge \in deserved[a.user]
                      ELSE stats[a.by].count >= ManyReviews /\ stats[a.by].votes >= EliteVotes
    BY DEF BadgesWereDeserved
  <2>1. /\ a.by \in Requests /\ a.user = call[a.by].user
        /\ a.badge \in Catalog /\ Badge!Criteria(a.badge, stats[a.by])
    BY DEF Inv, EngagementDiscipline, NamedRows, Earning, Begun
  <2> QED BY <2>1 DEF Inv, EngagementDiscipline, Earning, Badge!Criteria
<1>3. Inv => NoticesTellTheTruth
  BY <1>1, <1>2 DEF NoticesTellTheTruth, Inv, Truthful
<1> QED BY <1>3, Invariance, PTL

\* A notification is marked or deleted by the user it is for, whatever id a
\* request names.
THEOREM NoticesStayOwn == Spec => OnlyOwnNotices
<1>1. Inv /\ [Next]_vars =>
        \A n \in (read' \ read) \cup (notices \ notices') :
          \E r \in Requests : pc[r] # pc'[r] /\ call[r].user = n.to
  <2> SUFFICES ASSUME Inv, [Next]_vars, NEW n \in (read' \ read) \cup (notices \ notices')
               PROVE  \E r \in Requests : pc[r] # pc'[r] /\ call[r].user = n.to
    OBVIOUS
  <2>1. PICK r \in Requests : Notices!NoticeStep(r)
    <3>1. CASE UNCHANGED vars
      BY <3>1 DEF vars
    <3>2. CASE \E r \in Requests : Begin(r) \/ Fail(r)
      BY <3>2 DEF Begin, Fail
    <3>3. CASE WorldChanges
      BY <3>3 DEF WorldChanges
    <3>4. ASSUME NEW r \in Requests, Replies!ReplyStep(r), read' = read PROVE FALSE
      <4>1. notices \subseteq notices'
        BY <3>4 DEF Replies!ReplyStep, Replies!FindReview, Replies!FindPlace, Replies!FindReply,
           Replies!InsertReply, Replies!TellReviewer, Replies!FindOwnReply, Replies!EditReply,
           Replies!DeleteReply
      <4> QED BY <3>4, <4>1
    <3>5. ASSUME NEW r \in Requests, Badge!BadgeStep(r), read' = read PROVE FALSE
      <4>1. notices \subseteq notices'
        BY <3>5 DEF Badge!BadgeStep, Badge!StartBadges, Badge!ReadEarned, Badge!ReadCount,
           Badge!ReadVotes, Badge!ReadPlaces, Badge!ApplyCriteria, Badge!InsertAward, Badge!Announce
      <4> QED BY <3>5, <4>1
    <3> QED BY <3>1, <3>2, <3>3, <3>4, <3>5
            DEF Next, AllAnswered, Step, WriteReview, DeleteReview, Vote, DeletePlace
  <2>2. pc[r] \in {"start", "write"} /\ pc'[r] \in {"write", "error", "done"} /\ pc'[r] # pc[r]
    BY <2>1 DEF Inv, Shape, Notices!NoticeStep, Notices!FindNotice, Notices!MarkRead,
       Notices!DeleteNotice, Notices!MarkAllRead, Notices!GoTo
  <2>3. call[r].user = n.to
    BY <2>1 DEF Inv, EngagementDiscipline, Authorised, Notices!NoticeStep, Notices!FindNotice,
       Notices!MarkRead, Notices!DeleteNotice, Notices!MarkAllRead, Notices!Of
  <2> QED BY <2>2, <2>3
<1>2. Inv /\ [Next]_vars =>
        [\A n \in (read' \ read) \cup (notices \ notices') :
           \E r \in Requests : pc[r] # pc'[r] /\ call[r].user = n.to]_<<notices, read>>
  BY <1>1
<1> QED BY <1>2, Invariance, PTL DEF Spec, OnlyOwnNotices, Notices!OnlyOwnNotices
=============================================================================
