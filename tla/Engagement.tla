----------------------------- MODULE Engagement -----------------------------
(***************************************************************************)
(* Replies, saved places, badges and notifications on one database: the    *)
(* four services share the requests, the reviews and the notifications.    *)
(* Reviews, helpful counts and places change under them, as ReviewService, *)
(* ReviewVoteService and PlaceService commit.                              *)
(***************************************************************************)
EXTENDS Integers, FiniteSets

CONSTANTS Users, Places, Reviews, Requests,
          OwnerOf, PlaceOf, AuthorOf,
          ListTypes, NoRow, NotRead, Catalog,
          ManyReviews, ManyVotes, ManyPlaces, EliteVotes,
          Asks,        \* the mutations under study, and who asks for them
          MaxHelpful,  \* bound on helpful_count
          Earlier, EarlierCall  \* a place saved before

ASSUME EngagementType ==
  /\ OwnerOf \in [Places -> Users]
  /\ PlaceOf \in [Reviews -> Places]
  /\ AuthorOf \in [Reviews -> Users] /\ IsFiniteSet(Reviews)
  /\ "SAVED" \in ListTypes
  /\ NoRow \notin Requests /\ Earlier \in Requests
  /\ EarlierCall \in [op : {"toggle save"}, user : Users, place : Places]
  /\ MaxHelpful \in Nat

VARIABLES call, pc, review, open, helpful, notices, read,
          replies, text, saves, listType, found, awards, earned, stats, todo,
          deserved  \* history: badges whose criterion has ever held

BadgeKeys == {"FIRST_REVIEW", "PROLIFIC_REVIEWER", "HELPFUL_REVIEWER", "EXPLORER", "ELITE_REVIEWER"}
Subjects == {"reply"} \cup BadgeKeys

ASSUME CriteriaType ==
  /\ Catalog \subseteq BadgeKeys
  /\ {ManyReviews, ManyVotes, ManyPlaces, EliteVotes} \subseteq Nat \ {0}

Replies == INSTANCE ReviewReplyService
Saved == INSTANCE SavedPlaceService
Badge == INSTANCE BadgeService
Notices == INSTANCE NotificationService

world == <<review, open, helpful, deserved>>
vars == <<call, pc, world, notices, read, replies, text, saves, listType, found,
          awards, earned, stats, todo>>

-----------------------------------------------------------------------------
Idle == [op |-> "none"]
Calls ==
  {c \in Replies!CreateReplyCalls \cup Replies!ChangeReplyCalls \cup Saved!SaveCalls
         \cup Badge!BadgeCalls \cup Notices!NoticeCalls : <<c.op, c.user>> \in Asks}

\* Ids that nobody was ever given are left out: they are answered not found.
Plausible(c) == c.op \in {"edit reply", "delete reply"} => call[c.reply].op = "reply"

Begin(r) ==
  /\ pc[r] = "new"
  /\ \E c \in Calls :
       /\ Plausible(c)
       /\ call' = [call EXCEPT ![r] = c]
  /\ pc' = [pc EXCEPT ![r] = "start"]
  /\ UNCHANGED <<world, notices, read, replies, text, saves, listType, found,
                 awards, earned, stats, todo>>

Step(r) ==
  /\ UNCHANGED <<call, world>>
  /\ \/ Replies!ReplyStep(r)
        /\ UNCHANGED <<read, saves, listType, found, awards, earned, stats, todo>>
     \/ Saved!SaveStep(r)
        /\ UNCHANGED <<notices, read, replies, text, awards, earned, stats, todo>>
     \/ Badge!BadgeStep(r)
        /\ UNCHANGED <<read, replies, text, saves, listType, found>>
     \/ Notices!NoticeStep(r)
        /\ UNCHANGED <<replies, text, saves, listType, found, awards, earned, stats, todo>>

\* A statement fails, or its answer is lost; everything committed stays.
Answered == {"done", "saved", "unsaved", "error", "award failed", "announce failed"}
Fail(r) ==
  /\ pc[r] \notin Answered \cup {"new", "award", "announce"}
  /\ pc' = [pc EXCEPT ![r] = "error"]
  /\ UNCHANGED <<call, world, notices, read, replies, text, saves, listType, found,
                 awards, earned, stats, todo>>

-----------------------------------------------------------------------------
(* What the other services commit meanwhile. *)

Deserving(u) == {b \in Catalog : Badge!Criteria(b, Badge!StatsOf(u))}

WorldChanges ==
  /\ deserved' = [u \in Users |-> deserved[u] \cup Deserving(u)']
  /\ UNCHANGED <<call, pc, notices, read, replies, text, saves, listType, found,
                 awards, earned, stats, todo>>

WriteReview(v) ==
  /\ review[v] = "unwritten" /\ PlaceOf[v] \in open
  /\ \A w \in Reviews \ {v} :
       review[w] = "live" => PlaceOf[w] # PlaceOf[v] \/ AuthorOf[w] # AuthorOf[v]
  /\ review' = [review EXCEPT ![v] = "live"]
  /\ UNCHANGED <<open, helpful>>
  /\ WorldChanges

DeleteReview(v) ==
  /\ review[v] = "live"
  /\ review' = [review EXCEPT ![v] = "deleted"]
  /\ UNCHANGED <<open, helpful>>
  /\ WorldChanges

Vote(v) ==
  /\ review[v] = "live"
  /\ \E n \in {helpful[v] - 1, helpful[v] + 1} \cap 0..MaxHelpful :
       helpful' = [helpful EXCEPT ![v] = n]
  /\ UNCHANGED <<review, open>>
  /\ WorldChanges

DeletePlace(p) ==
  /\ p \in open
  /\ open' = open \ {p}
  /\ UNCHANGED <<review, helpful>>
  /\ WorldChanges

Init ==
  /\ call = [r \in Requests |-> IF r = Earlier THEN EarlierCall ELSE Idle]
  /\ pc = [r \in Requests |-> IF r = Earlier THEN "saved" ELSE "new"]
  /\ review = [v \in Reviews |-> "unwritten"]
  /\ helpful = [v \in Reviews |-> 0]
  /\ open = Places
  /\ notices = {} /\ read = {}
  /\ deserved = [u \in Users |-> Deserving(u)]
  /\ Replies!ReplyInit /\ Saved!SaveInit(Earlier) /\ Badge!BadgeInit

AllAnswered ==
  /\ \A r \in Requests : pc[r] \in Answered /\ todo[r] = {}
  /\ UNCHANGED vars

Next ==
  \/ \E r \in Requests : Begin(r) \/ Step(r) \/ Fail(r)
  \/ \E v \in Reviews : WriteReview(v) \/ DeleteReview(v) \/ Vote(v)
  \/ \E p \in Places : DeletePlace(p)
  \/ AllAnswered

Spec == Init /\ [][Next]_vars

-----------------------------------------------------------------------------
(* Properties. *)

Stages == Answered \cup
  {"new", "start", "place", "existing", "insert", "tell", "write", "read back",
   "count", "sum", "distinct", "criteria", "award", "announce"}

TypeOK ==
  /\ pc \in [Requests -> Stages]
  /\ review \in [Reviews -> {"unwritten", "live", "deleted"}]
  /\ helpful \in [Reviews -> 0..MaxHelpful]
  /\ open \subseteq Places
  /\ Replies!ReplyType /\ Saved!SaveType /\ Badge!BadgeType /\ Notices!NoticeType

(* What the statements keep to, of which the rest follows. *)

Begun(q) == q \in Requests /\ pc[q] # "new"

\* Rows and notifications bear the names of requests that were sent by users.
NamedRows ==
  /\ \A q \in replies : Begun(q) /\ Begun(text[q]) /\ call[q].op = "reply"
  /\ \A q \in saves : Begun(q)
  /\ \A a \in awards : Begun(a.by) /\ a.user = call[a.by].user
  /\ \A n \in notices : Begun(n.by)
  /\ \A q \in Requests : Begun(q) => call[q].user \in Users

\* A request writes as the owner of the place, or the user of the notification,
\* that it has looked up.
Authorised ==
  \A r \in Requests :
    /\ call[r].op = "reply" /\ pc[r] \in {"existing", "insert"} => Replies!OwnsPlace(r)
    /\ call[r].op = "edit reply" /\ pc[r] = "write" =>
         /\ Begun(call[r].reply)
         /\ Replies!Keeper(call[call[r].reply].review) = call[r].user
    /\ call[r].op \in {"mark read", "delete notice"} /\ pc[r] = "write" =>
         call[r].notice.to = call[r].user

\* A list other than the plain one was asked for by a request that found the row.
Listing ==
  \A q \in saves : listType[q] # "SAVED" =>
    \E r \in Requests : /\ call[r].op = "set list" /\ pc[r] \notin {"new", "start"}
                        /\ found[r] = q /\ call[r].list = listType[q]

\* A reply that is or was notified is stored, or somebody asked to delete it.
StoredOrDeleted(q) ==
  q \in replies \/ \E r \in Requests : /\ Begun(r) /\ call[r].op = "delete reply"
                                       /\ call[r].reply = q
RepliesToTell ==
  /\ \A r \in Requests : call[r].op = "reply" /\ pc[r] = "tell" => StoredOrDeleted(r)
  /\ \A n \in notices : n.about = "reply" =>
       /\ call[n.by].op = "reply" /\ n.to = AuthorOf[call[n.by].review]
       /\ StoredOrDeleted(n.by)

\* What is in flight was found newly earned; what is announced was inserted.
AwardOf(r, b) == [user |-> call[r].user, badge |-> b, by |-> r]
AwardingBy(r) ==
  /\ pc[r] \in {"award", "award failed"} => todo[r] \subseteq Badge!NewlyEarned(r)
  /\ pc[r] = "award" => \A b \in Badge!NewlyEarned(r) \ todo[r] : AwardOf(r, b) \in awards
  /\ pc[r] \in {"announce", "announce failed"} => \A b \in todo[r] : AwardOf(r, b) \in awards
Awarding == \A r \in Requests : AwardingBy(r)

\* Statistics that meet a criterion did so when they were read.
Earning ==
  /\ \A u \in Users : Deserving(u) \subseteq deserved[u]
  /\ \A r \in Requests :
       /\ pc[r] \in {"new", "start"} => stats[r] = Badge!NoReviews
       /\ \A b \in Catalog \ {"ELITE_REVIEWER"} :
            Badge!Criteria(b, stats[r]) => b \in deserved[call[r].user]
  /\ \A a \in awards :
       /\ pc[a.by] \in {"award", "award failed", "announce", "announce failed", "done"}
       /\ a.badge \in Catalog /\ Badge!Criteria(a.badge, stats[a.by])

EngagementDiscipline ==
  NamedRows /\ Authorised /\ Listing /\ RepliesToTell /\ Awarding /\ Earning

\* The author of a review is told of the reply that was stored, by the one
\* request that stored it: the loser of two replies tells nobody.
RepliesToldOnce ==
  \A n \in notices : n.about = "reply" =>
    /\ call[n.by].op = "reply" /\ n.to = AuthorOf[call[n.by].review]
    /\ n.by \in replies \/ \E q \in Requests : call[q].op = "delete reply" /\ call[q].reply = n.by

\* Badges are awarded for statistics read in three statements while reviews
\* and votes come and go.  Those that look at one number were deserved at some
\* moment; the elite badge looks at two, and each half was.
BadgesWereDeserved ==
  \A a \in awards :
    IF a.badge # "ELITE_REVIEWER" THEN a.badge \in deserved[a.user]
    ELSE stats[a.by].count >= ManyReviews /\ stats[a.by].votes >= EliteVotes

\* Look-up and insert are apart everywhere: whatever two requests do in between,
\* a review has one reply, a user saves a place once and earns a badge once.
RowsAreUnique ==
  TypeOK /\ Replies!OneReplyPerReview /\ Saved!OneSavePerUser /\ Badge!AwardedOnce

\* Rows that were looked up and went or came back meanwhile are not written by
\* the wrong hand: replies speak for the place, lists move what was found.
WritesHitWhatWasFound ==
  Replies!RepliesSpeakForThePlace /\ Saved!ListsMoveOnlyWhatWasFound

\* Notifications, sent after the fact and outside of any transaction, tell of
\* what happened, once, whoever lost a race for it.
NoticesTellTheTruth ==
  RepliesToldOnce /\ Badge!AnnouncedByItsAwarder /\ BadgesWereDeserved

\* A notification is marked or deleted by the user it is for.
OnlyOwnNotices == Notices!OnlyOwnNotices
=============================================================================
