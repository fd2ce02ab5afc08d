-------------------------- MODULE BusinessDashboard --------------------------
(***************************************************************************)
(* The numbers of an owner's dashboard and how the page gets them.         *)
(* computeDashboardStats is a pure function of the place's reviews, their  *)
(* replies and the time; it sees them at two times, now and at the end of  *)
(* last month, and shows the difference as the trend.  The service reads   *)
(* the reviews in one statement and the replies in another; the page reads *)
(* its list, the newest LIST_SIZE reviews, with a query of its own.        *)
(* A moment is a day: days 1..MONTH_DAYS are month 0, and so on.           *)
(***************************************************************************)
EXTENDS Integers, FiniteSets, FiniteSetsExt, TLC

CONSTANTS
    Reviews, Ratings, None,
    VolumeScore,         \* 100 log(n + 1) / log(101) per review count, in hundredths
    MONTH_DAYS, LAST_DAY,
    MONTHS_BACK,         \* 12
    RECENCY_WINDOW_DAYS, \* 90
    LIST_SIZE,           \* 20, the reviews on the page
    MAX_CHANGES          \* reviews and replies that are changed or deleted

VARIABLES
    view,      \* "closed" or "open"
    day,
    reviews,   \* [rating, on], or None
    replies,   \* the day of the reply of each review, or None
    used,      \* reviews that were written
    request,   \* the dashboard query: None, Asked, or the reviews it has read
    pending,   \* Apollo: pendingReplyCount, or None
    list,      \* the page: its reviews and whether they have a reply, or None
    listing,   \* the list query runs
    changes,
    excuse     \* history: something changed since the page read

vars == <<view, day, reviews, replies, used, request, pending, list, listing, changes,
          excuse>>

Days == 1..LAST_DAY
Asked == <<>>
Month(d) == (d - 1) \div MONTH_DAYS
LastOfPreviousMonth(d) == Month(d) * MONTH_DAYS
Rows(rv) == {r \in Reviews : rv[r] # None}

TypeOK ==
    /\ view \in {"closed", "open"} /\ day \in Days /\ {listing, excuse} \subseteq BOOLEAN
    /\ \A r \in Reviews :
         /\ reviews[r] # None => reviews[r] \in [rating : Ratings, on : 1..day] /\ r \in used
         /\ replies[r] # None => replies[r] \in 1..day /\ r \in used
    /\ pending # None => pending \in 0..Cardinality(Reviews)
    /\ list # None => list \subseteq Reviews \X BOOLEAN
    /\ changes \in 0..MAX_CHANGES

----------------------------------------------------------------------------
\* businessDashboardMath.ts.  Percentages and averages are exact quotients,
\* rounded as Math.round does.

Round(n, d) == (2 * n + d) \div (2 * d)
Total(rv, rs) == Cardinality({p \in rs \X (1..5) : p[2] <= rv[p[1]].rating})

SoFar(rv, asOf) == {r \in Rows(rv) : rv[r].on <= asOf}

Answered(rv, rp, asOf) == {r \in SoFar(rv, asOf) : rp[r] # None /\ rp[r] <= asOf}

Recent(rv, asOf) == {r \in SoFar(rv, asOf) : asOf - rv[r].on <= RECENCY_WINDOW_DAYS}

(* 55% rating, 20% volume, 15% response rate, 10% recency. *)
Score(sum, n, answered, recent) ==
    IF n = 0 THEN 0
    ELSE Round(5500 * sum + VolumeScore[n] * n + 7500 * answered + 1000 * n * Min({5, recent}), 500 * n)

Snapshot(rv, rp, asOf) ==
    LET so == SoFar(rv, asOf)
        n == Cardinality(so)
        answered == Cardinality(Answered(rv, rp, asOf))
        sum == Total(rv, so)
    IN  [count |-> n, sum |-> sum, answered |-> answered, pending |-> n - answered,
         score |-> Score(sum, n, answered, Cardinality(Recent(rv, asOf)))]

(* The last MONTHS_BACK months, oldest first; reviews of other months count in none. *)
Window(now) == (Month(now) - MONTHS_BACK + 1)..Month(now)
Buckets(rv, now) == [m \in Window(now) |-> {r \in Rows(rv) : Month(rv[r].on) = m}]
ReviewVolume(rv, now) == [m \in Window(now) |-> Cardinality(Buckets(rv, now)[m])]
RatingTrend(rv, now) ==
    [m \in Window(now) |->
       LET b == Buckets(rv, now)[m] IN IF b = {} THEN None ELSE Round(100 * Total(rv, b), Cardinality(b))]

\* AnalyticsPage: the last n of them.
VolumeInRange(volume, now, n) ==
    Cardinality({p \in Window(now) \X (1..Cardinality(Reviews)) :
                   p[1] > Month(now) - n /\ p[2] <= volume[p[1]]})

Percent(part, n) == IF n = 0 THEN 0 ELSE Round(100 * part, n)
Sentiment(rv) ==
    LET n == Cardinality(Rows(rv))
        share(lo, hi) == Percent(Cardinality({r \in Rows(rv) : rv[r].rating \in lo..hi}), n)
    IN  [positive |-> share(4, 5), neutral |-> share(3, 3), negative |-> share(1, 2)]

(* a / b - c / d, where a quotient by zero is 0, in units of 1 / unit. *)
Difference(a, b, c, d, unit) ==
    LET n == IF b = 0 THEN 1 ELSE b
        m == IF d = 0 THEN 1 ELSE d
    IN  Round(unit * (a * m - c * n), n * m)

Insights(live, prior, volume, now) ==
    IF live.count = 0 THEN {"none yet"}
    ELSE LET rate == IF live.answered * Max({1, prior.count}) > prior.answered * live.count
                     THEN {"rate improved"} ELSE {}
             best == IF volume[Month(now)] > 0 /\ \A m \in Window(now) : volume[m] <= volume[Month(now)]
                     THEN {"best month"} ELSE {}
             dip == IF prior.count > 0 /\ live.sum * prior.count < prior.sum * live.count
                    THEN {"rating dipped"} ELSE {}
         IN  IF rate \cup best \cup dip = {} THEN {"steady"} ELSE rate \cup best \cup dip

PriorAsOf(now) == LastOfPreviousMonth(now)

ComputeDashboardStats(rv, rp, now) ==
    LET live == Snapshot(rv, rp, now)
        prior == Snapshot(rv, rp, PriorAsOf(now))
        volume == ReviewVolume(rv, now)
    IN  [score |-> live.score, scoreTrend |-> live.score - prior.score,
         rating |-> Difference(live.sum, live.count, 0, 0, 10),
         ratingTrend |-> Difference(live.sum, live.count, prior.sum, prior.count, 10),
         count |-> live.count, countTrend |-> live.count - prior.count,
         rate |-> Percent(live.answered, live.count),
         rateTrend |-> Difference(live.answered, live.count, prior.answered, prior.count, 100),
         pending |-> live.pending,
         months |-> RatingTrend(rv, now), volume |-> volume,
         sentiment |-> Sentiment(rv), insights |-> Insights(live, prior, volume, now)]

----------------------------------------------------------------------------
\* Reviews, replies, days and the page.

Init ==
    /\ view = "closed" /\ day = 1
    /\ reviews = [r \in Reviews |-> None] /\ replies = [r \in Reviews |-> None] /\ used = {}
    /\ request = None /\ pending = None /\ list = None /\ listing = FALSE
    /\ changes = 0 /\ excuse = FALSE

Change == changes < MAX_CHANGES /\ changes' = changes + 1 /\ excuse' = TRUE

Open ==
    /\ view = "closed" /\ view' = "open" /\ request' = Asked
    /\ UNCHANGED <<day, reviews, replies, used, pending, list, listing, excuse, changes>>

WriteReview(r, n) ==
    /\ view = "open" /\ r \notin used
    /\ reviews' = [reviews EXCEPT ![r] = [rating |-> n, on |-> day]] /\ used' = used \cup {r}
    /\ excuse' = TRUE
    /\ UNCHANGED <<view, day, replies, request, pending, list, listing, changes>>

UpdateReview(r, n) ==
    /\ reviews[r] # None /\ reviews[r].rating # n
    /\ reviews' = [reviews EXCEPT ![r].rating = n] /\ Change
    /\ UNCHANGED <<view, day, replies, used, request, pending, list, listing>>

DeleteReview(r) ==
    /\ reviews[r] # None
    /\ reviews' = [reviews EXCEPT ![r] = None] /\ Change
    /\ UNCHANGED <<view, day, replies, used, request, pending, list, listing>>

NextDay ==
    /\ view = "open" /\ day < LAST_DAY /\ day' = day + 1 /\ excuse' = TRUE
    /\ UNCHANGED <<view, reviews, replies, used, request, pending, list, listing, changes>>

RefetchBoth == listing' = TRUE /\ request' = Asked

\* handleSubmitReply on a listed review without a reply: both queries follow.
\* While the dashboard is read the page shows "Loading dashboard..." alone.
SubmitReply(r) ==
    /\ request = None
    /\ list # None /\ <<r, FALSE>> \in list /\ reviews[r] # None /\ replies[r] = None
    /\ replies' = [replies EXCEPT ![r] = day]
    /\ RefetchBoth /\ excuse' = FALSE
    /\ UNCHANGED <<view, day, reviews, used, pending, list, changes>>

DeleteReply(r) ==
    /\ replies[r] # None /\ reviews[r] # None
    /\ replies' = [replies EXCEPT ![r] = None] /\ Change
    /\ UNCHANGED <<view, day, reviews, used, request, pending, list, listing>>

(* getDashboard: two statements, the second for the reviews of the first.  The
   first answer names the place whose reviews the page then lists. *)
ReadReviews ==
    /\ request = Asked /\ request' = <<reviews>>
    /\ UNCHANGED <<view, day, reviews, replies, used, pending, list, listing, excuse, changes>>

ReadReplies ==
    /\ request \notin {None, Asked} /\ request' = None
    /\ LET ids == Rows(request[1])
           found == [r \in Reviews |-> IF r \in ids THEN replies[r] ELSE None]
       IN  pending' = Snapshot(request[1], found, day).pending
    /\ listing' = (listing \/ pending = None)
    /\ UNCHANGED <<view, day, reviews, replies, used, list, excuse, changes>>

(* The lists that placeReviews can answer: ties of a day go either way. *)
Newest(rv) ==
    IF Cardinality(Rows(rv)) <= LIST_SIZE THEN {Rows(rv)}
    ELSE {s \in SUBSET Rows(rv) :
            /\ Cardinality(s) = LIST_SIZE
            /\ \A r \in s, q \in Rows(rv) \ s : rv[q].on <= rv[r].on}

ReadList ==
    /\ listing /\ listing' = FALSE
    /\ \E s \in Newest(reviews) : list' = {<<r, replies[r] # None>> : r \in s}
    /\ UNCHANGED <<view, day, reviews, replies, used, request, pending, excuse, changes>>

Next ==
    \/ Open \/ NextDay \/ ReadReviews \/ ReadReplies \/ ReadList
    \/ \E r \in Reviews :
         \/ DeleteReview(r) \/ SubmitReply(r) \/ DeleteReply(r)
         \/ \E n \in Ratings : WriteReview(r, n) \/ UpdateReview(r, n)

Spec == Init /\ [][Next]_vars

----------------------------------------------------------------------------
\* The numbers depend on the data alone: they are looked at when no query runs.
Settled == view = "open" /\ request = None /\ ~listing
Now == ComputeDashboardStats(reviews, replies, day)

\* The two ways in which the page counts this month's reviews agree: the
\* trend, a difference of two snapshots ("new this month"), and the last bar
\* of the volume chart; every range of the analytics page counts each review
\* of its months once, and a month has an average when it has a review.
CountsAgree ==
    Settled =>
        LET now == Now
        IN  /\ now.countTrend = now.volume[Month(day)]
            /\ \A n \in 1..MONTHS_BACK :
                 VolumeInRange(now.volume, day, n) =
                    Cardinality({r \in Rows(reviews) : Month(reviews[r].on) > Month(day) - n})
            /\ \A m \in Window(day) : (now.months[m] = None) = (now.volume[m] = 0)

\* A month in which nothing was written shows no growth: no trend but that of
\* the score moves, and that one only falls, as reviews stop being recent.
QuietMonth ==
    \A r \in Reviews :
        /\ reviews[r] # None => Month(reviews[r].on) < Month(day)
        /\ replies[r] # None => Month(replies[r]) < Month(day)

QuietMonthShowsNoGrowth ==
    Settled /\ QuietMonth =>
        LET now == Now
        IN  /\ now.countTrend = 0 /\ now.ratingTrend = 0 /\ now.rateTrend = 0 /\ now.scoreTrend <= 0
            /\ now.insights \subseteq {"none yet", "steady"}

\* Answering a review never lowers the score or the response rate, and takes
\* exactly one review off those that wait.
Improves(before, after) ==
    /\ after.score >= before.score /\ after.pending = before.pending - 1
    /\ Percent(after.answered, after.count) >= Percent(before.answered, before.count)

ReplyingHelps ==
    [][(\E r \in Reviews : replies[r] = None /\ replies'[r] # None) =>
         Improves(Snapshot(reviews, replies, day), Snapshot(reviews', replies', day'))]_vars

\* Once the refetches of a reply have ended, the number of waiting reviews is
\* made up of those that are listed and, when the place has more reviews than
\* the list shows, of others further back, though three statements read them:
\* unless somebody else wrote meanwhile.
Waiting == {x \in list : ~x[2]}
FurtherBack == {r \in Rows(reviews) \ {x[1] : x \in list} : replies[r] = None}

PendingMatchesList ==
    Settled /\ pending # None /\ list # None /\ ~excuse =>
        /\ pending = Cardinality(Waiting) + Cardinality(FurtherBack)
        /\ Cardinality(Rows(reviews)) <= LIST_SIZE => FurtherBack = {}

\* The claim "Every review has an owner reply" (BusinessDashboardPage.tsx:174),
\* made when no listed review waits for one.
CaughtUpMeansAnswered ==
    Settled /\ list # None /\ Waiting = {} /\ ~excuse =>
        \A r \in Rows(reviews) : replies[r] # None
=============================================================================
