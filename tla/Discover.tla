------------------------------ MODULE Discover ------------------------------
(***************************************************************************)
(* Pages of places while the places change: the list, the trending job,    *)
(* and at most one visitor, who either follows the cursors of the API or   *)
(* uses the Discover page.  With no visitor the refreshes start from any   *)
(* scores that former ones can have left.                                  *)
(***************************************************************************)
EXTENDS Integers, FiniteSets, Sequences

CONSTANTS
  Places, Labelled, DistanceOf, Unlocated, OpenAt, MinLimit, MaxLimit, NoCursor, NoData,
  PAGE_SIZE,
  Visitors,         \* the kinds of visitor under study
  FiltersUsed, SortsUsed,  \* by the page
  MaxRating, MaxRecent,
  MaxChanges, MaxClicks  \* bounds on what the world and the visitor do

ASSUME DiscoverType ==
  /\ Places \subseteq Nat /\ IsFiniteSet(Places) /\ Labelled \subseteq Places
  /\ DistanceOf \in [Places -> Int \cup {Unlocated}] /\ Unlocated \notin Int
  /\ DOMAIN OpenAt # {}
  /\ NoCursor \notin [id : Places, sortValue : Int]
  /\ Visitors \subseteq {"nobody", "cursors", "page"}
  /\ MinLimit \in Nat \ {0} /\ MaxLimit \in Nat \ {0} /\ PAGE_SIZE \in Nat \ {0}
  /\ MaxRating \in Nat \ {0} /\ MaxRecent \in Nat
  /\ MaxChanges \in [Visitors -> Nat]
  /\ MaxClicks \in Nat

VARIABLES
  live, rating, trending, clock, recent, job, since, changes,
  visitor, clicks,
  walk,     \* the pages an API client has followed
  touched,  \* history: places that changed their position or left during the walk
  filters, debouncedQuery, sort, coords, requesting, view, locationBlocked,
  cache, entities, asked, more, places, late, lost

Lists == INSTANCE PlacePages
Trend == INSTANCE TrendingScoreJob
Browser == INSTANCE DiscoverPage

ASSUME OnThePage ==
  /\ SortsUsed \subseteq Lists!Sorts /\ "HIGHEST_RATED" \in SortsUsed
  /\ FiltersUsed \subseteq Lists!PlaceFilters

world == <<live, rating, trending, clock, recent, job, since>>
page == <<filters, debouncedQuery, sort, coords, requesting, view, locationBlocked,
          cache, entities, asked, more, places, late, lost>>
vars == <<world, changes, visitor, clicks, walk, touched, page>>

-----------------------------------------------------------------------------
(* The server's places. *)

RateAndReview(p) ==
  /\ p \in live
  /\ \E n \in (0..MaxRating) \ {rating[p]} : rating' = [rating EXCEPT ![p] = n]
  /\ recent[p] < MaxRecent /\ Trend!RecentBecomes(p, recent[p] + 1)
  /\ UNCHANGED <<live, clock>>

\* A review is deleted, or 24 hours old.
ReviewLeaves(p) ==
  /\ recent[p] > 0 /\ Trend!RecentBecomes(p, recent[p] - 1)
  /\ UNCHANGED <<live, rating, clock>>

AddOrDelete(p) ==
  /\ live' = IF p \in live THEN live \ {p} ELSE live \cup {p}
  /\ p \notin live => \A q \in live : q < p
  /\ UNCHANGED <<rating, trending, clock, recent, job, since>>

TimePasses ==
  /\ clock' \in DOMAIN OpenAt \ {clock}
  /\ UNCHANGED <<live, rating, trending, recent, job, since>>

RefreshRuns == Trend!JobStep /\ UNCHANGED <<live, rating, clock>>

\* What an API client that is following cursors would see move.
Position(p) ==
  <<p \in Lists!Candidates(walk.sort, walk.filter), Lists!Row(walk.sort, p)>>
Touch ==
  touched' = IF walk.pages = 0 THEN touched
             ELSE touched \cup {p \in Places : Position(p)' # Position(p)}

WorldChanges ==
  /\ changes < MaxChanges[visitor] /\ changes' = changes + 1
  /\ UNCHANGED <<visitor, clicks, walk, page>>
  /\ \/ \E p \in Places : RateAndReview(p) \/ ReviewLeaves(p) \/ AddOrDelete(p)
     \/ TimePasses \/ RefreshRuns
  /\ Touch

-----------------------------------------------------------------------------
(* A client that passes each endCursor on as `after`. *)

StartWalk ==
  /\ visitor = "cursors" /\ walk.pages = 0
  /\ \E s \in Lists!Sorts, f \in Lists!PlaceFilters, first \in {0, PAGE_SIZE} :
       LET answer == Lists!ListPlaces(s, f, first, NoCursor)
       IN  walk' = [sort |-> s, filter |-> f, first |-> first, pages |-> 1,
                    got |-> answer.rows, cursor |-> answer.endCursor,
                    done |-> ~answer.hasNextPage]
  /\ UNCHANGED <<world, changes, visitor, clicks, touched, page>>

NextPage ==
  /\ visitor = "cursors" /\ walk.pages > 0 /\ ~walk.done
  /\ LET answer == Lists!ListPlaces(walk.sort, walk.filter, walk.first, walk.cursor)
     IN  walk' = [walk EXCEPT !.pages = @ + 1, !.got = @ \o answer.rows,
                              !.cursor = answer.endCursor, !.done = ~answer.hasNextPage]
  /\ UNCHANGED <<world, changes, visitor, clicks, touched, page>>

-----------------------------------------------------------------------------
VisitorActs ==
  /\ visitor = "page" /\ clicks < MaxClicks /\ clicks' = clicks + 1
  /\ Browser!VisitorActs
  /\ UNCHANGED <<world, changes, visitor, walk, touched>>

Answered ==
  /\ visitor = "page" /\ Browser!Answers
  /\ UNCHANGED <<world, changes, visitor, clicks, walk, touched>>

RequestFails ==
  /\ visitor = "page" /\ Browser!RequestFails
  /\ UNCHANGED <<world, changes, visitor, clicks, walk, touched>>

NoWalk == [sort |-> "NEW", filter |-> Browser!NoFilter, first |-> 0, pages |-> 0,
           got |-> <<>>, cursor |-> NoCursor, done |-> FALSE]

Init ==
  /\ live \in {Places, Places \ {CHOOSE p \in Places : \A q \in Places : q <= p}}
  /\ rating = [p \in Places |-> IF p = 1 THEN 0 ELSE 1]
  /\ clock = CHOOSE t \in DOMAIN OpenAt : TRUE
  /\ changes = 0 /\ clicks = 0 /\ visitor \in Visitors
  /\ Trend!JobInit(IF visitor = "nobody" THEN 0..MaxRecent ELSE {0})
  /\ walk = NoWalk /\ touched = {}
  /\ Browser!PageInit

Next == WorldChanges \/ StartWalk \/ NextPage \/ VisitorActs \/ Answered \/ RequestFails

Spec == Init /\ [][Next]_vars

\* The timer fires, geolocation has a time limit, and HTTP requests end.
FairSpec == Spec /\ WF_vars(Answered)

-----------------------------------------------------------------------------
(* Properties. *)

TypeOK ==
  /\ live \subseteq Places /\ rating \in [Places -> 0..MaxRating]
  /\ clock \in DOMAIN OpenAt /\ changes \in 0..MaxChanges[visitor] /\ clicks \in 0..MaxClicks
  /\ touched \subseteq Places
  /\ Trend!JobType
  /\ Browser!Now \in Browser!AllVariables /\ asked \subseteq Browser!AllVariables

RefreshedScoresWereTrue == Trend!RefreshedScoresWereTrue

Count(p) == Cardinality({i \in DOMAIN walk.got : walk.got[i].id = p})

\* Whoever follows the cursors gets each place that keeps its position exactly
\* once, however the others move, come and go, and the rows come in order.
WalkSeesUntouchedOnce ==
  \A p \in Places \ touched :
    /\ Count(p) <= 1
    /\ walk.done => Count(p) = IF p \in Lists!Candidates(walk.sort, walk.filter) THEN 1 ELSE 0

\* No page reaches back before an earlier one, so a client never loops.
WalkGoesForward ==
  \A i, j \in DOMAIN walk.got : i < j => Lists!Precedes(walk.sort, walk.got[i], walk.got[j])

\* A cursor is a position and no snapshot: a walk over pages of a moving list
\* neither loses nor repeats what stayed, and never turns back.
WalkIsFaithful == TypeOK /\ WalkSeesUntouchedOnce /\ WalkGoesForward

\* The list starts with the first page of the search, and lists places of
\* another one only where a page that was asked for before the search changed
\* was appended late, or has stayed since.
ListKeepsToSearch ==
  /\ Browser!ListStartsWithFirstPage
  /\ Browser!Now.filter.query /\ ~late =>
       \A i \in DOMAIN places : places[i] \in Labelled

\* Once the visitor stops, the list settles on what the screen says is searched
\* for: it starts with the first page that was read for that search, in
\* whatever order timer, geolocation and answers came, unless the last request
\* for this page has failed.
ListCatchesUp == visitor = "page" => <>[]Browser!CaughtUp

\* A place is listed once while no place has changed.
NoPlaceTwice == changes = 0 /\ ~late => Browser!NoPlaceTwice

-----------------------------------------------------------------------------
(* Why they hold: what every step preserves (PagesProofs.tla).               *)

Rows == [id : Places, sortValue : Int]

WalkType ==
  /\ visitor \in Visitors /\ touched \subseteq Places
  /\ walk \in [sort : Lists!Sorts, filter : Lists!PlaceFilters, first : {0, PAGE_SIZE},
               pages : Nat, got : Seq(Rows), cursor : Rows \cup {NoCursor}, done : BOOLEAN]

\* Every place that keeps its position has been handed out as it still is, or
\* comes after the cursor, which is the last row handed out.
WalkCovers ==
  LET stays(p) == p \in Lists!Candidates(walk.sort, walk.filter) IN
  /\ walk.pages = 0 => walk.got = <<>> /\ touched = {} /\ ~walk.done
  /\ walk.pages > 0 /\ ~walk.done =>
       Len(walk.got) > 0 /\ walk.cursor = walk.got[Len(walk.got)]
  /\ walk.pages > 0 => \A p \in Places \ touched :
       /\ \A i \in DOMAIN walk.got : walk.got[i].id = p =>
            stays(p) /\ walk.got[i] = Lists!Row(walk.sort, p)
       /\ stays(p) => \/ \E i \in DOMAIN walk.got : walk.got[i].id = p
                      \/ /\ ~walk.done
                         /\ Lists!Precedes(walk.sort, walk.cursor, Lists!Row(walk.sort, p))

PageType ==
  /\ filters \in Lists!PlaceFilters /\ debouncedQuery \in BOOLEAN /\ sort \in SortsUsed
  /\ more # NoData => more.variables \in Browser!AllVariables \cap DOMAIN cache
  /\ DOMAIN cache \subseteq Browser!AllVariables
  /\ late \in BOOLEAN

\* The pages of a search that are kept list what the search is for.
ListsOfPlaces ==
  /\ \A v \in DOMAIN cache :
       /\ cache[v].rows \in Seq(Rows)
       /\ v.filter.query => \A i \in DOMAIN cache[v].rows : cache[v].rows[i].id \in Labelled
  /\ places \in Seq(Places)
  /\ Browser!Absent(Browser!Now) /\ ~late => places = <<>>

\* Between the two statements of a refresh.
CountsSeen ==
  job = "counted" =>
    \A p \in Places : recent[p] \in since[p] /\ (trending[p] \in since[p] \/ 0 \in since[p])

DiscoverInv ==
  /\ TypeOK /\ RefreshedScoresWereTrue /\ CountsSeen
  /\ WalkType /\ WalkCovers /\ WalkGoesForward
  /\ PageType /\ ListsOfPlaces /\ ListKeepsToSearch
=============================================================================
