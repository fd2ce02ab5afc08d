---------------------------- MODULE DiscoverPage ----------------------------
(***************************************************************************)
(* The Discover page of one browser: frontend/src/routes/app/discover.     *)
(* Effects run with the render that a state change causes, so an action    *)
(* ends with the state they leave.  Apollo's cache keeps the first page of *)
(* each set of variables and the latest values of each place; an answer is *)
(* read from the server as it arrives.                                     *)
(***************************************************************************)
EXTENDS PlacePages

CONSTANTS NoData, PAGE_SIZE, SortsUsed, FiltersUsed

VARIABLES
  filters, debouncedQuery, sort,
  coords,           \* has geolocation answered?
  requesting,       \* how many requests for the location run: for the Nearby sort, for the map
  view, locationBlocked,
  cache,            \* first pages by variables
  entities,         \* values of the places in the cache
  asked,            \* variables whose first page is being fetched
  more,             \* the variables and the cursor of a running fetchMore
  places,           \* ids in the list
  late,             \* history: it has rows of former variables
  lost              \* history: the request for its first page has failed

-----------------------------------------------------------------------------
Purposes == {"sort", "map"}
NoFilter == [query |-> FALSE, minRating |-> 0, openNow |-> FALSE]

\* NEAREST falls back to HIGHEST_RATED until there are coordinates.
EffectiveSort(s, located) == IF s = "NEAREST" /\ ~located THEN "HIGHEST_RATED" ELSE s
Variables(fs, query, s, located) ==
  [sort |-> EffectiveSort(s, located), filter |-> [fs EXCEPT !.query = query]]
Now == Variables(filters, debouncedQuery, sort, coords)
AllVariables == [sort : SortsUsed, filter : PlaceFilters]

Ids(page) == [i \in DOMAIN page.rows |-> page.rows[i].id]
Shown(page) == IF page = NoData THEN <<>> ELSE Ids(page)
Absent(v) == v \notin DOMAIN cache
Cached(v) == IF Absent(v) THEN NoData ELSE cache[v]
Data == Cached(Now)

AsksWhenIdle(v) == IF Absent(v) /\ asked = {} THEN {v} ELSE asked   \* (mutant)
Asks(v) == IF Absent(v) THEN asked \cup {v} ELSE asked

\* A render with other variables takes their page from the cache or asks for
\* it.  The effect that starts the list over depends on `data` alone: when there
\* was no page before and there is none yet, it does not run, and rows that a
\* former search has left stay on display.
Render ==
  IF Now' = Now
  THEN UNCHANGED <<asked, places, late, lost>>
  ELSE /\ asked' = Asks(Now')
       /\ lost' = FALSE
       /\ IF Absent(Now) /\ Absent(Now')
          THEN UNCHANGED <<places, late>>
          ELSE places' = Shown(Cached(Now')) /\ late' = FALSE

Chosen == UNCHANGED <<cache, entities, more>> /\ Render
HasNextPage == Data # NoData /\ Data.hasNextPage

-----------------------------------------------------------------------------
(* The visitor. *)

ChangeFilters ==
  /\ \E fs \in FiltersUsed \ {filters} :
       /\ view = "map" => fs = [filters EXCEPT !.query = ~@]
       /\ filters' = fs
  /\ UNCHANGED <<debouncedQuery, sort, coords, requesting, view, locationBlocked>>
  /\ Chosen

TimerRuns == debouncedQuery # filters.query

Debounce ==
  /\ TimerRuns
  /\ debouncedQuery' = filters.query
  /\ UNCHANGED <<filters, sort, coords, requesting, view, locationBlocked>>
  /\ Chosen

\* The button of the sort in force asks for the location again.
ChangeSort ==
  /\ view = "list"
  /\ \E s \in SortsUsed :
       /\ sort' = s
       /\ requesting' = IF s = "NEAREST" /\ ~coords THEN [requesting EXCEPT !.sort = @ + 1]
                        ELSE requesting
  /\ UNCHANGED <<filters, debouncedQuery, coords, view, locationBlocked>>
  /\ Chosen

\* "See in map", which is never disabled, and "Turn On Location" of
\* LocationBlockedModal.
ShowMap ==
  /\ view = "list"
  /\ requesting' = [requesting EXCEPT !.map = @ + 1]
  /\ UNCHANGED <<filters, debouncedQuery, sort, coords, view, locationBlocked>>
  /\ Chosen

CloseModal ==
  /\ view = "list" /\ locationBlocked
  /\ locationBlocked' = FALSE
  /\ UNCHANGED <<filters, debouncedQuery, sort, coords, requesting, view>>
  /\ Chosen

BackToList ==
  /\ view = "map"
  /\ view' = "list"
  /\ UNCHANGED <<filters, debouncedQuery, sort, coords, requesting, locationBlocked>>
  /\ Chosen

\* "Load more" is shown while the first page has a next one and disabled while
\* a page is loading.
LoadMore ==
  /\ view = "list" /\ HasNextPage /\ more = NoData
  /\ more' = [variables |-> Now, after |-> Data.endCursor]
  /\ UNCHANGED <<filters, debouncedQuery, sort, coords, requesting, view, locationBlocked,
                 cache, entities, asked, places, late, lost>>

-----------------------------------------------------------------------------
(* The answers. *)

GeoAnswers ==
  /\ \E purpose \in Purposes, allowed \in BOOLEAN :
       /\ requesting[purpose] > 0
       /\ requesting' = [requesting EXCEPT ![purpose] = @ - 1]
       /\ coords' = (coords \/ allowed)
       /\ view' = IF purpose = "map" /\ allowed THEN "map" ELSE view
       /\ locationBlocked' = (locationBlocked \/ (purpose = "map" /\ ~allowed))
  /\ UNCHANGED <<filters, debouncedQuery, sort>>
  /\ Chosen

PageIds(page) == {page.rows[i].id : i \in DOMAIN page.rows}
Values(p) == <<rating[p], trending[p]>>
Merged(page) == [p \in Places |-> IF p \in PageIds(page) THEN Values(p) ELSE entities[p]]

\* `data` is a new object, and the list starts over, when the page or a value
\* of one of its places has changed.
DataChanges ==
  \/ Data' # Data
  \/ Data # NoData /\ \E p \in PageIds(Data) : entities'[p] # entities[p]

KeepList(list) == list                                       \* (mutant)
ListFrom(list) == IF DataChanges THEN Shown(Data') ELSE list

FirstPageArrives(v) ==
  /\ v \in asked
  /\ UNCHANGED <<filters, debouncedQuery, sort, coords, requesting, view, locationBlocked, more,
                 lost>>
  /\ asked' = asked \ {v}
  /\ LET page == ListPlaces(v.sort, v.filter, PAGE_SIZE, NoCursor)
     IN  /\ cache' = [w \in DOMAIN cache \cup {v} |-> IF w = v THEN page ELSE cache[w]]
         /\ entities' = Merged(page)
  /\ places' = ListFrom(places)
  /\ late' = (late /\ ~DataChanges)

\* Without a merge policy the page goes to a cache entry of its own: `data`
\* and its endCursor stay those of the first page.
MoreArrives ==
  /\ more # NoData
  /\ UNCHANGED <<filters, debouncedQuery, sort, coords, requesting, view, locationBlocked,
                 cache, asked, lost>>
  /\ more' = NoData
  /\ LET v == more.variables
         page == ListPlaces(v.sort, v.filter, PAGE_SIZE, more.after)
     IN  /\ entities' = Merged(page)
         /\ places' = ListFrom(places) \o Ids(page)
         /\ late' = (v # Now \/ (late /\ ~DataChanges))

\* Failed, or answered when Apollo has dropped the query.
RequestFails ==
  /\ \/ /\ \E v \in asked : asked' = asked \ {v} /\ lost' = (lost \/ v = Now)
        /\ UNCHANGED more
     \/ more # NoData /\ more' = NoData /\ UNCHANGED <<asked, lost>>
  /\ UNCHANGED <<filters, debouncedQuery, sort, coords, requesting, view, locationBlocked,
                 cache, entities, places, late>>

VisitorActs ==
  ChangeFilters \/ ChangeSort \/ ShowMap \/ CloseModal \/ BackToList \/ LoadMore
Answers ==
  Debounce \/ GeoAnswers \/ MoreArrives \/ \E v \in asked : FirstPageArrives(v)

PageInit ==
  /\ filters = NoFilter /\ debouncedQuery = FALSE /\ sort = "HIGHEST_RATED"
  /\ coords = FALSE /\ requesting = [p \in Purposes |-> 0] /\ view = "list" /\ locationBlocked = FALSE
  /\ cache = <<>>
  /\ entities = [p \in Places |-> NoData]
  /\ asked = {[sort |-> "HIGHEST_RATED", filter |-> NoFilter]}
  /\ more = NoData /\ places = <<>> /\ late = FALSE /\ lost = FALSE

-----------------------------------------------------------------------------
(* Properties. *)

\* Whatever order the answers come in, the list starts with the first page of
\* the filters in force and shows nothing ahead of it.
ListStartsWithFirstPage ==
  LET first == Shown(Data) IN
    Len(places) >= Len(first) /\ SubSeq(places, 1, Len(first)) = first

\* What is on the screen: the search box, the filters, the sort, the location.
Searched == Variables(filters, filters.query, sort, coords)

\* The page is about that search, and its list starts with what was read for
\* it, unless the request for it has failed.
CaughtUp ==
  Now = Searched /\ (lost \/ (~Absent(Searched) /\ ListStartsWithFirstPage))

\* "Load more" appends the page after the last one: no place is listed twice
\* while nothing changes on the server.
NoPlaceTwice ==
  \A i, j \in DOMAIN places : places[i] = places[j] => i = j
=============================================================================
