----------------------------- MODULE PlacePages -----------------------------
(***************************************************************************)
(* The pages of places: PlaceService.listPlaces, PlaceRepository and the   *)
(* parts of packages/cursors they use.  The sort columns are numbers, the  *)
(* filters those of FilterPanel that behave differently: a fixed property  *)
(* of the place (query, category, price), a rating and the opening hours.  *)
(***************************************************************************)
EXTENDS Integers, FiniteSets, SequencesExt

CONSTANTS
  Places,        \* ids, in the order of creation
  Labelled,      \* places whose label, category and price match the search
  DistanceOf,    \* from the visitor, or Unlocated
  Unlocated,     \* no coordinates, or outside of the bounding box
  OpenAt,        \* places open at each time of the clock
  MinLimit, MaxLimit,
  NoCursor

VARIABLES live, rating, trending, clock

-----------------------------------------------------------------------------
(* providers_places; DECIMAL columns are scaled to integers. *)
Sorts == {"NEW", "HIGHEST_RATED", "TRENDING", "NEAREST"}
SortColumn(sort) ==
  [NEW |-> [p \in Places |-> p], HIGHEST_RATED |-> rating,
   TRENDING |-> trending, NEAREST |-> DistanceOf][sort]

SortOf(sort) == IF sort = "NEAREST" THEN "ASC" ELSE "DESC"

PlaceFilters == [query : BOOLEAN, minRating : {0, 1}, openNow : BOOLEAN]

OpenNowExists(p) == p \in OpenAt[clock]

Matches(filter, p) ==
  /\ filter.query => p \in Labelled
  /\ rating[p] >= filter.minRating
  /\ filter.openNow => OpenNowExists(p)

Candidates(sort, filter) ==
  {p \in live : Matches(filter, p) /\ (sort = "NEAREST" => DistanceOf[p] # Unlocated)}

-----------------------------------------------------------------------------
(* Keyset pagination: the sort value, then the id, in the same direction.  A *)
(* cursor is the row it was taken from.                                      *)
Row(sort, p) == [id |-> p, sortValue |-> SortColumn(sort)[p]]

Smaller(a, b) == a.sortValue < b.sortValue \/ (a.sortValue = b.sortValue /\ a.id < b.id)
Precedes(sort, a, b) == IF SortOf(sort) = "ASC" THEN Smaller(a, b) ELSE Smaller(b, a)

StrictlyBeyond(sort, cursor, row) ==                         \* (mutant)
  IF SortOf(sort) = "ASC" THEN row.sortValue > cursor.sortValue
                          ELSE row.sortValue < cursor.sortValue
Beyond(sort, cursor, row) == Precedes(sort, cursor, row)

Limit(first) == LET n == IF first = 0 THEN MinLimit ELSE first
                IN  IF n < MaxLimit THEN n ELSE MaxLimit

\* One row more than the page is asked for.
Fetched(sort, filter, cursor, limit) ==
  LET rows == {r \in {Row(sort, p) : p \in Candidates(sort, filter)} :
                 cursor = NoCursor \/ Beyond(sort, cursor, r)}
      n == Cardinality(rows)
  IN  [i \in 1..(IF n < limit + 1 THEN n ELSE limit + 1) |->
         CHOOSE r \in rows : Cardinality({q \in rows : Precedes(sort, q, r)}) = i - 1]

Cut(rows, limit) == SubSeq(rows, 1, IF Len(rows) < limit THEN Len(rows) ELSE limit)

\* NavigationCursors of a page; an empty one has none.
Page(rows, limit) ==
  [rows |-> Cut(rows, limit),
   hasNextPage |-> Len(rows) > limit,
   endCursor |-> IF rows = <<>> THEN NoCursor ELSE Last(Cut(rows, limit))]

ListPlaces(sort, filter, first, after) ==
  Page(Fetched(sort, filter, after, Limit(first)), Limit(first))
=============================================================================
