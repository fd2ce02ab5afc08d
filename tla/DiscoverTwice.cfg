\* The page alone: Load more, twice.
CONSTANTS
  Places = {1, 2, 3}
  Labelled = {1, 2}
  DistanceOf <- Distances
  Unlocated = Unlocated
  OpenAt <- NightAndDay
  MinLimit = 2  MaxLimit = 2
  NoCursor = NoCursor  NoData = NoData
  PAGE_SIZE = 1
  Visitors = {"page"}
  FiltersUsed <- SearchOnly
  SortsUsed = {"HIGHEST_RATED", "NEAREST"}
  MaxRating = 1  MaxRecent = 2
  MaxChanges <- NothingChanges  MaxClicks = 3
SPECIFICATION Spec
INVARIANT NoPlaceTwice
CHECK_DEADLOCK FALSE
