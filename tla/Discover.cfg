\* Three places on pages of one, one of them not yet created or not located.
CONSTANTS
  Places = {1, 2, 3}
  Labelled = {1, 2}
  DistanceOf <- Distances
  Unlocated = Unlocated
  OpenAt <- NightAndDay
  MinLimit = 2  MaxLimit = 2
  NoCursor = NoCursor  NoData = NoData
  PAGE_SIZE = 1
  Visitors = {"nobody", "cursors", "page"}
  FiltersUsed <- SearchOnly
  SortsUsed = {"HIGHEST_RATED", "NEAREST"}
  MaxRating = 1  MaxRecent = 2
  MaxChanges <- MoreForCursors  MaxClicks = 3
SPECIFICATION FairSpec
INVARIANT RefreshedScoresWereTrue
INVARIANT WalkIsFaithful
INVARIANT ListKeepsToSearch
PROPERTY ListCatchesUp
CHECK_DEADLOCK FALSE
