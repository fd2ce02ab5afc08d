\* Three requests of any kind by the owner of a place and the reviewer who has
\* saved it.
CONSTANTS
  own = own  ann = ann
  Users = {own, ann}
  Places = {p1}
  Reviews = {v1}
  Requests = {r0, r1, r2, r3}
  Earlier = r0  EarlierCall <- AnnSaved
  OwnerOf <- OwnsAll
  PlaceOf <- OnePlace
  AuthorOf <- AnnWrote
  ListTypes = {"SAVED", "FAVORITE"}
  NoRow = NoRow
  NotRead = NotRead
  Catalog = {"FIRST_REVIEW", "ELITE_REVIEWER"}
  ManyReviews = 1  ManyVotes = 1  ManyPlaces = 1  EliteVotes = 1
  Asks <- OwnerAndReviewer
  MaxHelpful = 1
SYMMETRY Symmetry
SPECIFICATION Spec
INVARIANT RowsAreUnique
INVARIANT WritesHitWhatWasFound
INVARIANT NoticesTellTheTruth
PROPERTY OnlyOwnNotices
