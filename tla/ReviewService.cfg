\* Three concurrent requests by the owner and two visitors of one place.
CONSTANTS
  olga = olga
  ann = ann
  bob = bob
  cafe = cafe
  bar = bar
  r1 = r1
  r2 = r2
  r3 = r3
  Users = {olga, ann, bob}
  Places = {cafe}
  Requests = {r1, r2, r3}
  Ratings = {2, 5}
  Owner <- OneOwner
  Savers <- AnnSaves
SYMMETRY RequestSymmetry
SPECIFICATION Spec
INVARIANT OneLiveReview
INVARIANT NotificationsFit
PROPERTY SoloWriterLeavesStatsExact
PROPERTY ImplementsBook
