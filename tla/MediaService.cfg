\* Three concurrent requests by ann, who keeps a place and a review, and bob.
CONSTANTS
  ann = ann
  bob = bob
  cafe = cafe
  rev = rev
  r1 = r1
  r2 = r2
  r3 = r3
  Users = {ann, bob}
  Places = {cafe}
  Reviews = {rev}
  Requests = {r1, r2, r3}
  Keeper <- AnnKeeps
  MAX_PLACE_PHOTOS = 1
  MAX_REVIEW_PHOTOS = 2
SYMMETRY RequestSymmetry
SPECIFICATION Spec
INVARIANT PictureIsLive
PROPERTY LoneAttachOwnsSlot
PROPERTY LoneWriterCountsExactly
PROPERTY LonePhotoKeepsCap
