\* Three toggles by three users, one of them the reviewer, on one review.
CONSTANTS
  ann = ann
  Users = {ann, bob, eve}
  Reviews = {v1}
  Requests = {r1, r2, r3}
  Reviewer <- AnnWrote
SPECIFICATION FairSpec
INVARIANT OneVotePerUser
PROPERTY LoneToggleCountsExactly
PROPERTY OnlyRealVotesAreTold
PROPERTY EveryRequestEnds
