------------------------ MODULE MCReviewVoteService ------------------------
(* Small instances of ReviewVoteService for TLC. *)
EXTENDS ReviewVoteService

CONSTANTS ann

\* ann wrote every review.
AnnWrote == [v \in Reviews |-> ann]
=============================================================================
