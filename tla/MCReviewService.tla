-------------------------- MODULE MCReviewService --------------------------
(* Small instances of ReviewService for TLC. *)
EXTENDS ReviewService, TLC

CONSTANTS olga, ann, bob, cafe, bar, r1, r2, r3

\* One place, owned by olga; ann has it among her saved places.
OneOwner == [p \in Places |-> olga]
AnnSaves == [p \in Places |-> {ann}]

\* Symmetric: nothing tells two requests apart but the calls they make, which
\* are chosen from the same set.
RequestSymmetry == Permutations(Requests)
=============================================================================
