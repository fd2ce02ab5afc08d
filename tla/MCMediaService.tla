-------------------------- MODULE MCMediaService --------------------------
(* Small instances of MediaService for TLC. *)
EXTENDS MediaService, TLC

CONSTANTS ann, bob, cafe, rev, r1, r2, r3

\* ann keeps every place and every review.
AnnKeeps == [o \in Places \cup Reviews |-> ann]

\* Symmetric: requests differ only in the calls they make.
RequestSymmetry == Permutations(Requests)
=============================================================================
