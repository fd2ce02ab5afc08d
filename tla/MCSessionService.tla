------------------------- MODULE MCSessionService -------------------------
(* Small instances of SessionService for TLC. *)
EXTENDS SessionService, TLC

\* Symmetric: users and requests differ only in the calls they make.
Symmetry == Permutations(Requests) \cup Permutations(Users)
=============================================================================
