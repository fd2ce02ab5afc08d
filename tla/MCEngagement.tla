---------------------------- MODULE MCEngagement ----------------------------
(* Small instances of Engagement for TLC. *)
EXTENDS Engagement, TLC

CONSTANTS own, ann

OwnsAll == [p \in Places |-> own]
OnePlace == [v \in Reviews |-> CHOOSE p \in Places : TRUE]
AnnWrote == [v \in Reviews |-> ann]
AnnSaved == [op |-> "toggle save", user |-> ann, place |-> CHOOSE p \in Places : TRUE]
\* The owner answers reviews and tries to read the reviewer's notifications;
\* the reviewer does everything else, and tries to edit an answer.
OwnerAndReviewer ==
  ({"reply", "edit reply", "delete reply", "mark read"} \X {own})
    \cup ({"edit reply", "toggle save", "set list", "badges", "mark read", "delete notice",
           "mark all"} \X {ann})
Symmetry == Permutations(Requests \ {Earlier})
=============================================================================
