----------------------------- MODULE ReviewBook -----------------------------
(***************************************************************************)
(* What the review service promises about the reviews themselves, with no  *)
(* transactions, locks or requests: a book with at most one review per     *)
(* place and author, never by the owner of the place, in which one review  *)
(* is posted, re-rated or withdrawn at a time, and a withdrawn review      *)
(* never comes back.  ReviewService.tla implements it (ImplementsBook).    *)
(***************************************************************************)
CONSTANTS Ids, Users, Places, Owner, Ratings

VARIABLES
  book,      \* the reviews that readers can see
  posted     \* the ids of the reviews ever posted

Entry == [id : Ids, place : Places, by : Users, rating : Ratings]

\* An author may post once they have no review of the place in the book.
Post(e) ==
  /\ e.by # Owner[e.place]
  /\ e.id \notin posted
  /\ \A f \in book : ~(f.place = e.place /\ f.by = e.by)
  /\ book' = book \cup {e}
  /\ posted' = posted \cup {e.id}

\* Re-rating leaves the review where it is, by the same author.
Rerate(e, rating) ==
  /\ e \in book
  /\ book' = (book \ {e}) \cup
       {[id |-> e.id, place |-> e.place, by |-> e.by, rating |-> rating]}
  /\ posted' = posted

Withdraw(e) ==
  /\ e \in book
  /\ book' = book \ {e}
  /\ posted' = posted

Init == book = {} /\ posted = {}

Next ==
  \E e \in Entry :
    \/ Post(e)
    \/ Withdraw(e)
    \/ \E rating \in Ratings : Rerate(e, rating)

Spec == Init /\ [][Next]_<<book, posted>>
=============================================================================
