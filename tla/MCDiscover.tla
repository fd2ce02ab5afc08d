----------------------------- MODULE MCDiscover -----------------------------
(* Small instances of Discover for TLC. *)
EXTENDS Discover, TLC

Distances == [p \in Places |-> IF p = 3 THEN Unlocated ELSE 2]
NightAndDay == [t \in {0, 1} |-> IF t = 0 THEN {1, 2} ELSE {2, 3}]
MoreForCursors == [nobody |-> 4, cursors |-> 3, page |-> 1]
NothingChanges == [v \in Visitors |-> 0]
Plain == [query |-> FALSE, minRating |-> 0, openNow |-> FALSE]
SearchOnly == {Plain, [Plain EXCEPT !.query = TRUE]}
=============================================================================
