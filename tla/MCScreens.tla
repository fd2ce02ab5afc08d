----------------------------- MODULE MCScreens -----------------------------
(* A small instance of Screens for TLC. *)
EXTENDS Screens

\* round(100000 * ln(n + 1) / ln(101)) / 1000 of 1, 2, 3 and 4 reviews, in hundredths.
VolumeScores == <<1502, 2380, 3004, 3487>>

\* The texts of the instance and no other.
Trimmed == [n \in Notes \cup {Blank} |-> IF n = " text" THEN "text" ELSE n]
=============================================================================
