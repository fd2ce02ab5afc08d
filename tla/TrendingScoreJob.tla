-------------------------- MODULE TrendingScoreJob --------------------------
(***************************************************************************)
(* The refresh of trending scores: jobs/trendingScoreJob.ts and            *)
(* PlaceRepository.refreshTrendingScores, two UPDATEs that commit by       *)
(* themselves while reviews come, go and grow old.                         *)
(***************************************************************************)
EXTENDS Integers

CONSTANTS Places, MaxRecent  \* bound on the reviews of a place in 24 hours

VARIABLES
  recent,    \* live reviews of the last 24 hours, per place
  trending,  \* trending_score
  job,       \* the statement the refresh has come to
  since      \* history: the counts there have been since the refresh began

-----------------------------------------------------------------------------
Recounted(p) == IF recent[p] > 0 THEN recent[p] ELSE trending[p]

\* At the start of the server, then every hour.
CountRecent ==
  /\ job # "counted"
  /\ trending' = [p \in Places |-> Recounted(p)]
  /\ since' = [p \in Places |-> {recent[p]}]
  /\ job' = "counted"
  /\ UNCHANGED recent

Forgotten(p) == FALSE                                        \* (mutant)
Unreviewed(p) == recent[p] = 0

ZeroTheRest ==
  /\ job = "counted"
  /\ trending' = [p \in Places |-> IF Unreviewed(p) THEN 0 ELSE trending[p]]
  /\ job' = "refreshed"
  /\ UNCHANGED <<recent, since>>

\* Logged, and tried again an hour later.
RefreshFails ==
  /\ job = "counted"
  /\ job' = "failed"
  /\ UNCHANGED <<recent, trending, since>>

RecentBecomes(p, n) ==
  /\ n # recent[p]
  /\ recent' = [recent EXCEPT ![p] = n]
  /\ since' = IF job = "counted" THEN [since EXCEPT ![p] = @ \cup {n}] ELSE since
  /\ UNCHANGED <<trending, job>>

JobStep == CountRecent \/ ZeroTheRest \/ RefreshFails

JobInit(past) ==
  /\ recent \in [Places -> past]
  /\ trending \in [Places -> past]
  /\ job = "idle"
  /\ since = [p \in Places |-> {}]

JobType ==
  /\ recent \in [Places -> 0..MaxRecent]
  /\ trending \in [Places -> 0..MaxRecent]
  /\ job \in {"idle", "counted", "refreshed", "failed"}
  /\ since \in [Places -> SUBSET (0..MaxRecent)]

-----------------------------------------------------------------------------
(* Properties. *)

\* A refreshed score is a count that was true at some moment of the refresh,
\* although its two statements see different reviews.  The one exception is a
\* place that had no recent review at the first statement and got one before
\* the second: both pass it by and it keeps its former score.
RefreshedScoresWereTrue ==
  job = "refreshed" =>
    \A p \in Places : trending[p] \in since[p] \/ (0 \in since[p] /\ since[p] # {0})
=============================================================================
