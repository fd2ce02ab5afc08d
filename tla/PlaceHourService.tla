-------------------------- MODULE PlaceHourService --------------------------
(***************************************************************************)
(* Opening hours are replaced a week at a time: backend/src/services/      *)
(* placeHourService.ts and placeHourRepository.ts.  A row bears the name   *)
(* of the request that saved it.  DELETE looks for rows as its statement   *)
(* starts, then waits for those that another transaction is deleting.      *)
(***************************************************************************)
EXTENDS Integers, FiniteSets

CONSTANTS Days, Requests

VARIABLES
  call, pc, users, places,
  open,     \* places that are not soft-deleted
  hours,    \* committed rows of providers_place_hours
  matched,  \* rows that the DELETE of a request has found
  deleted,  \* rows it has deleted, uncommitted
  met,      \* history: has another save of the place overlapped it?
  FreeConnection

hourRows == <<hours, matched, deleted, met>>

-----------------------------------------------------------------------------
Hour == [place : Requests, day : Days, by : Requests]

(* setPlaceHours of placeResolver, by a business user. *)
HourCalls ==
  [op : {"hours"}, user : {u \in users : call[u].op = "onboard" \/ call[u].type = "BUSINESS"},
   place : places, days : SUBSET Days, twice : BOOLEAN]

GoTo(r, stage) == pc' = [pc EXCEPT ![r] = stage]
At(r, stage) == call[r].op = "hours" /\ pc[r] = stage

TransactionStages == {"match hours", "delete hours", "insert hours", "commit hours"}
Saving == {"begin hours"} \cup TransactionStages
Week(q) == {[place |-> call[q].place, day |-> d, by |-> q] : d \in call[q].days}
HoursOf(p) == {h \in hours : h.place = p}

-----------------------------------------------------------------------------
FindPlace(r) ==
  /\ At(r, "start") /\ FreeConnection
  /\ GoTo(r, IF call[r].place \in open /\ call[r].place = call[r].user
             THEN "begin hours" ELSE "error")
  /\ UNCHANGED hourRows

BeginHours(r) ==
  /\ At(r, "begin hours") /\ FreeConnection
  /\ GoTo(r, "match hours")
  /\ LET others == {q \in Requests \ {r} :
                      pc[q] \in TransactionStages /\ call[q].place = call[r].place}
     IN  met' = [q \in Requests |-> IF q = r THEN others # {} ELSE met[q] \/ q \in others]
  /\ UNCHANGED <<hours, matched, deleted>>

DaysBeingSaved(r) == {h \in HoursOf(call[r].place) : h.day \in call[r].days}  \* (mutant)
Replaced(r) == HoursOf(call[r].place)

MatchHours(r) ==
  /\ At(r, "match hours")
  /\ matched' = [matched EXCEPT ![r] = Replaced(r)]
  /\ GoTo(r, "delete hours")
  /\ UNCHANGED <<hours, deleted, met>>

\* Rows that a transaction has deleted meanwhile are skipped.
StillThere(r) == matched[r] \cap hours

DeleteHours(r) ==
  /\ At(r, "delete hours")
  /\ \A q \in Requests \ {r} : deleted[q] \cap matched[r] = {}
  /\ deleted' = [deleted EXCEPT ![r] = StillThere(r)]
  /\ GoTo(r, IF call[r].days = {} THEN "commit hours" ELSE "insert hours")
  /\ UNCHANGED <<hours, matched, met>>

\* UNIQUE(place_id, day_of_week): bulkCreate waits for equal keys that are
\* being deleted or inserted, and fails where one is taken.
SameKey(h, k) == h.place = k.place /\ h.day = k.day
Pending(q) == deleted[q] \cup (IF At(q, "commit hours") THEN Week(q) ELSE {})
NoUniqueIndex(r) == FALSE                                    \* (mutant)
KeyPending(r) ==
  \E q \in Requests \ {r} : \E h \in Pending(q), k \in Week(r) : SameKey(h, k)
KeyTaken(r) ==
  call[r].twice \/ \E h \in hours \ deleted[r], k \in Week(r) : SameKey(h, k)

InsertHours(r) ==
  /\ At(r, "insert hours") /\ ~KeyPending(r)
  /\ IF KeyTaken(r)
     THEN GoTo(r, "error") /\ deleted' = [deleted EXCEPT ![r] = {}]
     ELSE GoTo(r, "commit hours") /\ UNCHANGED deleted
  /\ UNCHANGED <<hours, matched, met>>

CommitHours(r) ==
  /\ At(r, "commit hours")
  /\ hours' = (hours \ deleted[r]) \cup Week(r)
  /\ deleted' = [deleted EXCEPT ![r] = {}]
  /\ \E stage \in {"read hours", "error"} : GoTo(r, stage)
  /\ UNCHANGED <<matched, met>>

\* The week is read again for the answer.
ReadHours(r) ==
  /\ At(r, "read hours") /\ FreeConnection
  /\ GoTo(r, "ok")
  /\ UNCHANGED hourRows

HourStep(r) ==
  \/ FindPlace(r) \/ BeginHours(r) \/ MatchHours(r) \/ DeleteHours(r) \/ InsertHours(r)
  \/ CommitHours(r) \/ ReadHours(r)

\* The place that is there before has saved a week already.
HourInit ==
  /\ hours = {[place |-> p, day |-> d, by |-> p] : p \in places, d \in Days}
  /\ matched = [r \in Requests |-> {}]
  /\ deleted = [r \in Requests |-> {}]
  /\ met = [r \in Requests |-> FALSE]

HourType ==
  /\ hours \subseteq Hour
  /\ matched \in [Requests -> SUBSET Hour]
  /\ deleted \in [Requests -> SUBSET hours]
  /\ met \in [Requests -> BOOLEAN]

-----------------------------------------------------------------------------
(* Properties. *)

OneEntryPerDay == \A h, k \in hours : SameKey(h, k) => h = k

\* However saves of a week overlap, a week that is in force is so with all its
\* days: saves are published and replaced as a whole.
SavedWeeksStayWhole ==
  \A q \in Requests : call[q].op = "hours" =>
    {h \in hours : h.by = q} \in {{}, Week(q)}

\* Two weeks are in force at once only where both saves missed the other's
\* rows: a save that met no other leaves its own week and nothing else.
LoneSaveDecidesWeek ==
  [][\A r \in Requests :
       pc[r] = "commit hours" /\ hours' # hours /\ deleted[r] # deleted'[r] /\ ~met[r]
         => HoursOf(call[r].place)' = Week(r)]_<<hours, pc>>
=============================================================================
