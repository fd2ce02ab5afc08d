-------------------------- MODULE SavedPlaceService --------------------------
(***************************************************************************)
(* Saved places: backend/src/services/savedPlaceService.ts.  As in         *)
(* ReviewReplyService every statement commits by itself.  A row bears the  *)
(* name of the toggle that inserted it and is deleted for good.            *)
(***************************************************************************)
EXTENDS Integers, FiniteSets

CONSTANTS Users, Places, Requests, ListTypes, NoRow

VARIABLES
  call, pc,
  saves,     \* rows of providers_saved_places
  listType,  \* list_type of each row
  found      \* the row a request has looked up

saveRows == <<saves, listType, found>>

-----------------------------------------------------------------------------
(* The mutations of savedPlaceResolver. *)
SaveCalls ==
  [op : {"toggle save"}, user : Users, place : Places]
    \cup [op : {"set list"}, user : Users, place : Places, list : ListTypes]

GoTo(r, stage) == pc' = [pc EXCEPT ![r] = stage]

SameKey(q, r) == call[q].user = call[r].user /\ call[q].place = call[r].place
RowsOf(r) == {q \in saves : SameKey(q, r)}

-----------------------------------------------------------------------------
FindSave(r) ==
  /\ call[r].op \in {"toggle save", "set list"} /\ pc[r] = "start"
  /\ \/ /\ RowsOf(r) = {}
        /\ found' = [found EXCEPT ![r] = NoRow]
        /\ GoTo(r, IF call[r].op = "set list" THEN "error" ELSE "write")
     \/ \E q \in RowsOf(r) :
          /\ found' = [found EXCEPT ![r] = q]
          /\ GoTo(r, "write")
  /\ UNCHANGED <<saves, listType>>

\* deleteMany by user and place, whichever row it was that was found.
Unsave(r) ==
  /\ call[r].op = "toggle save" /\ pc[r] = "write" /\ found[r] # NoRow
  /\ saves' = saves \ RowsOf(r)
  /\ GoTo(r, "unsaved")
  /\ UNCHANGED <<listType, found>>

\* UNIQUE(user_id, place_id).
KeyTaken(r) == RowsOf(r) # {}

Save(r) ==
  /\ call[r].op = "toggle save" /\ pc[r] = "write" /\ found[r] = NoRow
  /\ IF KeyTaken(r)
     THEN GoTo(r, "error") /\ UNCHANGED <<saves, listType>>
     ELSE /\ GoTo(r, "saved")
          /\ saves' = saves \cup {r}
          /\ listType' = [listType EXCEPT ![r] = "SAVED"]
  /\ UNCHANGED found

\* updateOne by the id of the row that was found.
ListedByKey(r) == RowsOf(r)                                  \* (mutant)
Listed(r) == saves \cap {found[r]}

SetList(r) ==
  /\ call[r].op = "set list" /\ pc[r] = "write"
  /\ listType' = [q \in Requests |-> IF q \in Listed(r) THEN call[r].list ELSE listType[q]]
  /\ GoTo(r, "read back")
  /\ UNCHANGED <<saves, found>>

\* The answer is read again by user and place: it may be another row, or none.
ReadBack(r) ==
  /\ call[r].op = "set list" /\ pc[r] = "read back"
  /\ GoTo(r, "done")
  /\ UNCHANGED saveRows

SaveStep(r) == FindSave(r) \/ Unsave(r) \/ Save(r) \/ SetList(r) \/ ReadBack(r)

SaveInit(earlier) ==
  /\ saves = {earlier}
  /\ listType = [r \in Requests |-> "SAVED"]
  /\ found = [r \in Requests |-> NoRow]

SaveType ==
  /\ saves \subseteq {r \in Requests : call[r].op = "toggle save"}
  /\ listType \in [Requests -> ListTypes]
  /\ found \in [Requests -> Requests \cup {NoRow}]

-----------------------------------------------------------------------------
(* Properties. *)

\* A double tap reads before either write and still never saves a place twice.
OneSavePerUser == \A q, r \in saves : SameKey(q, r) => q = r

\* A place that was un-saved and saved again starts on the plain list: a
\* request that found the former row does not move the new one.
ListsMoveOnlyWhatWasFound ==
  \A q \in saves : listType[q] # "SAVED" =>
    \E r \in Requests : call[r].op = "set list" /\ found[r] = q /\ call[r].list = listType[q]
=============================================================================
