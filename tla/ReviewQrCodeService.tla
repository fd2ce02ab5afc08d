------------------------ MODULE ReviewQrCodeService ------------------------
(***************************************************************************)
(* The QR code of a place and the deletion of the place:                   *)
(* backend/src/services/reviewQrCodeService.ts, and PlaceService.delete of *)
(* placeService.ts, against PostgreSQL at READ COMMITTED (see              *)
(* ReviewService for how statements, transactions and locks are modelled). *)
(*                                                                         *)
(* A code bears the name of the request that created it.  The reads of     *)
(* findActiveByPlaceId are never part of the transaction around them, so   *)
(* they see committed rows only and take a connection of their own from    *)
(* the server's pool.  regenerate runs in a script, with its own pool.     *)
(***************************************************************************)
EXTENDS Integers, FiniteSets

CONSTANTS Places, Requests, MAX_POOL

ASSUME PoolType == MAX_POOL \in Nat \ {0}

VARIABLES
  call,    \* the operation and the place of each request, fixed from the start
  pc,      \* the statement a request is about to run
  seen,    \* the active code it has found
  codes,   \* committed rows of providers_review_qr_codes
  active,  \* those with is_active
  open,    \* places that are not soft-deleted
  made,    \* uncommitted inserts of each request
  off,     \* uncommitted deactivations
  closes,  \* uncommitted soft-deletes of a place
  met      \* history: has another request on the place overlapped it?

database == <<codes, active, open, made, off, closes>>
vars == <<call, pc, seen, database, met>>

-----------------------------------------------------------------------------
Call == [op : {"get", "regenerate", "delete"}, place : Places]
Ended == {"ok", "error"}
Running == {"make", "look", "begin", "close", "find", "off", "insert", "commit"}
Stages == {"new"} \cup Running \cup Ended

PlaceOf(r) == call[r].place
ActiveFor(p) == {c \in active : PlaceOf(c) = p}

GoTo(r, stage) == pc' = [pc EXCEPT ![r] = stage]

\* Connections of the server that transactions hold, and whether one is left
\* for a statement.
InTransaction == {q \in Requests : call[q].op = "delete"
                                   /\ pc[q] \in {"close", "find", "off", "commit"}}
FreeConnection == Cardinality(InTransaction) < MAX_POOL
Connects(r) == call[r].op # "regenerate" => FreeConnection

-----------------------------------------------------------------------------
\* getByOwnerId or getPlaceById, and the check that there is a place.
Start(r) ==
  /\ pc[r] = "new" /\ Connects(r)
  /\ GoTo(r, IF PlaceOf(r) \notin open THEN "error"
             ELSE CASE call[r].op = "get" -> "look"
                    [] call[r].op = "regenerate" -> "find"
                    [] call[r].op = "delete" -> "begin")
  /\ LET others == {q \in Requests \ {r} : pc[q] \in Running /\ PlaceOf(q) = PlaceOf(r)}
     IN  met' = [q \in Requests |-> IF q = r THEN others # {} ELSE met[q] \/ q \in others]
  /\ UNCHANGED <<call, seen, database>>

Look(r) ==
  /\ pc[r] = "look" /\ Connects(r)
  /\ GoTo(r, IF ActiveFor(PlaceOf(r)) # {} THEN "ok" ELSE "make")
  /\ seen' = [seen EXCEPT ![r] = ActiveFor(PlaceOf(r))]
  /\ UNCHANGED <<call, database, met>>

\* The unique index on (place_id) WHERE is_active: an insert waits while the
\* active code of the place is being inserted or deactivated, and fails where
\* there is one.
NoUniqueIndex(r) == FALSE                                    \* (mutant)
KeyPending(r) ==
  \E q \in Requests \ {r} : \E c \in made[q] \cup (off[q] \cap active) : PlaceOf(c) = PlaceOf(r)
KeyTaken(r) == ActiveFor(PlaceOf(r)) \ off[r] # {}

Make(r) ==
  /\ pc[r] = "make" /\ Connects(r) /\ ~KeyPending(r)
  /\ IF KeyTaken(r)
     THEN GoTo(r, "error") /\ UNCHANGED <<codes, active>>
     ELSE /\ codes' = codes \cup {r} /\ active' = active \cup {r}
          /\ \E answer \in Ended : GoTo(r, answer)
  /\ UNCHANGED <<call, seen, open, made, off, closes, met>>

Begin(r) ==
  /\ pc[r] = "begin" /\ Connects(r)
  /\ GoTo(r, "close")
  /\ UNCHANGED <<call, seen, database, met>>

\* The soft delete of the place waits for its row lock.
RowLocked(r) == \E q \in Requests \ {r} : PlaceOf(r) \in closes[q]

Close(r) ==
  /\ pc[r] = "close" /\ ~RowLocked(r)
  /\ closes' = [closes EXCEPT ![r] = {PlaceOf(r)} \cap open]
  /\ GoTo(r, "find")
  /\ UNCHANGED <<call, seen, codes, active, open, made, off, met>>

Find(r) ==
  /\ pc[r] = "find" /\ Connects(r)
  /\ seen' = [seen EXCEPT ![r] = ActiveFor(PlaceOf(r))]
  /\ GoTo(r, IF ActiveFor(PlaceOf(r)) # {} THEN "off"
             ELSE IF call[r].op = "regenerate" THEN "insert" ELSE "commit")
  /\ UNCHANGED <<call, database, met>>

OffNothing(r) == {}                                          \* (mutant)
Off(r) == seen[r]

\* By id: a code that was deactivated meanwhile is deactivated again.
Deactivate(r) ==
  /\ pc[r] = "off"
  /\ \A q \in Requests \ {r} : off[q] \cap seen[r] = {}
  /\ off' = [off EXCEPT ![r] = Off(r)]
  /\ GoTo(r, IF call[r].op = "regenerate" THEN "insert" ELSE "commit")
  /\ UNCHANGED <<call, seen, codes, active, open, made, closes, met>>

Insert(r) ==
  /\ pc[r] = "insert" /\ ~KeyPending(r)
  /\ IF KeyTaken(r)
     THEN GoTo(r, "error") /\ off' = [off EXCEPT ![r] = {}] /\ UNCHANGED made
     ELSE GoTo(r, "commit") /\ made' = [made EXCEPT ![r] = {r}] /\ UNCHANGED off
  /\ UNCHANGED <<call, seen, codes, active, open, closes, met>>

Commit(r) ==
  /\ pc[r] = "commit"
  /\ codes' = codes \cup made[r]
  /\ active' = (active \ off[r]) \cup made[r]
  /\ open' = open \ closes[r]
  /\ made' = [made EXCEPT ![r] = {}]
  /\ off' = [off EXCEPT ![r] = {}]
  /\ closes' = [closes EXCEPT ![r] = {}]
  /\ GoTo(r, "ok")
  /\ UNCHANGED <<call, seen, met>>

\* A rollback, whatever the reason.
Abort(r) ==
  /\ GoTo(r, "error")
  /\ made' = [made EXCEPT ![r] = {}]
  /\ off' = [off EXCEPT ![r] = {}]
  /\ closes' = [closes EXCEPT ![r] = {}]
  /\ UNCHANGED <<call, seen, codes, active, open, met>>

Fail(r) == pc[r] \in Running /\ Abort(r)

\* A statement has waited 30 seconds for a connection: the pool gives up.
WaitForever(r) == FALSE                                      \* (mutant)
AcquireTimeout(r) ==
  /\ pc[r] \in {"look", "make", "begin", "find"} /\ ~Connects(r)
  /\ Abort(r)

Init ==
  /\ call \in [Requests -> Call]
  /\ pc = [r \in Requests |-> "new"]
  /\ seen = [r \in Requests |-> {}]
  /\ codes = {} /\ active = {} /\ open = Places
  /\ made = [r \in Requests |-> {}]
  /\ off = [r \in Requests |-> {}]
  /\ closes = [r \in Requests |-> {}]
  /\ met = [r \in Requests |-> FALSE]

Progress(r) ==
  \/ Look(r) \/ Make(r) \/ Begin(r) \/ Close(r) \/ Find(r) \/ Deactivate(r)
  \/ Insert(r) \/ Commit(r) \/ AcquireTimeout(r)

AllAnswered == (\A r \in Requests : pc[r] \in Ended) /\ UNCHANGED vars

Next == (\E r \in Requests : Start(r) \/ Progress(r) \/ Fail(r)) \/ AllAnswered

Spec == Init /\ [][Next]_vars

\* A statement that can proceed does, and the timer of the pool fires.
FairSpec == Spec /\ \A r \in Requests : WF_vars(Progress(r))

-----------------------------------------------------------------------------
(* Properties. *)

TypeOK ==
  /\ call \in [Requests -> Call]
  /\ pc \in [Requests -> Stages]
  /\ seen \in [Requests -> SUBSET codes]
  /\ codes \subseteq Requests /\ active \subseteq codes
  /\ open \subseteq Places
  /\ made \in [Requests -> SUBSET Requests]
  /\ off \in [Requests -> SUBSET codes]
  /\ closes \in [Requests -> SUBSET open]
  /\ met \in [Requests -> BOOLEAN]

(* What the statements and locks keep to, of which the rest follows. *)

\* A request writes rows of its own place only, in the stages of its operation.
OwnPlaceOnly ==
  \A r \in Requests :
    /\ pc[r] \in {"begin", "close"} => call[r].op = "delete"
    /\ pc[r] = "insert" => call[r].op = "regenerate"
    /\ pc[r] \in {"find", "off", "commit"} => call[r].op # "get"
    /\ made[r] = IF pc[r] = "commit" /\ call[r].op = "regenerate" THEN {r} ELSE {}
    /\ off[r] \subseteq seen[r]
    /\ \A c \in seen[r] : PlaceOf(c) = PlaceOf(r)
    /\ off[r] # {} => pc[r] \in {"insert", "commit"}
    /\ closes[r] \subseteq {PlaceOf(r)}
    /\ closes[r] # {} => call[r].op = "delete" /\ pc[r] \in {"find", "off", "commit"}

\* Pending rows exclude each other, and a pending code every active one that its
\* transaction leaves on.
KeysApart ==
  /\ \A q, r \in Requests : q # r =>
       /\ off[q] \cap off[r] = {} /\ closes[q] \cap closes[r] = {}
       /\ made[q] # {} /\ made[r] # {} => PlaceOf(q) # PlaceOf(r)
  /\ \A r \in Requests : \A c \in active :
       made[r] # {} /\ PlaceOf(c) = PlaceOf(r) => c \in off[r]

\* A deletion that nobody disturbs finds the code that is active until the end.
LoneDeletes ==
  /\ \A q, r \in Requests :
       q # r /\ pc[q] \in Running /\ pc[r] \in Running /\ PlaceOf(q) = PlaceOf(r) => met[r]
  /\ \A r \in Requests : \A c \in active :
       call[r].op = "delete" /\ ~met[r] /\ PlaceOf(c) = PlaceOf(r) =>
         /\ pc[r] = "off" => c \in seen[r]
         /\ pc[r] = "commit" => c \in off[r]

CodeDiscipline == OwnPlaceOnly /\ KeysApart /\ LoneDeletes

\* Whatever first visits, regenerations and deletions overlap, a place never
\* has two active codes.
OneActiveCode == \A c, d \in active : PlaceOf(c) = PlaceOf(d) => c = d

\* A deletion that no other request on the place overlapped leaves it without
\* an active code, and a regeneration leaves it with the new one only.
LoneChangeDecidesCode ==
  [][\A r \in Requests : Commit(r) /\ ~met[r] =>
       ActiveFor(PlaceOf(r))' = IF call[r].op = "delete" THEN {} ELSE {r}]_vars

\* Deletions that hold every connection and wait for one more do not wait for
\* ever: every request that has been sent is answered.
EveryRequestEnds ==
  \A r \in Requests : pc[r] \in Running ~> pc[r] \in Ended

\* The claim "deleting a place cascades to deactivate its QR, in the same
\* transaction as the delete itself" (placeService.ts:133): no code of a
\* deleted place is active when nobody is working on it.
NoCodeOfDeletedPlace ==
  \A c \in active : PlaceOf(c) \in open
                    \/ \E r \in Requests : pc[r] \in Running /\ PlaceOf(r) = PlaceOf(c)
=============================================================================
