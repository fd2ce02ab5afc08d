--------------------- MODULE ReviewQrCodeServiceProofs ---------------------
(***************************************************************************)
(* Proofs about ReviewQrCodeService: its types, one active code per place, *)
(* and what a deletion or regeneration decides that meets no other request *)
(* on its place.                                                           *)
(***************************************************************************)
EXTENDS ReviewQrCodeService, TLAPS

Inv == TypeOK /\ OneActiveCode /\ CodeDiscipline

USE DEF Stages, Running, Ended

LEMMA Initially == Init => Inv
<1> SUFFICES ASSUME Init PROVE Inv
  OBVIOUS
<1>1. TypeOK /\ OneActiveCode
  BY DEF Init, TypeOK, OneActiveCode, Call
<1>2. OwnPlaceOnly /\ KeysApart /\ LoneDeletes
  BY DEF Init, OwnPlaceOnly, KeysApart, LoneDeletes
<1> QED BY <1>1, <1>2 DEF Inv, CodeDiscipline

LEMMA StartKeeps == ASSUME Inv, NEW r \in Requests, Start(r) PROVE Inv'
<1>1. TypeOK'
  BY DEF Inv, TypeOK, Start, GoTo, database, Call
<1>2. OwnPlaceOnly'
  BY DEF Inv, TypeOK, CodeDiscipline, OwnPlaceOnly, PlaceOf, Start, GoTo, database, Call
<1>3. KeysApart' /\ OneActiveCode'
  BY DEF Inv, TypeOK, CodeDiscipline, OwnPlaceOnly, KeysApart, OneActiveCode, PlaceOf, Start,
     GoTo, database, Call
<1>4. LoneDeletes'
  <2>1. /\ call' = call /\ active' = active /\ off' = off /\ seen' = seen
        /\ pc[r] = "new" /\ pc'[r] \notin {"off", "commit"}
        /\ \A q \in Requests \ {r} : pc'[q] = pc[q] /\ (met[q] => met'[q])
    BY DEF Inv, TypeOK, Start, GoTo, database, Call
  <2>2. \A q, s \in Requests :
          q # s /\ pc'[q] \in Running /\ pc'[s] \in Running /\ PlaceOf(q) = PlaceOf(s) => met'[s]
    <3> SUFFICES ASSUME NEW q \in Requests, NEW s \in Requests, q # s, pc'[q] \in Running,
                        pc'[s] \in Running, PlaceOf(q) = PlaceOf(s)
                 PROVE  met'[s]
      OBVIOUS
    <3>1. CASE q # r /\ s # r
      BY <2>1, <3>1 DEF Inv, CodeDiscipline, LoneDeletes
    <3>2. CASE s = r
      BY <2>1, <3>2 DEF Start
    <3>3. CASE q = r
      BY <2>1, <3>3 DEF Start
    <3> QED BY <3>1, <3>2, <3>3
  <2> QED BY <2>1, <2>2 DEF Inv, CodeDiscipline, LoneDeletes, PlaceOf
<1> QED BY <1>1, <1>2, <1>3, <1>4 DEF Inv, CodeDiscipline

LEMMA LookKeeps == ASSUME Inv, NEW r \in Requests, Look(r) PROVE Inv'
<1>1. TypeOK'
  BY DEF Inv, TypeOK, Look, GoTo, database, ActiveFor
<1>2. OwnPlaceOnly'
  BY DEF Inv, TypeOK, CodeDiscipline, OwnPlaceOnly, PlaceOf, Look, GoTo, database, ActiveFor
<1>3. KeysApart' /\ OneActiveCode'
  BY DEF Inv, TypeOK, CodeDiscipline, OwnPlaceOnly, KeysApart, OneActiveCode, PlaceOf, Look,
     GoTo, database, ActiveFor
<1>4. LoneDeletes'
  BY DEF Inv, TypeOK, CodeDiscipline, OwnPlaceOnly, KeysApart, LoneDeletes, PlaceOf, Look,
     GoTo, database, ActiveFor
<1> QED BY <1>1, <1>2, <1>3, <1>4 DEF Inv, CodeDiscipline

LEMMA MakeKeeps == ASSUME Inv, NEW r \in Requests, Make(r) PROVE Inv'
<1>1. TypeOK'
  BY DEF Inv, TypeOK, Make, GoTo, KeyPending, KeyTaken, ActiveFor
<1>2. OwnPlaceOnly'
  BY DEF Inv, TypeOK, CodeDiscipline, OwnPlaceOnly, PlaceOf, Make, GoTo, KeyPending, KeyTaken,
     ActiveFor
<1>3. KeysApart' /\ OneActiveCode'
  BY DEF Inv, TypeOK, CodeDiscipline, OwnPlaceOnly, KeysApart, OneActiveCode, PlaceOf, Make,
     GoTo, KeyPending, KeyTaken, ActiveFor
<1>4. LoneDeletes'
  BY DEF Inv, TypeOK, CodeDiscipline, OwnPlaceOnly, KeysApart, LoneDeletes, PlaceOf, Make,
     GoTo, KeyPending, KeyTaken, ActiveFor
<1> QED BY <1>1, <1>2, <1>3, <1>4 DEF Inv, CodeDiscipline

LEMMA BeginKeeps == ASSUME Inv, NEW r \in Requests, Begin(r) PROVE Inv'
<1>1. TypeOK'
  BY DEF Inv, TypeOK, Begin, GoTo, database
<1>2. OwnPlaceOnly'
  BY DEF Inv, TypeOK, CodeDiscipline, OwnPlaceOnly, PlaceOf, Begin, GoTo, database
<1>3. KeysApart' /\ OneActiveCode'
  BY DEF Inv, TypeOK, CodeDiscipline, OwnPlaceOnly, KeysApart, OneActiveCode, PlaceOf, Begin,
     GoTo, database
<1>4. LoneDeletes'
  BY DEF Inv, TypeOK, CodeDiscipline, OwnPlaceOnly, KeysApart, LoneDeletes, PlaceOf, Begin,
     GoTo, database
<1> QED BY <1>1, <1>2, <1>3, <1>4 DEF Inv, CodeDiscipline

LEMMA CloseKeeps == ASSUME Inv, NEW r \in Requests, Close(r) PROVE Inv'
<1>1. TypeOK'
  BY DEF Inv, TypeOK, Close, GoTo, RowLocked
<1>2. OwnPlaceOnly'
  BY DEF Inv, TypeOK, CodeDiscipline, OwnPlaceOnly, PlaceOf, Close, GoTo, RowLocked
<1>3. KeysApart' /\ OneActiveCode'
  BY DEF Inv, TypeOK, CodeDiscipline, OwnPlaceOnly, KeysApart, OneActiveCode, PlaceOf, Close,
     GoTo, RowLocked
<1>4. LoneDeletes'
  BY DEF Inv, TypeOK, CodeDiscipline, OwnPlaceOnly, KeysApart, LoneDeletes, PlaceOf, Close,
     GoTo, RowLocked
<1> QED BY <1>1, <1>2, <1>3, <1>4 DEF Inv, CodeDiscipline

LEMMA FindKeeps == ASSUME Inv, NEW r \in Requests, Find(r) PROVE Inv'
<1>1. TypeOK'
  BY DEF Inv, TypeOK, Find, GoTo, database, ActiveFor, Call
<1>2. OwnPlaceOnly'
  BY DEF Inv, TypeOK, CodeDiscipline, OwnPlaceOnly, PlaceOf, Find, GoTo, database, ActiveFor, Call
<1>3. KeysApart' /\ OneActiveCode'
  BY DEF Inv, TypeOK, CodeDiscipline, OwnPlaceOnly, KeysApart, OneActiveCode, PlaceOf, Find,
     GoTo, database, ActiveFor, Call
<1>4. LoneDeletes'
  BY DEF Inv, TypeOK, CodeDiscipline, OwnPlaceOnly, KeysApart, LoneDeletes, PlaceOf, Find,
     GoTo, database, ActiveFor, Call
<1> QED BY <1>1, <1>2, <1>3, <1>4 DEF Inv, CodeDiscipline

LEMMA DeactivateKeeps == ASSUME Inv, NEW r \in Requests, Deactivate(r) PROVE Inv'
<1>1. TypeOK'
  BY DEF Inv, TypeOK, Deactivate, GoTo, Off, Call
<1>2. OwnPlaceOnly'
  BY DEF Inv, TypeOK, CodeDiscipline, OwnPlaceOnly, PlaceOf, Deactivate, GoTo, Off, Call
<1>3. KeysApart' /\ OneActiveCode'
  <2>1. /\ call' = call /\ active' = active /\ made' = made /\ closes' = closes /\ pc[r] = "off"
        /\ off'[r] = seen[r]
        /\ \A q \in Requests \ {r} : off'[q] = off[q] /\ off[q] \cap seen[r] = {}
    BY DEF Inv, TypeOK, Deactivate, Off
  <2>2. made[r] = {}
    BY <2>1 DEF Inv, CodeDiscipline, OwnPlaceOnly
  <2> QED BY <2>1, <2>2 DEF Inv, CodeDiscipline, KeysApart, OneActiveCode, PlaceOf
<1>4. LoneDeletes'
  BY DEF Inv, TypeOK, CodeDiscipline, OwnPlaceOnly, KeysApart, LoneDeletes, PlaceOf,
     Deactivate, GoTo, Off, Call
<1> QED BY <1>1, <1>2, <1>3, <1>4 DEF Inv, CodeDiscipline

LEMMA InsertKeeps == ASSUME Inv, NEW r \in Requests, Insert(r) PROVE Inv'
<1>1. TypeOK'
  BY DEF Inv, TypeOK, Insert, GoTo, KeyPending, KeyTaken, ActiveFor
<1>2. OwnPlaceOnly'
  <2>1. /\ call' = call /\ seen' = seen /\ closes' = closes /\ pc[r] = "insert"
        /\ made[r] = {} /\ closes[r] = {} /\ call[r].op = "regenerate"
    BY DEF Inv, CodeDiscipline, OwnPlaceOnly, Insert
  <2>2. /\ \/ pc'[r] = "commit" /\ made'[r] = {r} /\ off'[r] = off[r]
           \/ pc'[r] = "error" /\ made'[r] = {} /\ off'[r] = {}
        /\ \A q \in Requests \ {r} : pc'[q] = pc[q] /\ made'[q] = made[q] /\ off'[q] = off[q]
    <3>1. CASE KeyTaken(r)
      BY <2>1, <3>1 DEF Inv, TypeOK, Insert, GoTo
    <3>2. CASE ~KeyTaken(r)
      BY <2>1, <3>2 DEF Inv, TypeOK, Insert, GoTo
    <3> QED BY <3>1, <3>2
  <2> QED BY <2>1, <2>2 DEF Inv, CodeDiscipline, OwnPlaceOnly, PlaceOf
<1>3. KeysApart' /\ OneActiveCode'
  BY DEF Inv, TypeOK, CodeDiscipline, OwnPlaceOnly, KeysApart, OneActiveCode, PlaceOf, Insert,
     GoTo, KeyPending, KeyTaken, ActiveFor
<1>4. LoneDeletes'
  BY DEF Inv, TypeOK, CodeDiscipline, OwnPlaceOnly, KeysApart, LoneDeletes, PlaceOf, Insert,
     GoTo, KeyPending, KeyTaken, ActiveFor
<1> QED BY <1>1, <1>2, <1>3, <1>4 DEF Inv, CodeDiscipline

LEMMA CommitKeeps == ASSUME Inv, NEW r \in Requests, Commit(r) PROVE Inv'
<1>1. TypeOK'
  <2>1. made[r] \subseteq Requests /\ \A q \in Requests : q # r => closes[q] \cap closes[r] = {}
    BY DEF Inv, TypeOK, CodeDiscipline, KeysApart
  <2>2. closes' \in [Requests -> SUBSET open']
    BY <2>1 DEF Inv, TypeOK, Commit
  <2> QED BY <2>1, <2>2 DEF Inv, TypeOK, Commit, GoTo
<1>2. OwnPlaceOnly'
  BY DEF Inv, TypeOK, CodeDiscipline, OwnPlaceOnly, PlaceOf, Commit, GoTo
<1>3. KeysApart' /\ OneActiveCode'
  BY DEF Inv, TypeOK, CodeDiscipline, OwnPlaceOnly, KeysApart, OneActiveCode, PlaceOf, Commit, GoTo
<1>4. LoneDeletes'
  BY DEF Inv, TypeOK, CodeDiscipline, OwnPlaceOnly, KeysApart, LoneDeletes, PlaceOf, Commit, GoTo
<1> QED BY <1>1, <1>2, <1>3, <1>4 DEF Inv, CodeDiscipline

LEMMA AbortKeeps == ASSUME Inv, NEW r \in Requests, Abort(r) PROVE Inv'
<1>1. TypeOK'
  BY DEF Inv, TypeOK, Abort, GoTo
<1>2. OwnPlaceOnly'
  BY DEF Inv, TypeOK, CodeDiscipline, OwnPlaceOnly, PlaceOf, Abort, GoTo
<1>3. KeysApart' /\ OneActiveCode'
  BY DEF Inv, TypeOK, CodeDiscipline, OwnPlaceOnly, KeysApart, OneActiveCode, PlaceOf, Abort, GoTo
<1>4. LoneDeletes'
  BY DEF Inv, TypeOK, CodeDiscipline, OwnPlaceOnly, KeysApart, LoneDeletes, PlaceOf, Abort, GoTo
<1> QED BY <1>1, <1>2, <1>3, <1>4 DEF Inv, CodeDiscipline

LEMMA NextKeeps == Inv /\ [Next]_vars => Inv'
<1> SUFFICES ASSUME Inv, [Next]_vars PROVE Inv'
  OBVIOUS
<1>1. ASSUME NEW r \in Requests, Start(r) \/ Progress(r) \/ Fail(r) PROVE Inv'
  BY <1>1, StartKeeps, LookKeeps, MakeKeeps, BeginKeeps, CloseKeeps, FindKeeps,
     DeactivateKeeps, InsertKeeps, CommitKeeps, AbortKeeps DEF Progress, Fail, AcquireTimeout
<1>2. CASE UNCHANGED vars
  BY <1>2 DEF vars, database, Inv, TypeOK, OneActiveCode, CodeDiscipline, OwnPlaceOnly,
     KeysApart, LoneDeletes, PlaceOf
<1> QED BY <1>1, <1>2 DEF Next, AllAnswered

LEMMA Invariance == Spec => []Inv
<1> QED BY Initially, NextKeeps, PTL DEF Spec

-----------------------------------------------------------------------------
\* The variables of reviewQrCodeService.ts keep their types.
THEOREM TypeCorrect == Spec => []TypeOK
<1>1. Inv => TypeOK
  BY DEF Inv
<1> QED BY <1>1, Invariance, PTL

\* The partial unique index keeps a place to one active code, whatever first
\* visits, regenerations, deletions, failures and exhausted pools overlap.
THEOREM NeverTwoActiveCodes == Spec => []OneActiveCode
<1>1. Inv => OneActiveCode
  BY DEF Inv
<1> QED BY <1>1, Invariance, PTL

\* A deletion that met no other request leaves its place without an active code;
\* a regeneration leaves it with its own.
THEOREM LoneChangesDecide == Spec => LoneChangeDecidesCode
<1>1. Inv /\ [Next]_vars => \A r \in Requests : Commit(r) /\ ~met[r] =>
        ActiveFor(PlaceOf(r))' = IF call[r].op = "delete" THEN {} ELSE {r}
  <2> SUFFICES ASSUME Inv, NEW r \in Requests, Commit(r), ~met[r]
               PROVE  ActiveFor(PlaceOf(r))' = IF call[r].op = "delete" THEN {} ELSE {r}
    OBVIOUS
  <2>1. active' = (active \ off[r]) \cup made[r] /\ call' = call /\ pc[r] = "commit"
    BY DEF Commit
  <2>2. CASE call[r].op = "delete"
    <3>1. made[r] = {} /\ \A c \in active : PlaceOf(c) = PlaceOf(r) => c \in off[r]
      BY <2>1, <2>2 DEF Inv, CodeDiscipline, OwnPlaceOnly, LoneDeletes
    <3> QED BY <2>1, <2>2, <3>1 DEF ActiveFor, PlaceOf
  <2>3. CASE call[r].op = "regenerate"
    <3>1. made[r] = {r} /\ \A c \in active : PlaceOf(c) = PlaceOf(r) => c \in off[r]
      BY <2>1, <2>3 DEF Inv, CodeDiscipline, OwnPlaceOnly, KeysApart
    <3> QED BY <2>1, <2>3, <3>1 DEF ActiveFor, PlaceOf
  <2>4. call[r].op # "get"
    BY <2>1 DEF Inv, TypeOK, Call, CodeDiscipline, OwnPlaceOnly
  <2> QED BY <2>2, <2>3, <2>4 DEF Inv, TypeOK, Call
<1> QED BY <1>1, Invariance, PTL DEF Spec, LoneChangeDecidesCode
=============================================================================
