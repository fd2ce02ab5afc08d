------------------------- MODULE NotificationService -------------------------
(***************************************************************************)
(* Reading and clearing notifications: backend/src/services/               *)
(* notificationService.ts.  A notice is named by the request that caused   *)
(* it and by what it is about; the message is left out.                    *)
(***************************************************************************)
EXTENDS Integers, FiniteSets

CONSTANTS Users, Requests, Subjects

VARIABLES
  call, pc,
  notices,  \* live rows of providers_notifications
  read      \* those with read = true

-----------------------------------------------------------------------------
Notice == [by : Requests, about : Subjects, to : Users]

(* The mutations of notificationResolver. *)
NoticeCalls ==
  [op : {"mark read", "delete notice"}, user : Users, notice : notices]
    \cup [op : {"mark all"}, user : Users]

GoTo(r, stage) == pc' = [pc EXCEPT ![r] = stage]
Of(u) == {n \in notices : n.to = u}

-----------------------------------------------------------------------------
AnybodysNotice(r) == call[r].notice \in notices              \* (mutant)
OwnNotice(r) == call[r].notice \in Of(call[r].user)

FindNotice(r) ==
  /\ call[r].op \in {"mark read", "delete notice"} /\ pc[r] = "start"
  /\ GoTo(r, IF OwnNotice(r) THEN "write" ELSE "error")
  /\ UNCHANGED <<notices, read>>

MarkRead(r) ==
  /\ call[r].op = "mark read" /\ pc[r] = "write"
  /\ read' = read \cup (notices \cap {call[r].notice})
  /\ GoTo(r, "done")
  /\ UNCHANGED notices

DeleteNotice(r) ==
  /\ call[r].op = "delete notice" /\ pc[r] = "write"
  /\ notices' = notices \ {call[r].notice}
  /\ GoTo(r, "done")
  /\ UNCHANGED read

\* One update of all the unread rows of the user.
MarkAllRead(r) ==
  /\ call[r].op = "mark all" /\ pc[r] = "start"
  /\ read' = read \cup Of(call[r].user)
  /\ GoTo(r, "done")
  /\ UNCHANGED notices

NoticeStep(r) == FindNotice(r) \/ MarkRead(r) \/ DeleteNotice(r) \/ MarkAllRead(r)

NoticeType == notices \subseteq Notice /\ read \subseteq Notice

-----------------------------------------------------------------------------
(* Properties. *)

\* A notice is marked or deleted by a request of the user it is for, whatever
\* ids other users send.
OnlyOwnNotices ==
  [][\A n \in (read' \ read) \cup (notices \ notices') :
       \E r \in Requests : pc[r] # pc'[r] /\ call[r].user = n.to]_<<notices, read>>
=============================================================================
