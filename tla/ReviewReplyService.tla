------------------------- MODULE ReviewReplyService -------------------------
(***************************************************************************)
(* Replies of place owners to reviews: backend/src/services/               *)
(* reviewReplyService.ts.  No method opens a transaction, so every awaited *)
(* statement commits by itself and other requests run in between.          *)
(*                                                                         *)
(* A reply row bears the name of the request that inserted it; its text is *)
(* the name of the request that wrote it.  Deleting is soft deletion.      *)
(***************************************************************************)
EXTENDS Integers, FiniteSets

CONSTANTS Users, Places, Reviews, Requests, OwnerOf, PlaceOf, AuthorOf

VARIABLES
  call,     \* what each request asks for
  pc,       \* the statement a request is about to run
  review,   \* state of each review row
  open,     \* places that are not soft-deleted
  replies,  \* live rows of providers_reviews_replies
  text,     \* who wrote the present text of a reply
  notices   \* live rows of providers_notifications

replyRows == <<replies, text>>

-----------------------------------------------------------------------------
(* The mutations of reviewReplyResolver; the user is the authenticated one. *)
CreateReplyCalls == [op : {"reply"}, user : Users, review : Reviews]
ChangeReplyCalls == [op : {"edit reply", "delete reply"}, user : Users, reply : Requests]

At(r, op, stage) == call[r].op = op /\ pc[r] = stage
GoTo(r, stage) == pc' = [pc EXCEPT ![r] = stage]
Answer(r, granted, stage) == GoTo(r, IF granted THEN stage ELSE "error")

\* The owner of the place a review or a reply is about.
Keeper(v) == OwnerOf[PlaceOf[v]]

-----------------------------------------------------------------------------
FindReview(r) ==
  /\ At(r, "reply", "start")
  /\ Answer(r, review[call[r].review] = "live", "place")
  /\ UNCHANGED <<replyRows, notices>>

OwnsPlace(r) == Keeper(call[r].review) = call[r].user

FindPlace(r) ==
  /\ At(r, "reply", "place")
  /\ Answer(r, PlaceOf[call[r].review] \in open /\ OwnsPlace(r), "existing")
  /\ UNCHANGED <<replyRows, notices>>

RepliesTo(v) == {q \in replies : call[q].review = v}

FindReply(r) ==
  /\ At(r, "reply", "existing")
  /\ Answer(r, RepliesTo(call[r].review) = {}, "insert")
  /\ UNCHANGED <<replyRows, notices>>

\* The partial unique index on review_id WHERE deleted_at IS NULL.
NoUniqueIndex(r) == FALSE                                    \* (mutant)
KeyTaken(r) == RepliesTo(call[r].review) # {}

InsertReply(r) ==
  /\ At(r, "reply", "insert")
  /\ IF KeyTaken(r)
     THEN GoTo(r, "error") /\ UNCHANGED replyRows
     ELSE /\ GoTo(r, "tell")
          /\ replies' = replies \cup {r}
          /\ text' = [text EXCEPT ![r] = r]
  /\ UNCHANGED notices

ReplyNotice(r) == [by |-> r, about |-> "reply", to |-> AuthorOf[call[r].review]]

TellReviewer(r) ==
  /\ At(r, "reply", "tell")
  /\ notices' = notices \cup {ReplyNotice(r)}
  /\ GoTo(r, "done")
  /\ UNCHANGED replyRows

\* updateReply and deleteReply look the row up, then write it by its id.
Writable(r) == call[r].reply \in replies /\ Keeper(call[call[r].reply].review) = call[r].user

FindOwnReply(r) ==
  /\ call[r].op \in {"edit reply", "delete reply"} /\ pc[r] = "start"
  /\ Answer(r, Writable(r), "write")
  /\ UNCHANGED <<replyRows, notices>>

\* The update matches live rows only; a reply deleted meanwhile is not revived,
\* and the answer holds no reply.
EditReply(r) ==
  /\ At(r, "edit reply", "write")
  /\ text' = IF call[r].reply \in replies THEN [text EXCEPT ![call[r].reply] = r] ELSE text
  /\ GoTo(r, "done")
  /\ UNCHANGED <<replies, notices>>

DeleteReply(r) ==
  /\ At(r, "delete reply", "write")
  /\ replies' = replies \ {call[r].reply}
  /\ GoTo(r, "done")
  /\ UNCHANGED <<text, notices>>

ReplyStep(r) ==
  \/ FindReview(r) \/ FindPlace(r) \/ FindReply(r) \/ InsertReply(r) \/ TellReviewer(r)
  \/ FindOwnReply(r) \/ EditReply(r) \/ DeleteReply(r)

ReplyInit ==
  /\ replies = {}
  /\ text = [r \in Requests |-> r]

ReplyType ==
  /\ replies \subseteq {r \in Requests : call[r].op = "reply"}
  /\ text \in [Requests -> Requests]

-----------------------------------------------------------------------------
(* Properties. *)

\* A review never shows two replies, although the look-up of the existing one
\* and the insert are apart.
OneReplyPerReview == \A q, r \in replies : call[q].review = call[r].review => q = r

\* Whatever is shown as a reply was written by the owner of the place, by
\* the first text and by every edit since.
RepliesSpeakForThePlace ==
  \A r \in replies : call[text[r]].user = Keeper(call[r].review)
=============================================================================
