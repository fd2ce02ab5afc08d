---------------------------- MODULE MediaService ----------------------------
(***************************************************************************)
(* attachMedia and removeMedia of backend/src/services/mediaService.ts, by *)
(* concurrent requests against PostgreSQL at READ COMMITTED (see           *)
(* ReviewService for how statements, transactions and locks are modelled). *)
(*                                                                         *)
(* A media row belongs to a user, a place or a review.  AVATAR and COVER   *)
(* are single slots whose current image is repeated in a column of the     *)
(* owner's row (picture); PHOTO is a gallery, and a review repeats its     *)
(* size (photoCount).  A row is named by the request that attaches it,     *)
(* which stands for its URL too.                                           *)
(***************************************************************************)
EXTENDS Integers, FiniteSets

CONSTANTS
  Users, Places, Reviews, Requests,
  Keeper,                              \* who owns a place, who wrote a review
  MAX_PLACE_PHOTOS, MAX_REVIEW_PHOTOS

Owners == Users \cup Places \cup Reviews

ASSUME MediaConstants ==
  /\ Keeper \in [Places \cup Reviews -> Users]
  /\ Users \cap (Places \cup Reviews) = {} /\ Places \cap Reviews = {}
  /\ MAX_PLACE_PHOTOS \in Nat /\ MAX_REVIEW_PHOTOS \in Nat

VARIABLES
  call,        \* the mutation each request makes, fixed from the start
  pc,          \* the statement a request is about to run
  found,       \* the row removeMedia read first
  matched,     \* the rows deleteAllForOwner saw when it started
  counted,     \* the count syncReviewPhotoCount has read
  media,       \* committed rows of providers_media
  picture,     \* committed profile_picture and cover columns ({}: null)
  photoCount,  \* committed photo_count of each review
  open,        \* owners that are not soft-deleted
  wrote,       \* uncommitted media rows of each request
  holds,       \* owners whose row a request has updated but not committed
  met          \* history: has another request on this gallery overlapped?

database == <<media, picture, photoCount, open, wrote, holds>>
vars == <<call, pc, found, matched, counted, database, met>>

-----------------------------------------------------------------------------
(* Rows, calls and stages. *)

Kinds == {"AVATAR", "COVER", "PHOTO"}
Slots == (Users \cup Places) \X {"AVATAR", "COVER"}
Row == [id : Requests, owner : Owners, kind : Kinds, live : BOOLEAN]

\* attachMediaSchema: no owner but oneself for USER, and the kinds per owner.
Attach ==
  {c \in [op : {"attach"}, by : Users, owner : Owners, kind : Kinds] :
     /\ c.owner \in Users => c.owner = c.by /\ c.kind # "PHOTO"
     /\ c.owner \in Reviews => c.kind = "PHOTO"}
Remove == [op : {"remove"}, by : Users, target : Requests]

\* From the check of the cap, or the start of the transaction, to the end.
Writing == {"slot", "clear", "insert", "delete", "count", "store", "commit"}
Ended == {"ok", "error"}
Stages == {"new", "cap", "keeper"} \cup Writing \cup Ended

\* The gallery or slot a request is about.
OwnerOf(r) == IF call[r].op = "attach" THEN call[r].owner
              ELSE (CHOOSE x \in found[r] : TRUE).owner
KindOf(r) == IF call[r].op = "attach" THEN call[r].kind
             ELSE (CHOOSE x \in found[r] : TRUE).kind

Live(rows, owner, kind) == {x \in rows : x.live /\ x.owner = owner /\ x.kind = kind}
Seen(r) == {x \in media : \A w \in wrote[r] : w.id # x.id} \cup wrote[r]
LockedByOther(r, id) == \E q \in Requests \ {r} : \E w \in wrote[q] : w.id = id

New(r) == [id |-> r, owner |-> call[r].owner, kind |-> call[r].kind, live |-> TRUE]
Dead(x) == [id |-> x.id, owner |-> x.owner, kind |-> x.kind, live |-> FALSE]

\* History: r starts to write; note whom it overlaps.
Enter(r, owner, kind) ==
  LET others == {q \in Requests \ {r} : pc[q] \in Writing
                                        /\ OwnerOf(q) = owner /\ KindOf(q) = kind}
  IN  met' = [q \in Requests |-> IF q = r THEN others # {}
                                 ELSE met[q] \/ q \in others]

-----------------------------------------------------------------------------
(* Before the transaction: whose is it, and is there room? *)

StartAttach(r) ==
  /\ pc[r] = "new" /\ call[r].op = "attach"
  /\ LET c == call[r]
     IN  IF c.owner \notin Users /\ (c.owner \notin open \/ Keeper[c.owner] # c.by)
         THEN pc' = [pc EXCEPT ![r] = "error"] /\ UNCHANGED met
         ELSE IF c.kind = "PHOTO"
         THEN pc' = [pc EXCEPT ![r] = "cap"] /\ UNCHANGED met
         ELSE pc' = [pc EXCEPT ![r] = "slot"] /\ Enter(r, c.owner, c.kind)
  /\ UNCHANGED <<call, found, matched, counted, database>>

MaxPhotos(owner) == IF owner \in Places THEN MAX_PLACE_PHOTOS ELSE MAX_REVIEW_PHOTOS
FullOffByOne(r, n) == n > MaxPhotos(call[r].owner)           \* (mutant)
Full(r, n) == n >= MaxPhotos(call[r].owner)

\* The cap is checked on committed rows, outside any transaction.
CheckCap(r) ==
  /\ pc[r] = "cap"
  /\ IF Full(r, Cardinality(Live(media, call[r].owner, "PHOTO")))
     THEN pc' = [pc EXCEPT ![r] = "error"] /\ UNCHANGED met
     ELSE pc' = [pc EXCEPT ![r] = "insert"] /\ Enter(r, call[r].owner, "PHOTO")
  /\ UNCHANGED <<call, found, matched, counted, database>>

StartRemove(r) ==
  /\ pc[r] = "new" /\ call[r].op = "remove"
  /\ found' = [found EXCEPT ![r] = {x \in media : x.id = call[r].target /\ x.live}]
  /\ IF \E x \in found'[r] : x.owner = call[r].by
     THEN /\ pc' = [pc EXCEPT ![r] = "delete"]
          /\ \E x \in found'[r] : Enter(r, x.owner, x.kind)
     ELSE /\ pc' = [pc EXCEPT ![r] =
               IF \E x \in found'[r] : x.owner \notin Users THEN "keeper" ELSE "error"]
          /\ UNCHANGED met
  /\ UNCHANGED <<call, matched, counted, database>>

CheckKeeper(r) ==
  /\ pc[r] = "keeper"
  /\ IF OwnerOf(r) \in open /\ Keeper[OwnerOf(r)] = call[r].by
     THEN pc' = [pc EXCEPT ![r] = "delete"] /\ Enter(r, OwnerOf(r), KindOf(r))
     ELSE pc' = [pc EXCEPT ![r] = "error"] /\ UNCHANGED met
  /\ UNCHANGED <<call, found, matched, counted, database>>

-----------------------------------------------------------------------------
(* The writes. *)

\* deleteAllForOwner is one UPDATE: it picks its rows when it starts and then
\* waits for those that are locked, so it never sees a row committed later.
ClearedOfAnyKind(r) ==                                       \* (mutant)
  {x.id : x \in {y \in media : y.live /\ y.owner = call[r].owner}}
ClearedOne(r) ==                                             \* (mutant)
  LET ids == {x.id : x \in Live(media, call[r].owner, call[r].kind)}
  IN  IF ids = {} THEN {} ELSE {CHOOSE i \in ids : TRUE}
Cleared(r) == {x.id : x \in Live(media, call[r].owner, call[r].kind)}

StartClear(r) ==
  /\ pc[r] = "slot"
  /\ matched' = [matched EXCEPT ![r] = Cleared(r)]
  /\ pc' = [pc EXCEPT ![r] = "clear"]
  /\ UNCHANGED <<call, found, counted, database, met>>

Clear(r) ==
  /\ pc[r] = "clear"
  /\ \A id \in matched[r] : ~LockedByOther(r, id)
  /\ wrote' = [wrote EXCEPT ![r] =
       {Dead(x) : x \in {y \in media : y.id \in matched[r] /\ y.live}}]
  /\ pc' = [pc EXCEPT ![r] = "insert"]
  /\ UNCHANGED <<call, found, matched, counted, media, picture, photoCount,
                 open, holds, met>>

\* A photo of a place needs no transaction: its row is there at once.
InsertPlacePhoto(r) ==
  /\ pc[r] = "insert" /\ call[r].kind = "PHOTO" /\ call[r].owner \in Places
  /\ media' = media \cup {New(r)}
  /\ \E answer \in Ended : pc' = [pc EXCEPT ![r] = answer]
  /\ UNCHANGED <<call, found, matched, counted, picture, photoCount, open,
                 wrote, holds, met>>

Insert(r) ==
  /\ pc[r] = "insert" /\ ~(call[r].kind = "PHOTO" /\ call[r].owner \in Places)
  /\ wrote' = [wrote EXCEPT ![r] = @ \cup {New(r)}]
  /\ pc' = [pc EXCEPT ![r] = IF call[r].kind = "PHOTO" THEN "count" ELSE "store"]
  /\ UNCHANGED <<call, found, matched, counted, media, picture, photoCount,
                 open, holds, met>>

\* The soft delete of removeMedia: it waits for the row lock and then leaves a
\* row that was deleted meanwhile alone.
Delete(r) ==
  /\ pc[r] = "delete"
  /\ ~LockedByOther(r, call[r].target)
  /\ wrote' = [wrote EXCEPT ![r] =
       {Dead(x) : x \in {y \in media : y.id = call[r].target /\ y.live}}]
  /\ pc' = [pc EXCEPT ![r] =
       IF KindOf(r) # "PHOTO" THEN "store"
       ELSE IF OwnerOf(r) \in Reviews THEN "count" ELSE "commit"]
  /\ UNCHANGED <<call, found, matched, counted, media, picture, photoCount,
                 open, holds, met>>

\* syncReviewPhotoCount counts inside the transaction.
PhotosOutsideTransaction(r) == Live(media, OwnerOf(r), "PHOTO")  \* (mutant)
Photos(r) == Live(Seen(r), OwnerOf(r), "PHOTO")

CountPhotos(r) ==
  /\ pc[r] = "count"
  /\ counted' = [counted EXCEPT ![r] = Cardinality(Photos(r))]
  /\ pc' = [pc EXCEPT ![r] = "store"]
  /\ UNCHANGED <<call, found, matched, database, met>>

\* The owner's row is updated under its lock, unless it is soft-deleted.
Store(r) ==
  /\ pc[r] = "store"
  /\ \A q \in Requests \ {r} : OwnerOf(r) \notin holds[q]
  /\ holds' = [holds EXCEPT ![r] = {OwnerOf(r)} \cap open]
  /\ pc' = [pc EXCEPT ![r] = "commit"]
  /\ UNCHANGED <<call, found, matched, counted, media, picture, photoCount,
                 open, wrote, met>>

\* An attach shows its own row; a remove clears the column, whatever it holds.
Shown(r) == IF call[r].op = "attach" THEN {r} ELSE {}

Commit(r) ==
  /\ pc[r] = "commit"
  /\ media' = Seen(r)
  /\ picture' = [s \in Slots |->
       IF s[1] \in holds[r] /\ s[2] = KindOf(r) THEN Shown(r) ELSE picture[s]]
  /\ photoCount' = [v \in Reviews |->
       IF v \in holds[r] THEN counted[r] ELSE photoCount[v]]
  /\ wrote' = [wrote EXCEPT ![r] = {}]
  /\ holds' = [holds EXCEPT ![r] = {}]
  /\ \E answer \in Ended : pc' = [pc EXCEPT ![r] = answer]
  /\ UNCHANGED <<call, found, matched, counted, open, met>>

-----------------------------------------------------------------------------
(* Failures, other writers of the owners, and the whole system. *)

Fail(r) ==
  /\ pc[r] \in {"cap", "keeper"} \cup Writing
  /\ pc' = [pc EXCEPT ![r] = "error"]
  /\ wrote' = [wrote EXCEPT ![r] = {}]
  /\ holds' = [holds EXCEPT ![r] = {}]
  /\ UNCHANGED <<call, found, matched, counted, media, picture, photoCount,
                 open, met>>

\* A place or a review is soft-deleted under its row lock; its media stay.
DeleteOwner(o) ==
  /\ o \in open \ Users
  /\ \A q \in Requests : o \notin holds[q]
  /\ open' = open \ {o}
  /\ UNCHANGED <<call, pc, found, matched, counted, media, picture, photoCount,
                 wrote, holds, met>>

Init ==
  /\ call \in [Requests -> Attach \cup Remove]
  /\ pc = [r \in Requests |-> "new"]
  /\ found = [r \in Requests |-> {}]
  /\ matched = [r \in Requests |-> {}]
  /\ counted = [r \in Requests |-> 0]
  /\ media = {}
  /\ picture = [s \in Slots |-> {}]
  /\ photoCount = [v \in Reviews |-> 0]
  /\ open = Owners
  /\ wrote = [r \in Requests |-> {}]
  /\ holds = [r \in Requests |-> {}]
  /\ met = [r \in Requests |-> FALSE]

Progress(r) ==
  \/ CheckCap(r) \/ CheckKeeper(r) \/ StartClear(r) \/ Clear(r)
  \/ InsertPlacePhoto(r) \/ Insert(r) \/ Delete(r) \/ CountPhotos(r)
  \/ Store(r) \/ Commit(r)

AllAnswered == (\A r \in Requests : pc[r] \in Ended) /\ UNCHANGED vars

Next ==
  \/ \E r \in Requests : StartAttach(r) \/ StartRemove(r) \/ Progress(r) \/ Fail(r)
  \/ \E o \in Owners : DeleteOwner(o)
  \/ AllAnswered

Spec == Init /\ [][Next]_vars

-----------------------------------------------------------------------------
(* Properties. *)

TypeOK ==
  /\ call \in [Requests -> Attach \cup Remove]
  /\ pc \in [Requests -> Stages]
  /\ found \in [Requests -> SUBSET Row]
  /\ matched \in [Requests -> SUBSET Requests]
  /\ counted \in [Requests -> Nat]
  /\ media \subseteq Row
  /\ picture \in [Slots -> SUBSET Requests]
  /\ photoCount \in [Reviews -> Nat]
  /\ open \subseteq Owners
  /\ wrote \in [Requests -> SUBSET Row]
  /\ holds \in [Requests -> SUBSET Owners]
  /\ met \in [Requests -> BOOLEAN]

\* A picture column never points at a deleted image or at one of another
\* owner or kind: every transaction that deletes a row of a slot also
\* overwrites the slot's column, however two of them interleave.
PictureIsLive ==
  \A s \in Slots : s[1] \in open => \A id \in picture[s] :
    \E x \in Live(media, s[1], s[2]) : x.id = id

\* An attach to a single slot that no other request on the slot overlapped
\* leaves its image as the only one and shows it, whatever it found there.
LoneAttachOwnsSlot ==
  [][\A r \in Requests :
       Commit(r) /\ ~met[r] /\ call[r].op = "attach" /\ KindOf(r) # "PHOTO" =>
         /\ Live(media, OwnerOf(r), KindOf(r))' = {New(r)}
         /\ OwnerOf(r) \in open => picture'[<<OwnerOf(r), KindOf(r)>>] = {r}]_vars

CountIsExact(v) == photoCount[v] = Cardinality(Live(media, v, "PHOTO"))

\* A request on a review's gallery that no other overlapped leaves the
\* photo count exact, whatever drift earlier ones had left behind.
LoneWriterCountsExactly ==
  [][\A r \in Requests :
       Commit(r) /\ ~met[r] /\ OwnerOf(r) \in Reviews \cap open
         => CountIsExact(OwnerOf(r))']_vars

\* A photo whose request no other overlapped, from the check of the cap on,
\* leaves the gallery within its cap.
LonePhotoKeepsCap ==
  [][\A r \in Requests :
       /\ InsertPlacePhoto(r) \/ Commit(r)
       /\ ~met[r] /\ call[r].op = "attach" /\ call[r].kind = "PHOTO"
       => Cardinality(Live(media, call[r].owner, "PHOTO")') <= MaxPhotos(call[r].owner)]_vars

\* The claim "so at most one row per (ownerType, ownerId, kind) survives"
\* (mediaRepository.ts:14).
OneImagePerSlot ==
  \A s \in Slots : \A x, y \in Live(media, s[1], s[2]) : x = y

-----------------------------------------------------------------------------
(* Why these hold: the parts of an invariant that every step preserves       *)
(* (MediaServiceProofs.tla).                                                 *)

\* A row keeps the owner and the kind of the request that attached it.
AsCalled(x) ==
  LET c == call[x.id]
  IN  c.op = "attach" /\ x.owner = c.owner /\ x.kind = c.kind

\* Which calls are at which stage, and what they have picked so far.
CallsOnTrack ==
  \A r \in Requests :
    /\ pc[r] \in {"cap", "slot", "clear", "insert"} => call[r].op = "attach"
    /\ pc[r] \in {"keeper", "delete"} => call[r].op = "remove"
    /\ pc[r] = "cap" => call[r].kind = "PHOTO"
    /\ pc[r] \in {"slot", "clear"} => call[r].kind # "PHOTO"
    /\ call[r].op = "remove" =>
         /\ pc[r] \in {"keeper"} \cup Writing => found[r] # {}
         /\ \A x \in found[r] : AsCalled(x) /\ x.id = call[r].target
    /\ call[r].op = "attach" => \A id \in matched[r] :
         /\ call[id].op = "attach"
         /\ call[id].owner = call[r].owner /\ call[id].kind = call[r].kind

\* A transaction writes rows of its own gallery or slot only, and before it
\* commits a change to a slot it has updated the owner, unless that is gone.
WritesOwnSlot ==
  \A r \in Requests :
    /\ \/ pc[r] \notin Writing \ {"slot", "clear"}
       \/ pc[r] = "insert" /\ KindOf(r) = "PHOTO"
       => wrote[r] = {}
    /\ pc[r] = "count" => KindOf(r) = "PHOTO"
    /\ pc[r] # "commit" => holds[r] = {}
    /\ \A o \in holds[r] : o = OwnerOf(r)
    /\ \A w \in wrote[r] : AsCalled(w) /\ w.owner = OwnerOf(r) /\ w.kind = KindOf(r)
    /\ pc[r] \in {"count", "store", "commit"} /\ call[r].op = "attach" => New(r) \in wrote[r]
    /\ pc[r] = "commit" /\ KindOf(r) # "PHOTO"
         => OwnerOf(r) \in holds[r] \/ OwnerOf(r) \notin open

SlotDiscipline ==
  /\ \A x \in media : AsCalled(x)
  /\ CallsOnTrack /\ WritesOwnSlot /\ PictureIsLive

\* What a lone attach has cleared is still all there was in its slot.
LoneView ==
  \A r \in Requests : pc[r] \in Writing /\ ~met[r] =>
    /\ \A q \in Requests \ {r} :
         pc[q] \in Writing => OwnerOf(q) # OwnerOf(r) \/ KindOf(q) # KindOf(r)
    /\ call[r].op = "attach" /\ KindOf(r) # "PHOTO" =>
         LET mine == Live(Seen(r), OwnerOf(r), KindOf(r))
         IN  /\ pc[r] = "clear" =>
                  matched[r] = {x.id : x \in Live(media, OwnerOf(r), KindOf(r))}
             /\ pc[r] = "insert" => mine = {}
             /\ pc[r] \in {"store", "commit"} => mine = {New(r)}

\* A photo of a review is committed under the lock of the review, and what a
\* lone request has counted, or found room for, is still what there is.
LonePhotoView ==
  \A r \in Requests : pc[r] \in Writing /\ KindOf(r) = "PHOTO" =>
    LET mine == Cardinality(Live(Seen(r), OwnerOf(r), "PHOTO"))
    IN  /\ pc[r] = "commit" /\ OwnerOf(r) \in Reviews \cap open => OwnerOf(r) \in holds[r]
        /\ ~met[r] /\ pc[r] \in {"store", "commit"} /\ OwnerOf(r) \in Reviews =>
             counted[r] = mine
        /\ ~met[r] /\ call[r].op = "attach" =>
             mine <= MaxPhotos(OwnerOf(r)) - (IF pc[r] = "insert" THEN 1 ELSE 0)
=============================================================================
