---------------------------- MODULE PhotoSection ----------------------------
(***************************************************************************)
(* The pictures of a place, a review or a profile, as their page edits     *)
(* them.  An upload asks for a signature, stores the file at Cloudinary    *)
(* and attaches its URL; the page then reads its data again, which nobody  *)
(* waits for.  A button is disabled while its own upload runs, and that    *)
(* alone keeps two uploads of one page from passing the server's check of  *)
(* the limit together (see MediaService).                                  *)
(***************************************************************************)
EXTENDS Integers, FiniteSets, TLC

CONSTANTS
    Photos,    \* files, and the media rows and URLs made from them
    Uploads,   \* uploads that can run at the same time
    None,
    MAX_PHOTOS,  \* of a gallery (12 for a place, 6 for a review), on both sides
    MAX_OTHERS,  \* bound on edits by another device
    MAX_LEAVES   \* bound on these and on leaving the page

VARIABLES
    owner,     \* "closed", or whose pictures they are
    here,      \* the page is on display
    blobs,     \* files stored at Cloudinary
    media,     \* server: the media rows, as <<kind, photo>>
    shown,     \* the rows the page shows
    picked,    \* files that were chosen
    uploads,   \* the uploads that run
    removals,  \* the removals that run
    removing,  \* removingId
    rowsFetch,     \* NoFetch, Asked, or the rows the server has answered
    leaves, others,
    excuse     \* history: another device or an abandoned page has interfered

vars == <<owner, here, blobs, media, shown, picked, uploads, removals, removing, rowsFetch,
          leaves, others, excuse>>

Slots == {"AVATAR", "COVER"}
Kinds == Slots \cup {"PHOTO"}
Hooks ==
    CASE owner = "PLACE" -> Kinds
      [] owner = "REVIEW" -> {"PHOTO"}
      [] owner = "USER" -> Slots
      [] OTHER -> {}

Idle == [kind |-> None, photo |-> None, step |-> "idle", mounted |-> FALSE]
NoFetch == <<>>
Asked == <<"asked">>
Running == {u \in Uploads : uploads[u] # Idle}
Gallery(rows) == {p \in Photos : <<"PHOTO", p>> \in rows}

TypeOK ==
    /\ owner \in {"closed", "PLACE", "REVIEW", "USER"} /\ {here, excuse} \subseteq BOOLEAN
    /\ blobs \subseteq picked /\ picked \subseteq Photos
    /\ media \subseteq Kinds \X blobs            \* every row has its file
    /\ shown \subseteq Kinds \X Photos
    /\ \A k \in Slots : Cardinality({r \in media : r[1] = k}) <= 1
    /\ \A u \in Running :
         /\ uploads[u].photo \in picked /\ uploads[u].kind \in Hooks
         /\ uploads[u].step \in {"sign", "store", "attach", "insert"}
    /\ removals \subseteq Photos /\ removing \in Photos \cup {None}
    /\ leaves \in 0..MAX_LEAVES /\ others \in 0..MAX_OTHERS

Init ==
    /\ owner = "closed" /\ here = FALSE /\ blobs = {} /\ media = {} /\ shown = {} /\ picked = {}
    /\ uploads = [u \in Uploads |-> Idle] /\ removals = {} /\ removing = None
    /\ rowsFetch = NoFetch /\ leaves = 0 /\ others = 0 /\ excuse = FALSE

\* No file has the name of another.
NewFile == CHOOSE p \in Photos \ picked : TRUE

Open(o) ==
    /\ owner = "closed" /\ owner' = o /\ here' = TRUE
    /\ \E n \in IF o = "USER" THEN {0} ELSE 0..MAX_PHOTOS :
         LET ps == CHOOSE ps \in SUBSET Photos : Cardinality(ps) = n IN
         /\ media' = {"PHOTO"} \X ps /\ shown' = {"PHOTO"} \X ps
         /\ blobs' = ps /\ picked' = ps
    /\ UNCHANGED <<uploads, removals, removing, rowsFetch, leaves, others, excuse>>

\* Another page, or the review's form is closed: its flags go, what was sent
\* runs on.
Leave ==
    /\ here /\ leaves + others < MAX_LEAVES /\ leaves' = leaves + 1
    /\ here' = FALSE /\ removing' = None
    /\ uploads' = [u \in Uploads |-> [uploads[u] EXCEPT !.mounted = FALSE]]
    /\ excuse' = (excuse \/ Running # {} \/ removals # {} \/ rowsFetch # NoFetch)
    /\ UNCHANGED <<owner, blobs, media, shown, picked, removals, rowsFetch, others>>

Return ==
    /\ owner # "closed" /\ ~here /\ here' = TRUE
    /\ UNCHANGED <<owner, blobs, media, shown, picked, uploads, removals, removing, rowsFetch,
                   leaves, others, excuse>>

----------------------------------------------------------------------------
(* useMediaUpload *)

Uploading(k) == \E u \in Uploads : uploads[u].kind = k /\ uploads[u].mounted

(* atCap counts the photos on display. *)
AtCap(k) == k = "PHOTO" /\ Cardinality(Gallery(shown)) >= MAX_PHOTOS

PickFile(u, k) ==
    /\ here /\ uploads[u] = Idle /\ ~Uploading(k) /\ ~AtCap(k)
    /\ picked # Photos
    /\ uploads' = [uploads EXCEPT ![u] =
                     [kind |-> k, photo |-> NewFile, step |-> "sign", mounted |-> TRUE]]
    /\ picked' = picked \cup {NewFile}
    /\ UNCHANGED <<owner, here, blobs, media, shown, removals, removing, rowsFetch, leaves,
                   others, excuse>>

Signed(u) ==
    /\ uploads[u].step = "sign"
    /\ uploads' = [uploads EXCEPT ![u].step = "store"]
    /\ UNCHANGED <<owner, here, blobs, media, shown, picked, removals, removing, rowsFetch,
                   leaves, others, excuse>>

Stored(u) ==
    /\ uploads[u].step = "store"
    /\ uploads' = [uploads EXCEPT ![u].step = "attach"]
    /\ blobs' = blobs \cup {uploads[u].photo}
    /\ UNCHANGED <<owner, here, media, shown, picked, removals, removing, rowsFetch, leaves,
                   others, excuse>>

\* attachMedia: the limit is checked in one statement, the row inserted in
\* another; a slot's former row goes in the same transaction.
Room(u) == uploads[u].kind = "PHOTO" => Cardinality(Gallery(media)) < MAX_PHOTOS

CheckCap(u) ==
    /\ uploads[u].step = "attach" /\ Room(u)
    /\ uploads' = [uploads EXCEPT ![u].step = "insert"]
    /\ UNCHANGED <<owner, here, blobs, media, shown, picked, removals, removing, rowsFetch,
                   leaves, others, excuse>>

Inserted(u) ==
    LET k == uploads[u].kind
        kept == {r \in media : k = "PHOTO" \/ r[1] # k}
    IN  media' = kept \cup {<<k, uploads[u].photo>>}

OnChanged == rowsFetch' = Asked

Attached(u) ==
    /\ uploads[u].step = "insert"
    /\ Inserted(u) /\ OnChanged
    /\ uploads' = [uploads EXCEPT ![u] = Idle]
    /\ UNCHANGED <<owner, here, blobs, shown, picked, removals, removing, leaves, others, excuse>>

\* Any step may be refused or lost; the button comes back either way, and a
\* file that is stored already stays at Cloudinary.
UploadFails(u) ==
    /\ uploads[u] # Idle
    /\ uploads' = [uploads EXCEPT ![u] = Idle]
    /\ \/ UNCHANGED <<media, blobs, excuse>>
       \/ uploads[u].step = "store" /\ blobs' = blobs \cup {uploads[u].photo} /\ UNCHANGED <<media, excuse>>
       \/ uploads[u].step = "insert" /\ Inserted(u) /\ excuse' = TRUE /\ UNCHANGED blobs
    /\ UNCHANGED <<owner, here, shown, picked, removals, removing, rowsFetch, leaves, others>>

----------------------------------------------------------------------------
\* handleRemove: one id disables one button, so that a second removal gives
\* the first one's button back.

Remove(p) ==
    /\ here /\ p \in Gallery(shown) /\ removing # p
    /\ removals' = removals \cup {p} /\ removing' = p
    /\ UNCHANGED <<owner, here, blobs, media, shown, picked, uploads, rowsFetch, leaves, others,
                   excuse>>

Removed(p) ==
    /\ p \in removals /\ <<"PHOTO", p>> \in media
    /\ media' = media \ {<<"PHOTO", p>>}
    /\ removals' = removals \ {p} /\ removing' = None
    /\ \/ OnChanged /\ UNCHANGED excuse
       \/ UNCHANGED rowsFetch /\ excuse' = TRUE                \* the answer is lost
    /\ UNCHANGED <<owner, here, blobs, shown, picked, uploads, leaves, others>>

RemoveFails(p) ==
    /\ p \in removals
    /\ removals' = removals \ {p} /\ removing' = None
    /\ UNCHANGED <<owner, here, blobs, media, shown, picked, uploads, rowsFetch, leaves, others,
                   excuse>>

----------------------------------------------------------------------------
ReadRows ==
    /\ rowsFetch = Asked /\ rowsFetch' = <<"got", media>>
    /\ UNCHANGED <<owner, here, blobs, media, shown, picked, uploads, removals, removing, leaves,
                   others, excuse>>

ShowRows ==
    /\ rowsFetch # NoFetch /\ rowsFetch # Asked
    /\ shown' = rowsFetch[2] /\ rowsFetch' = NoFetch
    /\ UNCHANGED <<owner, here, blobs, media, picked, uploads, removals, removing, leaves, others,
                   excuse>>

FetchFails ==
    /\ rowsFetch # NoFetch /\ rowsFetch' = NoFetch /\ excuse' = TRUE
    /\ UNCHANGED <<owner, here, blobs, media, shown, picked, uploads, removals, removing, leaves,
                   others>>

(* The owner's other device adds or removes a photo. *)
Elsewhere ==
    /\ owner # "closed" /\ others < MAX_OTHERS /\ leaves + others < MAX_LEAVES
    /\ others' = others + 1 /\ excuse' = TRUE
    /\ \/ \E p \in Gallery(media) :
            media' = media \ {<<"PHOTO", p>>} /\ UNCHANGED <<blobs, picked>>
       \/ /\ owner # "USER" /\ picked # Photos /\ Cardinality(Gallery(media)) < MAX_PHOTOS
          /\ media' = media \cup {<<"PHOTO", NewFile>>}
          /\ blobs' = blobs \cup {NewFile} /\ picked' = picked \cup {NewFile}
    /\ UNCHANGED <<owner, here, shown, uploads, removals, removing, rowsFetch, leaves>>

Next ==
    \/ \E o \in {"PLACE", "REVIEW", "USER"} : Open(o)
    \/ Leave \/ Return \/ ReadRows \/ ShowRows \/ FetchFails \/ Elsewhere
    \/ \E u \in Uploads :
         \/ \E k \in Hooks : PickFile(u, k)
         \/ Signed(u) \/ Stored(u) \/ CheckCap(u) \/ Attached(u) \/ UploadFails(u)
    \/ \E p \in Photos : Remove(p) \/ Removed(p) \/ RemoveFails(p)

Spec == Init /\ [][Next]_vars

----------------------------------------------------------------------------
\* The limit holds although the server checks it before and apart from the
\* insert, because a page runs one gallery upload at a time: unless another
\* device uploads too, or an upload was abandoned by leaving the page.
LimitHolds == ~excuse => Cardinality(Gallery(media)) <= MAX_PHOTOS

\* Once its uploads, removals and refetches have ended, in whatever order they
\* overlapped, the page shows the server's pictures.
PicturesShown ==
    owner # "closed" /\ Running = {} /\ removals = {} /\ rowsFetch = NoFetch /\ ~excuse => shown = media
=============================================================================
