-------------------------- MODULE PlaceDetailPage --------------------------
(***************************************************************************)
(* The place page of a visitor: the list of reviews in the chosen sort,    *)
(* the form for a new review or for the visitor's own one, its photos, the *)
(* deletion and the votes.  React mounts the form again whenever its key   *)
(* changes, and state that is not of the form outlives a change of place.  *)
(* While the place itself is read, and be it again, "Loading place..."     *)
(* stands for the whole page: an open form is unmounted.                   *)
(* A visitor who scanned a code must sign in before touching the page.     *)
(***************************************************************************)
EXTENDS Integers, FiniteSets, TLC

CONSTANTS
    Places, Sorts,
    FirstSort,     \* "RECENT"
    Buried,        \* sorts under which the own review is not among the first 20
    ReviewIds,           \* the visitor's reviews
    None, New,
    MAX_PHOTOS,
    MAX_MOVES      \* changes of the place or the sort

VARIABLES
    entry,    \* "closed", "id", or "token" for a scanned code
    signed,   \* the user is known
    place, sort,
    mine,     \* server: the visitor's live review of each place, or None
    usedIds,     \* ids that were given
    ownReviews,    \* Apollo: own reviews in the list of each place and sort, or None
    visited,  \* places whose page is in the cache
    loading,  \* the place is being read, for the first time or again
    listFetch,    \* the latest request for a list
    open, editingId, checked,   \* writeFormOpen, editingReviewId, the ref
    reviewForm,     \* the mounted form, or None
    submit,   \* the submission that runs, or None
    job,      \* the deletion or vote that runs, or None
    askedId,    \* pendingDeleteReviewId
    warning,  \* photoUploadWarning is shown
    moves,
    excuse    \* history: the list may be older than the last change

vars == <<entry, signed, place, sort, mine, usedIds, ownReviews, visited, loading,
          listFetch, open, editingId, checked, reviewForm, submit, job, askedId, warning, moves, excuse>>

Keys == Places \X Sorts
Key == <<place, sort>>
NoFetch == [key |-> None, got |-> None]

(* reviews: empty until the list of this place and sort has been read. *)
CachedReviews(ls, k) == IF ls[k] = None THEN {} ELSE ls[k]
MyReview == CachedReviews(ownReviews, Key)
EditingReview == IF editingId \in CachedReviews(ownReviews, Key) THEN editingId ELSE New

\* The page, not "Loading place..." or "Place not found".
Displayed == ~loading /\ place \in visited

\* useState(initial...) takes the published text once per mount: base is what
\* the form was filled with.
Mounted(k) == [key |-> k, base |-> k, typed |-> FALSE]

RenderWithoutKey(f) ==                \* (mutant) one form for every target
    LET k == IF editingId' \in CachedReviews(ownReviews', <<place', sort'>>) THEN editingId' ELSE New
    IN  IF ~open' \/ ~Displayed' THEN None
        ELSE IF f # None THEN [f EXCEPT !.key = k] ELSE Mounted(k)

(* What is mounted after a state change: a form of the same key is kept. *)
Render(f) ==
    LET k == IF editingId' \in CachedReviews(ownReviews', <<place', sort'>>) THEN editingId' ELSE New
    IN  IF ~open' \/ ~Displayed' THEN None
        ELSE IF f # None /\ f.key = k THEN f ELSE Mounted(k)

TypeOK ==
    /\ entry \in {"closed", "id", "token"} /\ {signed, loading, open, checked, warning, excuse} \subseteq BOOLEAN
    /\ place \in Places /\ sort \in Sorts
    /\ \A p \in Places : mine[p] \in usedIds \cup {None}
    /\ \A k \in Keys : ownReviews[k] = None \/ ownReviews[k] \subseteq usedIds
    /\ editingId \in usedIds \cup {None} /\ askedId \in usedIds \cup {None}
    /\ reviewForm # None => open /\ Displayed /\ reviewForm.key = EditingReview
    /\ submit # None => submit.step \in {"send", "photos", "refetch"} /\ submit.todo \in 0..MAX_PHOTOS
    /\ job # None => job.step \in {"send", "refetch"}
    /\ visited \subseteq Places /\ moves \in 0..MAX_MOVES

Init ==
    /\ entry = "closed" /\ signed = FALSE /\ place = (CHOOSE p \in Places : TRUE) /\ sort = FirstSort
    /\ mine = [p \in Places |-> None] /\ usedIds = {}
    /\ ownReviews = [k \in Keys |-> None] /\ visited = {} /\ loading = FALSE /\ listFetch = NoFetch
    /\ open = FALSE /\ editingId = None /\ checked = FALSE /\ reviewForm = None
    /\ submit = None /\ job = None /\ askedId = None /\ warning = FALSE
    /\ moves = 0 /\ excuse = FALSE

----------------------------------------------------------------------------
\* Arriving, and the list query when its variables change.

Load(k) ==
    IF ownReviews[k] = None
    THEN listFetch' = [key |-> k, got |-> None] /\ excuse' = FALSE
    ELSE UNCHANGED listFetch /\ excuse' = TRUE

\* Ids are given one after the other.
NextId == CHOOSE id \in ReviewIds \ usedIds : TRUE

\* Scanned pages open their form at once; the visitor may have a review.
Arrive(e) ==
    /\ entry = "closed" /\ entry' = e
    /\ signed' = (e = "id")
    /\ open' = (e = "token")
    /\ \E id \in {NextId, None} :
         /\ mine' = [mine EXCEPT ![place] = id]
         /\ usedIds' = {id} \ {None}
    /\ loading' = TRUE /\ Load(Key)
    /\ UNCHANGED <<place, sort, ownReviews, visited, editingId, checked, reviewForm, submit, job,
                   askedId, warning, moves>>

\* Signing in through the modal that covers a scanned page.
SignIn ==
    /\ entry = "token" /\ ~signed /\ Displayed /\ signed' = TRUE
    /\ UNCHANGED <<entry, place, sort, mine, usedIds, ownReviews, visited, loading, listFetch,
                   open, editingId, checked, reviewForm, submit, job, askedId, warning, moves,
                   excuse>>

(* The place query.  The form that returns with the page is a new one. *)
PlaceArrives ==
    /\ loading /\ loading' = FALSE
    /\ visited' = visited \cup {place}
    /\ UNCHANGED <<entry, signed, place, sort, mine, usedIds, ownReviews, listFetch, open,
                   editingId, checked, submit, job, askedId, warning, moves, excuse>>
    /\ reviewForm' = Render(reviewForm)

\* Everything under the modal is inert.
Active == entry # "closed" /\ signed /\ Displayed

\* A link to another place: the page component stays mounted, and so does the
\* form, unless the other place has to be loaded first.
GoTo(p) ==
    /\ entry = "id" /\ p # place
    /\ moves < MAX_MOVES /\ moves' = moves + 1
    /\ place' = p /\ loading' = (p \notin visited) /\ Load(<<p, sort>>)
    /\ UNCHANGED <<entry, signed, sort, mine, usedIds, ownReviews, visited, open, editingId,
                   checked, submit, job, askedId, warning>>
    /\ reviewForm' = Render(reviewForm)

SelectSort(s) ==
    /\ Active /\ s # sort
    /\ moves < MAX_MOVES /\ moves' = moves + 1
    /\ sort' = s /\ Load(<<place, s>>)
    /\ UNCHANGED <<entry, signed, place, mine, usedIds, ownReviews, visited, loading, open,
                   editingId, checked, submit, job, askedId, warning>>
    /\ reviewForm' = Render(reviewForm)

\* The effect of a scanned page: a visitor who reviewed the place before gets
\* that review to edit, once, as soon as the user and the list are known.
ChecksExisting == entry = "token"

CheckDue == ChecksExisting /\ signed /\ ~checked /\ ownReviews[Key] # None

CheckExisting ==
    /\ CheckDue /\ checked' = TRUE
    /\ editingId' = IF MyReview = {} THEN editingId ELSE CHOOSE id \in MyReview : TRUE
    /\ UNCHANGED <<entry, signed, place, sort, mine, usedIds, ownReviews, visited, loading,
                   listFetch, open, submit, job, askedId, warning, moves, excuse>>
    /\ reviewForm' = Render(reviewForm)

----------------------------------------------------------------------------
\* The form.

Opens(ed) ==
    /\ open' = TRUE /\ editingId' = ed
    /\ UNCHANGED <<entry, signed, place, sort, mine, usedIds, ownReviews, visited, loading,
                   listFetch, checked, submit, job, askedId, warning, moves, excuse>>
    /\ reviewForm' = Render(reviewForm)

\* "Write a Review" is there while no own review is listed and no form is open.
OpenWriteForm == Active /\ MyReview = {} /\ ~open /\ Opens(None)
OpenEditForm == Active /\ \E id \in MyReview : Opens(id)

Closes(resetEditing) ==
    /\ open' = FALSE
    /\ editingId' = IF resetEditing THEN None ELSE editingId

CancelWriteForm ==
    /\ Active /\ reviewForm # None /\ Closes(TRUE) /\ reviewForm' = None
    /\ UNCHANGED <<entry, signed, place, sort, mine, usedIds, ownReviews, visited, loading,
                   listFetch, checked, submit, job, askedId, warning, moves, excuse>>

\* A draft takes the text but no photos, and is not offered for a review that
\* is published or on a scanned page.
SaveDraft ==
    /\ Active /\ reviewForm # None /\ reviewForm.typed /\ reviewForm.key = New /\ entry = "id"
    /\ Closes(FALSE) /\ reviewForm' = None
    /\ UNCHANGED <<entry, signed, place, sort, mine, usedIds, ownReviews, visited, loading,
                   listFetch, checked, submit, job, askedId, warning, moves, excuse>>

Type ==
    /\ Active /\ reviewForm # None
    /\ reviewForm' = [reviewForm EXCEPT !.typed = TRUE]
    /\ UNCHANGED <<entry, signed, place, sort, mine, usedIds, ownReviews, visited, loading,
                   listFetch, open, editingId, checked, submit, job, askedId, warning, moves,
                   excuse>>

\* A new review takes pending photos along, up to the cap of their picker.
Pickable == IF reviewForm.key = New THEN 0..MAX_PHOTOS ELSE {0}

\* The button needs a rating and a text, and no submission that runs.  The
\* handler keeps the place, the target and the picked photos of the click.
SubmitReview ==
    /\ Active /\ reviewForm # None /\ submit = None
    /\ reviewForm.typed \/ reviewForm.base # New
    /\ \E n \in Pickable :
         submit' = [edit |-> EditingReview, at |-> place, todo |-> n, failed |-> 0, missing |-> 0,
                    step |-> "send"]
    /\ warning' = FALSE
    /\ UNCHANGED <<entry, signed, place, sort, mine, usedIds, ownReviews, visited, loading,
                   listFetch, open, editingId, checked, reviewForm, job, askedId, moves, excuse>>

RefetchReviews == listFetch' = [key |-> Key, got |-> None]
RefetchAll == loading' = TRUE /\ RefetchReviews

\* After the mutation, and after the photos of a new review, the handler
\* closes the form, whichever is open by then, and refetches.
Finish ==
    /\ submit' = [submit EXCEPT !.step = "refetch"]
    /\ RefetchAll
    /\ Closes(TRUE) /\ reviewForm' = None

(* createReview is refused if there is one, updateReview if there is none. *)
Published ==
    IF submit.edit = New
    THEN /\ mine[submit.at] = None
         /\ ReviewIds # usedIds
         /\ mine' = [mine EXCEPT ![submit.at] = NextId] /\ usedIds' = usedIds \cup {NextId}
    ELSE /\ mine[submit.at] = submit.edit
         /\ UNCHANGED <<mine, usedIds>>
SendSucceeds ==
    /\ submit # None /\ submit.step = "send"
    /\ Published
    /\ IF submit.edit = New /\ submit.todo > 0
       THEN /\ submit' = [submit EXCEPT !.step = "photos"]
            /\ UNCHANGED <<loading, listFetch, open, editingId, reviewForm>>
       ELSE Finish
    /\ UNCHANGED <<entry, signed, place, sort, ownReviews, visited, checked, job, askedId,
                   warning, moves, excuse>>

\* Refused, or published with the answer lost on its way.
SendFails ==
    /\ submit # None /\ submit.step = "send"
    /\ submit' = None
    /\ \/ UNCHANGED <<mine, usedIds, excuse>>
       \/ Published /\ excuse' = TRUE
    /\ UNCHANGED <<entry, signed, place, sort, ownReviews, visited, loading, listFetch, open,
                   editingId, checked, reviewForm, job, askedId, warning, moves>>

\* Promise.allSettled: one photo after the other ends, attached or not; a
\* photo that was attached may still be counted as failed.
PhotoEnds ==
    /\ submit # None /\ submit.step = "photos" /\ submit.todo > 0
    /\ \E attached, reported \in BOOLEAN :
         /\ reported => attached
         /\ submit' = [submit EXCEPT !.todo = @ - 1,
                                     !.failed = @ + (IF reported THEN 0 ELSE 1),
                                     !.missing = @ + (IF attached THEN 0 ELSE 1)]
    /\ UNCHANGED <<entry, signed, place, sort, mine, usedIds, ownReviews, visited, loading,
                   listFetch, open, editingId, checked, reviewForm, job, askedId, warning, moves,
                   excuse>>

Warns == submit.failed > 0

PhotosSettled ==
    /\ submit # None /\ submit.step = "photos" /\ submit.todo = 0
    /\ warning' = Warns
    /\ Finish
    /\ UNCHANGED <<entry, signed, place, sort, mine, usedIds, ownReviews, visited, checked, job,
                   askedId, moves, excuse>>

----------------------------------------------------------------------------
\* Deleting the own review and voting for one of another visitor.

AskDelete ==
    /\ Active /\ askedId = None /\ \E id \in MyReview : askedId' = id
    /\ UNCHANGED <<entry, signed, place, sort, mine, usedIds, ownReviews, visited, loading,
                   listFetch, open, editingId, checked, reviewForm, submit, job, warning, moves,
                   excuse>>

CloseDialog ==
    /\ Displayed /\ askedId # None /\ askedId' = None
    /\ UNCHANGED <<entry, signed, place, sort, mine, usedIds, ownReviews, visited, loading,
                   listFetch, open, editingId, checked, reviewForm, submit, job, warning, moves,
                   excuse>>

\* Confirming starts the deletion and closes the dialog in the same task.
ConfirmDelete ==
    /\ Displayed /\ askedId # None /\ job = None
    /\ job' = [id |-> askedId, step |-> "send"] /\ askedId' = None
    /\ UNCHANGED <<entry, signed, place, sort, mine, usedIds, ownReviews, visited, loading,
                   listFetch, open, editingId, checked, reviewForm, submit, warning, moves,
                   excuse>>

ToggleHelpful ==
    /\ Active /\ job = None /\ ownReviews[Key] # None
    /\ job' = [id |-> None, step |-> "send"]
    /\ UNCHANGED <<entry, signed, place, sort, mine, usedIds, ownReviews, visited, loading,
                   listFetch, open, editingId, checked, reviewForm, submit, askedId, warning,
                   moves, excuse>>

Deleted == mine' = [p \in Places |-> IF mine[p] = job.id THEN None ELSE mine[p]]

RefetchesTooMuch(j) == TRUE          \* (mutant) a vote reads the place again as well

(* The job is a deletion: a vote reads the reviews alone. *)
RefetchesPlace(j) == j.id # None

JobSucceeds ==
    /\ job # None /\ job.step = "send"
    /\ Deleted
    /\ job' = [job EXCEPT !.step = "refetch"]
    /\ IF RefetchesPlace(job) THEN RefetchAll ELSE RefetchReviews /\ UNCHANGED loading
    /\ UNCHANGED <<entry, signed, place, sort, usedIds, ownReviews, visited, open, editingId,
                   checked, submit, askedId, warning, moves, excuse>>
    /\ reviewForm' = Render(reviewForm)

JobFails ==
    /\ job # None /\ job.step = "send" /\ job' = None
    /\ \/ UNCHANGED <<mine, excuse>>
       \/ Deleted /\ excuse' = TRUE
    /\ UNCHANGED <<entry, signed, place, sort, usedIds, ownReviews, visited, loading, listFetch,
                   open, editingId, checked, reviewForm, submit, askedId, warning, moves>>

----------------------------------------------------------------------------
\* The list query.  A scanned page asks for its list once it knows its place.

ReadList ==
    /\ listFetch.key # None /\ listFetch.got = None
    /\ entry = "token" => place \in visited
    /\ listFetch' = [listFetch EXCEPT !.got = IF listFetch.key[2] \in Buried THEN {} ELSE {mine[listFetch.key[1]]} \ {None}]
    /\ excuse' = (excuse /\ listFetch.key # Key)
    /\ UNCHANGED <<entry, signed, place, sort, mine, usedIds, ownReviews, visited, loading, open,
                   editingId, checked, reviewForm, submit, job, askedId, warning, moves>>

FillList ==
    /\ listFetch.got # None
    /\ ownReviews' = [ownReviews EXCEPT ![listFetch.key] = listFetch.got]
    /\ listFetch' = NoFetch
    /\ UNCHANGED <<entry, signed, place, sort, mine, usedIds, visited, loading, open, editingId,
                   checked, submit, job, askedId, warning, moves, excuse>>
    /\ reviewForm' = Render(reviewForm)

\* A handler waits for the latest request of each query that it refetches, and
\* is rejected by the first that fails.
Waits(x) == x # None /\ x.step = "refetch"

SubmitEnds ==
    /\ Waits(submit) /\ listFetch = NoFetch /\ ~loading /\ submit' = None
    /\ UNCHANGED <<entry, signed, place, sort, mine, usedIds, ownReviews, visited, loading,
                   listFetch, open, editingId, checked, reviewForm, job, askedId, warning, moves,
                   excuse>>

JobEnds ==
    /\ Waits(job) /\ listFetch = NoFetch /\ (RefetchesPlace(job) => ~loading) /\ job' = None
    /\ UNCHANGED <<entry, signed, place, sort, mine, usedIds, ownReviews, visited, loading,
                   listFetch, open, editingId, checked, reviewForm, submit, askedId, warning,
                   moves, excuse>>

WaitersFail(x) == IF Waits(x) THEN None ELSE x

ListFails ==
    /\ listFetch.key # None /\ listFetch' = NoFetch /\ excuse' = TRUE
    /\ submit' = WaitersFail(submit) /\ job' = WaitersFail(job)
    /\ UNCHANGED <<entry, signed, place, sort, mine, usedIds, ownReviews, visited, loading, open,
                   editingId, checked, reviewForm, askedId, warning, moves>>

\* What the cache has of the place, if anything, is shown.
PlaceFails ==
    /\ loading /\ loading' = FALSE
    /\ submit' = WaitersFail(submit)
    /\ job' = IF Waits(job) /\ RefetchesPlace(job) THEN None ELSE job
    /\ UNCHANGED <<entry, signed, place, sort, mine, usedIds, ownReviews, visited, listFetch,
                   open, editingId, checked, askedId, warning, moves, excuse>>
    /\ reviewForm' = Render(reviewForm)

\* React runs a due effect before it handles the next event.
Event ==
    \/ \E e \in {"id", "token"} : Arrive(e)
    \/ SignIn
    \/ \E p \in Places : GoTo(p)
    \/ \E s \in Sorts : SelectSort(s)
    \/ OpenWriteForm \/ OpenEditForm \/ CancelWriteForm \/ SaveDraft \/ Type
    \/ SubmitReview \/ SendSucceeds \/ SendFails \/ PhotoEnds \/ PhotosSettled
    \/ AskDelete \/ CloseDialog \/ ConfirmDelete \/ ToggleHelpful \/ JobSucceeds \/ JobFails
    \/ ReadList \/ FillList \/ ListFails \/ PlaceArrives \/ PlaceFails \/ SubmitEnds \/ JobEnds

Next == CheckExisting \/ (~CheckDue /\ Event)

Spec == Init /\ [][Next]_vars

----------------------------------------------------------------------------
\* An update of a published review is sent from a form that was filled with
\* that review, never from a blank one that was open before the list came.
EditStartsFromPublished ==
    [][submit = None /\ submit' # None => reviewForm.base = submit'.edit]_vars

\* What a visitor typed into a new review stays as long as the visitor neither
\* closes the form, nor sends it, nor picks another place or target: no vote
\* and no answer takes it away, whichever query it answers.  The deletion of
\* the own review is the exception, since it reads the place again.
AnswersKeepTypedText ==
    [][/\ reviewForm # None /\ reviewForm.typed /\ editingId = None /\ submit = None
       /\ job = None \/ job.id = None
       /\ UNCHANGED <<place, open, editingId>>
       => reviewForm' = reviewForm]_vars

\* When nothing runs, the own review is in the list if and only if it is
\* published, whatever was posted, edited and deleted in which order: unless
\* another device changed it, a request failed or the list is an older one.
MyReviewShows ==
    entry # "closed" /\ ownReviews[Key] # None /\ submit = None /\ job = None /\ listFetch = NoFetch /\ ~excuse =>
        ownReviews[Key] = IF sort \in Buried THEN {} ELSE {mine[place]} \ {None}

\* A review that was posted without one of its photos says so.
MissingPhotosAreReported ==
    [][submit # None /\ submit.step = "photos" /\ submit.missing > 0 /\ submit'.step = "refetch" => warning']_vars
============================================================================
