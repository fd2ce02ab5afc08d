---------------------------- MODULE ListScreens ----------------------------
(***************************************************************************)
(* The screens that show a list of the user's rows and edit them one by    *)
(* one: notifications, saved places, the owner's reviews, the user's       *)
(* reviews and the active sessions.  Each handler awaits its mutation and  *)
(* then refetches the list.  Apollo keeps one list per set of variables    *)
(* (a tab or a sort is a key) and one entity per row; a list that is in    *)
(* the cache is shown without asking the server again, and only the latest *)
(* request of a query is written to the cache.  While a list is read again *)
(* most screens show "Loading" in its place; that takes the cards off the  *)
(* page, and with them the state that disables their buttons.              *)
(***************************************************************************)
EXTENDS Integers, FiniteSets, TLC

CONSTANTS
    Items,      \* rows of the list
    Mine,       \* of them, the session of this browser (a row of no other list)
    Calls,      \* handlers that can run at the same time
    None,       \* no value
    MAX_OTHERS, \* bound on edits by another device
    MAX_EDITS   \* bound on all edits

VARIABLES
    kind,    \* the screen, or "closed"
    here,    \* it is on display (not another page of the app)
    waiting, \* "Loading" stands where its list will be
    rows,    \* the server's rows
    key,     \* the variables of the query
    lists,   \* Apollo: the items of each list read so far
    known,   \* Apollo: the entities
    calls,   \* the handlers that run
    fetch,   \* the latest request of the query
    editing, \* My Reviews: the review whose editor is open
    others, edits,
    excuse   \* history: the list may be older than the last edit

vars ==
    <<kind, here, waiting, rows, key, lists, known, calls, fetch, editing, others, edits, excuse>>

Gone == "gone"
Kinds == {"notices", "saved", "replies", "reviews", "sessions"}

NoticeValues == {"unread", "read"}
SavedValues == {"SAVED", "FAVORITE"}
ReplyValues == {"bare", "replied"}
ReviewValues == {"r1", "r2"}

Values(k) ==
    CASE k = "notices" -> NoticeValues
      [] k = "saved" -> SavedValues
      [] k = "replies" -> ReplyValues
      [] k = "reviews" -> ReviewValues
      [] OTHER -> {"live"}

\* The tabs of the owner's notifications and the sorts of the owner's reviews
\* are variables of the query; other tabs filter what is loaded.
NoticeTabs == {"ALL", "UNREAD"}
ReviewSorts == {"ALL", "HELPFUL"}

Keys(k) ==
    CASE k = "notices" -> NoticeTabs
      [] k = "replies" -> ReviewSorts
      [] OTHER -> {"ALL"}

AllKeys == NoticeTabs \cup ReviewSorts

Unread == {i \in Items : rows[i] = "unread"}
Live == {i \in Items : rows[i] # Gone}
View(k) == IF k = "UNREAD" THEN Unread ELSE Live

Shown == IF lists[key] = None THEN {} ELSE lists[key]

(* The rows with a card on the page; Shown are the ones the page has data of. *)
Display == IF here /\ ~waiting THEN Shown ELSE {}

\* The owner's reviews are kept on the page while they are read again.
Waits == kind # "replies"
Listed == UNION {lists[k] : k \in {x \in AllKeys : lists[x] # None}}
Idle ==
    [edit |-> None, for |-> {}, todo |-> {}, to |-> None, on |-> None, step |-> None,
     mounted |-> FALSE, seen |-> FALSE, alone |-> FALSE]
NoFetch == [by |-> None, key |-> None, got |-> None, was |-> [i \in Items |-> Gone]]
Running == {c \in Calls : calls[c] # Idle}
Fetch(by, k) == [NoFetch EXCEPT !.by = by, !.key = k]

TypeOK ==
    /\ kind \in Kinds \cup {"closed"} /\ {here, waiting, excuse} \subseteq BOOLEAN
    /\ waiting \/ fetch # NoFetch => here
    /\ kind # "closed" =>
         /\ \A i \in Items : {rows[i], known[i]} \subseteq Values(kind) \cup {Gone}
         /\ key \in Keys(kind)
    /\ \A k \in AllKeys : lists[k] = None \/ lists[k] \subseteq Items
    /\ \A c \in Running : calls[c].step \in {"edit", "refetch", "orphan"}
    /\ fetch.by \in Calls \cup {None, "load"}
    /\ editing \in Items \cup {None}
    /\ others \in 0..MAX_OTHERS /\ edits \in 0..MAX_EDITS

Init ==
    /\ kind = "closed" /\ here = FALSE /\ waiting = FALSE
    /\ rows = [i \in Items |-> Gone] /\ known = [i \in Items |-> Gone]
    /\ key = "ALL" /\ lists = [k \in AllKeys |-> None]
    /\ calls = [c \in Calls |-> Idle] /\ fetch = NoFetch
    /\ editing = None /\ others = 0 /\ edits = 0 /\ excuse = FALSE

----------------------------------------------------------------------------
\* The buttons that are disabled while what they started runs.  The state that
\* says so belongs to the card, or to the section of the page, and is lost with
\* it: Forgets says which buttons kept theirs.

SaveButton == <<"save", None>>
SignOutButton == <<"signOut", None>>
CardButtons(is) == {"remove", "delete", "reply"} \X is
Forgets(cs, kept) == [c \in Calls |-> IF cs[c].on \in kept THEN cs[c] ELSE [cs[c] EXCEPT !.on = None]]

(* The cards that a step of the list leaves on the page keep their state. *)
Rerendered(cs) == Forgets(cs, {None, SaveButton, SignOutButton} \cup CardButtons(Display'))

\* Opening a screen, and what the query hook does when it mounts or when its
\* variables change: a list that is in the cache is shown as it is.

Load(k) ==
    IF lists[k] = None
    THEN fetch' = Fetch("load", k) /\ waiting' = Waits' /\ excuse' = FALSE
    ELSE waiting' = FALSE /\ excuse' = TRUE /\ UNCHANGED fetch

Open(k) ==
    /\ kind = "closed"
    /\ kind' = k /\ here' = TRUE
    /\ \E s \in [Items -> Values(k) \cup {Gone}] :
         /\ s[Mine] = IF k = "sessions" THEN "live" ELSE Gone
         /\ rows' = s
    /\ key' = "ALL" /\ Load("ALL")
    /\ UNCHANGED <<lists, known, calls, editing, others, edits>>

\* Another page of the app: component state goes, handlers run on.
Leave ==
    /\ here
    /\ here' = FALSE /\ waiting' = FALSE /\ editing' = None /\ fetch' = NoFetch
    /\ calls' = [c \in Calls |-> [Forgets(calls, {})[c] EXCEPT !.mounted = FALSE]]
    /\ UNCHANGED <<kind, rows, key, lists, known, others, edits, excuse>>

Return ==
    /\ kind # "closed" /\ ~here
    /\ here' = TRUE /\ key' = "ALL" /\ UNCHANGED kind /\ Load("ALL")
    /\ UNCHANGED <<rows, lists, known, calls, editing, others, edits>>

SelectTab(k) ==
    /\ here /\ k \in Keys(kind) \ {key}
    /\ key' = k /\ UNCHANGED <<kind, here>> /\ Load(k)
    /\ UNCHANGED lists /\ calls' = Rerendered(calls)
    /\ UNCHANGED <<rows, known, editing, others, edits>>

\* A tab, a filter or a section that is no variable of the query takes some
\* cards off the page, or the sign-out button, and puts them back.
Filter(i) ==
    /\ here /\ kind # "reviews"
    /\ \E c \in Running : calls[c].on \in {SignOutButton} \cup CardButtons({i})
    /\ calls' = Forgets(calls, {None} \cup CardButtons(Items \ {i}))
    /\ UNCHANGED <<kind, here, waiting, rows, key, lists, known, fetch, editing, others, edits,
                   excuse>>

----------------------------------------------------------------------------
\* What the buttons of each screen start: the kind of edit, the rows it is
\* about, the value it asks for and the button that is disabled while it runs.
\* History: whether the rows were as they were shown when it was clicked, and
\* whether no other click was about to toggle the same row.

Edit(e, is, v, button) ==
    [edit |-> e, for |-> is, todo |-> is, to |-> v, on |-> button, step |-> "edit",
     mounted |-> TRUE, seen |-> \A i \in is : rows[i] = known[i], alone |-> TRUE]

NeverBusy(button) == FALSE          \* (mutant) the button stays enabled

(* A button that is waiting for its handler. *)
Busy(button) == \E c \in Running : calls[c].on = button /\ calls[c].step # "orphan"

NoticeClicks ==
    {Edit("mark", {i}, "read", None) : i \in {j \in Display : known[j] = "unread"}}
    \cup {Edit("markAll", Items \ {Mine}, "read", None)}
    \cup {Edit("delete", {i}, Gone, <<"delete", i>>) : i \in Display}

\* The cards of the "Reviewed" tab have no buttons.
SavedClicks ==
    {Edit("toggle", {i}, None, <<"remove", i>>) : i \in Display}
    \cup {Edit("move", {m[1]}, m[2], None) : m \in Display \X SavedValues}

\* Only a review that is shown without a reply offers the form.
ReplyClicks ==
    {Edit("reply", {i}, "replied", <<"reply", i>>) : i \in {j \in Display : known[j] = "bare"}}

(* The card whose editor is open. *)
Edited == Display \cap {editing}

\* One flag of the page disables the save button of every card.  A confirmed
\* deletion closes its dialog, which is not part of the list, and disables nothing.
ReviewClicks ==
    {Edit("save", {m[1]}, m[2], SaveButton) : m \in Edited \X ReviewValues}
    \cup {Edit("remove", {i}, Gone, None) : i \in Shown}

\* The session of this browser has no button, and the sweep leaves it out; the
\* sweep does not wait for the list.
SecurityClicks == {Edit("revoke", {i}, Gone, None) : i \in Display \ {Mine}}
OtherSessions == IF here THEN Shown \ {Mine} ELSE {}
DangerClicks ==
    IF OtherSessions = {} THEN {} ELSE {Edit("revokeAll", OtherSessions, Gone, SignOutButton)}

Clicks ==
    CASE kind = "notices" -> NoticeClicks
      [] kind = "saved" -> {e \in SavedClicks : \A i \in e.todo : e.to # known[i]}
      [] kind = "replies" -> ReplyClicks
      [] kind = "reviews" -> ReviewClicks
      [] OTHER -> SecurityClicks \cup DangerClicks

(* The toggles of the same row whose buttons have come back too early. *)
Doubled(e) ==
    {c \in Running : e.edit = "toggle" /\ calls[c].on = None /\ calls[c].todo \cap e.todo # {}}

Click(c) ==
    /\ here /\ calls[c] = Idle /\ edits + others < MAX_EDITS
    /\ \E e \in Clicks :
         /\ e.on = None \/ ~Busy(e.on)
         /\ calls' = [x \in Calls |-> IF x = c THEN [e EXCEPT !.alone = Doubled(e) = {}]
                                      ELSE IF x \in Doubled(e) THEN [calls[x] EXCEPT !.alone = FALSE]
                                      ELSE calls[x]]
    /\ edits' = edits + 1
    /\ UNCHANGED <<kind, here, waiting, rows, key, lists, known, fetch, editing, others, excuse>>

StartEdit(i) ==
    /\ kind = "reviews" /\ i \in Display /\ editing' = i
    /\ UNCHANGED <<kind, here, waiting, rows, key, lists, known, calls, fetch, others, edits,
                   excuse>>

CancelEdit ==
    /\ editing \in Display /\ editing' = None
    /\ UNCHANGED <<kind, here, waiting, rows, key, lists, known, calls, fetch, others, edits,
                   excuse>>

----------------------------------------------------------------------------
\* The mutation at the server and its answer.

(* A toggle saves what is not saved; an update of a missing row is refused,
   and moving a place that is no longer saved answers null. *)
Refused(e, i) ==
    \/ e.edit \in {"mark", "delete", "save", "remove", "revoke", "revokeAll"} /\ rows[i] = Gone
    \/ e.edit = "reply" /\ rows[i] # "bare"

Effect(e, i) ==
    CASE e.edit = "toggle" -> IF rows[i] = Gone THEN "SAVED" ELSE Gone
      [] e.edit \in {"move", "markAll"} -> IF rows[i] = Gone THEN Gone ELSE e.to
      [] OTHER -> e.to

Closes(c) == editing' = IF calls[c].edit = "save" THEN None ELSE editing

AnsweredOnly(c) ==                    \* (mutant) forgets the refetch
    /\ Closes(c)
    /\ calls' = [calls EXCEPT ![c] = Idle]
    /\ UNCHANGED <<fetch, waiting>>

\* Once the mutation is answered the handler refetches with the variables of
\* the moment; in My Reviews the editor closes first, whichever it is.  The
\* settings do not wait for their refetch.  The query of a page that is gone
\* loads nothing for a page that has come back.
Answered(c) ==
    /\ Closes(c)
    /\ fetch' = IF calls[c].mounted THEN Fetch(c, key) ELSE fetch
    /\ waiting' = IF calls[c].mounted THEN Waits ELSE waiting
    /\ calls' = Rerendered([calls EXCEPT ![c].todo = {}, ![c].step = "refetch",
                                         ![c].on = IF kind = "sessions" THEN None ELSE @])

Settle(c, done) ==
    IF calls[c].step = "orphan"
    THEN /\ calls' = [calls EXCEPT ![c] = IF calls[c].todo = done THEN Idle
                                          ELSE [calls[c] EXCEPT !.todo = @ \ done]]
         /\ UNCHANGED <<fetch, waiting, editing>>
    ELSE IF calls[c].todo = done THEN Answered(c)
    ELSE /\ calls' = [calls EXCEPT ![c].todo = @ \ done]
         /\ UNCHANGED <<fetch, waiting, editing>>

\* Of the answers, only that of a move carries the row, and the cache takes it.
Carried(c, i) == calls[c].edit = "move" /\ rows[i] # Gone

\* One statement of the mutation: a single row, or all of them.
Commit(c) ==
    /\ calls[c].step \in {"edit", "orphan"}
    /\ \E is \in IF calls[c].edit = "markAll" THEN {calls[c].todo} ELSE {{i} : i \in calls[c].todo} :
         /\ \A i \in is : ~Refused(calls[c], i)
         /\ rows' = [i \in Items |-> IF i \in is THEN Effect(calls[c], i) ELSE rows[i]]
         /\ known' = [i \in Items |-> IF i \in is /\ Carried(c, i) THEN calls[c].to ELSE known[i]]
         /\ UNCHANGED <<kind, here, key, lists>> /\ Settle(c, is)
    /\ excuse' = (excuse \/ calls[c].step = "orphan" \/ ~calls[c].mounted)
    /\ UNCHANGED <<others, edits>>

\* A refused or lost mutation rejects the handler, and Promise.all with its
\* first failure: buttons come back, nothing is refetched, and what else was
\* sent still takes effect.
Rejected(c, i) ==
    calls' = [calls EXCEPT ![c] = IF calls[c].todo = {i} \/ calls[c].edit = "markAll" THEN Idle
                                  ELSE [calls[c] EXCEPT !.todo = @ \ {i}, !.step = "orphan"]]

Reject(c) ==
    /\ calls[c].step \in {"edit", "orphan"}
    /\ \E i \in calls[c].todo :
         /\ Rejected(c, i)
         /\ \/ UNCHANGED rows
            \/ ~Refused(calls[c], i) /\ rows' = [rows EXCEPT ![i] = Effect(calls[c], i)]
    /\ excuse' = TRUE
    /\ UNCHANGED <<kind, here, waiting, key, lists, known, fetch, editing, others, edits>>

----------------------------------------------------------------------------
\* The list query.

Read ==
    /\ fetch.by # None /\ fetch.got = None
    /\ fetch' = [fetch EXCEPT !.got = View(fetch.key), !.was = rows]
    /\ excuse' = (excuse /\ fetch.key # key)
    /\ UNCHANGED <<kind, here, waiting, rows, key, lists, known, calls, editing, others, edits>>

End(c) == [x \in Calls |-> IF x = c THEN Idle ELSE calls[x]]

(* Apollo writes an answer: the list of its key, and the rows it lists. *)
Takes(k, got, was) ==
    /\ lists' = [lists EXCEPT ![k] = got]
    /\ known' = [i \in Items |-> IF i \in got THEN was[i] ELSE known[i]]

Fill ==
    /\ fetch.got # None
    /\ Takes(fetch.key, fetch.got, fetch.was)
    /\ fetch' = NoFetch /\ waiting' = FALSE
    /\ UNCHANGED <<kind, here, key>> /\ calls' = Rerendered(End(fetch.by))
    /\ UNCHANGED <<rows, editing, others, edits, excuse>>

(* What the cache holds of the list is shown again. *)
FetchFails ==
    /\ fetch.by # None
    /\ fetch' = NoFetch /\ waiting' = FALSE /\ excuse' = TRUE
    /\ UNCHANGED <<kind, here, key, lists>> /\ calls' = Rerendered(End(fetch.by))
    /\ UNCHANGED <<rows, known, editing, others, edits>>

\* The answer to a request that a later one has replaced is not written, and
\* the one of a page that is gone need not be.
Outdated(c) ==
    /\ calls[c].step = "refetch" /\ fetch.by # c
    /\ calls' = End(c)
    /\ UNCHANGED <<kind, here, waiting, rows, key, lists, known, fetch, editing, others, edits,
                   excuse>>

(* It is written when its request was not cancelled with the page. *)
LateAnswer(c) ==
    /\ calls[c].step = "refetch" /\ ~calls[c].mounted
    /\ \E k \in Keys(kind) : Takes(k, View(k), rows)
    /\ excuse' = TRUE
    /\ UNCHANGED <<kind, here, waiting, key>> /\ calls' = Rerendered(End(c))
    /\ UNCHANGED <<rows, fetch, editing, others, edits>>

\* Another device of the user, another user or a job.  Except for saved
\* places, a row that was deleted does not come back: a free row stands for a
\* new one only when no list, answer or handler names it.
Elsewhere(i) ==
    /\ kind # "closed" /\ others < MAX_OTHERS /\ edits + others < MAX_EDITS
    /\ others' = others + 1 /\ excuse' = TRUE
    /\ i # Mine \/ kind = "sessions"
    /\ rows[i] = Gone /\ kind # "saved" =>
         i \notin Listed /\ fetch.was[i] = Gone /\ \A c \in Calls : i \notin calls[c].for
    /\ \E v \in (Values(kind) \cup {Gone}) \ {rows[i]} : rows' = [rows EXCEPT ![i] = v]
    /\ calls' = [c \in Calls |-> [calls[c] EXCEPT !.seen = FALSE]]
    /\ UNCHANGED <<kind, here, waiting, key, lists, known, fetch, editing, edits>>

Next ==
    \/ \E k \in Kinds : Open(k)
    \/ Leave \/ Return
    \/ \E k \in AllKeys : SelectTab(k)
    \/ \E i \in Items : Filter(i) \/ StartEdit(i) \/ Elsewhere(i)
    \/ CancelEdit
    \/ \E c \in Calls : Click(c) \/ Commit(c) \/ Reject(c) \/ Outdated(c) \/ LateAnswer(c)
    \/ Read \/ Fill \/ FetchFails

Spec == Init /\ [][Next]_vars

----------------------------------------------------------------------------
\* When the handlers of a screen have ended, the list on display is the
\* server's, with its values, whatever their order and overlap: unless
\* somebody else edited the rows since it was read, a request failed, or the
\* list came out of the cache.
ListShowsOwnEdits ==
    here /\ lists[key] # None /\ Running = {} /\ fetch = NoFetch /\ ~excuse =>
        /\ lists[key] = View(key)
        /\ \A i \in lists[key] : known[i] = rows[i]

\* "Remove from saved places" never saves a place, though the mutation is a
\* toggle and buttons are quick to click: if the place was saved as shown at
\* the click, no other device changed it since, and its card did not leave the
\* page and come back, with its button enabled, while the first click ran.
RemoveNeverSaves ==
    [][\A c \in Calls : \A i \in calls[c].todo :
         calls[c].edit = "toggle" /\ calls[c].seen /\ calls[c].alone /\ rows[i] = Gone =>
             rows'[i] = Gone \/ others' # others]_vars

\* The claim "clicked the remove button and confirmed the place dropped out of
\* every list" (docs/specs/phase-5-saved-places.md:138), without the condition on
\* cards that come back.
RemoveRemoves ==
    [][\A c \in Calls : \A i \in calls[c].todo :
         calls[c].edit = "toggle" /\ calls[c].seen /\ rows[i] = Gone =>
             rows'[i] = Gone \/ others' # others]_vars

\* When "sign out of all other devices" goes on to its refetch, every session
\* that was listed at the click has ended, though the revocations run in
\* parallel and each may fail; the browser's own session never does.
SweepEndsOthers ==
    [][\A c \in Calls :
         calls[c].edit = "revokeAll" /\ calls[c].step = "edit" /\ others' = others =>
             /\ rows'[Mine] = rows[Mine]
             /\ calls'[c].step = "refetch" => \A i \in calls[c].for : rows'[i] = Gone]_vars
============================================================================
