--------------------------- MODULE MyListingPage ---------------------------
(***************************************************************************)
(* The owner's editor of the listing.  The form is seeded once per mount   *)
(* from the place in Apollo's cache, with a default for a price tier that  *)
(* the place does not have.  Saving sends the place, its texts trimmed,    *)
(* then its week, then reads the place again, and only then takes the form *)
(* as it was sent, untrimmed, as the baseline that later edits are         *)
(* compared with.  The button waits for the two mutations but not for the  *)
(* last read, so that saves can overlap.  A week is the hours of the days  *)
(* that are open.                                                          *)
(***************************************************************************)
EXTENDS Integers, TLC

CONSTANTS
    Notes,       \* texts of an optional field (description, website)
    Blank,       \* such a field left empty
    Trim,        \* each text without the spaces around it
    Tiers, DefaultTier,  \* price tiers, "MEDIUM"
    NoTier,      \* a place without a tier
    Weeks,       \* opening hours
    Saves,       \* handlers that can run at the same time
    None,
    MAX_OTHERS,  \* bound on edits by another device
    MAX_SAVES    \* bound on these and on saves

VARIABLES
    page,      \* "closed", "shown" or "away"
    server,    \* the place's row and its week
    cached,    \* Apollo's copy of it, or None
    form,      \* what the fields show, or None
    baseline,
    saves,     \* the handlers that run
    reread,    \* what the refetch of a handler was answered, or None
    begun, others,
    excuse     \* history: the server may differ from what was saved last

vars == <<page, server, cached, form, baseline, saves, reread, begun, others, excuse>>

Listing == [note : Notes \cup {Blank}, tier : Tiers \cup {NoTier}, week : Weeks]
ListingForm == [note : Notes \cup {Blank}, tier : Tiers, week : Weeks]

(* What the fields show of a place.  A place without a category is shown the
   first one in the same way; the tier stands for both. *)
TierShown(l) == IF l.tier = NoTier THEN DefaultTier ELSE l.tier
Seeded(l) == [l EXCEPT !.tier = TierShown(l)]

Idle == [sent |-> None, step |-> "idle", mounted |-> FALSE]
Running == {s \in Saves : saves[s] # Idle}
Saving == \E s \in Saves : saves[s].step \in {"place", "hours"} /\ saves[s].mounted
Dirty == form # None /\ form # baseline

TypeOK ==
    /\ page \in {"closed", "shown", "away"} /\ excuse \in BOOLEAN
    /\ server \in Listing
    /\ cached # None => cached \in Listing
    /\ \A x \in {form, baseline} : x # None => x \in ListingForm
    /\ (form = None) = (baseline = None) /\ (page # "shown" => form = None)
    /\ \A s \in Running : saves[s].sent \in ListingForm /\ saves[s].step \in {"place", "hours", "reread"}
    /\ \A s \in Saves : reread[s] # None => saves[s].step = "reread"
    /\ begun \in 0..MAX_SAVES /\ others \in 0..MAX_OTHERS

Init ==
    /\ page = "closed"
    /\ server = [note |-> Blank, tier |-> DefaultTier, week |-> CHOOSE w \in Weeks : TRUE]
    /\ cached = None /\ form = None /\ baseline = None
    /\ saves = [s \in Saves |-> Idle] /\ reread = [s \in Saves |-> None]
    /\ begun = 0 /\ others = 0 /\ excuse = FALSE

----------------------------------------------------------------------------
Open ==
    /\ page = "closed" /\ page' = "shown"
    /\ server' \in Listing
    /\ UNCHANGED <<cached, form, baseline, saves, reread, begun, others, excuse>>

(* A place that is in the cache is not read again. *)
ReadPlace ==
    /\ page = "shown" /\ cached = None
    /\ cached' = server
    /\ UNCHANGED <<page, server, form, baseline, saves, reread, begun, others, excuse>>

Seed ==
    /\ page = "shown" /\ cached # None /\ form = None
    /\ form' = Seeded(cached) /\ baseline' = Seeded(cached)
    /\ excuse' = (cached # server \/ Running # {})
    /\ UNCHANGED <<page, server, cached, saves, reread, begun, others>>

\* Another page: the handlers run on, for a page that is gone.
Leave ==
    /\ page = "shown" /\ page' = "away"
    /\ form' = None /\ baseline' = None
    /\ saves' = [s \in Saves |-> [saves[s] EXCEPT !.mounted = FALSE]]
    /\ UNCHANGED <<server, cached, reread, begun, others, excuse>>

Return ==
    /\ page = "away" /\ page' = "shown"
    /\ UNCHANGED <<server, cached, form, baseline, saves, reread, begun, others, excuse>>

(* patchForm and patchDay: fields stay editable while a save runs. *)
Patch ==
    /\ form # None
    /\ \/ \E n \in Notes \cup {Blank} : form' = [form EXCEPT !.note = n]
       \/ \E x \in Tiers : form' = [form EXCEPT !.tier = x]
       \/ \E w \in Weeks : form' = [form EXCEPT !.week = w]
    /\ UNCHANGED <<page, server, cached, baseline, saves, reread, begun, others, excuse>>

----------------------------------------------------------------------------
(* handleSave *)

Save(s) ==
    /\ Dirty /\ ~Saving /\ saves[s] = Idle /\ begun + others < MAX_SAVES
    /\ begun' = begun + 1
    /\ saves' = [saves EXCEPT ![s] = [sent |-> form, step |-> "place", mounted |-> TRUE]]
    /\ excuse' = (Running # {})
    /\ UNCHANGED <<page, server, cached, form, baseline, reread, others>>

\* "trim() || undefined": a field that is empty, or all spaces, is not sent,
\* and keeps its text.
Noted(l) == IF Trim[l.note] = Blank THEN server.note ELSE Trim[l.note]
Updated(l) == [server EXCEPT !.note = Noted(l), !.tier = l.tier]

PlaceUpdated(s) ==
    /\ saves[s].step = "place"
    /\ server' = Updated(saves[s].sent)
    /\ saves' = [saves EXCEPT ![s].step = "hours"]
    /\ excuse' = (excuse \/ ~saves[s].mounted)
    /\ UNCHANGED <<page, cached, form, baseline, reread, begun, others>>

HoursSet(s) ==
    /\ saves[s].step = "hours"
    /\ server' = [server EXCEPT !.week = saves[s].sent.week]
    /\ saves' = [saves EXCEPT ![s].step = "reread"]
    /\ excuse' = (excuse \/ ~saves[s].mounted)
    /\ UNCHANGED <<page, cached, form, baseline, reread, begun, others>>

Reread(s) ==
    /\ saves[s].step = "reread" /\ reread[s] = None
    /\ reread' = [reread EXCEPT ![s] = server]
    /\ UNCHANGED <<page, server, cached, form, baseline, saves, begun, others, excuse>>

\* What was sent becomes the baseline, not what the form shows by now.
SavedAs(s) == saves[s].sent

SaveEnds(s) ==
    /\ reread[s] # None
    /\ cached' = reread[s]
    /\ baseline' = IF saves[s].mounted THEN SavedAs(s) ELSE baseline
    /\ saves' = [saves EXCEPT ![s] = Idle] /\ reread' = [reread EXCEPT ![s] = None]
    /\ UNCHANGED <<page, server, form, begun, others, excuse>>

\* Refused by a validator or lost, before or after it took effect: the
\* baseline stays, and so does what earlier steps of the save have written.
SaveFails(s) ==
    /\ saves[s] # Idle
    /\ \/ UNCHANGED server
       \/ saves[s].step = "place" /\ server' = Updated(saves[s].sent)
       \/ saves[s].step = "hours" /\ server' = [server EXCEPT !.week = saves[s].sent.week]
    /\ saves' = [saves EXCEPT ![s] = Idle] /\ reread' = [reread EXCEPT ![s] = None]
    /\ excuse' = TRUE
    /\ UNCHANGED <<page, cached, form, baseline, begun, others>>

(* The gallery of the page, which reads the place again after each edit. *)
PhotosChanged ==
    /\ page = "shown" /\ form # None
    /\ cached' = server
    /\ UNCHANGED <<page, server, form, baseline, saves, reread, begun, others, excuse>>

(* The owner's other device. *)
Elsewhere ==
    /\ page # "closed" /\ others < MAX_OTHERS /\ begun + others < MAX_SAVES
    /\ others' = others + 1
    /\ server' \in Listing /\ excuse' = TRUE
    /\ UNCHANGED <<page, cached, form, baseline, saves, reread, begun>>

Next ==
    \/ Open \/ ReadPlace \/ Seed \/ Leave \/ Return \/ Patch \/ PhotosChanged \/ Elsewhere
    \/ \E s \in Saves :
         Save(s) \/ PlaceUpdated(s) \/ HoursSet(s) \/ Reread(s) \/ SaveEnds(s) \/ SaveFails(s)

Spec == Init /\ [][Next]_vars

----------------------------------------------------------------------------
\* A page without unsaved changes shows what the server holds, whatever was
\* typed while a save was under way, but for the spaces around a text, which
\* are not sent.  An optional field that was emptied is an exception, since it
\* is never sent, and so is a place without a price tier: the page shows the
\* default, and counts it as saved.  Excused are another device, a save
\* that failed half-way, two saves that overlap, and a form that was seeded
\* from an older copy or while an abandoned save was running.
CleanMeansSaved ==
    form # None /\ ~Dirty /\ Running = {} /\ ~excuse =>
        /\ form.week = server.week
        /\ form.tier = TierShown(server)
        /\ Trim[form.note] # Blank => Trim[server.note] = Trim[form.note]
============================================================================
