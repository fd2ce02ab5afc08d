---------------------------- MODULE LocalLists -----------------------------
(***************************************************************************)
(* Review drafts and promotions: lists that live in the browser's local    *)
(* storage only.  Each operation reads the stored list, changes it and     *)
(* writes it back in one task; a page keeps the copy it read last.  Two    *)
(* tabs of one browser share the storage, and days pass.                   *)
(***************************************************************************)
EXTENDS Integers, FiniteSets, TLC

CONSTANTS
    Windows,    \* tabs of the browser that show the page
    LocalIds,        \* drafts or promotions that can be made
    Texts,      \* what a draft says
    None,
    LastDay     \* days are 1..LastDay

VARIABLES
    section,     \* "drafts", "promotions" or "closed"
    stored,   \* local storage: the item under each id, or None
    made,     \* ids that were used
    copy,     \* the list each window shows, or None before it opened the page
    card,     \* DraftCard's editor: <<id, text>> or None
    today,      \* today
    confirming,    \* the draft whose deletion a window asks to confirm
    painted   \* the day of each window's last render

vars == <<section, stored, made, copy, card, today, confirming, painted>>

Days == 1..LastDay
Draft == [text : Texts]
Promotion == [from : Days, to : Days]
Free == LocalIds \ made
Has(list, id) == list # None /\ list[id] # None

TypeOK ==
    /\ section \in {"closed", "drafts", "promotions"}
    /\ made \subseteq LocalIds /\ today \in Days /\ painted \in [Windows -> Days]
    /\ \A id \in LocalIds :
         /\ stored[id] \in Draft \cup Promotion \cup {None}
         /\ stored[id] # None => id \in made
    /\ \A w \in Windows :
         /\ copy[w] # None => \A id \in LocalIds : copy[w][id] # None => id \in made
         /\ confirming[w] \in made \cup {None}
         /\ card[w] = None \/ card[w] \in made \X Texts

Init ==
    /\ section = "closed" /\ stored = [id \in LocalIds |-> None] /\ made = {}
    /\ copy = [w \in Windows |-> None] /\ card = [w \in Windows |-> None]
    /\ today = 1 /\ confirming = [w \in Windows |-> None] /\ painted = [w \in Windows |-> 1]

Start(s) ==
    /\ section = "closed" /\ section' = s
    /\ UNCHANGED <<stored, made, copy, card, today, confirming, painted>>

(* getDrafts, getPromotions *)
OpenPage(w) ==
    /\ section # "closed"
    /\ copy' = [copy EXCEPT ![w] = stored]
    /\ card' = [card EXCEPT ![w] = None] /\ confirming' = [confirming EXCEPT ![w] = None]
    /\ painted' = [painted EXCEPT ![w] = today]
    /\ UNCHANGED <<section, stored, made, today>>

\* The list an operation changes is the one it reads at that moment.
Base(w) == stored

\* What every handler of the pages does after its operation: read again.
Persist(w, list) ==
    /\ stored' = list
    /\ copy' = [copy EXCEPT ![w] = list]
    /\ painted' = [painted EXCEPT ![w] = today]

(* saveDraft, from the form of a place page: no list is on display there. *)
SaveDraft(w) ==
    /\ section = "drafts" /\ copy[w] = None
    /\ \E id \in Free, t \in Texts :
         /\ stored' = [stored EXCEPT ![id] = [text |-> t]]
         /\ made' = made \cup {id}
    /\ UNCHANGED <<section, copy, card, today, confirming, painted>>

\* A card takes its text from the draft once, when it mounts; what was typed
\* before a Cancel is still there, which Type stands for too.
ContinueWriting(w) ==
    /\ section = "drafts" /\ card[w] = None
    /\ \E id \in made : Has(copy[w], id) /\ card' = [card EXCEPT ![w] = <<id, copy[w][id].text>>]
    /\ UNCHANGED <<section, stored, made, copy, today, confirming, painted>>

Type(w) ==
    /\ card[w] # None
    /\ \E t \in Texts : card' = [card EXCEPT ![w][2] = t]
    /\ UNCHANGED <<section, stored, made, copy, today, confirming, painted>>

(* updateDraft: maps over the list, so that a missing draft stays missing. *)
Mapped(list, id, d) == IF list[id] = None THEN list ELSE [list EXCEPT ![id] = d]

UpdateDraft(w) ==
    /\ card[w] # None
    /\ Persist(w, Mapped(Base(w), card[w][1], [text |-> card[w][2]]))
    /\ UNCHANGED <<section, made, card, today, confirming>>

(* The trash button of a draft asks first; that of a promotion does not. *)
AskDelete(w) ==
    /\ section = "drafts" /\ confirming[w] = None
    /\ \E id \in made : Has(copy[w], id) /\ confirming' = [confirming EXCEPT ![w] = id]
    /\ UNCHANGED <<section, stored, made, copy, card, today, painted>>

Cancel(w) ==
    /\ confirming[w] # None \/ card[w] # None
    /\ confirming' = [confirming EXCEPT ![w] = None]
    /\ card' = [card EXCEPT ![w] = IF confirming[w] = None THEN None ELSE @]
    /\ UNCHANGED <<section, stored, made, copy, today, painted>>

DeleteDraft(w) ==
    /\ confirming[w] # None
    /\ Persist(w, [Base(w) EXCEPT ![confirming[w]] = None])
    /\ card' = [card EXCEPT ![w] = IF @ # None /\ @[1] = confirming[w] THEN None ELSE @]
    /\ confirming' = [confirming EXCEPT ![w] = None]
    /\ UNCHANGED <<section, made, today>>

(* getPromotionStatus: the days are compared as ISO dates. *)
Status(p, now) ==
    CASE p.from > now -> "Scheduled"
      [] p.to < now -> "Ended"
      [] OTHER -> "Active"

CreatePromotion(w) ==
    /\ section = "promotions" /\ copy[w] # None
    /\ \E id \in Free, p \in Promotion :
         /\ Persist(w, [Base(w) EXCEPT ![id] = p])
         /\ made' = made \cup {id}
    /\ UNCHANGED <<section, card, today, confirming>>

\* The delete button is painted for promotions that are not active that day.
DeletePromotion(w) ==
    /\ section = "promotions"
    /\ \E id \in made :
         /\ Has(copy[w], id) /\ Status(copy[w][id], painted[w]) # "Active"
         /\ Persist(w, [Base(w) EXCEPT ![id] = None])
    /\ UNCHANGED <<section, made, card, today, confirming>>

(* Any other state change of the page paints it again with today's date. *)
Repaint(w) ==
    /\ copy[w] # None /\ painted' = [painted EXCEPT ![w] = today]
    /\ UNCHANGED <<section, stored, made, copy, card, today, confirming>>

Midnight ==
    /\ section = "promotions" /\ today < LastDay /\ today' = today + 1
    /\ UNCHANGED <<section, stored, made, copy, card, confirming, painted>>

Next ==
    \/ Start("drafts") \/ Start("promotions") \/ Midnight
    \/ \E w \in Windows :
         \/ OpenPage(w) \/ SaveDraft(w) \/ ContinueWriting(w) \/ Type(w) \/ UpdateDraft(w)
         \/ AskDelete(w) \/ Cancel(w) \/ DeleteDraft(w)
         \/ CreatePromotion(w) \/ DeletePromotion(w) \/ Repaint(w)

Spec == Init /\ [][Next]_vars

----------------------------------------------------------------------------
\* Two windows never undo each other, though each shows a copy of its own:
\* an operation changes the one item it is about, whatever the other window
\* wrote meanwhile, and a deleted item never comes back, not even when its
\* text is still being edited in the other window.
OneItemAtATime ==
    [][/\ Cardinality({id \in LocalIds : stored'[id] # stored[id]}) <= 1
       /\ \A id \in made : stored[id] = None => stored'[id] = None]_vars

\* No promotion is deleted that was running, first and last day included, on
\* the day its window was painted.
RunningPromotionsStay ==
    [][\A id \in LocalIds : \A w \in Windows :
         section = "promotions" /\ stored[id] # None /\ stored'[id] = None /\ copy'[w] # copy[w] =>
            painted[w] \notin stored[id].from..stored[id].to]_vars
============================================================================
