------------------------------ MODULE Screens ------------------------------
(***************************************************************************)
(* The pages of the web client.  Each page has a state of its own and a    *)
(* small world behind it: the rows it shows and who else changes them.  A  *)
(* behaviour opens one of the pages and stays with it, so that the pages   *)
(* add up and do not multiply.  The session they share is in AuthContext.  *)
(***************************************************************************)
EXTENDS Integers, FiniteSets, TLC

CONSTANTS
    None, MAX_OTHERS, MAX_PHOTOS,                            \* several pages
    Items, Mine, Calls, MAX_EDITS,                           \* ListScreens
    Windows, LocalIds, Texts, LastDay,                       \* LocalLists
    PlacesShown, Sorts, FirstSort, Buried, ReviewIds, New, MAX_MOVES,   \* PlaceDetailPage
    Notes, Blank, Trim, Tiers, DefaultTier, NoTier,          \* MyListingPage
    Weeks, Saves, MAX_SAVES,
    Photos, Uploads, MAX_LEAVES,                             \* PhotoSection
    Reviews, Ratings, VolumeScore, MONTH_DAYS, LAST_DAY,     \* BusinessDashboard
    MONTHS_BACK, RECENCY_WINDOW_DAYS, LIST_SIZE, MAX_CHANGES,
    Emails, Spots, SignUps, MAX_LOCATING,                    \* SignUpForm
    Users, Owners, Nobody, MAX_STACK                         \* AppLayout

\* There are files to fill a gallery with, places to show, a sort to begin with,
\* a review to post, a week to keep and a session of the browser's own; the score
\* adds no negative share for volume (a logarithm of a count); the chart shows a
\* month; trimming twice is trimming once; a list has room for a review; New and
\* Nobody are no values of their own.
ASSUME ScreensType ==
    /\ {MAX_OTHERS, MAX_EDITS, MAX_MOVES, MAX_SAVES, MAX_LEAVES, MAX_CHANGES, MAX_LOCATING} \subseteq Nat
    /\ IsFiniteSet(Photos) /\ MAX_PHOTOS \in 0..Cardinality(Photos)
    /\ MAX_STACK \in Nat \ {0} /\ Owners \subseteq Users /\ Nobody \notin Users
    /\ PlacesShown # {} /\ FirstSort \in Sorts
    /\ ReviewIds # {} /\ None \notin ReviewIds /\ New \notin ReviewIds
    /\ LastDay \in Nat \ {0}
    /\ None \notin {"edit", "refetch", "orphan", "toggle", "revokeAll"}
    /\ None \notin ({"remove", "delete", "reply"} \X Items) \cup ({"save", "signOut"} \X {None})
    /\ Mine \in Items /\ None \notin Calls /\ "load" \notin Calls
    /\ Weeks # {} /\ DefaultTier \in Tiers /\ NoTier \notin Tiers
    /\ Trim \in [Notes \cup {Blank} -> Notes \cup {Blank}] /\ Trim[Blank] = Blank
    /\ \A n \in Notes : Trim[Trim[n]] = Trim[n]
    /\ IsFiniteSet(Reviews) /\ \A n \in 1..Cardinality(Reviews) : VolumeScore[n] \in Nat
    /\ {MONTH_DAYS, LAST_DAY, MONTHS_BACK} \subseteq Nat \ {0} /\ {RECENCY_WINDOW_DAYS, LIST_SIZE} \subseteq Nat

\* None stands for nothing at all, wherever a page keeps something or nothing.
ASSUME NoneIsNoValue ==
    /\ None \notin Photos /\ None \notin PlacesShown \X Sorts
    /\ None \notin [edit : ReviewIds \cup {New}, at : PlacesShown, todo : 0..MAX_PHOTOS,
                    failed : Nat, missing : Nat, step : {"send", "photos", "refetch"}]
    /\ None \notin [note : Notes \cup {Blank}, tier : Tiers \cup {NoTier}, week : Weeks]
    /\ None \notin Int /\ None # <<>>
    /\ None \notin {<<rv>> : rv \in [Reviews -> {None} \cup [rating : Ratings, on : 1..LAST_DAY]]}

VARIABLES
    here, others, excuse,                                    \* several pages
    kind, waiting, rows, key, lists, known, calls, fetch, editing, edits,
    section, stored, made, copy, card, today, confirming, painted,
    entry, signed, place, placeSort, mine, usedIds, ownReviews, visited, loading, listFetch, open,
    editingId, checked, reviewForm, submit, placeJob, askedId, warning, moves,
    listingPage, server, cached, form, baseline, saves, reread, begun,
    owner, blobs, media, shown, picked, uploads, removals, removing, rowsFetch, leaves,
    dashboardView, day, reviews, replies, used, request, pending, list, listing, dashboardChanges,
    desk, mount, type, step, typed, account, pin, asksLocation, locating, signUps, accounts, me,
    shell, stack, at, user, token, initializing, seen, menu, went

List == INSTANCE ListScreens
Local == INSTANCE LocalLists
Place == INSTANCE PlaceDetailPage WITH Places <- PlacesShown, sort <- placeSort, job <- placeJob
Listing == INSTANCE MyListingPage WITH page <- listingPage
Gallery == INSTANCE PhotoSection
Dashboard == INSTANCE BusinessDashboard WITH view <- dashboardView, changes <- dashboardChanges
SignUp == INSTANCE SignUpForm WITH requesting <- asksLocation
Layout == INSTANCE AppLayout

listVars == <<kind, waiting, rows, key, lists, known, calls, fetch, editing, edits>>
localVars == <<section, stored, made, copy, card, today, confirming, painted>>
placeVars ==
    <<entry, signed, place, placeSort, mine, usedIds, ownReviews, visited, loading, listFetch, open,
      editingId, checked, reviewForm, submit, placeJob, askedId, warning, moves>>
listingVars == <<listingPage, server, cached, form, baseline, saves, reread, begun>>
galleryVars ==
    <<owner, blobs, media, shown, picked, uploads, removals, removing, rowsFetch, leaves>>
dashboardVars ==
    <<dashboardView, day, reviews, replies, used, request, pending, list, listing, dashboardChanges>>
signUpVars ==
    <<desk, mount, type, step, typed, account, pin, asksLocation, locating, signUps, accounts, me>>
layoutVars ==
    <<shell, stack, at, user, token, initializing, seen, menu, went>>

screensVars ==
    <<here, others, excuse, listVars, localVars, placeVars, listingVars, galleryVars,
      dashboardVars, signUpVars, layoutVars>>

Pages == <<kind, section, entry, listingPage, owner, dashboardView, desk, shell>>

\* The only page that may be open is the n-th.
Only(n) == \A m \in DOMAIN Pages \ {n} : Pages[m] = "closed"

ScreensInit ==
    /\ List!Init /\ Local!Init /\ Place!Init /\ Listing!Init
    /\ Gallery!Init /\ Dashboard!Init /\ SignUp!Init /\ Layout!Init

ListStep ==
    /\ Only(1)
    /\ UNCHANGED <<localVars, placeVars, listingVars, galleryVars, dashboardVars, signUpVars,
                   layoutVars>>
    /\ List!Next

LocalStep ==
    /\ Only(2)
    /\ UNCHANGED <<here, others, excuse, listVars, placeVars, listingVars, galleryVars,
                   dashboardVars, signUpVars, layoutVars>>
    /\ Local!Next

PlaceStep ==
    /\ Only(3)
    /\ UNCHANGED <<here, others, listVars, localVars, listingVars, galleryVars, dashboardVars,
                   signUpVars, layoutVars>>
    /\ Place!Next

ListingStep ==
    /\ Only(4)
    /\ UNCHANGED <<here, listVars, localVars, placeVars, galleryVars, dashboardVars, signUpVars,
                   layoutVars>>
    /\ Listing!Next

GalleryStep ==
    /\ Only(5)
    /\ UNCHANGED <<listVars, localVars, placeVars, listingVars, dashboardVars, signUpVars,
                   layoutVars>>
    /\ Gallery!Next

DashboardStep ==
    /\ Only(6)
    /\ UNCHANGED <<here, others, listVars, localVars, placeVars, listingVars, galleryVars,
                   signUpVars, layoutVars>>
    /\ Dashboard!Next

SignUpStep ==
    /\ Only(7)
    /\ UNCHANGED <<here, others, listVars, localVars, placeVars, listingVars, galleryVars,
                   dashboardVars, layoutVars>>
    /\ SignUp!Next

LayoutStep ==
    /\ Only(8)
    /\ UNCHANGED <<here, others, excuse, listVars, localVars, placeVars, listingVars, galleryVars,
                   dashboardVars, signUpVars>>
    /\ Layout!Next

ScreensNext ==
    \/ ListStep \/ LocalStep \/ PlaceStep \/ ListingStep
    \/ GalleryStep \/ DashboardStep \/ SignUpStep \/ LayoutStep

ScreensSpec == ScreensInit /\ [][ScreensNext]_screensVars

----------------------------------------------------------------------------
(* The properties of the pages; each page is at rest unless it is the one   *)
(* that is open, and says nothing then.                                     *)

\* What a page shows is what the server holds, once its handlers and the
\* refetches that nobody waits for have ended in whatever order, and the
\* numbers that two queries or two formulas give for one thing agree.
PagesAgree ==
    /\ Local!TypeOK
    /\ List!TypeOK /\ List!ListShowsOwnEdits
    /\ Place!TypeOK /\ Place!MyReviewShows
    /\ Listing!TypeOK /\ Listing!CleanMeansSaved
    /\ Gallery!TypeOK /\ Gallery!PicturesShown
    /\ Dashboard!TypeOK /\ Dashboard!PendingMatchesList
    /\ Dashboard!CountsAgree /\ Dashboard!QuietMonthShowsNoGrowth

\* Buttons are disabled while their own handler runs, and that alone makes
\* one of two: of two accounts for a person, of two photos past the limit.
OneAtATime == SignUp!TypeOK /\ SignUp!OneAccountPerPerson /\ Gallery!LimitHolds

\* Steps and redirects lead where they should: an account is submitted as it
\* was typed last, who scanned a code becomes a reviewer, owners settle on
\* pages of their console, "back" leads back, the menu covers no other page.
NavigationHolds ==
    /\ SignUp!StepsAgree /\ SignUp!ScannersAreReviewers
    /\ Layout!TypeOK /\ Layout!OwnersStayInConsole /\ Layout!BackIsNotTrapped
    /\ Layout!MenuClosesOnTheWay

\* What was typed is neither turned into something else nor taken away by an
\* answer that arrives, another window or another target: the answer to the
\* deletion of a review is the one exception.
NothingTypedIsLost ==
    /\ Place!AnswersKeepTypedText /\ Place!EditStartsFromPublished
    /\ Local!OneItemAtATime

\* A click does what its button says, though lists are older than the rows and
\* mutations are toggles, sweeps and series whose parts fail on their own.
ClicksDoWhatTheySay ==
    /\ List!RemoveNeverSaves /\ List!SweepEndsOthers /\ Local!RunningPromotionsStay
    /\ Place!MissingPhotosAreReported /\ Dashboard!ReplyingHelps
============================================================================
