# Rate My Place: verification project

TLA+ models of the parts of Rate My Place that change state, checked with TLC
and proved with TLAPS. Paths such as `services/reviewService.ts` are relative to
`backend/src/` unless they start with `frontend/`.

## 1. The system

The backend is one Node.js process: Apollo resolvers call services, services
own one repository each, repositories run statements on PostgreSQL through
Sequelize and its pool of ten connections. A request is a chain of `await`s;
between two of them any other request may run. A service method either runs in
a transaction (`withTransaction`) or lets every statement commit by itself. The
frontend is a React client that keeps a refresh token, drafts and promotions in
local storage.

| Component | State | Operations | Interacts with |
|---|---|---|---|
| reviews (`reviewService`) | `providers_reviews`, the place's `review_count` and `average_rating` | create, update, delete | places (statistics), saved places (watchers), notifications |
| media (`mediaService`) | `providers_media`, picture columns of users and places, `photo_count` of reviews | attach, remove | users, places, reviews |
| sessions (`sessionService`) | `providers_sessions` | create, renew, revoke by token, by id, all | sign-in |
| sign-in and passwords (`authService`) | `password_hash`, `providers_password_reset_tokens` | sign up, sign in, sign out, change, forgot, confirm | sessions |
| helpful votes (`reviewVoteService`) | `providers_review_votes`, `helpful_count` | toggle | reviews, notifications |
| QR codes (`reviewQrCodeService`) | `providers_review_qr_codes` | first visit, regenerate, deactivate, resolve | places |
| places (`placeService`) | `providers_places` | create, update, delete, lists | QR codes, reviews, media, onboarding |
| notifications | `providers_notifications` | create, mark, delete | reviews, votes, replies, badges |
| review replies | `providers_reviews_replies` | create, update, delete | reviews, notifications |
| saved places | `providers_saved_places` | toggle, set list type | read by reviews |
| badges | `providers_user_badges` | award on read | reviews, notifications |
| place hours | `providers_place_hours` | replace a week | `openNow` in lists |
| trending job | `trending_score` | hourly refresh | reviews, places |
| lists and cursors | none (keyset pages) | next page | places, reviews |
| business onboarding | none of its own | user and place together | sign-in, places, sessions |
| business dashboard | none (pure computation) | compute | reviews, replies |
| browser session (`frontend/src/lib/auth`) | refresh token in local storage, access token and user in the memory of each tab | restore, sign in, sign out, change name and password | sessions |
| Discover page (`frontend/src/routes/app/discover`) | filters, sort, location, loaded pages, Apollo's cache | search, sort, load more | lists |
| browser uploads (`frontend/src/lib/media`) | one upload each | sign, store, attach, remove | media |
| drafts and promotions (`frontend/src/lib/drafts.ts`, `promotionsStore.ts`) | local storage | save, edit, delete, end | none |
| screens (`frontend/src/routes`) | component state, Apollo's cache, history of the browser | edit, submit, refetch, navigate | all services |
| pool (`config/instance.ts`) | connections | acquire, release, time out | all services |

**What is hard here**

- Checks and the writes that rely on them are separate statements, usually on
  separate connections (duplicates, caps, token look-ups, place still there).
- Derived values (rating statistics, `helpful_count`, `photo_count`, picture
  columns) are stored next to their source and recomputed by read-then-write
  at READ COMMITTED.
- Transactions take row locks in several tables, and wait for pending unique
  keys; a deletion takes a second connection while it holds one.
- Effects after the commit (notifications, sessions) may fail on their own.
- Password changes revoke what they list, while sign-ins and renewals go on.
- Several tabs renew and erase one stored token. Answers arrive when the state
  they were asked for has changed; handlers go on in pages that were left.
- Keyset pages are walked while rows move, and the client keeps pages of its own.

**What makes each component correct**

- Reviews: one live review per author and place; notifications tell of committed
  reviews and reach the right people; statistics follow the reviews.
- Media: a picture column only shows a live image of its own slot; one image
  per slot; galleries within their caps; `photo_count` follows the photos.
- Sessions and passwords: a renewed token and its successor are never both
  usable; a password change ends the sessions it should; tokens and codes are
  used once; nobody ends another user's session.
- Votes: one per user and review; `helpful_count` follows the votes;
  notifications tell of real votes.
- QR codes: one active code per place, none for a deleted place.
- Replies, saved places, badges: one row per key; a write hits the row that was
  found; notifications tell what happened, once.
- Onboarding and hours: one account per e-mail, a business with its place or not
  at all, weeks that are whole.
- Lists: what does not move is listed once; scores were true when refreshed.
- Browser session: the stored token is the live one, the user on screen owns the
  access token, a guarded page never loads for ever.
- Screens: they end up showing what the server holds, keep typed text, and a click
  does what its button says.
- Everywhere: a request that has been sent is answered.

## 2. How the database and the client are modelled

All modules of services model PostgreSQL in the same way.

- One action is one awaited statement. It reads what is committed at that
  moment plus the uncommitted writes of its own transaction (`Seen`). This is
  READ COMMITTED, the default that the code never changes.
- Uncommitted writes are kept per request (`wrote`, `inserted`, `deleted`,
  `made`, `off`, `holds`, ...) and published by `Commit`, dropped by `Fail`.
- A row that an open transaction has written is locked: `UPDATE` and `DELETE`
  wait for it and then look at the row again. Soft-deleted rows are skipped,
  as Sequelize adds `deleted_at IS NULL` to updates and deletes of paranoid
  tables.
- An insert into a unique index waits while another transaction has an equal
  key pending, and fails if it is then taken (`KeyPending`, `KeyTaken`).
- Calls that are not handed the transaction (`findOne`, `count` of the base
  repository) run on another connection and see committed rows only.
- `Fail` stands for a failed statement, a lost connection, a broken deadlock and
  the stop of the server: in each case the transaction is rolled back and the
  caller sees an error. The stop of the server is a `Fail` of all requests in
  flight. Where the answer to a committed statement may be lost, the step that
  commits also chooses `error` as the answer.
- Rows bear the name of the request that created them; serial ids are never
  reused, so nothing is lost by that.
- Variables marked *history* (`met`, `past`, `disturbed`, `crossed`, ...) record what
  overlapped what; no guard reads them.
- In the client, one action is one event of the browser and everything it sets
  off before the event loop is free again: the handler up to its next `await`,
  the render and the effects. A request is sent in one action, and its answer,
  or its loss, is a later one. A refetch always sends a request of its own, and
  Apollo writes only the answer of the latest request of a query.
- The client uses Apollo Client 4 with its defaults, none of which the repository
  overrides: a query reports `loading` also while it is read again, so that a page
  that shows "Loading" instead of its content unmounts the content, and with it the
  state of forms and buttons; a query that fails leaves the cache as it was.

Definitions marked `(mutant)` are plausible mistakes in the definition below
them. They show that each property depends on the code, and nothing else uses
them.

## 3. Modules

| Module | Models | Notes |
|---|---|---|
| `ReviewBook` | the promise of the review service | atomic post, re-rate, withdraw |
| `ReviewService` | `reviewService.ts` | `StartCreate`, `CheckExisting`, `Insert` are `createReview`; `StartChange`, `Modify` are `updateReview` and `deleteReview`; `Count`, `Average`, `Store` are `recomputePlaceStats`; `TellOwner`, `TellWatchers` follow the commit. `INSTANCE`s `ReviewBook` with the live rows as the book |
| `MediaService` | `mediaService.ts`, `mediaRepository.ts` | `CheckCap`, `StartClear`, `Clear`, `Insert`, `InsertPlacePhoto` are `attachMedia`; `CheckKeeper`, `Delete` are `removeMedia`; `CountPhotos`, `Store` update the owner |
| `SessionService` | `sessionService.ts`, `authService.ts` | first statements (`ComparePassword`, `StartRenew`, `StartRevoke`, `Forgot`, `StartConfirm`), then the writes one by one; the updates of `revokeAllForUser` run in parallel (`Sweep`) and one failure does not stop the others (`SweepFails`) |
| `ReviewVoteService` | `reviewVoteService.ts` | `FindVote` precedes the transaction; `Vote`, `Unvote`, `CountVotes`, `Store` are in it, `Notify` follows |
| `ReviewQrCodeService` | `reviewQrCodeService.ts`, `PlaceService.delete`, the pool | `Look`, `Make` are the first visit; `Find`, `Deactivate`, `Insert` the regeneration; `Begin`, `Close`, `Find`, `Deactivate` the deletion |
| `ReviewReplyService`, `SavedPlaceService`, `BadgeService`, `NotificationService` | the services of these names | look-up, write and announcement as statements of their own, without transaction |
| `Engagement` | the four of them in one process | shares their requests, and lets reviews, votes and places change meanwhile |
| `BusinessOnboarding` | `authService.ts` (`createUser`, `signUp`), `businessOnboardingService.ts` | user and place in a transaction, the duplicate check on a connection of its own |
| `PlaceHourService` | `placeHourService.ts`, `placeHourRepository.ts` | delete and insert of a week |
| `OwnerServices` | these two on one pool | acquires, releases and times out connections |
| `PlacePages` | `placeRepository.ts`, `packages/cursors` | pages, cursors, filters and `openNow` as operators |
| `TrendingScoreJob` | `jobs/trendingScoreJob.ts` | the two statements of a refresh |
| `DiscoverPage` | `routes/app/discover` | debounce, filters, sort, location, first and next pages; the list starts anew only when the data of the query change (`Render`), not between two searches that have none |
| `Discover` | the three of them | a behaviour has one kind of visitor: none, a client of the API that follows cursors, or the page |
| `AuthContext` | `lib/auth`, `PrivateRoute`, the callers of `useAuth` | tabs, the stored token, the server's sessions; `Serve` is `SessionService` in one step, a renewal in two |
| `ListScreens` | notifications, saved places, reviews and sessions on screen | one list with handlers, refetches, Apollo's lists and entities; buttons forget that they are disabled when their card leaves the page (`Forgets`), also for "Loading" |
| `LocalLists` | `drafts.ts`, `promotionsStore.ts` and their pages | read-modify-write from two windows, days that pass |
| `PlaceDetailPage` | `PlaceDetailPage.tsx` and its form, photos, gate | the form is mounted per key, and unmounted by "Loading" when the place is read again |
| `MyListingPage` | the owner's editor | place, week, re-read, baseline; the default shown for what a place lacks (`Seeded`), texts trimmed when they are sent (`Noted`) |
| `PhotoSection` | `useMediaUpload.ts`, galleries and slots | signature, storage, attachment, re-read |
| `BusinessDashboard` | `businessDashboardMath.ts`, `businessDashboardService.ts`, the page | the computation as operators over two snapshots; the page's list holds the newest `LIST_SIZE` reviews |
| `SignUpForm` | `SignUpForm.tsx`, `ScanAuthModal.tsx` | two steps, one submission |
| `AppLayout` | `AppLayout.tsx` with the router's history | redirects, back, the mobile menu |
| `Screens` | the eight pages | a behaviour opens one of them |
| `...Proofs` | | theorems about the module of that name, in `SessionProofs` about `SessionService` and `AuthContext`, in `PagesProofs` about `Discover` and `Screens` |
| `MC...` | | constants and symmetry sets for TLC |

Components meet through shared rows. Where they are not composed, the part of
the other component is the one-statement action that its transaction amounts
to: `ReviewService` contains the deletion of a place and the notifications,
`MediaService` the deletion of places and reviews, `ReviewVoteService` that of
reviews, `Engagement` the life of reviews, `AuthContext` the sessions, the pages of
`Screens` the rows they show.

## 4. Runs

| Run | Question | Bounds |
|---|---|---|
| `reviews` | one review per author, fitting notifications, exact statistics after a lone transaction, refinement of `ReviewBook` | 3 requests of any kind, 3 users (owner, saver, visitor), 1 place, 2 ratings |
| `reviews_live` | every request is answered | 2 requests, 2 places |
| `media` | picture columns, slots, counts and caps | 3 requests, 2 users, 1 place, 1 review, caps 1 and 2 |
| `sessions` | renewals, password changes, spent tokens, own sessions | 3 requests, 2 users |
| `votes` | one vote per user, exact count after a lone toggle, real notifications, every toggle is answered | 3 requests, 3 users, 1 review |
| `qr` | one active code, lone changes decide, pool exhaustion ends | 3 requests, 2 places, 2 connections |
| `engagement` | one row per key, writes hit what was found, true notifications, own notifications | 3 requests and an earlier save; owner and reviewer, 1 place, 1 review; every threshold is 1 |
| `owners` | whole accounts, whole weeks, lone saves decide, every request is answered | 2 requests next to an earlier business, 2 e-mails, 2 days, 2 connections |
| `discover` | true scores, faithful walks, the list starts with the page of the search and ends up there | 3 places, pages of 1 and 2, at most 4 changes and 3 clicks |
| `discover_twice` | does "Load more" ever list a place twice? | 3 places, nothing changes. **Violated** |
| `browser` | store and server agree, the user on screen owns the token, the guard decides | 2 tabs, 2 users, 3 sessions, 2 requests at a time; one tab edits; one access token ages |
| `screens` | pages agree with the server and themselves, buttons exclude, navigation, typed text, clicks | per page: 2 handlers at a time, 2 or 3 rows, 1 or 2 changes by others |

Some properties have several parts, one per page or per table, which are named
and commented in the modules:

| Property | Parts |
|---|---|
| `RowsAreUnique` | `TypeOK`, `OneReplyPerReview`, `OneSavePerUser`, `AwardedOnce` |
| `WritesHitWhatWasFound` | `RepliesSpeakForThePlace`, `ListsMoveOnlyWhatWasFound` |
| `NoticesTellTheTruth` | `RepliesToldOnce`, `AnnouncedByItsAwarder`, `BadgesWereDeserved` |
| `AccountsAreWhole` | `TypeOK`, `OneAccountPerEmail`, `OnboardedTogether` |
| `WeeksAreWhole` | `OneEntryPerDay`, `SavedWeeksStayWhole` |
| `WalkIsFaithful` | `TypeOK`, `WalkSeesUntouchedOnce`, `WalkGoesForward` |
| `PagesAgree` | the pages' `TypeOK`, `ListShowsOwnEdits`, `MyReviewShows`, `CleanMeansSaved`, `PicturesShown`, `PendingMatchesList`, `CountsAgree`, `QuietMonthShowsNoGrowth` |
| `OneAtATime` | `OneAccountPerPerson`, `LimitHolds` |
| `NavigationHolds` | `StepsAgree`, `ScannersAreReviewers`, `OwnersStayInConsole`, `BackIsNotTrapped`, `MenuClosesOnTheWay` |
| `NothingTypedIsLost` | `AnswersKeepTypedText`, `EditStartsFromPublished`, `OneItemAtATime` |
| `ClicksDoWhatTheySay` | `RemoveNeverSaves`, `SweepEndsOthers`, `RunningPromotionsStay`, `MissingPhotosAreReported`, `ReplyingHelps` |

*Why the bounds are enough.* In the services a hazard is two transactions that overlap,
plus a third request that sets the scene or interferes (an earlier review, a session to
renew, a vote to take back); three requests, or two and an earlier one, contain all of
these, and every request may be of any kind. More places, reviews or users only add rows
that requests on the same row never touch; two places appear where waiting across them
matters. The caps are 1 and 2 instead of 12 and 6 and the thresholds of badges 1, so
that they are reached; the pool is 2 instead of 10, so that transactions exhaust it.
Ratings 2 and 5 give different sums and an average that must be rounded. The dashboard
lists 1 review instead of 20, so that others are further back. A text has two forms that
differ in a space, an empty field is the third; a price tier is there or not. Three
places on pages of one give a middle page, ties and an end. In the browser two tabs and
three sessions contain a renewal that loses, one that wins and a sign-in between them;
two requests at a time contain every pair of answers that overtake each other. On a
screen two handlers with two rows contain a handler on the same row and one on another.
What is proved holds for any number of everything.

*Deadlock* is checked in the runs of services: `AllAnswered` is the only way to
stand still. In `discover`, `browser` and `screens` it is not, as the world may
come to rest there: all bounded clicks done, no request on its way.

*Fairness.* In the services `FairSpec` asks weak fairness of each request's own
`Progress`: a statement that can proceed is run by the event loop and the database, and
the timer of the pool fires. Nothing forces a client to send a request, a failure to
happen or a deletion to be asked for. Lock waits are guards, so weak fairness helps a
waiter only once the holder has ended, which its own fairness and the order of the locks
ensure. A request may end by `Fail`; that no request waits for ever does not rely on it.
In `Discover` the debounce timer, the bounded request for a location and the answers to
HTTP requests come (`Answered`), successful or not; `ListCatchesUp` therefore excuses a
last request that failed, and says of every other behaviour what the list starts with in
the end. In `AuthContext` renewals and `me` requests are served and handled or lost, and
the guard's timer fires; users owe nothing.

### What does not hold

The run `discover_twice` shows what the code does against its own description:
`frontend/src/routes/app/discover/DiscoverPage.tsx:58` asks for the page after the
cursor of the first page each time, since `fetchMore` without `merge` leaves
`pageInfo` (line 52) as it was. The second click appends page two again and page
three is never reached. `routes/app/reviews/BusinessReviewsPage.tsx:44` has the same
code, and lines 24-27 there say what was meant.

Eight more claims are stated in the modules, each next to a property that does
hold. TLC refutes the first six when they are added to the cfg of their component, the
last two with their module alone:

1. `StatsNeverDrift` (`services/reviewService.ts:55`): COUNT and AVG are read before
   the place row is locked. Two overlapping reviews leave the later committer's
   stale numbers, until the next review of the place. `helpful_count`
   (`services/reviewVoteService.ts:54`) and `photo_count`
   (`services/mediaService.ts:116`) are kept in the same way; a transaction
   nobody overlaps counts exactly.
2. `OneImagePerSlot` (`repositories/mediaRepository.ts:14`): two overlapping
   uploads to one slot clear what each of them sees and both stay. The caps of
   galleries (`services/mediaService.ts:169`, `:184`) are checked and used apart in
   the same way, and hold for an upload nobody overlaps.
3. `TokenRenewedOnce` (`services/sessionService.ts:79`): the check of a token and
   the write that revokes it are apart, and the write does not check again. Reset
   codes (`services/authService.ts:182`, `:192`) follow the same pattern.
4. `ChangeEndsEarlierSignIns` (`services/sessionService.ts:121`): sessions inserted
   after the list survive a password change.
5. `CurrentSessionSurvives` (`services/sessionService.ts:127`, an action property): a
   token renewed while the change is under way no longer names the session to
   keep.
6. `NoCodeOfDeletedPlace` (`services/reviewQrCodeService.ts:50`): the place may be
   deleted between its look-up and the insert of its code.
7. `RemoveRemoves` (`frontend/src/routes/app/saved/SavedPlaceCard.tsx:37`, an action
   property of `ListScreens`; two rows and two clicks): the mutation behind "Remove" is
   a toggle, and what disables the button (`:64`) is state of the card. Another tab, a
   refetch or a visit to another page takes the card off and brings it back enabled
   while the toggle runs; a second click then saves the place again. With one toggle
   of a row at a time (`alone`) a removal never saves, which is `RemoveNeverSaves`.
8. `CaughtUpMeansAnswered`
   (`frontend/src/routes/app/dashboard/BusinessDashboardPage.tsx:174`, of
   `BusinessDashboard`; two reviews, one listed): the page says "Every review has an
   owner reply" when this is true of the 20 newest reviews (line 26).
   `BusinessReviewsPage.tsx:145-148` avoids the same claim on purpose. The number of
   pending replies does count all of them, which is `PendingMatchesList`.

### What the models showed on the way

The properties of the client hold under the conditions they state. Outside of
them the code behaves as follows, which the models contain:

- *Sessions.* Two tabs that renew one token: the loser erases the token the
  winner has stored (`AuthContext.tsx:94-104`). A sign-in during the first renewal,
  or a slow answer after a logout, can mix or revive identities in a tab
  (`crossed`). A tab left open as an earlier user erases the later one's token on
  logout. A logout with an expired access token, and a second sign-in, leave a
  session alive. Apollo's cache outlives a logout (`client.ts:29`).
- *Discover.* Rows of a former search that were appended late stay on the list
  while searches without data follow each other (`DiscoverPage.tsx:47-50`), and under
  the rows of the next one if they come after it. `locationBlocked` is not reset by a
  retry that succeeds. A place whose first recent review comes between the two
  statements of a refresh keeps its former score until the next one.
- *Place page.* A click on a sort while editing, or a finished submission of
  another form, loses typed text. So does the answer to a deletion: it reads the place
  again, and "Loading" unmounts the form that was opened meanwhile
  (`PlaceDetailPage.tsx:142-146`, `:224`). An own review beyond the first twenty is not
  found. A failed refetch after a successful creation reads as a failed creation.
- *Listing.* A description or website that is cleared is never sent
  (`MyListingPage.tsx:112`, `:115`) although the placeholder invites to leave it blank.
  A place without a price tier is shown as `MEDIUM`, one without a category under
  the first (`:66`, `:71`), and the page counts this as saved until something else is
  edited. The spaces around a text stay in the form and are not sent.
- *Lists.* Buttons come back early with their card, not only "Remove". Ending one save
  closes the editor of another review. In "sign out others" the first failure skips the
  refetch.
- *Photos.* A file stored but not attached stays at Cloudinary. Leaving a page and
  coming back lets two uploads pass the check of the cap.
- *Dashboard.* A month that equals the best one is called the best. A reply from
  the reviews page (`BusinessReviewsPage.tsx:56`) leaves the tile of pending replies stale.
- *Sign-up.* "Back" while a business is being submitted allows a second submission; a
  late answer about the location overwrites the pin.
- *Shell.* Tapping the current page's entry leaves the mobile menu open.

## 5. Theorems

Each `...Proofs` module proves its component's properties for all values of the
constants, from the `ASSUME`s of its component and nothing else. TLC evaluates
these on every run. In each there is one inductive invariant, checked by TLC
before it was proved, since what one wants to know does not follow from
itself: it holds because of what requests keep to in between.

**`ReviewServiceProofs`.** `TypeCorrect`; `LockDisciplineHolds`, the inductive
invariant: a row keeps its author and place, a transaction holds the key and
the row of what it wrote, and a notification follows its commit.
`OneLiveReview` alone is not inductive: a commit preserves it only because the
pending insert excluded every other pending row and every live row of its key,
which `LockDiscipline` records. From it follow `NeverTwoLiveReviews`,
`NotificationsAlwaysFit` and `ServiceImplementsBook` (each step is a step of
`ReviewBook` on the live rows, or stutters). `SoloWritersHeal` uses `SoloView`: a
transaction that met no other has still read all there is to count.

**`MediaServiceProofs`.** `TypeCorrect`; `SlotDisciplineHolds`: transactions write
rows of their own slot only and hold the owner's row when they commit a change
to it. `PicturesAlwaysLive` follows: whoever deletes an image of a slot also
overwrites the column, under the same lock. `LoneAttachesOwnSlots` uses `LoneView`:
what a lone attach has matched is still all there is in the slot. `LoneWritersCount`
and `LonePhotosKeepCap` use `LonePhotoView` in the same way for a gallery and its count,
for any limits that are natural numbers.

**`SessionProofs`**, the server's sessions and the browser's in one module. Of
`SessionService`: `TypeCorrect`; `SessionDisciplineHolds`: rows name answered
requests, every stage is reached only by calls that passed its guard, and what a
sweep still has to revoke covers every session found at the start. From it follow
`RenewalsRetireTokens`, `PasswordChangesEndSessions`, `SpentIsSpent` and
`OthersSessionsAreSafe`.

Of `AuthContext`: `TabDiscipline`, for any number of tabs, users, sessions and
requests. Neither property is inductive: that local storage and server agree
between requests holds only because each session request, while it is the only
one, leaves a known difference between the two until its answer is handled
(`CalmBrowser`: a renewal on its way names the stored token, its answer the only
live one; a logout that was answered has left none). That the user on screen
owns the access token holds because a tab with one request at a time asks with the
token it still has, and has no user while it renews (`CalmTabs`), and because an
answer names its session's owner (`AnswersFit`). From it follow `StoreAgrees` and
`ShownUsersSpeak`, under `AuthContextType`.

**`ReviewVoteServiceProofs`.** `TypeCorrect`; `VoteDiscipline` is the inductive
invariant: uncommitted votes exclude each other and the live ones of their key,
a toggle that stores holds the review, and a lone toggle has counted what is
still there. From it follow `NeverTwoVotes`, `LoneTogglesCount` and `TruthIsTold`. The
count needs sets of votes to be finite, hence the assumption `RequestsAreFinite`.

**`ReviewQrCodeServiceProofs`.** `TypeCorrect`; with `CodeDiscipline` (pending codes
exclude each other and the active one, a lone change has found the active code)
`NeverTwoActiveCodes` and `LoneChangesDecide`.

**`EngagementProofs`.** `EngagementDiscipline`: rows and notifications bear the names
of requests that were sent, a request that is about to write has passed its
check, replies told of were stored, awards in flight were found newly earned.
From it follow `RowsStayUnique`, `WritesHitTheirRows`, `NoticesAreTrue` and
`NoticesStayOwn`, under the assumptions `EngagementType` and `CriteriaType`: reviews
are finitely many, thresholds positive, and an account had saved one place before.
`TypeCorrect` includes that a sum of votes is a number. `SumFunctionOnSet` is recursive
over a set; the library's induction takes an operator and cannot be used, so
`SumIsNumber` argues with a smallest counterexample instead: among the subsets
without a table of partial sums one has the fewest elements (`SmallestSet`, from
the well-foundedness of the naturals), and the tables below it, which agree
(`SumsAgree`), make one for it (`SumExists`).

**`OwnerServicesProofs`.** `OwnerDiscipline`: users and places are of requests that
sent them, e-mails of pending and stored accounts differ, a week is deleted
before its successor is inserted under a key that excludes others, and a lone
save has met nobody. From it follow `AccountsStayWhole`, `WeeksStayWhole` and
`LoneSavesDecide`, under `OwnerServicesType`.

**`PagesProofs`**, the pages of the web client. Of `Discover`, bottom up: the order of a
list is total on its rows, so each row has a rank and no two share one (`OrderOfRows`,
`RanksNumberRows`); a statement with a cursor and a limit returns the rows of the next
ranks (`FetchedRows`, `PageOfList`), and a page asked for with the cursor of another
continues it (`PageContinues`). On that stands `DiscoverInv`: `WalkCovers` (the rows of
a walk are in order, and each place that kept its position is either among them or still
beyond the cursor), `PageType` and `ListsOfPlaces` (what is cached and listed are rows
of places, and of those that a search is for; a search without data lists late rows
only), `CountsSeen` (between the statements of a refresh, `since` has the present counts
and the new scores). `WalkIsFaithful` alone is not inductive: that the next page skips
nothing follows from what is known of the cursor. From it follow `TypeCorrect`,
`ScoresWereTrue`, `WalksAreFaithful` and `ListsKeepToSearch` (the list starts with the
first page of the search, whichever page it was rendered for before), for any places,
distances, opening hours and page sizes, under `DiscoverType` and `OnThePage` (the sorts
and filters used are the server's).

Of `Screens`, all eight pages, each with an invariant of its own; a page that
is closed keeps it whatever the open one does with the variables they share.
`ScreensInv` is about the sign-up form, the galleries and the shell.
`OneAtATime` and `NavigationHolds` are not inductive. That there is one account at
most holds because, without an excuse, the only sign-up that runs is that of the
button on display (`OneSignUp`: a second step's button signs up owners, a first one's
reviewers), so that no other can be sent, and none is sent once the account is made.
That a gallery keeps its limit holds because one upload of photos runs at a time,
and one that has passed the server's check still finds room for its row
(`OneUpload`). The redirects hold because an effect remembers whom it has met where,
and an owner met on a reviewer's page is elsewhere by then (`EffectsRemember`).
From it follow `OneAtATimeHolds` and `NavigationIsSound`.

`StepsInv` is about the place page, the lists and the dashboard, whose properties say
what no step does. Per page (`PlaceInv`, `LocalInv`, `ListInv`, `DashboardInv`) it has
the types and what the step's guard does not tell: a mounted form was filled with its
target (`FormFits`), and a photo that is missing has been counted as failed
(`SubmitFits`); a promotion in a window's copy is the stored one or has been deleted
(`CopiesFit`); a handler edits what its screen offers, what a sweep has done is done,
and what a toggle is about to remove is there unless the same row was toggled again
after its button had come back (`HandlersFit`); a listed row was there when it was read
(`ListsFit`). That a reply never lowers the score is arithmetic: one more review is
answered, all else is equal, and a rounded quotient grows with what is divided
(`RoundGrows`, `ScoreGrows`). From it follow `NothingIsLost` and `ClicksAreHonest`.
`ListInv` was not inductive at first, and rightly so: a row that somebody else made
could take the name of one that a running sweep had ended. `Elsewhere` now makes rows
that no list, answer or handler names, as the server does.

`PagesInv` is about what the pages show. `PagesAgree` speaks of the moments in which a
page has nothing left to do; its invariant says what is true in between. The list on
display, or the answer on its way to it, is the server's, unless an edit has not been
answered, after which it is asked for again, and the latest request is for the list on
display (`ListTrue`; `OwnListFits` for the visitor's own review, where the photos of a
new one are the edit). Of a listing, one save runs at most, and the server holds what it
has sent so far, texts trimmed (`SavesFit`): the baseline is therefore held when it
ends, up to the spaces, the fields that are not sent and the defaults that seeded it. A
gallery shows the media rows, has asked for them, or has them in an answer
(`GalleryTrue`). The dashboard's pending count is that of the replies as they are and
its list one of those that the newest reviews make up, when neither query runs, though
three statements read them (`DashboardTrue`); each pending review is listed or further
back. A list that is not on display has no request and no mounted handler (`HereFits`).
What remains is counting: the reviews of a month are those up to now without those up to
the end of last month (`MonthsAre`, `TrendIsLastBar`); the units of the bars of a range
and the reviews of its months are in bijection (`RangesCountReviews`); in a quiet month
the two snapshots differ in nothing but what is recent, and the score grows with that
(`QuietSnapshots`, `RecentScoreGrows`). A closed page rests, and what it says of itself
is then vacuous; that is why one excuse may serve all pages. From it, with `ScreensInv`
and `StepsInv`, follows `PagesAlwaysAgree`.

All three rest on `ScreensType`: bounds are numbers, files are finitely many and enough to
fill a gallery, the history has room for an entry, there is a place, a sort, a review and
a week, reviews are finitely many, volume adds no negative share to a score, a month has
days and the chart a month, and `New` and nobody are no values of their own; and on
`NoneIsNoValue`: `None` is none of the values that a page may hold in its place. Of
`Trim` it is assumed that it maps texts to texts and keeps what is trimmed.

*Only model-checked*: liveness everywhere (liveness under fairness and `ENABLED`
are out of the prover's reach), which is `EveryRequestEnds`, `ListCatchesUp` and
`GuardDecides`; of `AuthContext` the bounds in `BrowserTypeOK` (at most one
request of a kind in a tab).

## 6. Not modelled

- `resolveActiveToken`, breakdowns and other reads that change nothing.
- The pages of reviews, notifications and saved places on the server; they are
  keyset pages like those of `PlacePages`.
- `createPlace` and `updatePlace` beyond what `BusinessOnboarding` and
  `MyListingPage` send, and `updateUser` beyond the name: single statements after a
  permission check.
- Token signatures, hashes and their collisions: a token is the name of its
  session, a code that of its request. Access tokens are stateless and outlive a
  revocation, so any user may send any request at any time.
- Wording of messages and notifications, validation of text, device labels.
- The strips of trending and new places, profile, categories, analytics and
  marketing pages: they show what a query answers. Of the settings only names,
  passwords and sessions change anything. The poll of the notification bell is not modelled.
- Apollo's cache across users: `AuthContext` has the sign-outs and `ListScreens` the
  cache, each for itself.
- The wait of a slot's clear for media rows and then for the owner's row
  (`repositories/mediaRepository.ts:17`) may close a circle; the database breaks it and
  `Fail` is what the request sees.
- Categories and platform statistics (plain reads), request limits (third-party
  middleware), the query builder package (unused), wiring, logging,
  migrations, seeds and scripts, generated types.

## 7. Plan

Done: all services that change state, the pages, the session of the browser,
the proofs of the services, of that session, of the Discover page and of the other
pages: every safety property of a passing run is a theorem.

1. Runs of their own for the claims that do not hold.
2. A second user on one Apollo cache: `AuthContext` with `ListScreens`.
3. The two hearts of a saved place (card and page), which disagree after a toggle
   of either.
4. The recent and the helpful pages of reviews, with `PlacePages` generalised over
   its rows.
