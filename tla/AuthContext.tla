----------------------------- MODULE AuthContext -----------------------------
(***************************************************************************)
(* The tabs of one browser and the session they share:                     *)
(* frontend/src/lib/auth (AuthContext.tsx, tokenStorage.ts),               *)
(* components/PrivateRoute.tsx and the callers of useAuth.                 *)
(*                                                                         *)
(* A session is a number; its refresh token and session id are stored      *)
(* under it for the whole browser, its access token is held by one tab.    *)
(* A request is sent, served, answered and then handled by the tab that    *)
(* sent it; requests of one tab, and of two tabs, may overlap.             *)
(***************************************************************************)
EXTENDS Integers, Sequences, FiniteSets

CONSTANTS
  Tabs, Accounts,
  Earlier,               \* who signed in before, in a tab closed since
  Nobody, Gone,          \* no user; the sender of a request whose tab is closed
  MaxSessions,           \* bound: sessions the server may issue
  MaxJobs,               \* bound: requests on their way at once
  Editors,               \* bound: the tabs that open the settings
  Aging                  \* bound: the sessions whose access token expires

ASSUME AuthContextType ==
  /\ Nobody \notin Accounts /\ Gone \notin Tabs /\ Earlier \in Accounts
  /\ MaxSessions \in Nat \ {0} /\ MaxJobs \in Nat \ {0}

VARIABLES
  owner,      \* server: the user of each session, in order of issue
  live,       \* server: the sessions that are not revoked
  stale,      \* access tokens past their expiry
  stored,     \* localStorage: refresh token and session id (0: none)
  tab,        \* React state and JavaScript heap of each tab
  jobs,       \* requests on their way
  disturbed,  \* history: could server and storage have parted?
  crossed     \* history: tabs in which two answers could overtake each other

browserVars == <<owner, live, stale, stored, tab, jobs, disturbed, crossed>>

-----------------------------------------------------------------------------
Sessions == 1..MaxSessions
\* "public": the marketing pages, with the sign-in page one link away.
Paths == {"public", "app"}

Tab == [open : BOOLEAN, user : Accounts \cup {Nobody}, initializing : BOOLEAN,
        access : Nat, path : Paths]
Closed == [open |-> FALSE, user |-> Nobody, initializing |-> FALSE, access |-> 0,
           path |-> "public"]

SessionKinds == {"renewal", "form", "logout", "password"}
UserKinds == {"renewal", "me", "form", "logout", "name", "refresh"}

\* token: the refresh token presented or, in an answer, the session issued;
\* access: the authorization header; user: who signs in or, in an answer, is.
Job == [tab : Tabs \cup {Gone}, kind : SessionKinds \cup UserKinds,
        stage : {"sent", "checked", "ok", "failed"},
        token : Nat, access : Nat, user : Accounts \cup {Nobody}]

JobsOf(t) == {j \in jobs : j.tab = t}
Doing(t, kinds) == \E j \in JobsOf(t) : j.kind \in kinds

\* Sessions that requests on their way may still add.
Issuing == {j \in jobs : j.kind \in {"renewal", "form"} /\ j.stage \in {"sent", "checked"}}
Room == Len(owner) + Cardinality(Issuing) < MaxSessions
Idle == Cardinality(jobs) < MaxJobs

Request(t, kind, token, user) ==
  [tab |-> t, kind |-> kind, stage |-> "sent", token |-> token,
   access |-> tab[t].access, user |-> user]

\* A tab sends a first request of some kind, and history takes note.
Send(t, kind, token, user) ==
  /\ Idle
  /\ jobs' = jobs \cup {Request(t, kind, token, user)}
  /\ crossed' = IF kind \in UserKinds /\ Doing(t, UserKinds) THEN crossed \cup {t} ELSE crossed
  /\ disturbed' = (disturbed \/ (kind \in SessionKinds
                     /\ \E j \in jobs : j.kind \in SessionKinds \cup {"me"}))

-----------------------------------------------------------------------------
(* The server, as these requests see it. *)

Authenticated(j) == j.access # 0 /\ j.access \notin stale

Reply(j, answer) == jobs' = (jobs \ {j}) \cup (IF j.tab = Gone THEN {} ELSE {answer})
Refuse(j) ==
  Reply(j, [j EXCEPT !.stage = "failed", !.token = 0, !.access = 0, !.user = Nobody])

\* A renewal revokes the token it is given and issues its successor; another
\* may have read the token in between.
CheckToken(j) ==
  /\ j.kind = "renewal" /\ j.stage = "sent"
  /\ IF j.token \in live
     THEN jobs' = (jobs \ {j}) \cup {[j EXCEPT !.stage = "checked"]}
     ELSE Refuse(j)
  /\ UNCHANGED <<owner, live, stale, stored, tab, disturbed, crossed>>

IssueSession(j, u, ended) ==
  LET new == Len(owner) + 1
  IN  /\ owner' = Append(owner, u)
      /\ live' = (live \ ended) \cup {new}
      /\ Reply(j, [j EXCEPT !.stage = "ok", !.token = new, !.user = u])
      /\ disturbed' = (disturbed \/ j.tab = Gone)
      /\ UNCHANGED <<stale, stored, tab, crossed>>

RotateToken(j) ==
  /\ j.kind = "renewal" /\ j.stage = "checked"
  /\ IssueSession(j, owner[j.token], {j.token})

\* login, signUp and signUpBusiness.
SignIn(j) ==
  /\ j.kind = "form" /\ j.stage = "sent"
  /\ \/ IssueSession(j, j.user, {})
     \/ Refuse(j) /\ UNCHANGED <<owner, live, stale, stored, tab, disturbed, crossed>>

\* A stale access token, or one of another account, leaves the session alive.
SignOut(j) ==
  /\ j.kind = "logout" /\ j.stage = "sent"
  /\ LET found == Authenticated(j) /\ owner[j.token] = owner[j.access]
     IN  /\ live' = IF found THEN live \ {j.token} ELSE live
         /\ disturbed' = (disturbed \/ ~found)
         /\ Reply(j, [j EXCEPT !.stage = IF Authenticated(j) THEN "ok" ELSE "failed"])
  /\ UNCHANGED <<owner, stale, stored, tab, crossed>>

\* changePassword keeps the session of the token it is sent.
Swept(j) == {s \in live : owner[s] = owner[j.access] /\ s # j.token}
ChangePassword(j) ==
  /\ j.kind = "password" /\ j.stage = "sent"
  /\ \/ Authenticated(j) /\ live' = live \ Swept(j) /\ Reply(j, [j EXCEPT !.stage = "ok"])
     \/ Refuse(j) /\ UNCHANGED live
  /\ UNCHANGED <<owner, stale, stored, tab, disturbed, crossed>>

\* authMeUser and updateUser.
WhoAmI(j) ==
  /\ j.kind \in {"me", "name", "refresh"} /\ j.stage = "sent"
  /\ IF Authenticated(j)
     THEN Reply(j, [j EXCEPT !.stage = "ok", !.user = owner[j.access]])
     ELSE Refuse(j)
  /\ disturbed' = (disturbed \/ (j.kind = "me" /\ ~Authenticated(j)))
  /\ UNCHANGED <<owner, live, stale, stored, tab, crossed>>

Serve(j) ==
  \/ CheckToken(j) \/ RotateToken(j) \/ SignIn(j) \/ SignOut(j) \/ ChangePassword(j) \/ WhoAmI(j)

\* A request or its answer is lost: the tab sees an error.
Lose(j) ==
  /\ j.stage \in {"sent", "ok"}
  /\ Refuse(j)
  /\ disturbed' = (disturbed \/ j.kind \in SessionKinds \cup {"me"})
  /\ UNCHANGED <<owner, live, stale, stored, tab, crossed>>

ExpireAccess(s) ==
  /\ s \in Aging \ stale /\ \E t \in Tabs : tab[t].access = s
  /\ stale' = stale \cup {s}
  /\ UNCHANGED <<owner, live, stored, tab, jobs, disturbed, crossed>>

-----------------------------------------------------------------------------
(* The tab: AuthProvider. *)

server == <<owner, live, stale>>
KeepStored(token) == UNCHANGED stored                        \* (mutant)
Store(token) == stored' = token

\* applySession, with the session that an answer brings.
ApplySession(t, j, path) ==
  /\ tab' = [tab EXCEPT ![t].user = j.user, ![t].access = j.token, ![t].path = path]
  /\ Store(j.token)

ForgetAccess(t) == [tab[t] EXCEPT !.access = 0]              \* (mutant)
SignedOut(t) == [tab[t] EXCEPT !.user = Nobody, !.access = 0]
ClearSession(t, after) ==
  /\ tab' = [tab EXCEPT ![t] = after]
  /\ stored' = 0

\* The page is loaded, for the first time or again: a stored token is renewed.
Mount(t, path) ==
  /\ ~tab[t].open
  /\ tab' = [tab EXCEPT ![t].open = TRUE, ![t].initializing = (stored # 0), ![t].path = path]
  /\ IF stored = 0
     THEN UNCHANGED <<jobs, crossed, disturbed>>
     ELSE Room /\ Send(t, "renewal", stored, Nobody)
  /\ UNCHANGED <<server, stored>>

\* What the page was waiting for goes on without it.
Close(t) ==
  /\ tab[t].open
  /\ tab' = [tab EXCEPT ![t] = Closed]
  /\ jobs' = (jobs \ JobsOf(t)) \cup
       {[j EXCEPT !.tab = Gone] :
          j \in {k \in JobsOf(t) : k.kind \in SessionKinds /\ k.stage \in {"sent", "checked"}}}
  /\ disturbed' = (disturbed \/ Doing(t, SessionKinds \cup {"me"}))
  /\ crossed' = crossed \ {t}
  /\ UNCHANGED <<server, stored>>

\* The renewed access token first, then the user it belongs to.
Restore(j) ==
  /\ j.kind = "renewal" /\ j.stage = "ok"
  /\ tab' = [tab EXCEPT ![j.tab].access = j.token]
  /\ Store(j.token)
  /\ jobs' = (jobs \ {j}) \cup {[Request(j.tab, "me", 0, Nobody) EXCEPT !.access = j.token]}
  /\ UNCHANGED <<server, disturbed, crossed>>

Restored(j) ==
  /\ j.kind = "me" /\ j.stage = "ok"
  /\ tab' = [tab EXCEPT ![j.tab].user = j.user, ![j.tab].initializing = FALSE]
  /\ jobs' = jobs \ {j}
  /\ UNCHANGED <<server, stored, disturbed, crossed>>

NotRestored(j) ==
  /\ j.kind \in {"renewal", "me"} /\ j.stage = "failed"
  /\ ClearSession(j.tab, [SignedOut(j.tab) EXCEPT !.initializing = FALSE])
  /\ jobs' = jobs \ {j}
  /\ UNCHANGED <<server, disturbed, crossed>>

Submitting(t) == Doing(t, {"form"})

SubmitForm(t, u) ==
  /\ tab[t].open /\ tab[t].path = "public" /\ ~Submitting(t) /\ Room /\ Idle
  /\ jobs' = jobs \cup {Request(t, "form", 0, u)}
  /\ crossed' = IF Doing(t, UserKinds) THEN crossed \cup {t} ELSE crossed
  /\ disturbed' = (disturbed \/ stored # 0
                     \/ \E j \in jobs : j.kind \in SessionKinds \cup {"me"})
  /\ UNCHANGED <<server, stored, tab>>

FormAnswered(j) ==
  /\ j.kind = "form" /\ j.stage \in {"ok", "failed"}
  /\ IF j.stage = "ok" THEN ApplySession(j.tab, j, "app") ELSE UNCHANGED <<tab, stored>>
  /\ jobs' = jobs \ {j}
  /\ UNCHANGED <<server, disturbed, crossed>>

\* What PrivateRoute lets through to AppLayout.
InApp(t) == tab[t].open /\ tab[t].path = "app" /\ ~tab[t].initializing /\ tab[t].user # Nobody

ClickLogout(t) ==
  /\ InApp(t) /\ ~Doing(t, {"logout"})
  /\ IF stored = 0
     THEN /\ ClearSession(t, [SignedOut(t) EXCEPT !.path = "public"])
          /\ crossed' = IF Doing(t, UserKinds) THEN crossed \cup {t} ELSE crossed
          /\ UNCHANGED <<jobs, disturbed>>
     ELSE Send(t, "logout", stored, Nobody) /\ UNCHANGED <<tab, stored>>
  /\ UNCHANGED server

LoggedOut(j) ==
  /\ j.kind = "logout" /\ j.stage \in {"ok", "failed"}
  /\ ClearSession(j.tab, [SignedOut(j.tab) EXCEPT !.path = "public"])
  /\ jobs' = jobs \ {j}
  /\ UNCHANGED <<server, disturbed, crossed>>

\* The account section of either settings page.
SaveName(t) ==
  /\ t \in Editors /\ InApp(t) /\ ~Doing(t, {"name"})
  /\ Send(t, "name", 0, Nobody)
  /\ UNCHANGED <<server, stored, tab>>

NameSaved(j) ==
  /\ j.kind = "name" /\ j.stage \in {"ok", "failed"}
  /\ jobs' = (jobs \ {j}) \cup
       (IF j.stage = "ok" THEN {Request(j.tab, "refresh", 0, Nobody)} ELSE {})
  /\ UNCHANGED <<server, stored, tab, disturbed, crossed>>

UserRefreshed(j) ==
  /\ j.kind = "refresh" /\ j.stage \in {"ok", "failed"}
  /\ IF j.stage = "ok" THEN tab' = [tab EXCEPT ![j.tab].user = j.user] ELSE UNCHANGED tab
  /\ jobs' = jobs \ {j}
  /\ UNCHANGED <<server, stored, disturbed, crossed>>

SubmitPassword(t) ==
  /\ t \in Editors /\ InApp(t) /\ ~Doing(t, {"password"})
  /\ Send(t, "password", stored, Nobody)
  /\ UNCHANGED <<server, stored, tab>>

PasswordAnswered(j) ==
  /\ j.kind = "password" /\ j.stage \in {"ok", "failed"}
  /\ jobs' = jobs \ {j}
  /\ UNCHANGED <<server, stored, tab, disturbed, crossed>>

Handle(j) ==
  \/ Restore(j) \/ Restored(j) \/ NotRestored(j) \/ FormAnswered(j) \/ LoggedOut(j)
  \/ NameSaved(j) \/ UserRefreshed(j) \/ PasswordAnswered(j)

-----------------------------------------------------------------------------
(* Routes. *)

ShowPath(t, path) ==
  /\ tab' = [tab EXCEPT ![t].path = path]
  /\ UNCHANGED <<server, stored, jobs, disturbed, crossed>>

\* Links, and the browser's back and forward.
Navigate(t, path) == tab[t].open /\ path # tab[t].path /\ ShowPath(t, path)

NeverRedirects(t) == FALSE                                   \* (mutant)
\* PrivateRoute, once its timer has fired.
Redirect(t) ==
  /\ tab[t].open /\ tab[t].path = "app"
  /\ ~tab[t].initializing /\ tab[t].user = Nobody
  /\ ShowPath(t, "public")

-----------------------------------------------------------------------------
BrowserInit ==
  /\ owner = <<Earlier>> /\ live = {1} /\ stale = {}
  /\ stored = 1
  /\ tab = [t \in Tabs |-> Closed]
  /\ jobs = {} /\ disturbed = FALSE /\ crossed = {}

Answers(t) == \E j \in JobsOf(t) : Serve(j) \/ Handle(j)

BrowserNext ==
  \/ \E j \in jobs : Serve(j) \/ Lose(j) \/ Handle(j)
  \/ \E s \in Sessions : ExpireAccess(s)
  \/ \E t \in Tabs :
       \/ \E path \in Paths : Mount(t, path) \/ Navigate(t, path)
       \/ \E u \in Accounts : SubmitForm(t, u)
       \/ Close(t) \/ ClickLogout(t) \/ SaveName(t) \/ SubmitPassword(t)
       \/ Redirect(t)

BrowserSpec == BrowserInit /\ [][BrowserNext]_browserVars

\* Requests are answered, be it with an error, and timers fire.
FairBrowserSpec ==
  BrowserSpec /\ \A t \in Tabs :
    /\ \A kind \in {"renewal", "me"} :
         WF_browserVars(\E j \in JobsOf(t) : j.kind = kind /\ (Serve(j) \/ Handle(j)))
    /\ WF_browserVars(Redirect(t))

-----------------------------------------------------------------------------
(* Properties. *)

Typed ==
  /\ owner \in Seq(Accounts)
  /\ live \subseteq 1..Len(owner) /\ stale \subseteq 1..Len(owner)
  /\ stored \in 0..Len(owner)
  /\ tab \in [Tabs -> Tab] /\ \A t \in Tabs : tab[t].access \in 0..Len(owner)
  /\ jobs \subseteq Job
  /\ \A j \in jobs : j.token \in 0..Len(owner) /\ j.access \in 0..Len(owner)
  /\ disturbed \in BOOLEAN /\ crossed \subseteq Tabs

BrowserTypeOK ==
  /\ Typed
  /\ Len(owner) <= MaxSessions
  /\ \A t \in Tabs : \A j, k \in JobsOf(t) : j.kind = k.kind /\ j.kind # "refresh" => j = k

\* No session request on its way, not even the one that tells who it is.
Settled == \A j \in jobs : j.kind \notin SessionKinds \cup {"me"}

\* While the browser's session requests came one after the other and reached
\* the server and back, the one session of the browser is the stored one: a
\* reload finds a token that works, and a logout leaves nothing behind.
StoreMatchesServer ==
  Settled /\ ~disturbed => live = (IF stored = 0 THEN {} ELSE {stored})

\* In a tab whose answers could not overtake each other, the user on screen
\* is the one whom its access token speaks for.
ShownUserSpeaks ==
  \A t \in Tabs \ crossed : tab[t].user # Nobody =>
    tab[t].access # 0 /\ owner[tab[t].access] = tab[t].user

\* A tab on a guarded page is soon past the loading screen: it shows the page
\* to a user, or has left it.
GuardDecides ==
  \A t \in Tabs :
    (tab[t].open /\ tab[t].path = "app" /\ ~InApp(t))
      ~> (~tab[t].open \/ tab[t].path # "app" \/ InApp(t))

-----------------------------------------------------------------------------
(* Why the first two hold: the parts of an invariant that every step         *)
(* preserves (SessionProofs.tla).                                            *)

\* Only requests whose sender the server no longer answers have no tab.
JobsHaveTabs ==
  /\ \A t \in Tabs : ~tab[t].open => tab[t] = Closed
  /\ \A j \in jobs : IF j.tab = Gone THEN j.stage \in {"sent", "checked"} ELSE tab[j.tab].open

\* Answers name a session and its user.
AnswersFit ==
  \A j \in jobs :
    /\ j.kind = "renewal" /\ j.stage # "failed" => j.token # 0
    /\ j.kind = "form" /\ j.stage = "sent" => j.user \in Accounts
    /\ j.kind = "form" /\ j.stage = "ok" => j.token # 0 /\ j.user = owner[j.token]
    /\ j.kind \in {"me", "refresh"} /\ j.stage = "ok" =>
         j.access # 0 /\ j.user = owner[j.access]

\* A tab with one request at a time asks with its own access token, and has no
\* user while it renews.
CalmTabs ==
  \A t \in Tabs \ crossed :
    /\ \A j, k \in JobsOf(t) : {j.kind, k.kind} \subseteq UserKinds => j = k
    /\ \A j \in JobsOf(t) :
         /\ j.kind \in {"me", "name", "refresh"} /\ j.stage # "failed" =>
              j.access = tab[t].access
         /\ j.kind = "renewal" => tab[t].user = Nobody

\* One session request at a time, and what it leaves until its answer is handled.
StoredOnly == IF stored = 0 THEN {} ELSE {stored}
CalmBrowser ==
  ~disturbed =>
    /\ \A j, k \in jobs : {j.kind, k.kind} \subseteq SessionKinds \cup {"me"} => j = k
    /\ Settled => live = StoredOnly
    /\ \A j \in jobs :
         /\ j.kind \in SessionKinds \cup {"me"} => j.tab # Gone
         /\ j.kind = "renewal" =>
              /\ j.stage # "failed" /\ live = {j.token}
              /\ j.stage # "ok" => stored = j.token
         /\ j.kind = "me" => j.stage # "failed" /\ live = StoredOnly
         /\ j.kind = "form" => stored = 0 /\ live = (IF j.stage = "ok" THEN {j.token} ELSE {})
         /\ j.kind = "logout" => live = (IF j.stage = "sent" THEN {j.token} ELSE {})
         /\ j.kind = "password" =>
              live = StoredOnly /\ (j.stage = "sent" => j.token = stored)

TabDiscipline == JobsHaveTabs /\ AnswersFit /\ CalmTabs /\ ShownUserSpeaks /\ CalmBrowser
=============================================================================
