------------------------------ MODULE AppLayout ------------------------------
(***************************************************************************)
(* The shell around every page of the app, and the browser's history:      *)
(* routes/app/AppLayout.tsx under PrivateRoute.  Reviewers and owners have *)
(* navigations of their own; an owner who gets to a reviewer's page is     *)
(* sent on by an effect.                                                   *)
(***************************************************************************)
EXTENDS Integers, Sequences, SequencesExt, TLC

CONSTANTS
    Users, Owners,   \* Owners \subseteq Users
    Nobody,
    MAX_STACK        \* bound on the entries of the browser's history

VARIABLES
    shell,     \* "closed" or "open"
    stack, at, \* the browser's history and the entry on display
    user,
    token,     \* the user of the stored refresh token
    initializing,
    seen,      \* user and path of the effects' last run, or <<>> while not mounted
    menu,      \* the path at which the mobile menu was opened, or <<>>
    went       \* history: where the last "back" should have led, or 0

vars == <<shell, stack, at, user, token, initializing, seen, menu, went>>

ReviewerPages == {"discover", "saved", "notifications"}
OwnerPages == {"dashboard", "notifications"}
Shared == {"place"}
AppPaths == ReviewerPages \cup OwnerPages \cup Shared
Paths == {"home", "login"} \cup AppPaths

NavItems(u) == IF u \in Owners THEN OwnerPages ELSE ReviewerPages

PrefixesOnly == {"saved"}                   \* (mutant) "/app" itself is not a prefix
ReviewerOnly == {"discover", "saved"}

path == stack[at]
Mounted == seen # <<>> \/ (user # Nobody /\ ~initializing /\ path \in AppPaths)
Settled == Mounted => seen = <<user, path>>

TypeOK ==
    /\ shell \in {"closed", "open"} /\ stack \in Seq(Paths)
    /\ at \in 1..Len(stack) /\ went \in 0..MAX_STACK
    /\ {user, token} \subseteq Users \cup {Nobody} /\ initializing \in BOOLEAN
    /\ seen = <<>> \/ seen \in Users \X AppPaths
    /\ menu = <<>> \/ menu \in {<<p>> : p \in AppPaths}

Init ==
    /\ shell = "closed" /\ stack = <<"home">> /\ at = 1
    /\ user = Nobody /\ token = Nobody /\ initializing = FALSE
    /\ seen = <<>> /\ menu = <<>> /\ went = 0

Open ==
    /\ shell = "closed" /\ shell' = "open"
    /\ token' \in Users \cup {Nobody}
    /\ initializing' = (token' # Nobody)
    /\ UNCHANGED <<stack, at, user, seen, menu, went>>

----------------------------------------------------------------------------
\* Entries of the history.  A link to the page on display replaces its entry.
Pushed(p) == IF p = path THEN stack ELSE Append(SubSeq(stack, 1, at), p)
Replaced(p) == [stack EXCEPT ![at] = p]

\* The shell is unmounted, and forgets its state, outside the app.
Go(s, n, u) ==
    LET stays == u # Nobody /\ s[n] \in AppPaths
    IN  /\ stack' = s /\ at' = n /\ user' = u
        /\ seen' = IF stays THEN seen ELSE <<>>
        /\ menu' = IF stays THEN menu ELSE <<>>

Push(p, u) ==
    /\ Len(Pushed(p)) <= MAX_STACK
    /\ Go(Pushed(p), Len(Pushed(p)), u)

Events == shell = "open" /\ Settled

(* NavLink, the cards that lead to a place, and the links of public pages. *)
Click(p) ==
    /\ Events
    /\ IF Mounted THEN p \in NavItems(user) \cup Shared ELSE path = "home" /\ p = "login"
    /\ Push(p, user) /\ went' = 0
    /\ UNCHANGED <<shell, token, initializing>>

StepTo(n) ==
    /\ Events /\ n \in 1..Len(stack) /\ n # at
    /\ Go(stack, n, user) /\ went' = IF n < at THEN n ELSE 0
    /\ UNCHANGED <<shell, token, initializing>>

(* The forms of the login page. *)
SignIn(u) ==
    /\ Events /\ path = "login" /\ ~initializing
    /\ Push(IF u \in Owners THEN "dashboard" ELSE "discover", u)
    /\ token' = u /\ went' = 0
    /\ UNCHANGED <<shell, initializing>>

(* handleLogout *)
Logout ==
    /\ Events /\ Mounted
    /\ Push("home", Nobody)
    /\ token' = Nobody /\ went' = 0
    /\ UNCHANGED <<shell, initializing>>

(* A bookmark: the page is loaded anew, and the session restored. *)
TypeUrl(p) ==
    /\ Events /\ Len(Pushed(p)) <= MAX_STACK
    /\ stack' = Pushed(p) /\ at' = Len(Pushed(p))
    /\ user' = Nobody /\ initializing' = (token # Nobody)
    /\ seen' = <<>> /\ menu' = <<>> /\ went' = 0
    /\ UNCHANGED <<shell, token>>

Restore ==
    /\ initializing /\ initializing' = FALSE
    /\ \E u \in {token, Nobody} : user' = u /\ token' = u
    /\ UNCHANGED <<shell, stack, at, seen, menu, went>>

(* PrivateRoute *)
Redirect ==
    /\ shell = "open" /\ ~initializing /\ user = Nobody /\ path \in AppPaths
    /\ Go(Replaced("login"), at, user)
    /\ UNCHANGED <<shell, token, initializing, went>>

----------------------------------------------------------------------------
BounceToDashboard == stack' = Replaced("dashboard") /\ UNCHANGED at

ClosesAt(m) == IF seen # <<>> /\ seen[2] = path THEN m ELSE <<>>

(* The effects that follow a render with another user or path. *)
RunEffects ==
    /\ Mounted /\ ~Settled
    /\ seen' = <<user, path>>
    /\ menu' = ClosesAt(menu)
    /\ IF user \in Owners /\ path \in ReviewerOnly
       THEN BounceToDashboard ELSE UNCHANGED <<stack, at>>
    /\ UNCHANGED <<shell, user, token, initializing, went>>

OpenMenu ==
    /\ Events /\ Mounted /\ menu' = <<path>>
    /\ UNCHANGED <<shell, stack, at, user, token, initializing, seen, went>>

CloseMenu ==
    /\ menu # <<>> /\ menu' = <<>>
    /\ UNCHANGED <<shell, stack, at, user, token, initializing, seen, went>>

Next ==
    \/ Open \/ Logout \/ Restore \/ Redirect \/ RunEffects \/ OpenMenu \/ CloseMenu
    \/ \E p \in Paths : Click(p) \/ TypeUrl(p)
    \/ \E n \in 1..MAX_STACK : StepTo(n)
    \/ \E u \in Users : SignIn(u)

Spec == Init /\ [][Next]_vars

----------------------------------------------------------------------------
\* However an owner gets to a page (a bookmark, back and forward after another
\* account was used in the same tab, a sign-in), it is one of the console or a
\* place: the bounce and the navigation are two lists that must fit.
OwnersStayInConsole ==
    Mounted /\ Settled /\ user \in Owners => path \in NavItems(user) \cup Shared

\* "Back" leads one entry back and stays there: the bounce of an owner replaces
\* the entry it starts from and never traps the button.
BackIsNotTrapped == Settled /\ went # 0 => at = went

\* The mobile menu never covers a page other than the one it was opened on.
MenuClosesOnTheWay == Settled /\ menu # <<>> => menu = <<path>>
============================================================================
