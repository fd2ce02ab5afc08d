----------------------------- MODULE SignUpForm -----------------------------
(***************************************************************************)
(* The sign-up form of the login page and of the gate in front of a        *)
(* scanned QR code.  A reviewer signs up in one step; an owner fills in    *)
(* the account, goes on to the place, and submits both together.  The two  *)
(* steps are two forms with a submit button of their own, and the user may *)
(* go back, change the kind of account or leave the tab while a sign-up is *)
(* under way.                                                              *)
(***************************************************************************)
EXTENDS Integers, FiniteSets, TLC

CONSTANTS
    Emails,     \* accounts a user may type
    Spots,      \* places on the map
    SignUps,    \* sign-ups that can run at the same time
    None,
    MAX_LOCATING   \* location requests that can run at the same time

VARIABLES
    desk,      \* "closed", "login", "modal", or "left" once signed in
    mount,     \* the sign-up form on display (tabs unmount it), or None
    type,      \* userType
    step,
    typed,     \* the account form's fields
    account,   \* accountValues, kept by "Continue"
    pin,       \* the business form's location
    requesting,   \* the picker's button waits for the browser's answer
    locating,  \* location requests whose answer this form will receive
    signUps,     \* sign-ups under way
    accounts,  \* server: e-mail and kind of each account
    me,        \* the signed-in account
    excuse     \* history: the user went back or away during a sign-up, or an answer was lost

vars == <<desk, mount, type, step, typed, account, pin, requesting, locating, signUps, accounts,
          me, excuse>>

Kinds == {"REGULAR", "BUSINESS"}
Account == [email : Emails, type : Kinds]
Idle == [kind |-> None, email |-> None, from |-> None, stage |-> "idle"]
Running == {c \in SignUps : signUps[c] # Idle}

TypeOK ==
    /\ desk \in {"closed", "login", "modal", "left"} /\ mount \in {None, "form 1", "form 2"}
    /\ type \in Kinds /\ step \in {1, 2}
    /\ {typed, account} \subseteq Emails \cup {None} /\ pin \in Spots \cup {None}
    /\ requesting \in BOOLEAN /\ locating \in 0..MAX_LOCATING /\ excuse \in BOOLEAN
    /\ \A c \in Running : signUps[c].kind \in Kinds /\ signUps[c].email \in Emails
                          /\ signUps[c].stage \in {"sent", "ok", "failed"}
    /\ accounts \subseteq Account /\ me \in Account \cup {None}
    /\ \A a, b \in accounts : a.email = b.email => a = b

Init ==
    /\ desk = "closed" /\ mount = None /\ type = "REGULAR" /\ step = 1
    /\ typed = None /\ account = None /\ pin = None /\ requesting = FALSE /\ locating = 0
    /\ signUps = [c \in SignUps |-> Idle] /\ accounts = {} /\ me = None /\ excuse = FALSE

server == <<accounts, me>>
fields == <<typed, account, pin>>
location == <<requesting, locating>>

(* The page, with the kind of account its link asks for. *)
Open(d, t) ==
    /\ desk = "closed" /\ desk' = d /\ mount' = "form 1"
    /\ type' = IF d = "modal" THEN "REGULAR" ELSE t
    /\ UNCHANGED <<step, fields, location, signUps, server, excuse>>

(* "Sign In" and "Sign Up": the form forgets everything, its calls run on. *)
LeaveTab ==
    /\ mount # None /\ mount' = None
    /\ type' = "REGULAR" /\ step' = 1 /\ typed' = None /\ account' = None /\ pin' = None
    /\ requesting' = FALSE /\ locating' = 0
    /\ excuse' = (excuse \/ Running # {})
    /\ UNCHANGED <<desk, signUps, server>>

ReturnToTab(t) ==
    /\ desk \in {"login", "modal"} /\ mount = None
    /\ mount' = "form 2" /\ type' = IF desk = "modal" THEN "REGULAR" ELSE t
    /\ UNCHANGED <<desk, step, fields, location, signUps, server, excuse>>

(* The cards of step one; the gate does not offer them. *)
ChooseType(t) ==
    /\ desk = "login" /\ mount # None /\ step = 1 /\ type' = t
    /\ UNCHANGED <<desk, mount, step, fields, location, signUps, server, excuse>>

Type(e) ==
    /\ mount # None /\ step = 1 /\ typed' = e
    /\ UNCHANGED <<desk, mount, type, step, account, pin, location, signUps, server, excuse>>

----------------------------------------------------------------------------
NeverSubmitting(k) == FALSE           \* (mutant) the button stays enabled

(* isSubmitting of the form that signs up this kind of account. *)
Submitting(k) == \E c \in Running : signUps[c].kind = k /\ signUps[c].from = mount

Kept(e) == e

\* onAccountSubmit of an owner: nothing is sent yet.
Continue ==
    /\ mount # None /\ step = 1 /\ type = "BUSINESS" /\ typed # None /\ ~Submitting("REGULAR")
    /\ account' = Kept(typed) /\ step' = 2
    /\ UNCHANGED <<desk, mount, type, typed, pin, location, signUps, server, excuse>>

Back ==
    /\ step = 2 /\ step' = 1
    /\ requesting' = FALSE
    /\ excuse' = (excuse \/ Running # {})
    /\ UNCHANGED <<desk, mount, type, fields, locating, signUps, server>>

Send(c, k, e) ==
    /\ signUps[c] = Idle
    /\ signUps' = [signUps EXCEPT ![c] = [kind |-> k, email |-> e, from |-> mount, stage |-> "sent"]]

\* onAccountSubmit of a reviewer, and onBusinessSubmit.
SignUp(c) ==
    /\ mount # None /\ step = 1 /\ type = "REGULAR" /\ typed # None /\ ~Submitting("REGULAR")
    /\ Send(c, "REGULAR", typed)
    /\ UNCHANGED <<desk, mount, type, step, fields, location, server, excuse>>

(* Of the fields of the second step only the location is told apart. *)
Complete == pin # None

SignUpBusiness(c) ==
    /\ step = 2 /\ Complete /\ ~Submitting("BUSINESS")
    /\ Send(c, "BUSINESS", account)
    /\ UNCHANGED <<desk, mount, type, step, fields, location, server, excuse>>

(* The server: the e-mail decides. *)
Register(c) ==
    /\ signUps[c].stage = "sent"
    /\ IF \E a \in accounts : a.email = signUps[c].email
       THEN UNCHANGED accounts /\ signUps' = [signUps EXCEPT ![c].stage = "failed"]
       ELSE /\ accounts' = accounts \cup {[email |-> signUps[c].email, type |-> signUps[c].kind]}
            /\ signUps' = [signUps EXCEPT ![c].stage = "ok"]
    /\ UNCHANGED <<desk, mount, type, step, fields, location, me, excuse>>

Lose(c) ==
    /\ signUps[c].stage \in {"sent", "ok"}
    /\ signUps' = [signUps EXCEPT ![c].stage = "failed"]
    /\ excuse' = (excuse \/ signUps[c].stage = "ok")
    /\ UNCHANGED <<desk, mount, type, step, fields, location, server>>

\* The answer signs in and moves on, whether or not its form is still there.
SignedUp(c) ==
    /\ signUps[c].stage = "ok"
    /\ me' = [email |-> signUps[c].email, type |-> signUps[c].kind]
    /\ signUps' = [signUps EXCEPT ![c] = Idle]
    /\ desk' = "left" /\ mount' = None
    /\ type' = "REGULAR" /\ step' = 1 /\ typed' = None /\ account' = None /\ pin' = None
    /\ requesting' = FALSE /\ locating' = 0
    /\ UNCHANGED <<accounts, excuse>>

SignUpFailed(c) ==
    /\ signUps[c].stage = "failed" /\ signUps' = [signUps EXCEPT ![c] = Idle]
    /\ UNCHANGED <<desk, mount, type, step, fields, location, server, excuse>>

----------------------------------------------------------------------------
(* LocationPicker: a click on the map, a dragged pin, "Turn on location". *)

Pick(s) ==
    /\ step = 2 /\ pin' = s
    /\ UNCHANGED <<desk, mount, type, step, typed, account, location, signUps, server, excuse>>

UseMyLocation ==
    /\ step = 2 /\ ~requesting /\ locating < MAX_LOCATING
    /\ requesting' = TRUE /\ locating' = locating + 1
    /\ UNCHANGED <<desk, mount, type, step, fields, signUps, server, excuse>>

\* The answer sets the pin, also when another was placed in the meantime, and
\* also once the picker has been left.
Located(s) ==
    /\ locating > 0 /\ locating' = locating - 1
    /\ requesting' \in (IF locating = 1 THEN {FALSE} ELSE {requesting, FALSE})
    /\ pin' \in {s, pin}
    /\ UNCHANGED <<desk, mount, type, step, typed, account, signUps, server, excuse>>

Next ==
    \/ \E t \in Kinds :
         Open("login", t) \/ Open("modal", t) \/ ReturnToTab(t) \/ ChooseType(t)
    \/ LeaveTab \/ Continue \/ Back \/ UseMyLocation
    \/ \E e \in Emails : Type(e)
    \/ \E s \in Spots : Pick(s) \/ Located(s)
    \/ \E c \in SignUps :
         SignUp(c) \/ SignUpBusiness(c) \/ Register(c) \/ Lose(c) \/ SignedUp(c) \/ SignUpFailed(c)

Spec == Init /\ [][Next]_vars

----------------------------------------------------------------------------
\* One person who fills in the form ends with one account, whatever is
\* clicked, retried and refused on the way.  Going back or to the other tab
\* while a sign-up runs, and a lost answer, are the exceptions: then a second
\* sign-up may run, and the answer that comes last decides who is signed in.
OneAccountPerPerson == ~excuse => Cardinality(accounts) <= 1

\* The place is submitted with the account as it was typed last, although the
\* user may go back and forth between the two steps.
StepsAgree == step = 2 => account = typed /\ account # None

\* Who came through a scanned code becomes a reviewer: the form is shared with
\* the login page, where every path leads to either kind of account.
ScannersAreReviewers ==
    desk = "modal" => step = 1 /\ \A a \in accounts : a.type = "REGULAR"
=============================================================================
