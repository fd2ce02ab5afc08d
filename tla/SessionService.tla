--------------------------- MODULE SessionService ---------------------------
(***************************************************************************)
(* Sign-in, token renewal, revocation and the two ways to set a password:  *)
(* backend/src/services/sessionService.ts and authService.ts.              *)
(*                                                                         *)
(* Nothing here runs in a transaction: every statement commits by itself,  *)
(* and the requests of all users interleave between statements.  A request *)
(* creates at most one session, code or password, which bears its name;    *)
(* a refresh token is the name of its session.  Access tokens are not      *)
(* stored and outlive a revocation, so any user may send any request.      *)
(***************************************************************************)
EXTENDS Naturals, FiniteSets

CONSTANTS Users, Requests, First      \* First: the password of the sign-up

ASSUME FirstIsNoRequest == First \notin Requests

VARIABLES
  call,      \* what each request asks for, chosen when it is sent
  pc,        \* the statement it is about to run
  issued,    \* rows of providers_sessions
  revoked,   \* those with revoked_at
  codes,     \* rows of providers_password_reset_tokens
  used,      \* those with used_at
  expired,   \* sessions and codes past their expires_at
  password,  \* the request that set each user's password_hash
  swept,     \* the sessions a password change has still to revoke
  past       \* history: what a request found when it was sent

tables == <<issued, revoked, codes, used, password>>
vars == <<call, pc, tables, expired, swept, past>>

-----------------------------------------------------------------------------
(* Requests. *)

\* given: the token, password or code presented; keep: the caller's own token.
Call == [op : {"login", "renew", "signOut", "revoke", "change", "forgot", "confirm"},
         user : Users, given : Requests \cup {First}, keep : SUBSET Requests]
NoCall == [op |-> "none"]

Ended == {"ok", "error"}
Stages == {"new", "issue", "rotate", "revoke", "store", "spend", "list", "sweep"}
            \cup Ended

UserOf(s) == call[s].user
Active(u) == {s \in issued \ revoked : UserOf(s) = u}

\* A client can only present a token, or a code, that it was handed.
Tokens == {s \in issued : pc[s] = "ok"}
Codes == {s \in codes : pc[s] = "ok"}

Calls ==
  LET say(op, u, g, k) == [op |-> op, user |-> u, given |-> g, keep |-> k]
  IN  {say("login", u, g, {}) : u \in Users, g \in Requests \cup {First}}
        \cup {say("renew", UserOf(t), t, {}) : t \in Tokens}
        \cup {say(op, u, t, {}) : op \in {"signOut", "revoke"}, u \in Users, t \in Tokens}
        \cup {say("change", u, g, k) : u \in Users, g \in Requests \cup {First},
                                       k \in {{}} \cup {{t} : t \in Tokens}}
        \cup {say("forgot", u, First, {}) : u \in Users}
        \cup {say("confirm", u, g, {}) : u \in Users, g \in Codes}

\* History, at the first statement of a request.
Sent(r, c) ==
  /\ pc[r] = "new" /\ c \in Calls
  /\ call' = [call EXCEPT ![r] = c]
  /\ past' = [past EXCEPT ![r] =
       [begun |-> {q \in Requests : pc[q] # "new"}, issued |-> issued]]

GoTo(r, stage) == pc' = [pc EXCEPT ![r] = stage]

-----------------------------------------------------------------------------
(* First statements: what is read, and what it allows. *)

\* login, and the check of previousPassword by changePassword.
ComparePassword(r, c) ==
  /\ c.op \in {"login", "change"} /\ Sent(r, c)
  /\ GoTo(r, IF c.given # password[c.user] THEN "error"
             ELSE IF c.op = "login" THEN "issue" ELSE "store")
  /\ UNCHANGED <<tables, expired, swept>>

RenewableEvenIfRevoked(t) == t \in issued /\ t \notin expired    \* (mutant)
Renewable(t) == t \in issued /\ t \notin revoked /\ t \notin expired

StartRenew(r, c) ==
  /\ c.op = "renew" /\ Sent(r, c)
  /\ GoTo(r, IF Renewable(c.given) THEN "rotate" ELSE "error")
  /\ UNCHANGED <<tables, expired, swept>>

OfAnyone(s, u) == s \in issued                               \* (mutant)
OfUser(s, u) == s \in issued /\ UserOf(s) = u

\* revokeByToken says nothing of a session it cannot find; revokeById does.
StartRevoke(r, c) ==
  /\ c.op \in {"signOut", "revoke"} /\ Sent(r, c)
  /\ GoTo(r, IF ~OfUser(c.given, c.user)
             THEN IF c.op = "signOut" THEN "ok" ELSE "error"
             ELSE IF c.op = "signOut" /\ c.given \in revoked THEN "ok" ELSE "revoke")
  /\ UNCHANGED <<tables, expired, swept>>

Forgot(r, c) ==
  /\ c.op = "forgot" /\ Sent(r, c)
  /\ codes' = codes \cup {r}
  /\ \E answer \in Ended : GoTo(r, answer)
  /\ UNCHANGED <<issued, revoked, used, password, expired, swept>>

StartConfirm(r, c) ==
  /\ c.op = "confirm" /\ Sent(r, c)
  /\ GoTo(r, IF /\ c.given \in codes /\ UserOf(c.given) = c.user
                /\ c.given \notin used /\ c.given \notin expired
             THEN "store" ELSE "error")
  /\ UNCHANGED <<tables, expired, swept>>

-----------------------------------------------------------------------------
(* Later statements. *)

IssueFirst(r) ==                                             \* (mutant)
  /\ pc[r] = "rotate"
  /\ issued' = issued \cup {r}
  /\ GoTo(r, "revoke")
  /\ UNCHANGED <<call, revoked, codes, used, password, expired, swept, past>>
Rotate(r) ==
  /\ pc[r] = "rotate"
  /\ revoked' = revoked \cup {call[r].given}
  /\ GoTo(r, "issue")
  /\ UNCHANGED <<call, issued, codes, used, password, expired, swept, past>>

\* createSession; its answer may be lost on the way to the client.
Issue(r) ==
  /\ pc[r] = "issue"
  /\ issued' = issued \cup {r}
  /\ \E answer \in Ended : GoTo(r, answer)
  /\ UNCHANGED <<call, revoked, codes, used, password, expired, swept, past>>

Revoke(r) ==
  /\ pc[r] = "revoke"
  /\ revoked' = revoked \cup {call[r].given}
  /\ GoTo(r, "ok")
  /\ UNCHANGED <<call, issued, codes, used, password, expired, swept, past>>

StorePassword(r) ==
  /\ pc[r] = "store"
  /\ password' = [password EXCEPT ![call[r].user] = r]
  /\ GoTo(r, IF call[r].op = "confirm" THEN "spend" ELSE "list")
  /\ UNCHANGED <<call, issued, revoked, codes, used, expired, swept, past>>

Spent(r) == {call[r].given}

SpendCode(r) ==
  /\ pc[r] = "spend"
  /\ used' = used \cup Spent(r)
  /\ GoTo(r, "list")
  /\ UNCHANGED <<call, issued, revoked, codes, password, expired, swept, past>>

\* revokeAllForUser: one read, then one update per session, all in flight.
Others(r) == Active(call[r].user) \ call[r].keep

List(r) ==
  /\ pc[r] = "list"
  /\ swept' = [swept EXCEPT ![r] = Others(r)]
  /\ GoTo(r, "sweep")
  /\ UNCHANGED <<call, tables, expired, past>>

\* Those in flight go on when one of them has failed and the answer is out.
Sweep(r, s) ==
  /\ s \in swept[r]
  /\ revoked' = revoked \cup {s}
  /\ swept' = [swept EXCEPT ![r] = @ \ {s}]
  /\ UNCHANGED <<call, pc, issued, codes, used, password, expired, past>>

SweepFails(r, s) ==
  /\ s \in swept[r]
  /\ swept' = [swept EXCEPT ![r] = @ \ {s}]
  /\ GoTo(r, "error")
  /\ UNCHANGED <<call, tables, expired, past>>

FinishAtOnce(r) ==                                           \* (mutant)
  /\ pc[r] = "sweep"
  /\ GoTo(r, "ok")
  /\ UNCHANGED <<call, tables, expired, swept, past>>
Finish(r) ==
  /\ pc[r] = "sweep" /\ swept[r] = {}
  /\ GoTo(r, "ok")
  /\ UNCHANGED <<call, tables, expired, swept, past>>

-----------------------------------------------------------------------------
(* Failures, the clock and the whole system. *)

\* A statement fails, or the server stops: what was committed stays.
Fail(r) ==
  /\ pc[r] \notin Ended \cup {"new"}
  /\ GoTo(r, "error")
  /\ swept' = [swept EXCEPT ![r] = {}]
  /\ UNCHANGED <<call, tables, expired, past>>

Expire(x) ==
  /\ x \in (issued \cup codes) \ expired
  /\ expired' = expired \cup {x}
  /\ UNCHANGED <<call, pc, tables, swept, past>>

Init ==
  /\ call = [r \in Requests |-> NoCall]
  /\ pc = [r \in Requests |-> "new"]
  /\ issued = {} /\ revoked = {} /\ codes = {} /\ used = {} /\ expired = {}
  /\ password = [u \in Users |-> First]
  /\ swept = [r \in Requests |-> {}]
  /\ past = [r \in Requests |-> [begun |-> {}, issued |-> {}]]

Start(r) == \E c \in Calls :
  \/ ComparePassword(r, c) \/ StartRenew(r, c) \/ StartRevoke(r, c)
  \/ Forgot(r, c) \/ StartConfirm(r, c)

AllAnswered ==
  (\A r \in Requests : pc[r] \in Ended /\ swept[r] = {}) /\ UNCHANGED vars

Next ==
  \/ \E r \in Requests :
       \/ Start(r) \/ Rotate(r) \/ Issue(r) \/ Revoke(r) \/ StorePassword(r)
       \/ SpendCode(r) \/ List(r) \/ Finish(r) \/ Fail(r)
  \/ \E r, s \in Requests : Sweep(r, s) \/ SweepFails(r, s)
  \/ \E x \in Requests : Expire(x)
  \/ AllAnswered

Spec == Init /\ [][Next]_vars

-----------------------------------------------------------------------------
(* Properties. *)

TypeOK ==
  /\ call \in [Requests -> Call \cup {NoCall}]
  /\ pc \in [Requests -> Stages]
  /\ issued \subseteq Requests /\ revoked \subseteq issued
  /\ codes \subseteq Requests /\ used \subseteq codes
  /\ expired \subseteq issued \cup codes
  /\ password \in [Users -> Requests \cup {First}]
  /\ swept \in [Requests -> SUBSET issued]
  /\ past \in [Requests -> [begun : SUBSET Requests, issued : SUBSET issued]]

\* Wherever a renewal is interrupted, its client is left with one usable token
\* at most: the old token is revoked before its successor exists.
SuccessorRetiresToken ==
  \A s \in issued : call[s].op = "renew" => call[s].given \in revoked

Changes == {"change", "confirm"}

\* A password change that answers has ended every session of the user that
\* existed when it was sent, but the one to keep, whatever ran in between.
ChangeEndsFormerSessions ==
  \A r \in Requests : call[r].op \in Changes /\ pc[r] = "ok" =>
    \A s \in past[r].issued : UserOf(s) = call[r].user => s \in revoked \cup call[r].keep

\* A token whose renewal has been answered is not accepted by a later renewal,
\* nor a reset code whose use has been answered by a later one.
SpentStaysSpent ==
  [][\A r, q \in Requests :
       pc[r] = "new" /\ pc'[r] \in {"rotate", "store"} /\ call'[r].op \in {"renew", "confirm"}
       /\ call[q].op = call'[r].op /\ call[q].given = call'[r].given => pc[q] # "ok"]_vars

\* A session is only ever ended by a request of its own user.
OnlyOwnSessionsEnd ==
  [][\A s \in revoked' \ revoked : \E r \in Requests :
       /\ call[r] # NoCall /\ call[r].user = UserOf(s)
       /\ call[r].given = s \/ call[r].op \in Changes]_vars

\* The claim "this refresh token can only ever be used once"
\* (sessionService.ts:77).
TokenRenewedOnce ==
  \A q, r \in Requests :
    /\ call[q].op = "renew" /\ pc[q] = "ok"
    /\ call[r].op = "renew" /\ pc[r] = "ok"
    /\ call[q].given = call[r].given
    => q = r

\* The claim that "a password change should kick out anyone else"
\* (authService.ts:141): no session remains of a sign-in or a renewal that
\* was under way before the change was sent.
ChangeEndsEarlierSignIns ==
  \A r \in Requests : call[r].op = "change" /\ pc[r] = "ok" =>
    \A s \in past[r].begun \cap Active(call[r].user) : s \in call[r].keep

\* The claim "so the current session survives the mutation's
\* revoke-all-other-sessions side effect" (docs/03-architecture.md:586).
CurrentSessionSurvives ==
  [][\A r, s \in Requests : Sweep(r, s) =>
       ~(call[s].op = "renew" /\ call[s].given \in call[r].keep)]_vars

-----------------------------------------------------------------------------
(* Why they hold: what every step preserves (SessionProofs.tla).             *)

\* A row names a request that has been answered, and an unsent one has none.
RowsFromCalls ==
  /\ \A r \in Requests : IF pc[r] = "new" THEN swept[r] = {} ELSE call[r] \in Call
  /\ \A s \in issued : pc[s] \in Ended /\ call[s].op \in {"login", "renew"}
  /\ \A s \in codes : pc[s] \in Ended /\ call[s].op = "forgot"

\* Which calls reach which stage, and what they have checked or written there.
CallsOnTrack ==
  \A r \in Requests :
    /\ pc[r] \in {"rotate", "revoke"} =>
         /\ call[r].op \in {"renew", "signOut", "revoke"}
         /\ call[r].given \in issued /\ UserOf(call[r].given) = call[r].user
    /\ pc[r] = "rotate" => call[r].op = "renew"
    /\ pc[r] = "revoke" => call[r].op # "renew"
    /\ pc[r] = "issue" => call[r].op \in {"login", "renew"}
    /\ pc[r] \in {"issue", "ok"} /\ call[r].op = "renew" => call[r].given \in revoked
    /\ pc[r] \in {"store", "list", "sweep"} => call[r].op \in Changes
    /\ pc[r] = "spend" => call[r].op = "confirm"
    /\ pc[r] \in {"store", "spend"} /\ call[r].op = "confirm" => call[r].given \in codes
    /\ pc[r] \in {"list", "sweep", "ok"} /\ call[r].op = "confirm" => call[r].given \in used

\* Between its list and its answer, a password change has revoked, keeps or is
\* revoking every session that it found when it was sent.
SweepsCover ==
  \A r \in Requests :
    /\ swept[r] # {} => call[r].op \in Changes
    /\ \A s \in swept[r] : UserOf(s) = call[r].user
    /\ pc[r] = "ok" => swept[r] = {}
    /\ pc[r] \in {"sweep", "ok"} /\ call[r].op \in Changes =>
         \A s \in past[r].issued : UserOf(s) = call[r].user =>
           s \in revoked \cup call[r].keep \cup swept[r]

SessionDiscipline ==
  RowsFromCalls /\ CallsOnTrack /\ SweepsCover /\ SuccessorRetiresToken
=============================================================================
