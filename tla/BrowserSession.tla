--------------------------- MODULE BrowserSession ---------------------------
(* The session of one browser tab (AuthContext, createSessionController):  *)
(* the account the server answered for the user of the tab's identity      *)
(* provider, asked for again on every change of token, focus, visibility   *)
(* and minute, and the sign-out of this tab or of another.                 *)
(*                                                                         *)
(* The access of a user changes on the server; each answer carries its     *)
(* version. Answers come in any order, late, or fail. A page that is       *)
(* reloaded starts anew with the tab's user. Forms of sign-in are one      *)
(* action, and the page a denied user sees is left out.                    *)
EXTENDS Naturals, FiniteSets

CONSTANTS
    Users, None,
    MaxVersion,     \* bound: changes of a user's access
    MaxRestores     \* bound: restores under way at once

VARIABLES
    access,     \* the server: [version, active] of each user
    user,       \* the user of the identity provider
    pending,    \* the provider's callback for it is still due
    session,    \* boundary.snapshot: [status, user, version of the account]
    restores,   \* restores under way, what was answered, and whether the generation is theirs
    signingOut, \* sign-out has begun
    signed,     \* whether the provider's sign-out is under way
    newest      \* history: newest version of each user's access shown on this page

vars == <<access, user, pending, session, restores, signingOut, signed, newest>>

Shown(status, u, version) == [status |-> status, user |-> u, version |-> version]
NoReply == [version |-> None, active |-> FALSE]

Init ==
    /\ access \in [Users -> [version : {0}, active : BOOLEAN]]
    /\ user \in Users \cup {None} /\ pending = TRUE
    /\ session = Shown("loading", None, None) /\ restores = {}
    /\ signingOut = FALSE /\ signed = FALSE
    /\ newest = [u \in Users |-> 0]

-----------------------------------------------------------------------------
(* The controller.                                                         *)
Quiet(u, background) ==
    background /\ u # None /\ (session.status = "authorized" => session.user = u)

(* Every step of the generation leaves the restores under way behind.      *)
Outdated == {[q EXCEPT !.current = FALSE] : q \in restores}

Restore(u, background) ==
    /\ Cardinality(restores) < MaxRestores
    /\ session' = IF Quiet(u, background) THEN session
                  ELSE Shown(IF u = None THEN "signed-out" ELSE "loading", u, None)
    /\ restores' = Outdated \cup
          IF u = None THEN {} ELSE {[user |-> u, current |-> TRUE, reply |-> NoReply]}

(* clear and deny: whatever is under way is forgotten.                     *)
Put(status) ==
    /\ restores' = Outdated
    /\ session' = Shown(status, None, None)

FaultyLatest(q) == q.user = session.user     \* an older restore of the same user
Latest(q) == q.current

Settle(q, status, version) ==
    /\ restores' = restores \ {q}
    /\ session' = IF Latest(q) THEN Shown(status, q.user, version) ELSE session
    /\ UNCHANGED <<access, user, pending, signingOut, signed>>

ChangeAccess(u, active) ==
    /\ access[u].version < MaxVersion
    /\ access' = [access EXCEPT ![u] = [version |-> @.version + 1, active |-> active]]
    /\ UNCHANGED <<user, pending, session, restores, signingOut, signed, newest>>

(* GET /me, as the authenticator answers at that moment.                   *)
Serve(q) ==
    /\ q \in restores /\ q.reply = NoReply
    /\ restores' = (restores \ {q}) \cup {[q EXCEPT !.reply = access[q.user]]}
    /\ UNCHANGED <<access, user, pending, session, signingOut, signed, newest>>

Answered(q) ==
    /\ q \in restores /\ q.reply # NoReply
    /\ IF q.reply.active THEN Settle(q, "authorized", q.reply.version) ELSE Settle(q, "denied", None)
    /\ newest' = IF session' # session /\ q.reply.version > newest[q.user]
                 THEN [newest EXCEPT ![q.user] = q.reply.version] ELSE newest

Failed(q) == q \in restores /\ Settle(q, "denied", None) /\ UNCHANGED newest

-----------------------------------------------------------------------------
(* What asks for a restore.                                                *)

(* A form of sign-in succeeds, which an email link offers to a tab that    *)
(* has a user; or the provider ends the user's sign-in.                    *)
SignIn(u) ==
    /\ u # user /\ user' = u /\ pending' = TRUE
    /\ UNCHANGED <<access, session, restores, signingOut, signed, newest>>

(* A new token of the same user.                                           *)
NewToken ==
    /\ user # None /\ pending' = TRUE
    /\ UNCHANGED <<access, user, session, restores, signingOut, signed, newest>>

(* onIdTokenChanged.                                                       *)
TokenChanged ==
    /\ pending /\ pending' = FALSE
    /\ IF signingOut THEN UNCHANGED <<session, restores>>
       ELSE Restore(user, session.status = "authorized" /\ session.user = user)
    /\ UNCHANGED <<access, user, signingOut, signed, newest>>

ListenerFails ==
    /\ Put("denied")
    /\ UNCHANGED <<access, user, pending, signingOut, signed, newest>>

(* Focus, visibility and the timer; and the button of a denied page.       *)
Refresh ==
    /\ ~signingOut /\ Restore(user, TRUE)
    /\ UNCHANGED <<access, user, pending, signingOut, signed, newest>>

Retry ==
    /\ ~signingOut /\ session.status = "denied" /\ Restore(user, FALSE)
    /\ UNCHANGED <<access, user, pending, signingOut, signed, newest>>

-----------------------------------------------------------------------------
(* Sign-out, asked for here or in another tab.                             *)
SignOut ==
    /\ signingOut' = TRUE /\ signed' = TRUE
    /\ Put("signed-out")
    /\ UNCHANGED <<access, user, pending, newest>>

SignOutFails ==
    /\ signed /\ signed' = FALSE
    /\ Put("denied")
    /\ UNCHANGED <<access, user, pending, signingOut, newest>>

(* The provider's sign-out is done and the page replaced; or the tab is    *)
(* reloaded, whatever it is doing.                                         *)
NewPage(next) ==
    /\ user' = next /\ pending' = TRUE
    /\ session' = Shown("loading", None, None) /\ restores' = {}
    /\ signingOut' = FALSE /\ signed' = FALSE
    /\ newest' = [u \in Users |-> 0]
    /\ UNCHANGED access
SignOutDone == signed /\ NewPage(None)
Reload == NewPage(user)

-----------------------------------------------------------------------------
Next ==
    \/ \E u \in Users, active \in BOOLEAN : ChangeAccess(u, active)
    \/ \E u \in Users \cup {None} : SignIn(u)
    \/ NewToken \/ TokenChanged \/ ListenerFails \/ Refresh \/ Retry
    \/ \E q \in restores : Serve(q) \/ Answered(q) \/ Failed(q)
    \/ SignOut \/ SignOutFails \/ SignOutDone \/ Reload

Spec == Init /\ [][Next]_vars
-----------------------------------------------------------------------------
(* "Late authorization results cannot restore a signed-out session", and   *)
(* no older access a newer one: the page shows the protected screens only  *)
(* under the newest answer it has shown for their user, and never again    *)
(* once sign-out has begun, however that ends, until the page is replaced. *)
AccessNeverGoesBack ==
    session.status = "authorized" => ~signingOut /\ session.version >= newest[session.user]
=============================================================================
