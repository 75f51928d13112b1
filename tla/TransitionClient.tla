-------------------------- MODULE TransitionClient --------------------------
(***************************************************************************)
(* One administrator changing one Person from several browser tabs: the    *)
(* controller of each tab (createPersonTransitionController), the vault of *)
(* recovery markers the tabs share in localStorage, and the server as the  *)
(* abstract TransitionOutcome that TransitionOperation is proved to        *)
(* implement.                                                              *)
(*                                                                         *)
(* A request that was sent may reach the server at any later time and any  *)
(* number of times, also after its tab gave up, was reloaded or signed     *)
(* out. An await of the code is a boundary between two actions; the awaits *)
(* of the vault's own lock, which no network delays, are not.              *)
(***************************************************************************)
EXTENDS Naturals, FiniteSets

CONSTANTS
    Tabs, Ops,      \* browser tabs; operation UUIDs they may draw
    None,           \* no operation
    MaxFailures     \* bound: lost calls, reloads and sign-outs

VARIABLES
    outcome, applied,   \* the server's receipts and business writes
    sent,       \* requests that may still arrive: <<kind, operation>>
    vault,      \* recovery markers in localStorage
    tab,        \* the controller of each tab
    used,       \* operation ids already drawn
    failures,   \* failures so far
    shown,      \* history: operations some refreshed Directory included
    cleared,    \* history: markers removed by an explicit sign-out
    told        \* history: operations reported <<as, operation>> to the user

vars == <<outcome, applied, sent, vault, tab, used, failures, shown, cleared, told>>
serverVars == <<outcome, applied>>
historyVars == <<shown, cleared, told>>

Server == INSTANCE TransitionOutcome WITH Keys <- Ops

Terminal == {"committed", "cancelled"}
Phases == {"closed", "recovery-required", "review-required", "review-ready", "preparing",
           "prepared", "saving", "outcome-unknown", "saved", "cancellation-confirmed"}
(* What a tab awaits; "idle" is not busy.                                  *)
Steps == {"idle", "persisting", "status", "refreshing", "finishing",
          "prepare", "commit", "cancel", "resolve-refresh", "resolve-remove"}

Closed == [phase |-> "closed", step |-> "idle", reviewed |-> None, recovered |-> FALSE,
           op |-> None, local |-> {}, listed |-> {}, seen |-> [o \in {} |-> "unknown"]]

-----------------------------------------------------------------------------
Init ==
    /\ Server!Init
    /\ sent = {} /\ vault = {} /\ used = {} /\ failures = 0
    /\ tab = [t \in Tabs |-> Closed]
    /\ shown = {} /\ cleared = {} /\ told = {}

(* The server handles a request that arrives; it may also refuse it.       *)
ServerPrepare(o) == <<"prepare", o>> \in sent /\ Server!Prepare(o)
ServerCommit(o) == <<"commit", o>> \in sent /\ Server!Commit(o)
ServerCancel(o) == <<"cancel", o>> \in sent /\ Server!Cancel(o)

ServerStep ==
    /\ \E o \in Ops : ServerPrepare(o) \/ ServerCommit(o) \/ ServerCancel(o)
    /\ UNCHANGED <<sent, vault, tab, used, failures, historyVars>>

-----------------------------------------------------------------------------
Idle(t) == tab[t].phase # "closed" /\ tab[t].step = "idle"

(* uncertain(): whatever failed, keep the operation and demand recovery.   *)
Uncertain(c) == [Closed EXCEPT !.phase = "outcome-unknown", !.reviewed = c.reviewed]
(* A recovery that fails with nothing known asks for another recovery.     *)
RecoverFailed(c) ==
    [Uncertain(c) EXCEPT !.phase = IF vault = {} THEN "recovery-required" ELSE @]

PhaseOf(result) == IF result = "committed" THEN "saved" ELSE "cancellation-confirmed"

Set(t, c) == tab' = [tab EXCEPT ![t] = c]

Open(t) ==
    /\ tab[t].phase = "closed"
    /\ Set(t, [Closed EXCEPT !.phase = "recovery-required"])
    /\ UNCHANGED <<serverVars, sent, vault, used, failures, historyVars>>

(* recover(): the local markers and the server's prepared list first (the  *)
(* list may be old when its answer is used) ...                            *)
RecoverList(t) ==
    /\ Idle(t)
    /\ Set(t, [tab[t] EXCEPT !.step = "persisting", !.recovered = FALSE, !.local = vault,
                             !.listed = {o \in Ops : outcome[o] = "prepared"}])
    /\ UNCHANGED <<serverVars, sent, vault, used, failures, historyVars>>

(* ... every marker found is persisted before any status is asked ...      *)
RecoverPersist(t) ==
    /\ tab[t].step = "persisting"
    /\ vault' = vault \cup tab[t].local \cup tab[t].listed
    /\ Set(t, [tab[t] EXCEPT !.step = "status", !.local = @ \cup tab[t].listed,
                             !.seen = [o \in {} |-> "unknown"]])
    /\ UNCHANGED <<serverVars, sent, used, failures, historyVars>>

(* ... the statuses are asked in parallel and answered in any order ...    *)
RecoverStatus(t, o) ==
    /\ tab[t].step = "status"
    /\ o \in tab[t].local \ DOMAIN tab[t].seen
    /\ Set(t, [tab[t] EXCEPT !.seen =
           [p \in DOMAIN @ \cup {o} |-> IF p = o THEN outcome[o] ELSE @[p]]])
    /\ UNCHANGED <<serverVars, sent, vault, used, failures, historyVars>>

(* reconcile(): a prepared listing stands in for an unknown status; a      *)
(* terminal status wins over an older prepared listing. It fails when      *)
(* another tab has changed the vault meanwhile.                            *)
FaultyMerged(c, o) ==       \* a missing receipt is taken for cancellation
    IF c.seen[o] # "unknown" THEN c.seen[o]
    ELSE IF o \in c.listed THEN "prepared" ELSE "cancelled"
Merged(c, o) ==
    IF c.seen[o] = "unknown" /\ o \in c.listed THEN "prepared" ELSE c.seen[o]

RecoverReconcile(t) ==
    LET c == tab[t] IN
    /\ c.step = "status"
    /\ DOMAIN c.seen = c.local
    /\ Set(t, IF vault # c.local THEN RecoverFailed(c)
              ELSE [c EXCEPT !.step = IF \E o \in c.local : c.seen[o] = "committed"
                                      THEN "refreshing" ELSE "finishing"])
    /\ UNCHANGED <<serverVars, sent, vault, used, failures, historyVars>>

(* refreshSavedDirectory: the whole saved Directory, read and applied.     *)
Refresh == shown' = shown \cup {o \in Ops : applied[o] = 1}

RecoverRefresh(t) ==
    /\ tab[t].step = "refreshing"
    /\ Refresh
    /\ Set(t, [tab[t] EXCEPT !.step = "finishing"])
    /\ UNCHANGED <<serverVars, sent, vault, used, failures, cleared, told>>

(* Markers with a terminal outcome are forgotten; the phase follows from   *)
(* what remains.                                                           *)
Forgettable(c) == {o \in DOMAIN c.seen : Merged(c, o) \in Terminal}

RecoverFinish(t) ==
    LET c == tab[t]
        done == Forgettable(c)
        left == vault \ done
        keep == IF c.reviewed \in done \/ left = {} THEN None ELSE c.reviewed
    IN
    /\ c.step = "finishing"
    /\ vault' = left
    /\ told' = told \cup {<<Merged(c, o), o>> : o \in done}
    /\ \E phase \in
           IF left # {}
           THEN {IF c.reviewed \in DOMAIN c.seen /\ Merged(c, c.reviewed) = "prepared" THEN "prepared" ELSE "outcome-unknown"}
           ELSE IF done = {} THEN {"review-required"}
           ELSE {PhaseOf(Merged(c, o)) : o \in done} :
           Set(t, [Closed EXCEPT !.phase = phase, !.recovered = TRUE, !.reviewed = keep])
    /\ UNCHANGED <<serverVars, sent, used, failures, shown, cleared>>

-----------------------------------------------------------------------------
(* stageReviewed: only after a recovery that left nothing unresolved.      *)
Stage(t, o) ==
    /\ Idle(t)
    /\ tab[t].recovered /\ vault = {}
    /\ tab[t].phase \in {"review-required", "saved", "cancellation-confirmed", "review-ready"}
    /\ o \notin used
    /\ used' = used \cup {o}
    /\ Set(t, [tab[t] EXCEPT !.phase = "review-ready", !.reviewed = o])
    /\ UNCHANGED <<serverVars, sent, vault, failures, historyVars>>

(* invalidateReview is not serialized with the running action.             *)
InvalidateReview(t) ==
    /\ vault = {}
    /\ tab[t].phase \notin {"closed", "preparing", "prepared", "saving", "outcome-unknown"}
    /\ Set(t, [tab[t] EXCEPT !.phase = "review-required", !.reviewed = None])
    /\ UNCHANGED <<serverVars, sent, vault, used, failures, historyVars>>

(* sendPrepare: the marker is durable before the first byte leaves, which  *)
(* may be never: a request in sent may arrive, not will. From              *)
(* outcome-unknown this is retryPreparation, which needs the original      *)
(* command still in memory.                                                *)
FaultyMark(t, o) == vault' = IF tab[t].phase = "outcome-unknown" THEN vault \cup {o} ELSE vault
Mark(t, o) == vault' = vault \cup {o}

Prepare(t) ==
    LET c == tab[t] IN
    /\ Idle(t)
    /\ c.phase \in {"review-ready", "outcome-unknown"}
    /\ c.reviewed # None
    /\ Mark(t, c.reviewed)
    /\ Set(t, [c EXCEPT !.phase = "preparing", !.step = "prepare", !.recovered = FALSE,
                        !.op = c.reviewed])
    /\ sent' = sent \cup {<<"prepare", c.reviewed>>}
    /\ UNCHANGED <<serverVars, used, failures, historyVars>>

(* The preview may turn out to have expired before it is sent.             *)
PrepareExpired(t) ==
    LET c == tab[t] IN
    /\ Idle(t)
    /\ c.phase \in {"review-ready", "outcome-unknown"}
    /\ c.reviewed # None
    /\ Set(t, IF vault = {}
              THEN [c EXCEPT !.phase = "review-required", !.reviewed = None]
              ELSE Uncertain(c))
    /\ UNCHANGED <<serverVars, sent, vault, used, failures, historyVars>>

Commit(t) ==
    LET c == tab[t] IN
    /\ Idle(t)
    /\ c.phase = "prepared" /\ c.reviewed # None
    /\ \/ Set(t, Uncertain(c)) /\ UNCHANGED <<vault, sent>>     \* expired
       \/ /\ Mark(t, c.reviewed)
          /\ Set(t, [c EXCEPT !.phase = "saving", !.step = "commit", !.op = c.reviewed])
          /\ sent' = sent \cup {<<"commit", c.reviewed>>}
    /\ UNCHANGED <<serverVars, used, failures, historyVars>>

Cancel(t, o) ==
    /\ Idle(t)
    /\ o \in vault
    /\ Set(t, [tab[t] EXCEPT !.step = "cancel", !.op = o])
    /\ sent' = sent \cup {<<"cancel", o>>}
    /\ UNCHANGED <<serverVars, vault, used, failures, historyVars>>

Calling(t) == tab[t].step \in {"prepare", "commit", "cancel"}

(* vault.resolve: show the saved Directory first, then forget the marker.  *)
FaultyCommittedNext == "resolve-remove"     \* the marker goes before the refresh
CommittedNext == "resolve-refresh"

(* The outcomes that end a call; a cancellation may find the change saved. *)
FaultyConclusive(step) == IF step = "cancel" THEN {"cancelled"} ELSE {"committed"}
Conclusive(step) == IF step = "cancel" THEN Terminal ELSE {"committed"}

(* The answer is the receipt as the handler's transaction left it.         *)
Answered(t) ==
    LET c == tab[t]
        result == outcome[c.op]
    IN
    /\ Calling(t)
    /\ \/ /\ c.step = "prepare" /\ result = "prepared"
          /\ Set(t, [c EXCEPT !.phase = "prepared", !.step = "idle", !.op = None])
       \/ /\ result \in Conclusive(c.step)
          /\ Set(t, [c EXCEPT !.step = IF result = "committed" THEN CommittedNext
                                       ELSE "resolve-remove"])
    /\ UNCHANGED <<serverVars, sent, vault, used, failures, historyVars>>

(* A prepare or commit the server will not accept: cancelled, changed or   *)
(* expired. Not counted as a failure.                                      *)
Refused(t) ==
    /\ tab[t].step \in {"prepare", "commit"}
    /\ Set(t, Uncertain(tab[t]))
    /\ UNCHANGED <<serverVars, sent, vault, used, failures, historyVars>>

ResolveRefresh(t) ==
    /\ tab[t].step = "resolve-refresh"
    /\ Refresh
    /\ Set(t, [tab[t] EXCEPT !.step = "resolve-remove"])
    /\ UNCHANGED <<serverVars, sent, vault, used, failures, cleared, told>>

ResolveRemove(t) ==
    LET c == tab[t]
        result == outcome[c.op]
    IN
    /\ c.step = "resolve-remove"
    /\ vault' = vault \ {c.op}
    /\ told' = told \cup {<<result, c.op>>}
    /\ Set(t, [c EXCEPT
           !.phase = PhaseOf(result), !.step = "idle", !.op = None, !.recovered = FALSE,
           !.reviewed = IF @ = c.op THEN None ELSE @])
    /\ UNCHANGED <<serverVars, sent, used, failures, shown, cleared>>

-----------------------------------------------------------------------------
(* A call fails: response lost, timed out or malformed; storage or refresh *)
(* unavailable.                                                            *)
Fail(t) ==
    LET c == tab[t] IN
    /\ failures < MaxFailures
    /\ c.step # "idle"
    /\ failures' = failures + 1
    /\ Set(t, IF c.step \in {"persisting", "status", "refreshing", "finishing"} 
              THEN RecoverFailed(c)
              ELSE Uncertain(c))
    /\ UNCHANGED <<serverVars, sent, vault, used, historyVars>>

(* The page is reloaded or closed: memory is lost, the vault is not.       *)
Reload(t) ==
    /\ failures < MaxFailures
    /\ tab[t].phase # "closed"
    /\ failures' = failures + 1
    /\ Set(t, Closed)
    /\ UNCHANGED <<serverVars, sent, vault, used, historyVars>>

(* Explicit sign-out disposes the controller and clears protected storage, *)
(* markers included; the other tabs run on until the signal reaches them   *)
(* (for them that is a Reload).                                            *)
SignOut(t) ==
    /\ failures < MaxFailures
    /\ tab[t].phase # "closed"
    /\ failures' = failures + 1
    /\ Set(t, Closed)
    /\ cleared' = cleared \cup vault
    /\ vault' = {}
    /\ UNCHANGED <<serverVars, sent, used, shown, told>>

Recovering(t) ==
    \/ RecoverPersist(t) \/ RecoverReconcile(t)
    \/ RecoverRefresh(t) \/ RecoverFinish(t)
    \/ \E o \in Ops : RecoverStatus(t, o)
Resolving(t) == Refused(t) \/ Answered(t) \/ ResolveRefresh(t) \/ ResolveRemove(t)

Next ==
    \/ ServerStep
    \/ \E t \in Tabs :
          \/ Open(t) \/ RecoverList(t) \/ Recovering(t)
          \/ (\E o \in Ops : Stage(t, o) \/ Cancel(t, o))
          \/ InvalidateReview(t) \/ Prepare(t) \/ PrepareExpired(t) \/ Commit(t)
          \/ Resolving(t) \/ Fail(t) \/ Reload(t) \/ SignOut(t)

Spec == Init /\ [][Next]_vars

(* Awaited calls end, with an answer or a failure; a cancellation that was *)
(* sent reaches the server unless its tab gives up on it; and the          *)
(* administrator does press "Cancel this submission" or "Check original    *)
(* result" again while one is offered. Nothing else is fair: no prepare or *)
(* commit need ever arrive.                                                *)
FairSpec ==
    /\ Spec
    /\ \A o \in Ops : WF_vars(ServerStep /\ ServerCancel(o))
    /\ \A t \in Tabs :
          /\ WF_vars(Open(t)) /\ WF_vars(Recovering(t)) /\ WF_vars(Resolving(t))
          /\ SF_vars(\E o \in Ops : Cancel(t, o))

-----------------------------------------------------------------------------
(* "Keep the original operation": as long as a prepare or commit of an     *)
(* operation may still take effect, some durable marker leads back to it,  *)
(* in every interleaving of tabs, reloads and late answers. Only an        *)
(* explicit sign-out gives a marker up.                                    *)
UnresolvedNeverForgotten ==
    \A o \in Ops :
        /\ {<<"prepare", o>>, <<"commit", o>>} \cap sent # {}
        /\ outcome[o] \notin Terminal
        => o \in vault \cup cleared

(* The marker of a saved change is given up only after a refreshed         *)
(* Directory has shown the change.                                         *)
SavedShownBeforeForgotten ==
    \A o \in Ops : outcome[o] = "committed" => o \in vault \cup cleared \cup shown

(* What the user was told of an operation stays true: nothing reported as  *)
(* cancelled is ever applied and nothing reported as saved is not.         *)
ToldTruth == \A r \in told : outcome[r[2]] = r[1] /\ applied[r[2]] = IF r[1] = "committed" THEN 1 ELSE 0

(* No recovery marker stays for ever, whatever calls were lost and however *)
(* the tabs interfere: an operation can always be brought to an outcome.   *)
MarkersResolve == \A o \in Ops : o \in vault ~> o \notin vault

=============================================================================
