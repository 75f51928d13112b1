-------------------------- MODULE OperatingUpdate --------------------------
(***************************************************************************)
(* Immediate operating updates of one Location: the server's transactions  *)
(* (firestoreOperating, operatingCommand) and the status panel of each     *)
(* browser tab, which keeps the exact command in session storage until its *)
(* result is known.                                                        *)
(*                                                                         *)
(* The tabs belong to one actor, whose authority others give and take. A   *)
(* call that was sent may arrive at any later time or never. Time is       *)
(* counted in parts of a store-local day of DayLength parts.               *)
(***************************************************************************)
EXTENDS Naturals, FiniteSets

CONSTANTS
    Tabs, Ops,      \* browser tabs; operation UUIDs
    None,           \* no closure, no command
    DayLength,      \* parts of a local day, at least one
    MaxTime, MaxVersion, MaxFailures    \* bounds: clock, Location versions, lost calls and reloads

VARIABLES
    now,        \* the server's clock
    location,   \* the Location document
    allowed,    \* canManageOperatingState holds of the actor
    receipts,   \* operating_command_receipts
    events,     \* operating_events
    calls,      \* calls that may still arrive
    tab,        \* the panel of each tab, with its session storage
    failures,   \* failures so far
    told        \* history: operations reported <<as, operation>> to the user

serverVars == <<location, receipts, events>>
vars == <<now, location, allowed, receipts, events, calls, tab, failures, told>>

Actions == {"close", "renew", "reopen"}
(* recordStatus and operationalStatus, as far as they matter here.         *)
Lifecycles == {"trading", "shut", "retired"}
Times == 0..(MaxTime + DayLength)
Closures == [id : Ops, startsAt : Times, expiresAt : Times]
Reviews == [action : Actions, version : 0..MaxVersion, closure : Ops \cup {None},
            expiresAt : Times \cup {None}]
Commands == [op : Ops, review : Reviews]

Quiet == [pending |-> None, preview |-> None, waiting |-> None, answer |-> None]

Init ==
    /\ now = 0
    /\ location = [version |-> 0, closure |-> None, lifecycle |-> "trading"]
    /\ allowed = TRUE
    /\ receipts = [o \in Ops |-> "none"]
    /\ events = {} /\ calls = {}
    /\ tab = [t \in Tabs |-> Quiet]
    /\ failures = 0 /\ told = {}

-----------------------------------------------------------------------------
(* The end of the store's local day, whatever is left of it.               *)
FaultyNextLocalMidnight(t) == t + DayLength     \* twenty-four hours later
NextLocalMidnight(t) == ((t \div DayLength) + 1) * DayLength

ClosureId == IF location.closure = None THEN None ELSE location.closure.id
InForce(closure, t) == closure # None /\ closure.startsAt <= t /\ t < closure.expiresAt

(* The conditions of applyOperatingCommand, at the time of the write.      *)
Applicable(review) ==
    /\ review.version = location.version /\ review.closure = ClosureId
    /\ location.lifecycle = "trading"
    /\ CASE review.action = "reopen" -> /\ InForce(location.closure, now)
                                        /\ review.expiresAt = location.closure.expiresAt
         [] review.action = "close" -> /\ ~InForce(location.closure, now)
                                       /\ review.expiresAt = NextLocalMidnight(now)
         [] review.action = "renew" -> /\ location.closure # None
                                       /\ ~ /\ InForce(location.closure, now)
                                            /\ location.closure.expiresAt = NextLocalMidnight(now)
                                       /\ review.expiresAt = NextLocalMidnight(now)

NewClosure(c) ==
    IF c.review.action = "reopen" THEN None
    ELSE [id |-> c.op, startsAt |-> now, expiresAt |-> NextLocalMidnight(now)]

Admitted == allowed /\ location.lifecycle # "retired"

(* What a commit does: replay a receipt, refuse, or apply.                 *)
FaultyOutcomeOf(c) ==       \* the seal of a cancelled operation is not looked at
    IF ~Admitted THEN "refused"
    ELSE IF receipts[c.op] = "committed" THEN "replayed"
    ELSE IF Applicable(c.review) THEN "applied" ELSE "refused"
OutcomeOf(c) ==
    IF ~Admitted THEN "refused"
    ELSE IF receipts[c.op] = "committed" THEN "replayed"
    ELSE IF receipts[c.op] = "none" /\ Applicable(c.review) THEN "applied" ELSE "refused"

Sealable(o) == receipts[o] = "none"

(* The answer of a call reaches a tab that still waits for it, or is lost. *)
Answer(call, result) ==
    \/ /\ tab[call.tab].waiting = call.kind /\ tab[call.tab].pending = call.command
       /\ tab' = [tab EXCEPT ![call.tab].answer = result]
    \/ UNCHANGED tab

(* A first commit arrives once; the user may repeat the other calls.       *)
Delivered(call) ==
    \/ calls' = calls \ {call}
    \/ call.kind # "commit" /\ UNCHANGED calls

(* commitOperating: closure, version, event and receipt in one transaction.*)
ServeCommit(call) ==
    /\ call.kind \in {"commit", "recover"}
    /\ LET c == call.command
           outcome == OutcomeOf(c)
       IN /\ outcome = "applied" => location.version < MaxVersion
          /\ IF outcome = "applied"
             THEN /\ location' = [location EXCEPT !.version = @ + 1, !.closure = NewClosure(c)]
                  /\ receipts' = [receipts EXCEPT ![c.op] = "committed"]
                  /\ events' = events \cup {[op |-> c.op, version |-> location.version + 1,
                                             before |-> ClosureId, closure |-> NewClosure(c)]}
             ELSE UNCHANGED serverVars
          /\ Answer(call, IF outcome = "refused" THEN "refused" ELSE "saved")
    /\ Delivered(call)
    /\ UNCHANGED <<now, allowed, failures, told>>

(* cancelOperating: seal an absent receipt, also after a reassignment.     *)
ServeCancel(call) ==
    /\ call.kind = "cancel"
    /\ LET o == call.command.op
           sealed == Sealable(o)
       IN /\ receipts' = IF sealed THEN [receipts EXCEPT ![o] = "cancelled"] ELSE receipts
          /\ Answer(call, IF receipts'[o] = "cancelled" THEN "cancelled" ELSE "saved")
    /\ Delivered(call)
    /\ UNCHANGED <<now, location, allowed, events, failures, told>>

-----------------------------------------------------------------------------
(* Another user's ordinary save of the Location; the closure is the        *)
(* server's own and is kept whatever the editor sent.                      *)
FaultyEdited(lifecycle) == [version |-> location.version + 1, closure |-> None, lifecycle |-> lifecycle]
Edited(lifecycle) == [location EXCEPT !.version = @ + 1, !.lifecycle = lifecycle]

EditLocation ==
    /\ location.version < MaxVersion
    /\ \E lifecycle \in Lifecycles : location' = Edited(lifecycle)
    /\ UNCHANGED <<now, allowed, receipts, events, calls, tab, failures, told>>

(* A reassignment or an access change, both ways.                          *)
Reassign ==
    /\ allowed' = ~allowed
    /\ UNCHANGED <<now, location, receipts, events, calls, tab, failures, told>>

Tick ==
    /\ now < MaxTime /\ now' = now + 1
    /\ UNCHANGED <<location, allowed, receipts, events, calls, tab, failures, told>>

-----------------------------------------------------------------------------
Set(t, panel) == tab' = [tab EXCEPT ![t] = panel]
Busy(t) == tab[t].waiting # None

ReviewOf(action) ==
    [action |-> action, version |-> location.version, closure |-> ClosureId,
     expiresAt |-> IF action # "reopen" THEN NextLocalMidnight(now)
                   ELSE IF location.closure = None THEN None ELSE location.closure.expiresAt]

(* begin: previewOperating reads, checks and writes nothing.               *)
Begin(t) ==
    /\ ~Busy(t) /\ tab[t].pending = None /\ tab[t].preview = None
    /\ Admitted
    /\ \E action \in Actions :
          /\ Applicable(ReviewOf(action))
          /\ Set(t, [tab[t] EXCEPT !.preview = ReviewOf(action)])
    /\ UNCHANGED <<now, allowed, serverVars, calls, failures, told>>

Dismiss(t) ==
    /\ ~Busy(t) /\ tab[t].preview # None
    /\ Set(t, [tab[t] EXCEPT !.preview = None])
    /\ UNCHANGED <<now, allowed, serverVars, calls, failures, told>>

Send(t, kind, command) ==
    /\ calls' = calls \cup {[kind |-> kind, tab |-> t, command |-> command]}
    /\ Set(t, [tab[t] EXCEPT !.pending = command, !.waiting = kind])
    /\ UNCHANGED <<now, allowed, serverVars, failures, told>>

(* confirm: a fresh UUID; the command is stored before it is sent.         *)
Fresh(o) ==
    /\ receipts[o] = "none" /\ \A call \in calls : call.command.op # o
    /\ \A t \in Tabs : tab[t].pending # None => tab[t].pending.op # o
    /\ \A entry \in told : entry[2] # o
Confirm(t, o) ==
    /\ ~Busy(t) /\ tab[t].preview # None /\ tab[t].pending = None /\ Fresh(o)
    /\ Send(t, "commit", [op |-> o, review |-> tab[t].preview])

Recover(t) == ~Busy(t) /\ tab[t].pending # None /\ Send(t, "recover", tab[t].pending)
ReconcileOrCancel(t) == ~Busy(t) /\ tab[t].pending # None /\ Send(t, "cancel", tab[t].pending)

(* A refusal settles the command only when it answers the only attempt.    *)
FaultyDefinite(kind) == TRUE
Definite(kind) == kind = "commit"

AttemptAnswered(t) ==
    LET panel == tab[t]
        settled == panel.answer = "saved" \/ Definite(panel.waiting)
    IN /\ panel.waiting \in {"commit", "recover"} /\ panel.answer # None
       /\ Set(t, IF settled THEN Quiet ELSE [Quiet EXCEPT !.pending = panel.pending])
       /\ told' = IF settled THEN told \cup {<<panel.answer, panel.pending.op>>} ELSE told
       /\ UNCHANGED <<now, allowed, serverVars, calls, failures>>

CancelAnswered(t) ==
    /\ tab[t].waiting = "cancel" /\ tab[t].answer # None
    /\ told' = told \cup {<<tab[t].answer, tab[t].pending.op>>}
    /\ Set(t, Quiet)
    /\ UNCHANGED <<now, allowed, serverVars, calls, failures>>

Failing == failures < MaxFailures /\ failures' = failures + 1

(* The fifteen-second timeout, or a failure: the command is kept.          *)
GiveUp(t) ==
    /\ Failing /\ Busy(t) /\ tab[t].answer = None
    /\ Set(t, [Quiet EXCEPT !.pending = tab[t].pending])
    /\ UNCHANGED <<now, allowed, serverVars, calls, told>>

(* A reload loses the panel but not the session storage.                   *)
Reload(t) ==
    /\ Failing /\ tab[t] # Quiet
    /\ Set(t, [Quiet EXCEPT !.pending = tab[t].pending])
    /\ UNCHANGED <<now, allowed, serverVars, calls, told>>

-----------------------------------------------------------------------------
TabStep(t) ==
    \/ Begin(t) \/ Dismiss(t) \/ \E o \in Ops : Confirm(t, o)
    \/ Recover(t) \/ ReconcileOrCancel(t) \/ AttemptAnswered(t) \/ CancelAnswered(t)
    \/ GiveUp(t) \/ Reload(t)

Next ==
    \/ \E call \in calls : ServeCommit(call) \/ ServeCancel(call)
    \/ EditLocation \/ Reassign \/ Tick
    \/ \E t \in Tabs : TabStep(t)

Spec == Init /\ [][Next]_vars

-----------------------------------------------------------------------------
(* Every variable of the panels and of the server keeps its type.          *)
TypeOK ==
    /\ now \in 0..MaxTime /\ allowed \in BOOLEAN /\ failures \in 0..MaxFailures
    /\ location \in [version : 0..MaxVersion, closure : Closures \cup {None}, lifecycle : Lifecycles]
    /\ receipts \in [Ops -> {"none", "committed", "cancelled"}]
    /\ events \subseteq [op : Ops, version : 0..MaxVersion, before : Ops \cup {None},
                         closure : Closures \cup {None}]
    /\ calls \subseteq [kind : {"commit", "recover", "cancel"}, tab : Tabs, command : Commands]
    /\ tab \in [Tabs -> [pending : Commands \cup {None}, preview : Reviews \cup {None},
                         waiting : {None, "commit", "recover", "cancel"},
                         answer : {None, "saved", "refused", "cancelled"}]]
    /\ told \subseteq {"saved", "refused", "cancelled"} \X Ops

(* The closure the Location carries is the one of its latest operating     *)
(* event, and each event follows the one before it: no editor's save, late *)
(* call or replay changes, drops or revives a closure.                     *)
ClosuresFollowEvents ==
    LET Latest(es) == CHOOSE e \in es : \A f \in es : f.version <= e.version
        ClosureAfter(es) == IF es = {} THEN None ELSE Latest(es).closure
    IN /\ location.closure = ClosureAfter(events)
       /\ \A e \in events :
             LET previous == ClosureAfter({f \in events : f.version < e.version})
             IN e.before = IF previous = None THEN None ELSE previous.id

(* A store is never shown closed on a local day for which nobody confirmed *)
(* the closure: closures end at the midnight that was reviewed.            *)
ClosedOnlyTheDayConfirmed ==
    InForce(location.closure, now) =>
        location.closure.startsAt \div DayLength = now \div DayLength

(* What a panel said of an operation stays true: saved is committed, and   *)
(* what was refused or safely cancelled is never committed later.          *)
ToldTruth ==
    \A entry \in told : (receipts[entry[2]] = "committed") <=> (entry[1] = "saved")

(* While a commit may still arrive for an operation without a receipt,     *)
(* some tab keeps the command, so that it can be recovered or sealed.      *)
UnresolvedNeverForgotten ==
    \A call \in calls :
        call.kind # "cancel" /\ receipts[call.command.op] = "none"
            => \E t \in Tabs : tab[t].pending = call.command
=============================================================================
