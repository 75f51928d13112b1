--------------------------- MODULE OperatingProofs ---------------------------
(***************************************************************************)
(* Operating updates and the alert of one, for any number of tabs,         *)
(* operations and requests; and the state a page shows, for any hours and  *)
(* zones.                                                                  *)
(*                                                                         *)
(* The alert: at most one handler is between its claim and its finish, the *)
(* receipt names it, and the relay is called only from there. The updates: *)
(* an operation belongs to the one tab that made it until its receipt is   *)
(* known there, and every closure is that of the latest event and ends at  *)
(* the midnight after its start. The shown state: up to the transition an  *)
(* answer names the date is the same, and no shift or closure begins or    *)
(* ends.                                                                   *)
(***************************************************************************)
EXTENDS MCOperating, FiniteSetTheorems, WellFoundedInduction, TLAPS

(* The alert of one event.                                                 *)
BeforeSend == {"claimed", "queued", "failing-before"}
AfterSend == {"acknowledged", "failing-after"}

(* A handler between claim and finish holds the receipt.                   *)
HolderNamed ==
    \A r \in Requests : handler[r] \in BeforeSend \cup AfterSend
        => receipt # None /\ receipt.request = r

(* What the receipt says agrees with how far its holder came.              *)
StatusAgrees ==
    /\ receipt = None => attempts = 0
    /\ receipt # None /\ receipt.status = "NotStarted" =>
          attempts = 0 /\ \A r \in Requests : handler[r] \in {"asked", "done"}
    /\ receipt # None /\ receipt.status = "Accepted" => delivered
    /\ \A r \in Requests :
          /\ handler[r] \in BeforeSend => attempts = 0 /\ receipt.status = "Sending"
          /\ handler[r] = "acknowledged" => delivered
          /\ handler[r] = "failing-after" => receipt.status # "NotStarted"

Inv == TypeOK /\ OneAlertPerEvent /\ HolderNamed /\ StatusAgrees /\ AcceptedTruth

(* Initially nobody holds the alert and nothing was sent.                  *)
LEMMA InitHolds == Init => Inv
<1> SUFFICES ASSUME Init PROVE Inv
  OBVIOUS
<1>1. committed \in BOOLEAN /\ delivered \in BOOLEAN
  BY Zenon DEF Init
<1>2. TypeOK
  BY <1>1 DEF Init, TypeOK, Phases
<1>3. HolderNamed /\ StatusAgrees
  BY DEF Init, HolderNamed, StatusAgrees, BeforeSend, AfterSend
<1>4. AcceptedTruth
  BY NoneAssumption DEF Init, AcceptedTruth, NoneAssumption, Answers
<1> QED BY <1>2, <1>3, <1>4 DEF Init, Inv, OneAlertPerEvent

USE DEF NoneAssumption, Receipt, Statuses, Answers, Phases, BeforeSend, AfterSend

(* Every step keeps the invariant.                                         *)
LEMMA NextHolds == Inv /\ [Next]_vars => Inv'
<1> SUFFICES ASSUME Inv, [Next]_vars PROVE Inv'
  OBVIOUS
<1> USE NoneAssumption DEF Inv, Move
<1>1. CASE CommitEvent
  BY <1>1 DEF CommitEvent, TypeOK, OneAlertPerEvent, HolderNamed, StatusAgrees, AcceptedTruth
<1>2. ASSUME NEW r \in Requests, Claim(r) PROVE Inv'
  <2>1. CASE Claimable
    <3>1. attempts = 0 /\ \A q \in Requests : handler[q] \in {"asked", "done"}
      BY <2>1 DEF Claimable, TypeOK, HolderNamed, StatusAgrees
    <3>2. /\ receipt' = [request |-> r, status |-> "Sending"]
          /\ handler' = [handler EXCEPT ![r] = "claimed"]
          /\ UNCHANGED <<answer, committed, attempts, delivered>>
      BY <1>2, <2>1 DEF Claim
    <3>3. TypeOK' /\ receipt' # None
      BY <3>2 DEF TypeOK
    <3>4. HolderNamed' /\ StatusAgrees'
      BY <3>1, <3>2, <3>3 DEF HolderNamed, StatusAgrees, TypeOK
    <3> QED BY <3>2, <3>3, <3>4 DEF OneAlertPerEvent, AcceptedTruth
  <2>2. CASE ~Claimable
    <3>1. /\ receipt' = receipt /\ handler' = [handler EXCEPT ![r] = "done"]
          /\ answer' = [answer EXCEPT ![r] = RepeatAnswer]
          /\ UNCHANGED <<committed, attempts, delivered>>
      BY <1>2, <2>2 DEF Claim
    <3>2. TypeOK'
      BY <3>1 DEF TypeOK, RepeatAnswer
    <3>3. HolderNamed' /\ StatusAgrees'
      BY <3>1 DEF HolderNamed, StatusAgrees, TypeOK
    <3>4. AcceptedTruth'
      BY <2>2, <3>1 DEF AcceptedTruth, StatusAgrees, Claimable, RepeatAnswer, TypeOK
    <3> QED BY <3>1, <3>2, <3>3, <3>4 DEF OneAlertPerEvent
  <2> QED BY <2>1, <2>2
<1>3. ASSUME NEW r \in Requests, Refuse(r) PROVE Inv'
  BY <1>3 DEF Refuse, TypeOK, OneAlertPerEvent, HolderNamed, StatusAgrees, AcceptedTruth
<1>4. ASSUME NEW r \in Requests, RecordQueued(r) PROVE Inv'
  BY <1>4 DEF RecordQueued, TypeOK, OneAlertPerEvent, HolderNamed, StatusAgrees, AcceptedTruth
<1>5. ASSUME NEW r \in Requests, Send(r) PROVE Inv'
  <2>1. /\ handler[r] = "queued" /\ attempts' = attempts + 1
        /\ UNCHANGED <<committed, receipt, answer>>
        /\ \/ handler' = [handler EXCEPT ![r] = "acknowledged"] /\ delivered' = TRUE
           \/ handler' = [handler EXCEPT ![r] = "failing-after"]
    BY <1>5 DEF Send
  <2>2. attempts = 0 /\ receipt # None /\ receipt.status = "Sending" /\ receipt.request = r
    BY <2>1 DEF HolderNamed, StatusAgrees
  <2>3. \A q \in Requests \ {r} : handler[q] \notin BeforeSend \cup AfterSend
    BY <2>2 DEF HolderNamed
  <2>7. delivered' \in BOOLEAN /\ (delivered => delivered')
    <3>1. CASE delivered' = TRUE
      BY <3>1
    <3>2. CASE UNCHANGED delivered
      BY <3>2 DEF TypeOK
    <3> QED BY <1>5, <3>1, <3>2 DEF Send
  <2>4. TypeOK'
    BY <2>1, <2>7 DEF TypeOK
  <2>5. HolderNamed' /\ StatusAgrees'
    BY <2>1, <2>2, <2>3, <2>7 DEF HolderNamed, StatusAgrees, TypeOK
  <2>6. AcceptedTruth'
    BY <2>1, <2>7 DEF AcceptedTruth, TypeOK
  <2> QED BY <2>1, <2>2, <2>4, <2>5, <2>6 DEF OneAlertPerEvent
<1>6. ASSUME NEW r \in Requests, FinishAccepted(r) PROVE Inv'
  <2>1. /\ handler[r] = "acknowledged"
        /\ receipt' = receipt \/ receipt' = [receipt EXCEPT !.status = "Accepted"]
        /\ \/ handler' = [handler EXCEPT ![r] = "done"] /\ answer' = [answer EXCEPT ![r] = "accepted"]
           \/ handler' = [handler EXCEPT ![r] = "failing-after"] /\ UNCHANGED answer
        /\ UNCHANGED <<committed, attempts, delivered>>
    BY <1>6 DEF FinishAccepted, Finish
  <2>2. receipt \in Receipt /\ receipt # None /\ receipt.request = r /\ delivered
    BY <2>1 DEF HolderNamed, StatusAgrees, TypeOK
  <2>3. receipt.status # "NotStarted"
    BY <2>1, <2>2 DEF StatusAgrees
  <2>4. \A q \in Requests \ {r} : handler[q] \notin BeforeSend \cup AfterSend
    BY <2>2 DEF HolderNamed
  <2>5. receipt' \in Receipt /\ receipt' # None /\ receipt'.request = r /\ receipt'.status # "NotStarted"
    BY <2>1, <2>2, <2>3
  <2>6. TypeOK'
    BY <2>1, <2>5 DEF TypeOK
  <2>7. HolderNamed' /\ StatusAgrees'
    BY <2>1, <2>2, <2>4, <2>5 DEF HolderNamed, StatusAgrees, TypeOK
  <2>8. AcceptedTruth'
    BY <2>1, <2>2 DEF AcceptedTruth, TypeOK
  <2> QED BY <2>1, <2>6, <2>7, <2>8 DEF OneAlertPerEvent
<1>7. ASSUME NEW r \in Requests, FinishFailed(r) PROVE Inv'
  <2> DEFINE status == FailureStatus(handler[r])
  <2>1. /\ handler[r] \in {"failing-before", "failing-after"}
        /\ receipt' = receipt \/ receipt' = [receipt EXCEPT !.status = status]
        /\ Kept => receipt' = receipt
        /\ handler' = [handler EXCEPT ![r] = "done"]
        /\ answer' = [answer EXCEPT ![r] = "failed"]
        /\ UNCHANGED <<committed, attempts, delivered>>
    BY <1>7 DEF FinishFailed, Finish
  <2>2. receipt \in Receipt /\ receipt # None /\ receipt.request = r
    BY <2>1 DEF HolderNamed, TypeOK
  <2>3. \A q \in Requests \ {r} : handler[q] \in {"asked", "done"}
    BY <2>2 DEF HolderNamed, TypeOK
  <2>4. status \in {"Unknown", "NotStarted"} /\ (status = "NotStarted" => attempts = 0)
    BY <2>1 DEF FailureStatus, StatusAgrees
  <2>5. receipt' \in Receipt /\ receipt' # None /\ receipt'.request = r
    BY <2>1, <2>2, <2>4
  <2>6. /\ receipt'.status = "NotStarted" => attempts = 0
        /\ receipt'.status = "Accepted" => delivered
    BY <2>1, <2>2, <2>4 DEF StatusAgrees
  <2>7. TypeOK'
    BY <2>1, <2>5 DEF TypeOK
  <2>8. HolderNamed' /\ StatusAgrees'
    BY <2>1, <2>3, <2>5, <2>6 DEF HolderNamed, StatusAgrees, TypeOK
  <2>9. AcceptedTruth'
    BY <2>1 DEF AcceptedTruth, TypeOK
  <2> QED BY <2>1, <2>7, <2>8, <2>9 DEF OneAlertPerEvent
<1>8. ASSUME NEW r \in Requests, Crash(r) PROVE Inv'
  BY <1>8 DEF Crash, TypeOK, OneAlertPerEvent, HolderNamed, StatusAgrees, AcceptedTruth
<1>9. CASE UNCHANGED vars
  BY <1>9 DEF vars, TypeOK, OneAlertPerEvent, HolderNamed, StatusAgrees, AcceptedTruth
<1> QED BY <1>1, <1>2, <1>3, <1>4, <1>5, <1>6, <1>7, <1>8, <1>9 DEF Next

(* The invariant holds of every reachable state.                           *)
THEOREM MailInvariant == Spec => []Inv
  BY InitHolds, NextHolds, PTL DEF Spec

(* claim and finish: for any number of requests, in any order, lost or     *)
(* crashed, the relay is handed at most one message for the event.         *)
THEOREM AtMostOneAlert == Spec => []OneAlertPerEvent
<1>1. Inv => OneAlertPerEvent
  BY DEF Inv
<1> QED BY <1>1, MailInvariant, PTL

(* POST /event: nobody is told of an acceptance that did not happen.       *)
THEOREM AcceptanceTold == Spec => []AcceptedTruth
<1>1. Inv => AcceptedTruth
  BY DEF Inv
<1> QED BY <1>1, MailInvariant, PTL

(* finish: an accepted receipt never changes again.                        *)
THEOREM AcceptanceFinal == Spec => AcceptedIsFinal
<1> DEFINE Final == receipt # None /\ receipt.status = "Accepted" => UNCHANGED receipt
<1>1. ASSUME Inv, Next, receipt # None, receipt.status = "Accepted" PROVE UNCHANGED receipt
  <2>1. ~Claimable /\ Kept
    BY <1>1 DEF Claimable, Kept
  <2> QED BY <1>1, <2>1 DEF Next, CommitEvent, Claim, Refuse, RecordQueued, Send,
             FinishAccepted, FinishFailed, Finish, Crash
<1>2. Inv /\ [Next]_vars => [Final]_vars
  BY <1>1
<1> QED BY <1>2, MailInvariant, PTL DEF Spec, AcceptedIsFinal
-----------------------------------------------------------------------------
(* Operating updates.                                                      *)
Pending(t) == tab[t].pending # None

(* An operation is pending in one tab, and its calls are that tab's.       *)
OneOwner ==
    /\ \A t, u \in Tabs : Pending(t) /\ Pending(u) /\ tab[t].pending.op = tab[u].pending.op => t = u
    /\ \A call \in calls, t \in Tabs :
          Pending(t) /\ tab[t].pending.op = call.command.op => call.tab = t /\ call.command = tab[t].pending

(* What a panel waits for, and what its answer says of the receipt.        *)
AnswersHold ==
    \A t \in Tabs :
        /\ tab[t].waiting # None => Pending(t)
        /\ tab[t].waiting = None => tab[t].answer = None
        /\ tab[t].answer = "saved" => receipts[tab[t].pending.op] = "committed"
        /\ tab[t].answer = "cancelled" => receipts[tab[t].pending.op] = "cancelled"
        /\ tab[t].waiting = "cancel" => tab[t].answer # "refused"
        /\ tab[t].waiting \in {"commit", "recover"} => tab[t].answer # "cancelled"

(* The first attempt is the only call until it was answered.               *)
FirstAttempt ==
    \A t \in Tabs : tab[t].waiting = "commit" =>
        /\ \A call \in calls : call.command.op = tab[t].pending.op =>
              call.kind = "commit" /\ tab[t].answer = None /\ receipts[tab[t].pending.op] = "none"
        /\ tab[t].answer = "refused" => receipts[tab[t].pending.op] # "committed"

(* What was told of an operation is settled, and no tab holds it any more. *)
ToldSettled ==
    \A entry \in told :
        /\ \A t \in Tabs : Pending(t) => tab[t].pending.op # entry[2]
        /\ entry[1] = "saved" => receipts[entry[2]] = "committed"
        /\ entry[1] = "cancelled" => receipts[entry[2]] = "cancelled"
        /\ entry[1] = "refused" => /\ receipts[entry[2]] # "committed"
                                   /\ \A call \in calls : call.command.op # entry[2]

CommandInv ==
    Update!TypeOK /\ OneOwner /\ AnswersHold /\ FirstAttempt /\ ToldSettled /\ UnresolvedNeverForgotten

(* Events have versions up to the Location's, and a closure ends at the    *)
(* midnight after its start.                                               *)
ClosureInv ==
    /\ ClosuresFollowEvents
    /\ \A e \in events : e.version <= location.version
    /\ location.closure # None =>
          location.closure.expiresAt = Update!NextLocalMidnight(location.closure.startsAt)

(* The local day of an instant.                                            *)
LEMMA DayOf ==
    ASSUME NEW D \in Nat \ {0}, NEW t \in Nat
    PROVE  /\ t \div D \in Nat
           /\ (t \div D) * D <= t /\ t < ((t \div D) + 1) * D
           /\ ((t \div D) + 1) * D <= t + D /\ ((t \div D) + 1) * D \in Nat
BY SMTT(30)

LEMMA DaysOrdered ==
    ASSUME NEW D \in Nat \ {0}, NEW p \in Nat, NEW q \in Nat, p * D < q * D
    PROVE  p < q
BY SMTT(30)

LEMMA SameDay ==
    ASSUME NEW D \in Nat \ {0}, NEW s \in Nat, NEW n \in Nat, s <= n, n < ((s \div D) + 1) * D
    PROVE  s \div D = n \div D
<1> DEFINE q == s \div D
           p == n \div D
<1>1. q \in Nat /\ q * D <= s /\ p \in Nat /\ p * D <= n /\ n < (p + 1) * D /\ n < (q + 1) * D
  BY DayOf
<1> HIDE DEF q, p
<1>2. p * D \in Nat /\ q * D \in Nat /\ (p + 1) * D \in Nat /\ (q + 1) * D \in Nat
  BY <1>1
<1>3. p * D < (q + 1) * D /\ q * D < (p + 1) * D
  BY <1>1, <1>2
<1>4. p < q + 1 /\ q < p + 1
  BY <1>1, <1>3, DaysOrdered
<1> QED BY <1>1, <1>4 DEF q, p

(* The types.                                                              *)
Call == [kind : {"commit", "recover", "cancel"}, tab : Tabs, command : Update!Commands]
Panel == [pending : Update!Commands \cup {None}, preview : Update!Reviews \cup {None},
          waiting : {None, "commit", "recover", "cancel"},
          answer : {None, "saved", "refused", "cancelled"}]

LEMMA MidnightTyped ==
    ASSUME now \in 0 .. MaxTime
    PROVE  now \in Update!Times /\ Update!NextLocalMidnight(now) \in Update!Times
<1>1. now \in Nat /\ DayLength \in Nat \ {0} /\ MaxTime \in Nat
  BY UpdateAssumption DEF UpdateAssumption
<1> DEFINE midnight == ((now \div DayLength) + 1) * DayLength
<1>2. midnight \in Nat /\ midnight <= now + DayLength
  BY <1>1, DayOf
<1> HIDE DEF midnight
<1>3. now \in 0 .. (MaxTime + DayLength) /\ midnight \in 0 .. (MaxTime + DayLength)
  BY <1>1, <1>2
<1> QED BY <1>3 DEF Update!Times, Update!NextLocalMidnight, midnight

LEMMA ReviewTyped ==
    ASSUME Update!TypeOK, NEW action \in Update!Actions
    PROVE  Update!ReviewOf(action) \in Update!Reviews
<1>1. Update!NextLocalMidnight(now) \in Update!Times
  BY MidnightTyped DEF Update!TypeOK
<1>2. location.version \in 0 .. MaxVersion /\ location.closure \in Update!Closures \cup {None}
  BY DEF Update!TypeOK
<1>3. location.closure # None => location.closure.id \in Ops /\ location.closure.expiresAt \in Update!Times
  BY <1>2 DEF Update!Closures
<1> QED BY <1>1, <1>2, <1>3 DEF Update!ReviewOf, Update!Reviews, Update!ClosureId

LEMMA ClosureTyped ==
    ASSUME Update!TypeOK, NEW c \in Update!Commands
    PROVE  Update!NewClosure(c) \in Update!Closures \cup {None}
<1>1. now \in Update!Times /\ Update!NextLocalMidnight(now) \in Update!Times
  BY MidnightTyped DEF Update!TypeOK
<1>2. c.op \in Ops
  BY DEF Update!Commands
<1> QED BY <1>1, <1>2 DEF Update!NewClosure, Update!Closures

(* An answer reaches the tab that waits for it, or nobody.                 *)
LEMMA AnswerTyped ==
    ASSUME tab \in [Tabs -> Panel], NEW call \in Call, NEW result \in {"saved", "refused", "cancelled"},
           Update!Answer(call, result)
    PROVE  tab' \in [Tabs -> Panel]
BY DEF Update!Answer, Panel, Call

LEMMA TypesStep == Update!TypeOK /\ AnswersHold /\ [Update!Next]_(Update!vars) => Update!TypeOK'
<1> SUFFICES ASSUME Update!TypeOK, AnswersHold, [Update!Next]_(Update!vars) PROVE Update!TypeOK'
  OBVIOUS
<1>0. /\ tab \in [Tabs -> Panel] /\ calls \subseteq Call
      /\ None \notin Update!Commands
      /\ MaxTime \in Nat /\ MaxVersion \in Nat /\ MaxFailures \in Nat
  BY UpdateAssumption DEF Update!TypeOK, Panel, Call, UpdateAssumption
<1>1. ASSUME NEW call \in calls, Update!ServeCommit(call) PROVE Update!TypeOK'
  <2> DEFINE c == call.command
             outcome == Update!OutcomeOf(c)
  <2>1. call \in Call /\ c \in Update!Commands /\ c.op \in Ops
    BY <1>0 DEF Call, Update!Commands
  <2>2. calls' \subseteq calls
    BY <1>1 DEF Update!ServeCommit, Update!Delivered
  <2>3. tab' \in [Tabs -> Panel]
    <3>1. Update!Answer(call, IF outcome = "refused" THEN "refused" ELSE "saved")
      BY <1>1 DEF Update!ServeCommit
    <3> QED BY <1>0, <2>1, <3>1, AnswerTyped
  <2>4. CASE outcome = "applied"
    <3>1. /\ location.version < MaxVersion
          /\ location' = [location EXCEPT !.version = @ + 1, !.closure = Update!NewClosure(c)]
          /\ receipts' = [receipts EXCEPT ![c.op] = "committed"]
          /\ events' = events \cup {[op |-> c.op, version |-> location.version + 1,
                                     before |-> Update!ClosureId, closure |-> Update!NewClosure(c)]}
      BY <1>1, <2>4 DEF Update!ServeCommit
    <3>2. Update!NewClosure(c) \in Update!Closures \cup {None}
      BY <2>1, ClosureTyped
    <3>3. Update!ClosureId \in Ops \cup {None}
      BY DEF Update!TypeOK, Update!ClosureId, Update!Closures
    <3>4. location.version + 1 \in 0 .. MaxVersion
      BY <1>0, <3>1 DEF Update!TypeOK
    <3>5. location' \in [version : 0 .. MaxVersion, closure : Update!Closures \cup {None}, lifecycle : Update!Lifecycles]
      BY <3>1, <3>2, <3>4 DEF Update!TypeOK
    <3>6. events' \subseteq [op : Ops, version : 0 .. MaxVersion, before : Ops \cup {None},
                             closure : Update!Closures \cup {None}]
      BY <2>1, <3>1, <3>2, <3>3, <3>4 DEF Update!TypeOK
    <3>7. receipts' \in [Ops -> {"none", "committed", "cancelled"}]
      BY <2>1, <3>1 DEF Update!TypeOK
    <3>8. UNCHANGED <<now, allowed, failures, told>>
      BY <1>1 DEF Update!ServeCommit
    <3> QED BY <1>0, <2>2, <2>3, <3>5, <3>6, <3>7, <3>8 DEF Update!TypeOK, Panel, Call
  <2>5. CASE outcome # "applied"
    <3>1. UNCHANGED <<location, receipts, events, now, allowed, failures, told>>
      BY <1>1, <2>5 DEF Update!ServeCommit, Update!serverVars
    <3> QED BY <1>0, <2>2, <2>3, <3>1 DEF Update!TypeOK, Panel, Call
  <2> QED BY <2>4, <2>5
<1>2. ASSUME NEW call \in calls, Update!ServeCancel(call) PROVE Update!TypeOK'
  <2>1. call \in Call /\ call.command.op \in Ops
    BY <1>0 DEF Call, Update!Commands
  <2>2. calls' \subseteq calls /\ receipts' \in [Ops -> {"none", "committed", "cancelled"}]
    BY <1>2, <2>1 DEF Update!ServeCancel, Update!Delivered, Update!TypeOK
  <2>3. tab' \in [Tabs -> Panel]
    <3>1. \E result \in {"saved", "refused", "cancelled"} : Update!Answer(call, result)
      BY <1>2 DEF Update!ServeCancel
    <3> QED BY <1>0, <2>1, <3>1, AnswerTyped
  <2>4. UNCHANGED <<now, location, allowed, events, failures, told>>
    BY <1>2 DEF Update!ServeCancel
  <2> QED BY <1>0, <2>2, <2>3, <2>4 DEF Update!TypeOK, Panel, Call
<1>3. CASE Update!EditLocation
  <2>1. location.version < MaxVersion /\ \E lifecycle \in Update!Lifecycles :
          location' = [location EXCEPT !.version = @ + 1, !.lifecycle = lifecycle]
    BY <1>3 DEF Update!EditLocation, Update!Edited
  <2>2. location.version + 1 \in 0 .. MaxVersion
    BY <1>0, <2>1 DEF Update!TypeOK
  <2>3. location' \in [version : 0 .. MaxVersion, closure : Update!Closures \cup {None}, lifecycle : Update!Lifecycles]
    BY <2>1, <2>2 DEF Update!TypeOK
  <2> QED BY <1>3, <2>3 DEF Update!EditLocation, Update!TypeOK
<1>4. CASE Update!Reassign
  BY <1>4 DEF Update!Reassign, Update!TypeOK
<1>5. CASE Update!Tick
  BY <1>0, <1>5 DEF Update!Tick, Update!TypeOK
<1>6. ASSUME NEW t \in Tabs, Update!TabStep(t) PROVE Update!TypeOK'
  <2>0. tab[t] \in Panel
    BY <1>0
  <2>1. CASE Update!Begin(t) \/ Update!Dismiss(t)
    <3>1. \E preview \in Update!Reviews \cup {None} : tab' = [tab EXCEPT ![t] = [tab[t] EXCEPT !.preview = preview]]
      BY <2>1, ReviewTyped DEF Update!Begin, Update!Dismiss, Update!Set
    <3>2. tab' \in [Tabs -> Panel]
      BY <1>0, <2>0, <3>1 DEF Panel
    <3> QED BY <2>1, <3>2 DEF Update!Begin, Update!Dismiss, Update!serverVars, Update!TypeOK, Panel
  <2>2. ASSUME NEW kind \in {"commit", "recover", "cancel"}, NEW c \in Update!Commands, Update!Send(t, kind, c)
        PROVE  Update!TypeOK'
    <3>1. tab' = [tab EXCEPT ![t] = [tab[t] EXCEPT !.pending = c, !.waiting = kind]]
      BY <2>2 DEF Update!Send, Update!Set
    <3>2. tab' \in [Tabs -> Panel]
      BY <1>0, <2>0, <3>1 DEF Panel
    <3>3. calls' \subseteq Call
      BY <1>0, <2>2 DEF Update!Send, Call
    <3> QED BY <2>2, <3>2, <3>3 DEF Update!Send, Update!serverVars, Update!TypeOK, Panel, Call
  <2>3. ASSUME NEW o \in Ops, Update!Confirm(t, o) PROVE Update!TypeOK'
    <3>1. tab[t].preview \in Update!Reviews
      BY <2>0, <2>3 DEF Update!Confirm, Panel
    <3>2. [op |-> o, review |-> tab[t].preview] \in Update!Commands
      BY <3>1 DEF Update!Commands
    <3> QED BY <2>2, <2>3, <3>2 DEF Update!Confirm
  <2>4. CASE Update!Recover(t) \/ Update!ReconcileOrCancel(t)
    <3>1. tab[t].pending \in Update!Commands
      BY <2>0, <2>4 DEF Update!Recover, Update!ReconcileOrCancel, Panel
    <3> QED BY <2>2, <2>4, <3>1 DEF Update!Recover, Update!ReconcileOrCancel
  <2>5. CASE Update!AttemptAnswered(t) \/ Update!CancelAnswered(t)
    <3>1. \E pending \in {tab[t].pending, None} : tab' = [tab EXCEPT ![t] = [Update!Quiet EXCEPT !.pending = pending]]
      BY <2>5 DEF Update!AttemptAnswered, Update!CancelAnswered, Update!Set, Update!Quiet
    <3>2. tab' \in [Tabs -> Panel]
      BY <1>0, <2>0, <3>1 DEF Panel, Update!Quiet
    <3>3. told' \subseteq {"saved", "refused", "cancelled"} \X Ops
      <4>1. told' = told \/ (tab[t].answer # None /\ tab[t].waiting # None
                             /\ told' = told \cup {<<tab[t].answer, tab[t].pending.op>>})
        BY <2>5, UpdateAssumption DEF Update!AttemptAnswered, Update!CancelAnswered, UpdateAssumption
      <4>2. tab[t].waiting # None => tab[t].pending \in Update!Commands
        BY <2>0 DEF AnswersHold, Pending, Panel
      <4>3. tab[t].waiting # None => tab[t].pending.op \in Ops
        BY <4>2 DEF Update!Commands
      <4>4. tab[t].answer \in {None, "saved", "refused", "cancelled"}
        BY <2>0 DEF Panel
      <4> QED BY <4>1, <4>3, <4>4 DEF Update!TypeOK
    <3> QED BY <2>5, <3>2, <3>3 DEF Update!AttemptAnswered, Update!CancelAnswered, Update!serverVars, Update!TypeOK, Panel
  <2>6. CASE Update!GiveUp(t) \/ Update!Reload(t)
    <3>1. tab' = [tab EXCEPT ![t] = [Update!Quiet EXCEPT !.pending = tab[t].pending]]
      BY <2>6 DEF Update!GiveUp, Update!Reload, Update!Set
    <3>2. tab' \in [Tabs -> Panel]
      BY <1>0, <2>0, <3>1 DEF Panel, Update!Quiet
    <3>3. failures' \in 0 .. MaxFailures
      BY <1>0, <2>6 DEF Update!GiveUp, Update!Reload, Update!Failing, Update!TypeOK
    <3> QED BY <2>6, <3>2, <3>3 DEF Update!GiveUp, Update!Reload, Update!serverVars, Update!TypeOK, Panel
  <2> QED BY <1>6, <2>1, <2>3, <2>4, <2>5, <2>6 DEF Update!TabStep
<1>7. CASE UNCHANGED Update!vars
  BY <1>7 DEF Update!vars, Update!TypeOK
<1> QED BY <1>1, <1>2, <1>3, <1>4, <1>5, <1>6, <1>7 DEF Update!Next

-----------------------------------------------------------------------------
(* The closure.                                                            *)
LatestOf(es) == CHOOSE e \in es : \A f \in es : f.version <= e.version
ClosureAfter(es) == IF es = {} THEN None ELSE LatestOf(es).closure
Before(es, v) == {f \in es : f.version < v}
Chained(es) == \A e \in es :
    LET previous == ClosureAfter(Before(es, e.version))
    IN  e.before = IF previous = None THEN None ELSE previous.id

LEMMA FollowsMeans ==
    /\ ClosuresFollowEvents <=> location.closure = ClosureAfter(events) /\ Chained(events)
    /\ ClosuresFollowEvents' <=> location'.closure = ClosureAfter(events') /\ Chained(events')
BY DEF ClosuresFollowEvents, Update!ClosuresFollowEvents, Chained, Before, ClosureAfter, LatestOf

(* An event later than all others is the latest.                           *)
LEMMA NewestIsLatest ==
    ASSUME NEW es, NEW new, new.version \in Nat,
           \A e \in es : e.version \in Nat /\ e.version < new.version
    PROVE  LatestOf(es \cup {new}) = new
<1>1. \A f \in es \cup {new} : f.version <= new.version
  OBVIOUS
<1>2. \A e \in es \cup {new} : (\A f \in es \cup {new} : f.version <= e.version) => e = new
  OBVIOUS
<1> QED BY <1>1, <1>2 DEF LatestOf

(* What a step makes of the closure: nothing, or a new event.              *)
LEMMA ClosureEffects ==
    ASSUME Update!TypeOK, [Update!Next]_(Update!vars)
    PROVE  /\ location'.version \in Nat /\ location.version <= location'.version
           /\ \/ location'.closure = location.closure /\ events' = events
              \/ \E c \in Update!Commands :
                    /\ location'.version = location.version + 1
                    /\ location'.closure = Update!NewClosure(c)
                    /\ events' = events \cup {[op |-> c.op, version |-> location.version + 1,
                                               before |-> Update!ClosureId, closure |-> Update!NewClosure(c)]}
<1>0. /\ location \in [version : 0 .. MaxVersion, closure : Update!Closures \cup {None}, lifecycle : Update!Lifecycles]
      /\ location.version \in Nat
  BY UpdateAssumption DEF Update!TypeOK, UpdateAssumption
<1>1. ASSUME NEW call \in calls, Update!ServeCommit(call), Update!OutcomeOf(call.command) = "applied"
      PROVE  \E c \in Update!Commands :
                /\ location' = [location EXCEPT !.version = @ + 1, !.closure = Update!NewClosure(c)]
                /\ events' = events \cup {[op |-> c.op, version |-> location.version + 1,
                                           before |-> Update!ClosureId, closure |-> Update!NewClosure(c)]}
  <2>1. call.command \in Update!Commands
    BY DEF Update!TypeOK
  <2> QED BY <1>1, <2>1 DEF Update!ServeCommit
<1>2. ASSUME NEW call \in calls, Update!ServeCommit(call), Update!OutcomeOf(call.command) # "applied"
      PROVE  location' = location /\ events' = events
  BY <1>2 DEF Update!ServeCommit, Update!serverVars
<1>3. ASSUME NEW call \in calls, Update!ServeCancel(call) PROVE location' = location /\ events' = events
  BY <1>3 DEF Update!ServeCancel
<1>4. ASSUME Update!EditLocation
      PROVE  /\ events' = events
             /\ \E lifecycle \in Update!Lifecycles :
                   location' = [location EXCEPT !.version = @ + 1, !.lifecycle = lifecycle]
  BY <1>4 DEF Update!EditLocation, Update!Edited
<1>5. ASSUME Update!Reassign \/ Update!Tick \/ UNCHANGED Update!vars \/ \E t \in Tabs : Update!TabStep(t)
      PROVE  location' = location /\ events' = events
  BY <1>5 DEF Update!Reassign, Update!Tick, Update!vars, Update!TabStep, Update!Begin, Update!Dismiss,
       Update!Confirm, Update!Recover, Update!ReconcileOrCancel, Update!Send, Update!AttemptAnswered,
       Update!CancelAnswered, Update!GiveUp, Update!Reload, Update!serverVars
<1>6. CASE location' = location /\ events' = events
  BY <1>0, <1>6
<1>7. CASE \E c \in Update!Commands :
             /\ location' = [location EXCEPT !.version = @ + 1, !.closure = Update!NewClosure(c)]
             /\ events' = events \cup {[op |-> c.op, version |-> location.version + 1,
                                        before |-> Update!ClosureId, closure |-> Update!NewClosure(c)]}
  BY <1>0, <1>7
<1>8. CASE Update!EditLocation
  <2>1. PICK lifecycle \in Update!Lifecycles :
          location' = [location EXCEPT !.version = @ + 1, !.lifecycle = lifecycle]
    BY <1>4, <1>8
  <2>2. location'.version = location.version + 1 /\ location'.closure = location.closure
    BY <1>0, <2>1
  <2>3. location'.version \in Nat /\ location.version <= location'.version
    BY <1>0, <2>2
  <2>4. events' = events
    BY <1>4, <1>8
  <2> QED BY <2>2, <2>3, <2>4
<1> QED BY <1>1, <1>2, <1>3, <1>5, <1>6, <1>7, <1>8 DEF Update!Next

LEMMA ClosureStep ==
    ASSUME Update!TypeOK, ClosureInv, [Update!Next]_(Update!vars)
    PROVE  ClosureInv'
<1>0. /\ location.version \in Nat /\ \A e \in events : e.version \in Nat /\ e.version <= location.version
      /\ location.closure = ClosureAfter(events) /\ Chained(events)
  BY UpdateAssumption, FollowsMeans DEF UpdateAssumption, ClosureInv, Update!TypeOK
<1>1. location'.version \in Nat /\ location.version <= location'.version
  BY ClosureEffects
<1>2. CASE location'.closure = location.closure /\ events' = events
  <2>1. \A e \in events' : e.version <= location'.version
    BY <1>0, <1>1, <1>2
  <2>2. ClosuresFollowEvents'
    BY <1>0, <1>2, FollowsMeans
  <2> QED BY <1>2, <2>1, <2>2 DEF ClosureInv, Update!NextLocalMidnight
<1>3. ASSUME NEW c \in Update!Commands,
             location'.version = location.version + 1, location'.closure = Update!NewClosure(c),
             events' = events \cup {[op |-> c.op, version |-> location.version + 1,
                                     before |-> Update!ClosureId, closure |-> Update!NewClosure(c)]}
      PROVE  ClosureInv'
  <2> DEFINE new == [op |-> c.op, version |-> location.version + 1,
                     before |-> Update!ClosureId, closure |-> Update!NewClosure(c)]
  <2>1. /\ events' = events \cup {new} /\ new.version = location.version + 1
        /\ new.closure = Update!NewClosure(c) /\ new.before = Update!ClosureId
    BY <1>3
  <2> HIDE DEF new
  <2>2. \A e \in events : e.version \in Nat /\ e.version < new.version
    BY <1>0, <2>1
  <2>3. new.version \in Nat
    BY <1>0, <2>1
  <2>4. LatestOf(events \cup {new}) = new
    BY <2>2, <2>3, NewestIsLatest
  <2>5. location'.closure = ClosureAfter(events')
    BY <1>3, <2>1, <2>4 DEF ClosureAfter
  <2>6. \A e \in events : Before(events', e.version) = Before(events, e.version)
    BY <2>1, <2>2, <2>3, <1>0 DEF Before
  <2>7. Before(events', new.version) = events
    BY <2>1, <2>2, <2>3 DEF Before
  <2>8. new.before = IF ClosureAfter(events) = None THEN None ELSE ClosureAfter(events).id
    BY <1>0, <2>1 DEF Update!ClosureId
  <2>9. Chained(events')
    <3> SUFFICES ASSUME NEW e \in events'
                 PROVE  LET previous == ClosureAfter(Before(events', e.version))
                        IN  e.before = IF previous = None THEN None ELSE previous.id
      BY DEF Chained
    <3>1. CASE e \in events
      BY <1>0, <2>6, <3>1 DEF Chained
    <3>2. CASE e = new
      BY <2>7, <2>8, <3>2
    <3> QED BY <2>1, <3>1, <3>2
  <2>10. ClosuresFollowEvents'
    BY <2>5, <2>9, FollowsMeans
  <2>11. \A e \in events' : e.version <= location'.version
    BY <1>0, <1>3, <2>1
  <2>12. location'.closure # None =>
            location'.closure.expiresAt = Update!NextLocalMidnight(location'.closure.startsAt)
    BY <1>3 DEF Update!NewClosure
  <2> QED BY <2>10, <2>11, <2>12 DEF ClosureInv, Update!NextLocalMidnight
<1> QED BY <1>2, <1>3, ClosureEffects

(* A closure in force began on the day it is now.                          *)
LEMMA ClosedToday ==
    ASSUME Update!TypeOK, ClosureInv
    PROVE  ClosedOnlyTheDayConfirmed
<1> SUFFICES ASSUME location.closure # None, location.closure.startsAt <= now, now < location.closure.expiresAt
             PROVE  location.closure.startsAt \div DayLength = now \div DayLength
  BY DEF ClosedOnlyTheDayConfirmed, Update!ClosedOnlyTheDayConfirmed, Update!InForce
<1>1. now \in Nat /\ DayLength \in Nat \ {0} /\ MaxTime \in Nat
  BY UpdateAssumption DEF UpdateAssumption, Update!TypeOK
<1>2. location.closure.startsAt \in Nat
  <2>1. location.closure \in Update!Closures
    BY DEF Update!TypeOK
  <2> QED BY <1>1, <2>1 DEF Update!Closures, Update!Times
<1>3. now < ((location.closure.startsAt \div DayLength) + 1) * DayLength
  BY DEF ClosureInv, Update!NextLocalMidnight
<1> QED BY <1>1, <1>2, <1>3, SameDay

-----------------------------------------------------------------------------
(* The commands.                                                           *)
Receipts == {"none", "committed", "cancelled"}

(* A call that is served: what becomes of the receipt, of the call and of  *)
(* the panel that waits for the answer.                                    *)
Served(call) ==
    LET o == call.command.op  t == call.tab IN
    /\ call \in calls /\ calls' \subseteq calls /\ told' = told
    /\ call.kind = "commit" => calls' = calls \ {call}
    /\ \A other \in Ops \ {o} : receipts'[other] = receipts[other]
    /\ receipts[o] # "none" => receipts'[o] = receipts[o]
    /\ \/ tab' = tab
       \/ \E result \in {"saved", "refused", "cancelled"} :
             /\ tab[t].waiting = call.kind /\ tab[t].pending = call.command
             /\ tab' = [tab EXCEPT ![t].answer = result]
             /\ result = "saved" => receipts'[o] = "committed"
             /\ result = "cancelled" => receipts'[o] = "cancelled" /\ call.kind = "cancel"
             /\ result = "refused" => receipts' = receipts /\ call.kind # "cancel"

LEMMA ServedSteps ==
    ASSUME Update!TypeOK, NEW call \in calls, Update!ServeCommit(call) \/ Update!ServeCancel(call)
    PROVE  Served(call)
<1> DEFINE o == call.command.op
<1>0. /\ o \in Ops /\ receipts[o] \in Receipts /\ receipts \in [Ops -> Receipts]
      /\ call.kind \in {"commit", "recover", "cancel"}
  BY DEF Update!TypeOK, Update!Commands, Receipts
<1>1. CASE Update!ServeCommit(call)
  <2> DEFINE result == IF Update!OutcomeOf(call.command) = "refused" THEN "refused" ELSE "saved"
  <2>1. /\ calls' \subseteq calls /\ told' = told
        /\ call.kind = "commit" => calls' = calls \ {call}
        /\ call.kind \in {"commit", "recover"}
    BY <1>1 DEF Update!ServeCommit, Update!Delivered
  <2>2. /\ receipts' = receipts \/ (receipts[o] = "none" /\ receipts' = [receipts EXCEPT ![o] = "committed"])
        /\ result = "saved" => receipts'[o] = "committed"
        /\ result = "refused" => receipts' = receipts
    <3>1. CASE Update!OutcomeOf(call.command) = "applied"
      <4>1. receipts[o] = "none"
        BY <3>1 DEF Update!OutcomeOf
      <4>2. receipts' = [receipts EXCEPT ![o] = "committed"]
        BY <1>1, <3>1 DEF Update!ServeCommit
      <4> QED BY <1>0, <3>1, <4>1, <4>2
    <3>2. CASE Update!OutcomeOf(call.command) # "applied"
      <4>1. receipts' = receipts
        BY <1>1, <3>2 DEF Update!ServeCommit, Update!serverVars
      <4>2. result = "saved" => receipts[o] = "committed"
        BY <3>2 DEF Update!OutcomeOf
      <4> QED BY <4>1, <4>2
    <3> QED BY <3>1, <3>2
  <2>3. Update!Answer(call, result)
    BY <1>1 DEF Update!ServeCommit
  <2>4. result \in {"saved", "refused"}
    OBVIOUS
  <2> HIDE DEF result
  <2> QED BY <1>0, <2>1, <2>2, <2>3, <2>4 DEF Served, Update!Answer
<1>2. CASE Update!ServeCancel(call)
  <2> DEFINE result == IF receipts'[o] = "cancelled" THEN "cancelled" ELSE "saved"
  <2>1. calls' \subseteq calls /\ told' = told /\ call.kind = "cancel"
    BY <1>2 DEF Update!ServeCancel, Update!Delivered
  <2>2. receipts' = IF receipts[o] = "none" THEN [receipts EXCEPT ![o] = "cancelled"] ELSE receipts
    BY <1>2 DEF Update!ServeCancel, Update!Sealable
  <2>3. Update!Answer(call, result)
    BY <1>2 DEF Update!ServeCancel
  <2>4. /\ result \in {"saved", "cancelled"}
        /\ result = "saved" => receipts'[o] = "committed"
        /\ result = "cancelled" => receipts'[o] = "cancelled"
    BY <1>0, <2>2 DEF Receipts
  <2>5. /\ \A other \in Ops \ {o} : receipts'[other] = receipts[other]
        /\ receipts[o] # "none" => receipts'[o] = receipts[o]
    BY <1>0, <2>2
  <2> HIDE DEF result
  <2> QED BY <1>0, <2>1, <2>3, <2>4, <2>5 DEF Served, Update!Answer
<1> QED BY <1>1, <1>2

(* A step of a panel that concerns no command.                             *)
Idle ==
    /\ UNCHANGED <<receipts, calls, told>>
    /\ \A u \in Tabs : /\ tab'[u].pending = tab[u].pending
                       /\ tab'[u].waiting = tab[u].waiting /\ tab'[u].answer = tab[u].answer

(* A panel sends its command once more, or a new one for the first time.   *)
Sends(t, kind, c) ==
    /\ UNCHANGED <<receipts, told>>
    /\ calls' = calls \cup {[kind |-> kind, tab |-> t, command |-> c]}
    /\ \A u \in Tabs \ {t} : tab'[u] = tab[u]
    /\ tab[t].waiting = None /\ tab'[t].pending = c /\ tab'[t].waiting = kind /\ tab'[t].answer = None
    /\ \/ Pending(t) /\ tab[t].pending = c /\ kind # "commit"
       \/ ~Pending(t) /\ Update!Fresh(c.op) /\ kind = "commit"

(* A panel stops waiting: it keeps its command, or the answer settles it.  *)
Leaves(t, pending) ==
    /\ UNCHANGED <<receipts, calls>>
    /\ \A u \in Tabs \ {t} : tab'[u] = tab[u]
    /\ tab'[t].pending = pending /\ tab'[t].waiting = None /\ tab'[t].answer = None
    /\ \/ pending = tab[t].pending /\ told' = told
       \/ /\ pending = None /\ tab[t].waiting # None /\ tab[t].answer # None
          /\ told' = told \cup {<<tab[t].answer, tab[t].pending.op>>}
          /\ tab[t].answer = "refused" => tab[t].waiting = "commit"

LEMMA StepKinds ==
    ASSUME Update!TypeOK, AnswersHold, [Update!Next]_(Update!vars)
    PROVE  \/ Idle
           \/ \E call \in calls : Served(call)
           \/ \E t \in Tabs, kind \in {"commit", "recover", "cancel"}, c \in Update!Commands : Sends(t, kind, c)
           \/ \E t \in Tabs, pending \in Update!Commands \cup {None} : Leaves(t, pending)
<1>0. tab \in [Tabs -> Panel]
  BY DEF Update!TypeOK, Panel
<1>1. ASSUME NEW call \in calls, Update!ServeCommit(call) \/ Update!ServeCancel(call) PROVE Served(call)
  BY <1>1, ServedSteps
<1>2. CASE Update!EditLocation \/ Update!Reassign \/ Update!Tick \/ UNCHANGED Update!vars
  BY <1>2 DEF Update!EditLocation, Update!Reassign, Update!Tick, Update!vars, Idle
<1>3. ASSUME NEW t \in Tabs, Update!TabStep(t)
      PROVE  \/ Idle
             \/ \E kind \in {"commit", "recover", "cancel"}, c \in Update!Commands : Sends(t, kind, c)
             \/ \E pending \in Update!Commands \cup {None} : Leaves(t, pending)
  <2>0. tab[t] \in Panel
    BY <1>0
  <2>1. CASE Update!Begin(t) \/ Update!Dismiss(t)
    <3>1. PICK preview \in Update!Reviews \cup {None} : tab' = [tab EXCEPT ![t] = [tab[t] EXCEPT !.preview = preview]]
      BY <2>1, ReviewTyped DEF Update!Begin, Update!Dismiss, Update!Set
    <3>2. \A u \in Tabs : /\ tab'[u].pending = tab[u].pending
                          /\ tab'[u].waiting = tab[u].waiting /\ tab'[u].answer = tab[u].answer
      BY <1>0, <2>0, <3>1 DEF Panel
    <3> QED BY <2>1, <3>2 DEF Update!Begin, Update!Dismiss, Update!serverVars, Idle
  <2>2. ASSUME NEW kind \in {"commit", "recover", "cancel"}, NEW c \in Update!Commands, Update!Send(t, kind, c),
               ~Update!Busy(t),
               \/ Pending(t) /\ tab[t].pending = c /\ kind # "commit"
               \/ ~Pending(t) /\ Update!Fresh(c.op) /\ kind = "commit"
        PROVE  Sends(t, kind, c)
    <3>1. tab' = [tab EXCEPT ![t] = [tab[t] EXCEPT !.pending = c, !.waiting = kind]]
      BY <2>2 DEF Update!Send, Update!Set
    <3>2. tab[t].waiting = None /\ tab[t].answer = None
      BY <2>2 DEF Update!Busy, AnswersHold
    <3>3. /\ \A u \in Tabs \ {t} : tab'[u] = tab[u]
          /\ tab'[t].pending = c /\ tab'[t].waiting = kind /\ tab'[t].answer = None
      BY <1>0, <2>0, <3>1, <3>2 DEF Panel
    <3> QED BY <2>2, <3>2, <3>3 DEF Update!Send, Update!serverVars, Sends
  <2>3. ASSUME NEW o \in Ops, Update!Confirm(t, o)
        PROVE  \E c \in Update!Commands : Sends(t, "commit", c)
    <3> DEFINE c == [op |-> o, review |-> tab[t].preview]
    <3>1. c \in Update!Commands /\ c.op = o
      BY <2>0, <2>3 DEF Update!Confirm, Update!Commands, Panel
    <3>2. ~Update!Busy(t) /\ ~Pending(t) /\ Update!Fresh(c.op) /\ Update!Send(t, "commit", c)
      BY <2>3, <3>1 DEF Update!Confirm, Pending
    <3> QED BY <2>2, <3>1, <3>2
  <2>4. CASE Update!Recover(t) \/ Update!ReconcileOrCancel(t)
    <3>1. tab[t].pending \in Update!Commands /\ Pending(t) /\ ~Update!Busy(t)
      BY <2>0, <2>4 DEF Update!Recover, Update!ReconcileOrCancel, Panel, Pending
    <3> QED BY <2>2, <2>4, <3>1 DEF Update!Recover, Update!ReconcileOrCancel
  <2>5. CASE Update!AttemptAnswered(t) \/ Update!CancelAnswered(t) \/ Update!GiveUp(t) \/ Update!Reload(t)
    <3>1. PICK pending \in {tab[t].pending, None} :
            /\ tab' = [tab EXCEPT ![t] = [Update!Quiet EXCEPT !.pending = pending]]
            /\ \/ pending = tab[t].pending /\ told' = told
               \/ /\ pending = None /\ tab[t].waiting # None /\ tab[t].answer # None
                  /\ told' = told \cup {<<tab[t].answer, tab[t].pending.op>>}
                  /\ tab[t].answer = "refused" => tab[t].waiting = "commit"
      <4>1. CASE Update!AttemptAnswered(t)
        BY <4>1, UpdateAssumption
        DEF Update!AttemptAnswered, Update!Set, Update!Quiet, Update!Definite, UpdateAssumption
      <4>2. CASE Update!CancelAnswered(t)
        BY <4>2, UpdateAssumption DEF Update!CancelAnswered, Update!Set, Update!Quiet, AnswersHold, UpdateAssumption
      <4>3. CASE Update!GiveUp(t) \/ Update!Reload(t)
        BY <4>3 DEF Update!GiveUp, Update!Reload, Update!Set
      <4> QED BY <2>5, <4>1, <4>2, <4>3
    <3>2. /\ \A u \in Tabs \ {t} : tab'[u] = tab[u]
          /\ tab'[t].pending = pending /\ tab'[t].waiting = None /\ tab'[t].answer = None
      BY <1>0, <3>1 DEF Update!Quiet
    <3>3. UNCHANGED <<receipts, calls>>
      BY <2>5 DEF Update!AttemptAnswered, Update!CancelAnswered, Update!GiveUp, Update!Reload, Update!serverVars
    <3>4. pending \in Update!Commands \cup {None}
      BY <2>0 DEF Panel
    <3>5. Leaves(t, pending)
      BY <3>1, <3>2, <3>3 DEF Leaves
    <3> QED BY <3>4, <3>5
  <2> QED BY <1>3, <2>1, <2>3, <2>4, <2>5 DEF Update!TabStep
<1> QED BY <1>1, <1>2, <1>3 DEF Update!Next

(* Each kind of step keeps what is known of the commands.                  *)
Owned == OneOwner /\ AnswersHold /\ FirstAttempt /\ ToldSettled /\ UnresolvedNeverForgotten

LEMMA IdleKeeps == ASSUME Owned, Idle PROVE Owned'
<1> USE DEF Owned, Idle, Pending
<1>1. OneOwner' BY DEF OneOwner
<1>2. AnswersHold' BY DEF AnswersHold
<1>3. FirstAttempt' BY DEF FirstAttempt
<1>4. ToldSettled' BY DEF ToldSettled
<1>5. UnresolvedNeverForgotten' BY DEF UnresolvedNeverForgotten, Update!UnresolvedNeverForgotten
<1> QED BY <1>1, <1>2, <1>3, <1>4, <1>5

LEMMA ServedKeeps ==
    ASSUME Update!TypeOK, Owned, NEW call \in calls, Served(call)
    PROVE  Owned'
<1> DEFINE o == call.command.op
<1> USE DEF Owned
<1>0. /\ tab \in [Tabs -> Panel] /\ calls \subseteq Call /\ call.tab \in Tabs
      /\ o \in Ops /\ told \subseteq {"saved", "refused", "cancelled"} \X Ops
  BY DEF Update!TypeOK, Panel, Call, Update!Commands
<1>1. /\ calls' \subseteq calls /\ told' = told
      /\ \A q \in Ops : receipts[q] # "none" \/ q # o => receipts'[q] = receipts[q]
  BY <1>0 DEF Served
<1>2. \A u \in Tabs : tab'[u].pending = tab[u].pending /\ tab'[u].waiting = tab[u].waiting
  BY <1>0 DEF Served, Panel
<1>3. ASSUME NEW u \in Tabs, tab'[u].answer # tab[u].answer
      PROVE  /\ u = call.tab /\ tab[u].waiting = call.kind /\ tab[u].pending = call.command
             /\ tab'[u].answer = "saved" => receipts'[o] = "committed"
             /\ tab'[u].answer = "cancelled" => receipts'[o] = "cancelled" /\ call.kind = "cancel"
             /\ tab'[u].answer = "refused" => receipts' = receipts /\ call.kind # "cancel"
             /\ tab'[u].answer \in {"saved", "refused", "cancelled"}
  <2>1. PICK result \in {"saved", "refused", "cancelled"} :
             /\ tab[call.tab].waiting = call.kind /\ tab[call.tab].pending = call.command
             /\ tab' = [tab EXCEPT ![call.tab].answer = result]
             /\ result = "saved" => receipts'[o] = "committed"
             /\ result = "cancelled" => receipts'[o] = "cancelled" /\ call.kind = "cancel"
             /\ result = "refused" => receipts' = receipts /\ call.kind # "cancel"
    BY <1>3 DEF Served
  <2>2. u = call.tab /\ tab'[u].answer = result
    BY <1>0, <1>3, <2>1 DEF Panel
  <2> QED BY <2>1, <2>2
<1>4. \A u \in Tabs : Pending(u) => tab[u].pending.op \in Ops
  BY <1>0 DEF Pending, Panel, Update!Commands
<1>5. OneOwner'
  BY <1>1, <1>2 DEF OneOwner, Pending
<1>6. AnswersHold'
  <2> SUFFICES ASSUME NEW u \in Tabs
               PROVE  /\ tab'[u].waiting # None => Pending(u)'
                      /\ tab'[u].waiting = None => tab'[u].answer = None
                      /\ tab'[u].answer = "saved" => receipts'[tab'[u].pending.op] = "committed"
                      /\ tab'[u].answer = "cancelled" => receipts'[tab'[u].pending.op] = "cancelled"
                      /\ tab'[u].waiting = "cancel" => tab'[u].answer # "refused"
                      /\ tab'[u].waiting \in {"commit", "recover"} => tab'[u].answer # "cancelled"
    BY DEF AnswersHold
  <2>1. tab[u].waiting # None => Pending(u)
    BY DEF AnswersHold
  <2>2. CASE tab'[u].answer = tab[u].answer
    <3>1. tab[u].answer # None => Pending(u) /\ tab[u].pending.op \in Ops
      BY <1>4, <2>1 DEF AnswersHold
    <3>2. None # "saved" /\ None # "cancelled"
      BY UpdateAssumption DEF UpdateAssumption
    <3> QED BY <1>1, <1>2, <2>1, <2>2, <3>1, <3>2 DEF AnswersHold, Pending
  <2>3. CASE tab'[u].answer # tab[u].answer
    <3>1. tab[u].waiting # None
      BY <1>0, <1>3, <2>3, UpdateAssumption DEF UpdateAssumption, Call
    <3> QED BY <1>2, <1>3, <2>1, <2>3, <3>1 DEF Pending
  <2> QED BY <2>2, <2>3
<1>7. FirstAttempt'
  <2> SUFFICES ASSUME NEW u \in Tabs, tab'[u].waiting = "commit"
               PROVE  /\ \A other \in calls' : other.command.op = tab'[u].pending.op =>
                            other.kind = "commit" /\ tab'[u].answer = None /\ receipts'[tab'[u].pending.op] = "none"
                      /\ tab'[u].answer = "refused" => receipts'[tab'[u].pending.op] # "committed"
    BY DEF FirstAttempt
  <2> DEFINE q == tab[u].pending.op
  <2>1. tab[u].waiting = "commit" /\ tab'[u].pending = tab[u].pending /\ Pending(u) /\ q \in Ops
    <3>1. None # "commit"
      BY UpdateAssumption DEF UpdateAssumption
    <3> QED BY <1>2, <1>4, <3>1 DEF AnswersHold
  <2>2. CASE q # o
    <3>1. receipts'[q] = receipts[q] /\ tab'[u].answer = tab[u].answer
      BY <1>1, <1>3, <2>1, <2>2
    <3> QED BY <1>1, <2>1, <3>1 DEF FirstAttempt
  <2>3. CASE q = o
    <3>1. call.kind = "commit" /\ tab[u].answer = None /\ receipts[q] = "none"
      BY <2>1, <2>3 DEF FirstAttempt
    <3>2. calls' = calls \ {call}
      BY <3>1 DEF Served
    <3>3. ASSUME NEW other \in calls, other.command.op = q PROVE other = call
      <4>1. other.kind = "commit" /\ other.tab = u /\ other.command = tab[u].pending
        BY <2>1, <3>3 DEF FirstAttempt, OneOwner
      <4>2. call.tab = u /\ call.command = tab[u].pending
        BY <2>1, <2>3 DEF OneOwner
      <4>3. other \in Call /\ call \in Call
        BY <1>0
      <4> QED BY <3>1, <4>1, <4>2, <4>3 DEF Call
    <3>4. tab'[u].answer = "refused" => receipts' = receipts
      <4>1. None # "refused"
        BY UpdateAssumption DEF UpdateAssumption
      <4> QED BY <1>3, <3>1, <4>1
    <3> QED BY <2>1, <3>1, <3>2, <3>3, <3>4
  <2> QED BY <2>2, <2>3
<1>8. ToldSettled'
  <2> SUFFICES ASSUME NEW entry \in told
               PROVE  /\ \A t \in Tabs : Pending(t)' => tab'[t].pending.op # entry[2]
                      /\ entry[1] = "saved" => receipts'[entry[2]] = "committed"
                      /\ entry[1] = "cancelled" => receipts'[entry[2]] = "cancelled"
                      /\ entry[1] = "refused" => /\ receipts'[entry[2]] # "committed"
                                                 /\ \A other \in calls' : other.command.op # entry[2]
    BY <1>1 DEF ToldSettled
  <2>1. entry[2] \in Ops
    BY <1>0
  <2>2. \A t \in Tabs : Pending(t)' => tab'[t].pending.op # entry[2]
    BY <1>2 DEF ToldSettled, Pending
  <2>3. CASE entry[1] = "refused"
    <3>1. entry[2] # o /\ receipts[entry[2]] # "committed" /\ \A other \in calls : other.command.op # entry[2]
      BY <2>3 DEF ToldSettled
    <3> QED BY <1>1, <2>1, <2>2, <2>3, <3>1
  <2>4. CASE entry[1] # "refused"
    BY <1>1, <2>1, <2>2, <2>4 DEF ToldSettled
  <2> QED BY <2>3, <2>4
<1>9. UnresolvedNeverForgotten'
  <2> SUFFICES ASSUME NEW other \in calls', other.kind # "cancel", receipts'[other.command.op] = "none"
               PROVE  \E t \in Tabs : tab'[t].pending = other.command
    BY DEF UnresolvedNeverForgotten, Update!UnresolvedNeverForgotten
  <2>1. other \in calls /\ other.command.op \in Ops
    BY <1>0, <1>1 DEF Call, Update!Commands
  <2>2. receipts[other.command.op] = "none"
    BY <1>1, <2>1
  <2> QED BY <1>2, <2>1, <2>2 DEF UnresolvedNeverForgotten, Update!UnresolvedNeverForgotten
<1> QED BY <1>5, <1>6, <1>7, <1>8, <1>9

LEMMA SendsKeep ==
    ASSUME Update!TypeOK, Owned, NEW t \in Tabs, NEW kind \in {"commit", "recover", "cancel"},
           NEW c \in Update!Commands, Sends(t, kind, c)
    PROVE  Owned'
<1> DEFINE sent == [kind |-> kind, tab |-> t, command |-> c]
           Known == Pending(t) /\ tab[t].pending = c /\ kind # "commit"
           New == ~Pending(t) /\ Update!Fresh(c.op) /\ kind = "commit"
<1> USE DEF Owned
<1>0. c # None /\ None \notin {"commit", "recover", "cancel", "saved", "refused", "cancelled"}
  BY UpdateAssumption DEF UpdateAssumption
<1>1. /\ UNCHANGED <<receipts, told>> /\ calls' = calls \cup {sent}
      /\ \A u \in Tabs \ {t} : tab'[u] = tab[u]
      /\ tab[t].waiting = None /\ tab'[t].pending = c /\ tab'[t].waiting = kind /\ tab'[t].answer = None
      /\ Known \/ New
  BY DEF Sends
<1>2. ASSUME NEW u \in Tabs \ {t}, Pending(u) PROVE tab[u].pending.op # c.op
  BY <1>1, <1>2 DEF OneOwner, Update!Fresh, Pending
<1>3. ASSUME NEW call \in calls, call.command.op = c.op PROVE Known /\ call.tab = t /\ call.command = c
  BY <1>1, <1>3 DEF OneOwner, Update!Fresh
<1>4. ASSUME NEW entry \in told PROVE entry[2] # c.op
  BY <1>1 DEF ToldSettled, Update!Fresh
<1>5. OneOwner'
  <2>1. ASSUME NEW u \in Tabs, NEW v \in Tabs, Pending(u)', Pending(v)', tab'[u].pending.op = tab'[v].pending.op
        PROVE  u = v
    <3>1. CASE u # t /\ v # t
      BY <1>1, <2>1, <3>1 DEF OneOwner, Pending
    <3>2. CASE u = t /\ v # t
      BY <1>1, <1>2, <2>1, <3>2 DEF Pending
    <3>3. CASE u # t /\ v = t
      BY <1>1, <1>2, <2>1, <3>3 DEF Pending
    <3> QED BY <3>1, <3>2, <3>3
  <2>2. ASSUME NEW call \in calls', NEW u \in Tabs, Pending(u)', tab'[u].pending.op = call.command.op
        PROVE  call.tab = u /\ call.command = tab'[u].pending
    <3>1. CASE call = sent
      BY <1>1, <1>2, <2>2, <3>1 DEF Pending
    <3>2. CASE call \in calls /\ u = t
      BY <1>1, <1>3, <2>2, <3>2
    <3>3. CASE call \in calls /\ u # t
      BY <1>1, <2>2, <3>3 DEF OneOwner, Pending
    <3> QED BY <1>1, <3>1, <3>2, <3>3
  <2> QED BY <2>1, <2>2 DEF OneOwner
<1>6. AnswersHold'
  BY <1>0, <1>1 DEF AnswersHold, Pending
<1>7. FirstAttempt'
  <2> SUFFICES ASSUME NEW u \in Tabs, tab'[u].waiting = "commit"
               PROVE  /\ \A call \in calls' : call.command.op = tab'[u].pending.op =>
                            call.kind = "commit" /\ tab'[u].answer = None /\ receipts'[tab'[u].pending.op] = "none"
                      /\ tab'[u].answer = "refused" => receipts'[tab'[u].pending.op] # "committed"
    BY DEF FirstAttempt
  <2>1. CASE u = t
    <3>1. kind = "commit" /\ Update!Fresh(c.op) /\ tab'[u].pending = c /\ tab'[u].answer = None
      BY <1>1, <2>1
    <3>2. receipts[c.op] = "none" /\ \A call \in calls : call.command.op # c.op
      BY <3>1 DEF Update!Fresh
    <3> QED BY <1>0, <1>1, <3>1, <3>2
  <2>2. CASE u # t
    <3>1. tab'[u] = tab[u] /\ Pending(u) /\ tab[u].pending.op # c.op
      BY <1>0, <1>1, <1>2, <2>2 DEF AnswersHold
    <3> QED BY <1>1, <3>1 DEF FirstAttempt
  <2> QED BY <2>1, <2>2
<1>8. ToldSettled'
  BY <1>1, <1>4 DEF ToldSettled, Pending
<1>9. UnresolvedNeverForgotten'
  <2> SUFFICES ASSUME NEW call \in calls', call.kind # "cancel", receipts[call.command.op] = "none"
               PROVE  \E u \in Tabs : tab'[u].pending = call.command
    BY <1>1 DEF UnresolvedNeverForgotten, Update!UnresolvedNeverForgotten
  <2>1. CASE call = sent
    BY <1>1, <2>1
  <2>2. CASE call \in calls
    <3>1. PICK u \in Tabs : tab[u].pending = call.command
      BY <2>2 DEF UnresolvedNeverForgotten, Update!UnresolvedNeverForgotten
    <3>2. call.command # None
      BY <2>2, UpdateAssumption DEF UpdateAssumption, Update!TypeOK
    <3> QED BY <1>1, <3>1, <3>2 DEF Pending
  <2> QED BY <1>1, <2>1, <2>2
<1> QED BY <1>5, <1>6, <1>7, <1>8, <1>9

LEMMA LeavesKeep ==
    ASSUME Update!TypeOK, Owned, NEW t \in Tabs, NEW pending \in Update!Commands \cup {None}, Leaves(t, pending)
    PROVE  Owned'
<1> DEFINE o == tab[t].pending.op
           Keeps == pending = tab[t].pending /\ told' = told
           Settles == /\ pending = None /\ tab[t].waiting # None /\ tab[t].answer # None
                      /\ told' = told \cup {<<tab[t].answer, o>>}
                      /\ tab[t].answer = "refused" => tab[t].waiting = "commit"
<1> USE DEF Owned
<1>0. /\ None \notin {"commit", "recover", "cancel", "saved", "refused", "cancelled"}
      /\ \A call \in calls : call.command # None
      /\ tab \in [Tabs -> Panel]
  BY UpdateAssumption DEF UpdateAssumption, Update!TypeOK, Panel
<1>1. /\ UNCHANGED <<receipts, calls>>
      /\ \A u \in Tabs \ {t} : tab'[u] = tab[u]
      /\ tab'[t].pending = pending /\ tab'[t].waiting = None /\ tab'[t].answer = None
      /\ Keeps \/ Settles
  BY DEF Leaves
<1>2. \A u \in Tabs : tab'[u].pending \in {tab[u].pending, None}
  BY <1>1
<1>3. OneOwner'
  BY <1>1, <1>2 DEF OneOwner, Pending
<1>4. AnswersHold'
  BY <1>0, <1>1 DEF AnswersHold, Pending
<1>5. FirstAttempt'
  BY <1>0, <1>1 DEF FirstAttempt
<1>6. Settles => /\ Pending(t)
                 /\ tab[t].answer = "saved" => receipts[o] = "committed"
                 /\ tab[t].answer = "cancelled" => receipts[o] = "cancelled"
                 /\ tab[t].answer = "refused" => /\ receipts[o] # "committed"
                                                 /\ \A call \in calls : call.command.op # o
                 /\ tab[t].answer \in {"saved", "refused", "cancelled"}
  <2> SUFFICES ASSUME Settles
               PROVE  /\ Pending(t)
                      /\ tab[t].answer = "saved" => receipts[o] = "committed"
                      /\ tab[t].answer = "cancelled" => receipts[o] = "cancelled"
                      /\ tab[t].answer = "refused" => /\ receipts[o] # "committed"
                                                      /\ \A call \in calls : call.command.op # o
                      /\ tab[t].answer \in {"saved", "refused", "cancelled"}
    OBVIOUS
  <2>1. tab[t].answer \in {"saved", "refused", "cancelled"}
    BY <1>0 DEF Panel
  <2>2. tab[t].answer = "refused" => /\ receipts[o] # "committed"
                                     /\ \A call \in calls : call.command.op # o
    BY <1>0 DEF FirstAttempt
  <2> QED BY <2>1, <2>2 DEF AnswersHold
<1>7. ToldSettled'
  <2>1. CASE Keeps
    BY <1>1, <1>2, <2>1 DEF ToldSettled, Pending
  <2>2. CASE Settles
    <3>1. \A u \in Tabs : Pending(u)' => u # t /\ Pending(u) /\ tab'[u].pending = tab[u].pending /\ tab[u].pending.op # o
      BY <1>1, <1>6, <2>2 DEF OneOwner, Pending
    <3>2. ASSUME NEW entry \in told
          PROVE  /\ \A u \in Tabs : Pending(u)' => tab'[u].pending.op # entry[2]
                 /\ entry[1] = "saved" => receipts'[entry[2]] = "committed"
                 /\ entry[1] = "cancelled" => receipts'[entry[2]] = "cancelled"
                 /\ entry[1] = "refused" => /\ receipts'[entry[2]] # "committed"
                                            /\ \A call \in calls' : call.command.op # entry[2]
      BY <1>1, <3>1 DEF ToldSettled
    <3>3. /\ \A u \in Tabs : Pending(u)' => tab'[u].pending.op # o
          /\ tab[t].answer = "saved" => receipts'[o] = "committed"
          /\ tab[t].answer = "cancelled" => receipts'[o] = "cancelled"
          /\ tab[t].answer = "refused" => /\ receipts'[o] # "committed"
                                          /\ \A call \in calls' : call.command.op # o
      BY <1>1, <1>6, <2>2, <3>1
    <3>4. <<tab[t].answer, o>>[1] = tab[t].answer /\ <<tab[t].answer, o>>[2] = o
      OBVIOUS
    <3> QED BY <2>2, <3>2, <3>3, <3>4 DEF ToldSettled
  <2> QED BY <1>1, <2>1, <2>2
<1>8. UnresolvedNeverForgotten'
  <2> SUFFICES ASSUME NEW call \in calls, call.kind # "cancel", receipts[call.command.op] = "none"
               PROVE  \E u \in Tabs : tab'[u].pending = call.command
    BY <1>1 DEF UnresolvedNeverForgotten, Update!UnresolvedNeverForgotten
  <2>1. PICK u \in Tabs : tab[u].pending = call.command
    BY DEF UnresolvedNeverForgotten, Update!UnresolvedNeverForgotten
  <2>2. CASE u # t \/ Keeps
    BY <1>1, <2>1, <2>2
  <2>3. CASE u = t /\ Settles
    BY <1>6, <2>1, <2>3
  <2> QED BY <1>1, <2>2, <2>3
<1> QED BY <1>3, <1>4, <1>5, <1>7, <1>8

LEMMA CommandInit == Update!Init => CommandInv /\ ClosureInv
<1> SUFFICES ASSUME Update!Init PROVE CommandInv /\ ClosureInv
  OBVIOUS
<1>0. /\ MaxTime \in Nat /\ MaxVersion \in Nat /\ MaxFailures \in Nat
      /\ None \notin {"commit", "recover", "cancel", "saved", "refused", "cancelled"}
  BY UpdateAssumption DEF UpdateAssumption
<1>1. Update!TypeOK
  BY <1>0 DEF Update!Init, Update!TypeOK, Update!Quiet, Update!Lifecycles
<1>2. Owned
  BY <1>0 DEF Update!Init, Update!Quiet, Owned, OneOwner, AnswersHold, FirstAttempt, ToldSettled, Pending,
      UnresolvedNeverForgotten, Update!UnresolvedNeverForgotten
<1>3. ClosureInv
  BY FollowsMeans DEF Update!Init, ClosureInv, ClosureAfter, Chained
<1> QED BY <1>1, <1>2, <1>3 DEF CommandInv, Owned

(* The invariant of the updates holds of every reachable state.            *)
THEOREM UpdateInvariant == Update!Spec => [](CommandInv /\ ClosureInv)
<1>1. CommandInv /\ ClosureInv /\ [Update!Next]_(Update!vars) => CommandInv' /\ ClosureInv'
  <2> SUFFICES ASSUME CommandInv, ClosureInv, [Update!Next]_(Update!vars) PROVE CommandInv' /\ ClosureInv'
    OBVIOUS
  <2>1. Update!TypeOK /\ Owned
    BY DEF CommandInv, Owned
  <2>2. Update!TypeOK'
    BY <2>1, TypesStep DEF Owned
  <2>3. Owned'
    <3>1. CASE Idle
      BY <2>1, <3>1, IdleKeeps
    <3>2. CASE \E call \in calls : Served(call)
      BY <2>1, <3>2, ServedKeeps
    <3>3. CASE \E t \in Tabs, kind \in {"commit", "recover", "cancel"}, c \in Update!Commands : Sends(t, kind, c)
      BY <2>1, <3>3, SendsKeep
    <3>4. CASE \E t \in Tabs, pending \in Update!Commands \cup {None} : Leaves(t, pending)
      BY <2>1, <3>4, LeavesKeep
    <3> QED BY <2>1, <3>1, <3>2, <3>3, <3>4, StepKinds DEF Owned
  <2>4. ClosureInv'
    BY <2>1, ClosureStep
  <2> QED BY <2>2, <2>3, <2>4 DEF CommandInv, Owned
<1> QED BY <1>1, CommandInit, PTL DEF Update!Spec

(* A refusal, a cancellation or a save that a panel reports stays the word *)
(* on its operation: late calls, retries and reloads change nothing of it. *)
THEOREM WhatWasToldHolds == Update!Spec => []ToldTruth
<1>1. CommandInv => ToldTruth
  <2> SUFFICES ASSUME CommandInv, NEW entry \in told
               PROVE  receipts[entry[2]] = "committed" <=> entry[1] = "saved"
    BY DEF ToldTruth, Update!ToldTruth
  <2>1. entry[1] \in {"saved", "refused", "cancelled"}
    BY DEF CommandInv, Update!TypeOK
  <2> QED BY <2>1 DEF CommandInv, ToldSettled
<1> QED BY <1>1, UpdateInvariant, PTL

(* A command whose commit may still arrive is kept by a tab.               *)
THEOREM CommandsAreKept == Update!Spec => []UnresolvedNeverForgotten
<1>1. CommandInv => UnresolvedNeverForgotten
  BY DEF CommandInv
<1> QED BY <1>1, UpdateInvariant, PTL

(* Every closure is that of the latest event, and each event follows the   *)
(* one before it.                                                          *)
THEOREM EventsMakeClosures == Update!Spec => []ClosuresFollowEvents
<1>1. ClosureInv => ClosuresFollowEvents
  BY DEF ClosureInv
<1> QED BY <1>1, UpdateInvariant, PTL

(* No closure lasts into a local day nobody confirmed it for, whatever the *)
(* length of a day and the time of the commit.                             *)
THEOREM ClosuresEndAtMidnight == Update!Spec => []ClosedOnlyTheDayConfirmed
<1>1. CommandInv /\ ClosureInv => ClosedOnlyTheDayConfirmed
  BY ClosedToday DEF CommandInv
<1> QED BY <1>1, UpdateInvariant, PTL

-----------------------------------------------------------------------------
(* The shown state. Least elements, and induction with the numbers that are *)
(* good as a set.                                                           *)
LEMMA Least == ASSUME NEW S \in SUBSET Nat, S # {} PROVE \E x \in S : \A y \in S : x <= y
<1>1. PICK x \in S : \A y \in S : ~ (<<y, x>> \in OpToRel(<, Nat))
  BY WFMin, NatLessThanWellFounded, Zenon
<1>2. \A y \in S : ~ (y < x)
  BY <1>1, Zenon DEF OpToRel
<1> QED BY <1>2

LEMMA Induction ==
    ASSUME NEW S, \A n \in Nat : (\A m \in 0 .. n - 1 : m \in S) => n \in S
    PROVE  \A n \in Nat : n \in S
<1> SUFFICES ASSUME NEW k \in Nat, k \notin S PROVE FALSE
  OBVIOUS
<1> DEFINE Bad == {n \in Nat : n \notin S}
<1>1. PICK n \in Bad : \A m \in Bad : n <= m
  <2>1. Bad \in SUBSET Nat /\ Bad # {}
    OBVIOUS
  <2> HIDE DEF Bad
  <2> QED BY <2>1, Least
<1>2. \A m \in 0 .. n - 1 : m \in Nat /\ ~(n <= m)
  OBVIOUS
<1>3. \A m \in 0 .. n - 1 : m \in S
  BY <1>1, <1>2
<1> QED BY <1>1, <1>3

LEMMA Earliest ==
    ASSUME NEW S \in SUBSET Int, IsFiniteSet(S), S # {}
    PROVE  State!Min(S) \in S /\ \A y \in S : State!Min(S) <= y
<1> DEFINE Below(u) == {k \in S : k < u}
<1>1. \A u \in S : IsFiniteSet(Below(u)) /\ Cardinality(Below(u)) \in Nat
  BY FS_Subset, FS_CardinalityType
<1>2. {Cardinality(Below(u)) : u \in S} \in SUBSET Nat /\ {Cardinality(Below(u)) : u \in S} # {}
  BY <1>1
<1>3. PICK x \in S : \A y \in S : Cardinality(Below(x)) <= Cardinality(Below(y))
  <2>1. PICK n \in {Cardinality(Below(u)) : u \in S} : \A k \in {Cardinality(Below(u)) : u \in S} : n <= k
    BY <1>2, Least
  <2> QED BY <2>1
<1>4. ASSUME NEW y \in S, y < x PROVE FALSE
  <2>1. Below(y) \subseteq Below(x) /\ y \in Below(x) /\ y \notin Below(y)
    <3>1. ASSUME NEW k \in S, k < y PROVE k < x
      BY <1>4, <3>1
    <3>2. ~ (y < y)
      OBVIOUS
    <3> QED BY <1>4, <3>1, <3>2
  <2>2. Cardinality(Below(y)) <= Cardinality(Below(x)) /\ Cardinality(Below(x)) # Cardinality(Below(y))
    BY <1>1, <2>1, FS_Subset
  <2> QED BY <1>1, <1>3, <1>4, <2>2
<1>5. \A y \in S : x <= y
  BY <1>4
<1> QED BY <1>5 DEF State!Min

(* The bisection of an interval, towards the last instant of D.             *)
Intervals == Int \X Int
Width(r) == r[2] - r[1]
Half(D, r) == IF (r[1] + r[2]) \div 2 \in D THEN <<(r[1] + r[2]) \div 2, r[2]>>
                                           ELSE <<r[1], (r[1] + r[2]) \div 2>>
Bisection(D, s) == [r \in Intervals |-> IF Width(r) <= 1 THEN r[2] ELSE s[Half(D, r)]]

LEMMA Halves ==
    ASSUME NEW D, NEW r \in Intervals, ~(Width(r) <= 1)
    PROVE  /\ Width(r) \in Nat /\ Width(r) > 1
           /\ Half(D, r) \in Intervals /\ Width(Half(D, r)) \in Nat
           /\ 1 <= Width(Half(D, r)) /\ Width(Half(D, r)) < Width(r)
<1> DEFINE mid == (r[1] + r[2]) \div 2
<1>1. r[1] \in Int /\ r[2] \in Int /\ r[2] - r[1] > 1
  BY DEF Intervals, Width
<1>2. mid \in Int /\ r[1] < mid /\ mid < r[2]
  BY <1>1
<1>3. CASE mid \in D
  <2>1. Half(D, r) = <<mid, r[2]>>
    BY <1>3 DEF Half
  <2> HIDE DEF mid
  <2> QED BY <1>1, <1>2, <2>1 DEF Intervals, Width
<1>4. CASE mid \notin D
  <2>1. Half(D, r) = <<r[1], mid>>
    BY <1>4 DEF Half
  <2> HIDE DEF mid
  <2> QED BY <1>1, <1>2, <2>1 DEF Intervals, Width
<1> QED BY <1>3, <1>4

Short(n) == {r \in Intervals : Width(r) <= n}
Solves(D, f, n) == \A r \in Short(n) : f[r] = IF Width(r) <= 1 THEN r[2] ELSE f[Half(D, r)]

LEMMA SolutionsAgree ==
    ASSUME NEW D, NEW f, NEW g, NEW n \in Nat, NEW k \in Nat, Solves(D, f, n), Solves(D, g, k),
           NEW r \in Short(n), r \in Short(k)
    PROVE  f[r] = g[r]
<1> DEFINE S == {m \in Nat : \A q \in Short(n) : q \in Short(k) /\ Width(q) <= m => f[q] = g[q]}
<1>1. ASSUME NEW m \in Nat, \A i \in 0 .. m - 1 : i \in S PROVE m \in S
  <2> SUFFICES ASSUME NEW q \in Short(n), q \in Short(k), Width(q) <= m PROVE f[q] = g[q]
    OBVIOUS
  <2>1. CASE Width(q) <= 1
    BY <2>1 DEF Solves
  <2>2. CASE ~(Width(q) <= 1)
    <3> DEFINE h == Half(D, q)
    <3>1. /\ Width(q) \in Nat /\ h \in Intervals /\ Width(h) \in Nat /\ Width(h) < Width(q)
          /\ Width(q) <= n /\ Width(q) <= k
      BY <2>2, Halves DEF Short
    <3>2. f[q] = f[h] /\ g[q] = g[h]
      BY <2>2 DEF Solves
    <3> HIDE DEF h
    <3>3. h \in Short(n) /\ h \in Short(k) /\ Width(h) \in 0 .. m - 1
      BY <3>1 DEF Short
    <3>4. Width(h) \in S
      BY <1>1, <3>3
    <3>5. f[h] = g[h]
      BY <3>1, <3>3, <3>4
    <3> QED BY <3>2, <3>5
  <2> QED BY <2>1, <2>2
<1>2. \A m \in Nat : m \in S
  <2> HIDE DEF S
  <2> QED BY <1>1, Induction
<1>3. n \in S /\ Width(r) <= n
  BY <1>2 DEF Short
<1> QED BY <1>3

LEMMA SolutionsExist == ASSUME NEW D PROVE \A n \in Nat : \E f : Solves(D, f, n)
<1> DEFINE S == {n \in Nat : \E f : Solves(D, f, n)}
<1>1. ASSUME NEW n \in Nat, \A i \in 0 .. n - 1 : i \in S PROVE n \in S
  <2>1. CASE n <= 1
    <3> DEFINE f == [r \in Intervals |-> r[2]]
    <3>1. Solves(D, f, n)
      <4> SUFFICES ASSUME NEW r \in Short(n) PROVE Width(r) <= 1 /\ f[r] = r[2]
        BY DEF Solves
      <4> QED BY <2>1 DEF Short, Width, Intervals
    <3> QED BY <3>1
  <2>2. CASE n > 1
    <3>1. n - 1 \in 0 .. n - 1 /\ n - 1 \in Nat
      BY <2>2
    <3>2. PICK f : Solves(D, f, n - 1)
      BY <1>1, <3>1
    <3> DEFINE g == [r \in Intervals |-> IF Width(r) <= 1 THEN r[2] ELSE f[Half(D, r)]]
    <3>3. \A r \in Short(n - 1) : g[r] = f[r]
      BY <3>2 DEF Solves, Short
    <3>4. ASSUME NEW r \in Short(n) PROVE g[r] = IF Width(r) <= 1 THEN r[2] ELSE g[Half(D, r)]
      <4>1. r \in Intervals /\ Width(r) <= n
        BY DEF Short
      <4>2. g[r] = IF Width(r) <= 1 THEN r[2] ELSE f[Half(D, r)]
        BY <4>1
      <4>3. CASE ~(Width(r) <= 1)
        <5>1. Half(D, r) \in Short(n - 1)
          <6>1. Width(r) \in Nat /\ Half(D, r) \in Intervals /\ Width(Half(D, r)) \in Nat
                /\ Width(Half(D, r)) < Width(r)
            BY <4>1, <4>3, Halves
          <6> QED BY <4>1, <6>1 DEF Short
        <5> HIDE DEF g
        <5> QED BY <3>3, <4>2, <5>1
      <4> HIDE DEF g
      <4> QED BY <4>2, <4>3
    <3> HIDE DEF g
    <3>5. Solves(D, g, n)
      BY <3>4 DEF Solves
    <3> QED BY <3>5
  <2> QED BY <2>1, <2>2
<1>2. \A n \in Nat : n \in S
  <2> HIDE DEF S
  <2> QED BY <1>1, Induction
<1> QED BY <1>2

LEMMA BisectionDefined == ASSUME NEW D PROVE \E s : s = Bisection(D, s)
<1> DEFINE F(n) == CHOOSE f : Solves(D, f, n)
           s == [r \in Intervals |-> IF Width(r) <= 1 THEN r[2] ELSE F(Width(r))[r]]
<1>1. \A n \in Nat : Solves(D, F(n), n)
  BY SolutionsExist
<1> HIDE DEF F
<1>2. ASSUME NEW r \in Intervals PROVE s[r] = IF Width(r) <= 1 THEN r[2] ELSE s[Half(D, r)]
  <2>1. CASE Width(r) <= 1
    BY <2>1
  <2>2. CASE ~(Width(r) <= 1)
    <3> DEFINE n == Width(r)
               h == Half(D, r)
               k == Width(h)
    <3>1. n \in Nat /\ h \in Intervals /\ k \in Nat /\ k < n /\ n <= n /\ k <= k
      BY <2>2, Halves
    <3>2. s[r] = F(n)[r] /\ s[h] = IF k <= 1 THEN h[2] ELSE F(k)[h]
      BY <2>2, <3>1
    <3> HIDE DEF s, n, k, h
    <3>3. r \in Short(n) /\ h \in Short(n) /\ h \in Short(k)
      BY <3>1 DEF Short, n, k
    <3>4. F(n)[r] = F(n)[h]
      BY <1>1, <2>2, <3>1, <3>3 DEF Solves, h
    <3>5. CASE k <= 1
      <4>1. F(n)[h] = h[2]
        BY <1>1, <3>1, <3>3, <3>5 DEF Solves, k
      <4> QED BY <2>2, <3>2, <3>4, <3>5, <4>1 DEF h
    <3>6. CASE ~(k <= 1)
      <4>1. F(n)[h] = F(k)[h]
        BY <1>1, <3>1, <3>3, SolutionsAgree
      <4> QED BY <2>2, <3>2, <3>4, <3>6, <4>1 DEF h
    <3> QED BY <3>5, <3>6
  <2> QED BY <2>1, <2>2
<1>3. s = Bisection(D, s)
  <2>1. s = [r \in Intervals |-> s[r]]
    OBVIOUS
  <2> HIDE DEF s
  <2> QED BY <1>2, <2>1 DEF Bisection
<1> QED BY <1>3

\* It ends in the interval, and everything before its end is in D.
LEMMA BisectionFinds ==
    ASSUME NEW D, NEW s, s = Bisection(D, s), NEW r \in Intervals, Width(r) >= 1, r[1] \in D,
           \A a, c \in D, b \in Int : a <= b /\ b <= c => b \in D
    PROVE  s[r] \in Int /\ r[1] < s[r] /\ s[r] <= r[2] /\ \A t \in Int : r[1] <= t /\ t < s[r] => t \in D
<1> DEFINE Good(q) == /\ s[q] \in Int /\ q[1] < s[q] /\ s[q] <= q[2]
                      /\ \A t \in Int : q[1] <= t /\ t < s[q] => t \in D
           S == {n \in Nat : \A q \in Intervals : 1 <= Width(q) /\ Width(q) <= n /\ q[1] \in D => Good(q)}
<1>1. \A q \in Intervals : s[q] = IF Width(q) <= 1 THEN q[2] ELSE s[Half(D, q)]
  BY DEF Bisection
<1>2. ASSUME NEW n \in Nat, \A i \in 0 .. n - 1 : i \in S PROVE n \in S
  <2> SUFFICES ASSUME NEW q \in Intervals, 1 <= Width(q), Width(q) <= n, q[1] \in D PROVE Good(q)
    OBVIOUS
  <2>1. q[1] \in Int /\ q[2] \in Int
    BY DEF Intervals
  <2>2. CASE Width(q) <= 1
    <3>1. s[q] = q[2] /\ q[2] = q[1] + 1
      BY <1>1, <2>1, <2>2 DEF Width
    <3>2. \A t \in Int : q[1] <= t /\ t < q[2] => t = q[1]
      BY <2>1, <3>1
    <3> QED BY <2>1, <3>1, <3>2
  <2>3. CASE ~(Width(q) <= 1)
    <3> DEFINE h == Half(D, q)
               mid == (q[1] + q[2]) \div 2
    <3>1. s[q] = s[h] /\ h \in Intervals /\ Width(h) \in Nat /\ 1 <= Width(h) /\ Width(h) < Width(q)
          /\ Width(q) \in Nat
      BY <1>1, <2>3, Halves
    <3>2. mid \in Int /\ q[1] < mid /\ mid < q[2]
      BY <2>1, <2>3 DEF Width
    <3>3. Width(h) \in S
      <4> HIDE DEF h, S
      <4> QED BY <1>2, <3>1
    <3>4. h = (IF mid \in D THEN <<mid, q[2]>> ELSE <<q[1], mid>>)
      BY DEF Half
    <3> HIDE DEF h, mid
    <3>5. h[1] \in D => Good(h)
      BY <3>1, <3>3
    <3>6. CASE mid \in D
      <4>1. h[1] = mid /\ h[2] = q[2] /\ Good(h)
        BY <3>4, <3>5, <3>6
      <4>2. ASSUME NEW t \in Int, q[1] <= t, t < s[q] PROVE t \in D
        <5>1. CASE t <= mid
          BY <3>2, <3>6, <4>2, <5>1
        <5>2. CASE mid <= t
          BY <3>1, <4>1, <4>2, <5>2
        <5> QED BY <3>2, <5>1, <5>2
      <4> QED BY <2>1, <3>1, <3>2, <4>1, <4>2
    <3>7. CASE mid \notin D
      <4>1. h[1] = q[1] /\ h[2] = mid /\ Good(h)
        BY <3>4, <3>5, <3>7
      <4> QED BY <2>1, <3>1, <3>2, <4>1
    <3> QED BY <3>6, <3>7
  <2> QED BY <2>2, <2>3
<1>3. \A n \in Nat : n \in S
  <2> HIDE DEF S
  <2> QED BY <1>2, Induction
<1>4. Width(r) \in Nat /\ Width(r) <= Width(r)
  BY DEF Width, Intervals
<1>5. Width(r) \in S
  <2> HIDE DEF S
  <2> QED BY <1>3, <1>4
<1>6. Good(r)
  <2> HIDE DEF Good
  <2> QED BY <1>4, <1>5
<1> QED BY <1>6

-----------------------------------------------------------------------------
(* Local time.                                                              *)
LEMMA Kinds ==
    /\ Day \in Nat \ {0} /\ Week \in Nat \ {0} /\ None \notin Int
    /\ \A z \in Zones : z.offset \in Int /\ z.at \in Int /\ z.by \in Int
    /\ \A z \in Zones : State!DateOf(z, z.at - 1) <= State!DateOf(z, z.at)
<1>1. \A z \in [offset : Int, at : Int, by : Int] : z.offset \in Int /\ z.at \in Int /\ z.by \in Int
  OBVIOUS
<1> QED BY <1>1, StateAssumption DEF StateAssumption, State!Dated

LEMMA Floors ==
    ASSUME NEW D \in Nat \ {0}, NEW t \in Int
    PROVE  t \div D \in Int /\ (t \div D) * D <= t /\ t < ((t \div D) + 1) * D
BY SMTT(30)

LEMMA Ordered ==
    ASSUME NEW D \in Nat \ {0}, NEW p \in Int, NEW q \in Int, p * D < q * D
    PROVE  p < q
BY SMTT(30)

LEMMA DaysGrow ==
    ASSUME NEW D \in Nat \ {0}, NEW t \in Int, NEW u \in Int, t <= u
    PROVE  t \div D <= u \div D
<1> DEFINE p == t \div D
           q == u \div D
<1>1. p \in Int /\ q \in Int /\ p * D <= t /\ u < (q + 1) * D
  BY Floors
<1> HIDE DEF p, q
<1>2. p * D \in Int /\ (q + 1) * D \in Int
  BY <1>1
<1>3. p * D < (q + 1) * D
  BY <1>1, <1>2
<1>4. p < q + 1
  BY <1>1, <1>3, Ordered
<1> QED BY <1>1, <1>4 DEF p, q

LEMMA WallTyped == ASSUME NEW z \in Zones, NEW t \in Int PROVE State!Wall(z, t) \in Int /\ State!DateOf(z, t) \in Int
<1>1. State!Wall(z, t) \in Int
  BY Kinds DEF State!Wall
<1> QED BY <1>1, Floors, Kinds DEF State!DateOf

(* The date never goes back.                                                *)
LEMMA DatesAdvance ==
    ASSUME NEW z \in Zones, NEW t \in Int, NEW u \in Int, t <= u
    PROVE  State!DateOf(z, t) <= State!DateOf(z, u)
<1>1. z.offset \in Int /\ z.at \in Int /\ z.by \in Int /\ z.at - 1 \in Int /\ Day \in Nat \ {0}
  BY Kinds
<1>2. ASSUME NEW a \in Int, NEW b \in Int, a <= b, a >= z.at \/ b < z.at
      PROVE State!DateOf(z, a) <= State!DateOf(z, b)
  <2>1. State!Wall(z, a) <= State!Wall(z, b)
    BY <1>1, <1>2 DEF State!Wall
  <2> QED BY <1>1, <2>1, WallTyped, DaysGrow DEF State!DateOf
<1>3. CASE t >= z.at \/ u < z.at
  BY <1>2, <1>3
<1>4. CASE t < z.at /\ u >= z.at
  <2>1. t <= z.at - 1 /\ z.at - 1 < z.at /\ z.at <= u /\ z.at >= z.at
    BY <1>1, <1>4
  <2>2. State!DateOf(z, t) <= State!DateOf(z, z.at - 1) /\ State!DateOf(z, z.at) <= State!DateOf(z, u)
    BY <1>1, <1>2, <2>1
  <2>3. State!DateOf(z, z.at - 1) <= State!DateOf(z, z.at)
    BY Kinds
  <2> QED BY <1>1, <2>2, <2>3, WallTyped
<1> QED BY <1>1, <1>3, <1>4

(* Up to the next local midnight it stays.                                  *)
LEMMA Midnight ==
    ASSUME NEW z \in Zones, NEW t \in Int
    PROVE  /\ State!NextLocalMidnight(t, z) \in Int /\ State!NextLocalMidnight(t, z) > t
           /\ \A u \in Int : t <= u /\ u < State!NextLocalMidnight(t, z) => State!DateOf(z, u) = State!DateOf(z, t)
<1> DEFINE D == {u \in Int : State!DateOf(z, u) = State!DateOf(z, t)}
           B(s) == [r \in Int \X Int |->
                      LET mid == (r[1] + r[2]) \div 2 IN
                      IF r[2] - r[1] <= 1 THEN r[2]
                      ELSE s[IF State!DateOf(z, mid) = State!DateOf(z, t) THEN <<mid, r[2]>> ELSE <<r[1], mid>>]]
           r0 == <<t, t + ((3 * Day) \div 2)>>
           search == CHOOSE s : s = B(s)
<1>1. State!NextLocalMidnight(t, z) = search[r0]
  BY DEF State!NextLocalMidnight
<1>2. ASSUME NEW s PROVE B(s) = Bisection(D, s)
  <2>1. ASSUME NEW r \in Intervals
        PROVE Half(D, r) = IF State!DateOf(z, (r[1] + r[2]) \div 2) = State!DateOf(z, t)
                           THEN <<(r[1] + r[2]) \div 2, r[2]>> ELSE <<r[1], (r[1] + r[2]) \div 2>>
    <3>1. (r[1] + r[2]) \div 2 \in Int
      BY DEF Intervals
    <3> QED BY <3>1 DEF Half
  <2> HIDE DEF D
  <2> QED BY <2>1 DEF Bisection, Width, Intervals
<1> HIDE DEF B
<1>3. search = Bisection(D, search)
  <2>1. \E s : s = B(s)
    BY <1>2, BisectionDefined
  <2> QED BY <1>2, <2>1
<1>4. r0 \in Intervals /\ Width(r0) >= 1 /\ r0[1] = t /\ t \in D
  <2>1. (3 * Day) \div 2 \in Int /\ (3 * Day) \div 2 >= 1
    BY Kinds
  <2> QED BY <2>1 DEF Intervals, Width
<1>5. ASSUME NEW a \in D, NEW c \in D, NEW b \in Int, a <= b, b <= c PROVE b \in D
  <2>1. State!DateOf(z, a) <= State!DateOf(z, b) /\ State!DateOf(z, b) <= State!DateOf(z, c)
    BY <1>5, DatesAdvance
  <2>2. State!DateOf(z, a) = State!DateOf(z, t) /\ State!DateOf(z, c) = State!DateOf(z, t)
    OBVIOUS
  <2>3. State!DateOf(z, b) \in Int /\ State!DateOf(z, t) \in Int
    BY WallTyped
  <2> QED BY <2>1, <2>2, <2>3
<1> HIDE DEF r0, search
<1>6. search[r0] \in Int /\ t < search[r0] /\ \A u \in Int : t <= u /\ u < search[r0] => u \in D
  <2> HIDE DEF D
  <2> QED BY <1>3, <1>4, <1>5, BisectionFinds
<1> QED BY <1>1, <1>6

(* Shifts begin and end at instants.                                        *)
LEMMA Instants ==
    ASSUME NEW z \in Zones, NEW date \in Int, NEW clockTime \in Int
    PROVE  \E a, b \in Int : State!WallInstants(date, clockTime, z) \subseteq {a, b}
<1> DEFINE wall == date * Day + clockTime
           noon == date * Day + (Day \div 2)
           offsets == {State!Wall(z, t) - t : t \in {noon + k * (Day \div 2) : k \in -3 .. 3}}
<1>1. z.offset \in Int /\ z.at \in Int /\ z.by \in Int /\ Day \in Nat
  BY Kinds
<1>2. wall \in Int /\ noon \in Int /\ Day \div 2 \in Int
  <2>1. date * Day \in Int /\ Day \div 2 \in Int
    BY <1>1
  <2> QED BY <2>1
<1>3. ASSUME NEW o \in offsets PROVE o \in {z.offset, z.offset + z.by}
  <2>1. PICK t \in {noon + k * (Day \div 2) : k \in -3 .. 3} : o = State!Wall(z, t) - t
    OBVIOUS
  <2>2. PICK k \in -3 .. 3 : t = noon + k * (Day \div 2)
    OBVIOUS
  <2> HIDE DEF noon
  <2>3. t \in Int
    <3>1. k * (Day \div 2) \in Int
      BY <1>2
    <3> QED BY <1>2, <2>2, <3>1
  <2> QED BY <1>1, <2>1, <2>3 DEF State!Wall
<1>4. State!WallInstants(date, clockTime, z) \subseteq {wall - o : o \in offsets}
  BY DEF State!WallInstants
<1> HIDE DEF wall, offsets
<1>5. State!WallInstants(date, clockTime, z) \subseteq {wall - z.offset, wall - (z.offset + z.by)}
  BY <1>3, <1>4
<1>6. wall - z.offset \in Int /\ wall - (z.offset + z.by) \in Int
  BY <1>1, <1>2
<1> QED BY <1>5, <1>6

LEMMA Extremes ==
    ASSUME NEW a \in Int, NEW b \in Int, NEW S \in SUBSET {a, b}, S # {}
    PROVE  State!Min(S) \in Int /\ State!Max(S) \in Int
<1>0. (\A y \in S : y = a \/ y = b) /\ (a \in S \/ b \in S)
  OBVIOUS
<1>1. \E x \in S : \A y \in S : x <= y
  <2>1. CASE a \in S /\ (a <= b \/ b \notin S)
    BY <1>0, <2>1
  <2>2. CASE b \in S /\ (b <= a \/ a \notin S)
    BY <1>0, <2>2
  <2> QED BY <1>0, <2>1, <2>2
<1>2. \E x \in S : \A y \in S : x >= y
  <2>1. CASE a \in S /\ (a >= b \/ b \notin S)
    BY <1>0, <2>1
  <2>2. CASE b \in S /\ (b >= a \/ a \notin S)
    BY <1>0, <2>2
  <2> QED BY <1>0, <2>1, <2>2
<1>3. \A y \in S : y \in Int
  BY <1>0
<1>4. State!Min(S) \in S
  BY <1>1 DEF State!Min
<1>5. State!Max(S) \in S
  BY <1>2 DEF State!Max
<1> QED BY <1>3, <1>4, <1>5

LEMMA Placed ==
    ASSUME NEW l \in State!OperatingLocation, l.zone \in Zones, NEW date \in Int
    PROVE  \E x, y \in Int : \A s \in State!ShiftOf(l, date) \ {None} : s[1] = x /\ s[2] = y
<1> DEFINE entry == State!ScheduleOf(l, date)
           h == entry.hours
           ending == IF h.close < h.open THEN date + 1 ELSE date
           starts == State!WallInstants(date, h.open, l.zone)
           ends == State!WallInstants(ending, h.close, l.zone)
<1>1. State!ShiftOf(l, date) = IF entry = None THEN {None} ELSE IF h.closed THEN {}
                               ELSE IF starts = {} \/ ends = {} THEN {None}
                               ELSE {<<State!Min(starts), State!Max(ends)>>}
  BY DEF State!ShiftOf
<1>2. entry # None => h \in State!Hours
  <2> DEFINE overrides == {d[2] : d \in {e \in l.dated : e[1] = date}}
             weekly == l.standard[date % Week]
  <2>1. weekly \in State!Hours
    <3>1. PICK r \in 0 .. Week - 1 : date % Week = r
      BY Kinds
    <3> QED BY <3>1 DEF State!OperatingLocation
  <2>2. \A d \in overrides : d \in State!Hours
    BY DEF State!OperatingLocation
  <2>3. entry = IF overrides # {}
                THEN IF State!Cardinality(overrides) = 1 /\ \A d \in overrides : State!ValidHours(d)
                     THEN [hours |-> CHOOSE d \in overrides : TRUE, dated |-> TRUE] ELSE None
                ELSE IF State!ValidHours(weekly) THEN [hours |-> weekly, dated |-> FALSE] ELSE None
    BY DEF State!ScheduleOf
  <2> HIDE DEF overrides, weekly, entry
  <2> QED BY <2>1, <2>2, <2>3
<1> HIDE DEF entry, starts, ends
<1>3. CASE entry = None \/ h.closed \/ starts = {} \/ ends = {}
  <2>1. State!ShiftOf(l, date) \ {None} = {}
    BY <1>1, <1>3
  <2> QED BY <2>1
<1>4. CASE entry # None /\ starts # {} /\ ends # {}
  <2>1. h.open \in Int /\ h.close \in Int
    BY <1>2, <1>4, Kinds DEF State!Hours
  <2>2. ending \in Int
    BY <2>1
  <2>3. State!Min(starts) \in Int
    <3>1. PICK a, b \in Int : starts \subseteq {a, b}
      BY <2>1, Instants DEF starts
    <3> QED BY <1>4, <3>1, Extremes
  <2>4. State!Max(ends) \in Int
    <3> HIDE DEF ending
    <3>1. PICK a, b \in Int : ends \subseteq {a, b}
      BY <2>1, <2>2, Instants DEF ends
    <3> QED BY <1>4, <3>1, Extremes
  <2>5. \A s \in State!ShiftOf(l, date) \ {None} : s = <<State!Min(starts), State!Max(ends)>>
    BY <1>1, <1>4
  <2> QED BY <2>3, <2>4, <2>5
<1> QED BY <1>3, <1>4

LEMMA ChangesPlaced ==
    ASSUME NEW l \in State!OperatingLocation, l.zone \in Zones, NEW t \in Int
    PROVE  State!Changes(l, t) \in SUBSET Int /\ IsFiniteSet(State!Changes(l, t))
<1> DEFINE today == State!DateOf(l.zone, t)
<1>1. today \in Int
  BY WallTyped
<1> HIDE DEF today
<1>2. PICK x1, y1 \in Int : \A s \in State!ShiftOf(l, today + -1) \ {None} : s[1] = x1 /\ s[2] = y1
  <2>1. today + -1 \in Int
    BY <1>1
  <2> QED BY <2>1, Placed
<1>3. PICK x2, y2 \in Int : \A s \in State!ShiftOf(l, today + 0) \ {None} : s[1] = x2 /\ s[2] = y2
  <2>1. today + 0 \in Int
    BY <1>1
  <2> QED BY <2>1, Placed
<1>4. PICK x3, y3 \in Int : \A s \in State!ShiftOf(l, today + 1) \ {None} : s[1] = x3 /\ s[2] = y3
  <2>1. today + 1 \in Int
    BY <1>1
  <2> QED BY <2>1, Placed
<1> DEFINE bounds == {x1, y1, x2} \cup {y2, x3, y3}
<1>5. \A s \in State!Shifts(l, t) : s[1] \in bounds /\ s[2] \in bounds
  <2> SUFFICES ASSUME NEW s \in State!Shifts(l, t) PROVE s[1] \in bounds /\ s[2] \in bounds
    OBVIOUS
  <2>1. PICK k \in {-1, 0, 1} : s \in State!ShiftOf(l, today + k) \ {None}
    <3> DEFINE shift(k) == State!ShiftOf(l, today + k)
    <3>1. s \in UNION {shift(k) : k \in {-1, 0, 1}} /\ s \notin {None}
      BY DEF State!Shifts, today
    <3> HIDE DEF shift
    <3>2. PICK k \in {-1, 0, 1} : s \in shift(k)
      BY <3>1
    <3> QED BY <3>1, <3>2 DEF shift
  <2>2. CASE k = -1
    BY <1>2, <2>1, <2>2
  <2>3. CASE k = 0
    BY <1>3, <2>1, <2>3
  <2>4. CASE k = 1
    BY <1>4, <2>1, <2>4
  <2> QED BY <2>2, <2>3, <2>4
<1>6. bounds \in SUBSET Int /\ IsFiniteSet(bounds)
  <2>1. \A a, b, c : IsFiniteSet({a, b, c})
    <3> SUFFICES ASSUME NEW a, NEW b, NEW c PROVE IsFiniteSet({a, b, c})
      OBVIOUS
    <3>1. IsFiniteSet({a}) /\ IsFiniteSet({b}) /\ IsFiniteSet({c})
      BY FS_Singleton
    <3>2. IsFiniteSet({a} \cup {b})
      BY <3>1, FS_Union
    <3>3. IsFiniteSet(({a} \cup {b}) \cup {c})
      BY <3>1, <3>2, FS_Union
    <3>4. {a, b, c} = ({a} \cup {b}) \cup {c}
      OBVIOUS
    <3> QED BY <3>3, <3>4
  <2>2. IsFiniteSet({x1, y1, x2}) /\ IsFiniteSet({y2, x3, y3})
    BY <2>1
  <2> QED BY <2>2, FS_Union
<1> HIDE DEF bounds
<1>7. State!Changes(l, t) \subseteq bounds
  BY <1>5 DEF State!Changes
<1> QED BY <1>6, <1>7, FS_Subset

-----------------------------------------------------------------------------
(* An answer holds until its transition.                                    *)
Begun(l, t) == l.closure # None => l.closure.starts \in Int /\ l.closure.ends \in Int /\ l.closure.starts <= t

LEMMA BoundariesPlaced ==
    ASSUME NEW l \in State!OperatingLocation, l.zone \in Zones, NEW t \in Int, Begun(l, t)
    PROVE  /\ State!Boundaries(l, t) \in SUBSET Int /\ IsFiniteSet(State!Boundaries(l, t))
           /\ State!NextLocalMidnight(t, l.zone) \in State!Boundaries(l, t)
           /\ State!OnClosure(l, t) => l.closure.ends \in State!Boundaries(l, t)
<1> DEFINE m == State!NextLocalMidnight(t, l.zone)
           more == IF l.closure = None THEN {} ELSE {u \in {l.closure.starts, l.closure.ends} : u > t}
<1>1. m \in Int
  BY Midnight
<1>2. State!Boundaries(l, t) = {m} \cup more
  BY DEF State!Boundaries
<1> HIDE DEF m
<1>3. more \in SUBSET Int /\ IsFiniteSet(more) /\ (State!OnClosure(l, t) => l.closure.ends \in more)
  <2>1. CASE l.closure = None
    BY <2>1, FS_EmptySet DEF State!OnClosure
  <2>2. CASE l.closure # None
    <3> DEFINE p == l.closure.starts
               q == l.closure.ends
    <3>1. p \in Int /\ q \in Int /\ (State!OnClosure(l, t) => q > t)
      BY <2>2 DEF Begun, State!OnClosure
    <3>2. IsFiniteSet({p} \cup {q})
      BY FS_Singleton, FS_Union
    <3> HIDE DEF p, q
    <3>3. more = {u \in {p, q} : u > t}
      BY <2>2 DEF p, q
    <3> HIDE DEF more
    <3>4. more \subseteq {p} \cup {q} /\ more \in SUBSET Int /\ (State!OnClosure(l, t) => q \in more)
      BY <3>1, <3>3
    <3> QED BY <3>2, <3>4, FS_Subset DEF q
  <2> QED BY <2>1, <2>2
<1> HIDE DEF more
<1>4. IsFiniteSet({m} \cup more)
  BY <1>3, FS_Singleton, FS_Union
<1> QED BY <1>1, <1>2, <1>3, <1>4 DEF m

LEMMA Held ==
    ASSUME NEW l \in State!OperatingLocation, NEW t0 \in Int, NEW t \in Int, t0 <= t, Begun(l, t0),
           \/ State!ResolveOperatingState(l, t0).next = None
           \/ t < State!ResolveOperatingState(l, t0).next
    PROVE  State!ResolveOperatingState(l, t).state = State!ResolveOperatingState(l, t0).state
<1> DEFINE R(u) == State!ResolveOperatingState(l, u)
           m == State!NextLocalMidnight(t0, l.zone)
           entry(u) == State!ScheduleOf(l, State!DateOf(l.zone, u))
           known(u) == State!ShiftOf(l, State!DateOf(l.zone, u) - 1) # {None}
                      /\ State!ShiftOf(l, State!DateOf(l.zone, u)) # {None}
           open(u) == \E s \in State!Shifts(l, u) : s[1] <= u /\ u < s[2]
           soon == {u \in State!Changes(l, t0) : u > t0}
           N1 == State!Min(State!Boundaries(l, t0))
           N2 == State!Min(State!Boundaries(l, t0) \cup soon)
<1>1. CASE State!Ended(l)
  BY <1>1 DEF State!ResolveOperatingState, State!Answer
<1>2. CASE ~State!Ended(l) /\ l.zone = None
  BY <1>2 DEF State!ResolveOperatingState, State!Answer
<1>3. CASE ~State!Ended(l) /\ l.zone # None
  <2>1. l.zone \in Zones
    BY <1>3 DEF State!OperatingLocation
  <2>2. m \in Int /\ m # None /\ \A u \in Int : t0 <= u /\ u < m => State!DateOf(l.zone, u) = State!DateOf(l.zone, t0)
    BY <2>1, Midnight, Kinds
  <2>3. State!Boundaries(l, t0) \in SUBSET Int /\ IsFiniteSet(State!Boundaries(l, t0))
        /\ m \in State!Boundaries(l, t0) /\ (State!OnClosure(l, t0) => l.closure.ends \in State!Boundaries(l, t0))
    BY <2>1, BoundariesPlaced
  <2>4. N1 \in Int /\ N1 <= m /\ (State!OnClosure(l, t0) => N1 <= l.closure.ends)
    <3> HIDE DEF m
    <3>1. N1 \in State!Boundaries(l, t0) /\ \A y \in State!Boundaries(l, t0) : N1 <= y
      BY <2>3, Earliest
    <3> QED BY <2>3, <3>1
  <2>5. State!Changes(l, t0) \in SUBSET Int /\ IsFiniteSet(State!Changes(l, t0))
    BY <2>1, ChangesPlaced
  <2>6. N2 \in Int /\ N2 <= m /\ \A u \in State!Changes(l, t0) : u > t0 => N2 <= u
    <3> DEFINE all == State!Boundaries(l, t0) \cup soon
    <3> HIDE DEF m
    <3>1. soon \in SUBSET Int /\ IsFiniteSet(soon)
      BY <2>5, FS_Subset
    <3>2. all \in SUBSET Int /\ IsFiniteSet(all) /\ m \in all /\ \A u \in soon : u \in all
      <4> HIDE DEF soon
      <4> QED BY <2>3, <3>1, FS_Union
    <3>3. State!Min(all) \in all /\ \A y \in all : State!Min(all) <= y
      <4> HIDE DEF all
      <4> QED BY <3>2, Earliest
    <3>4. N2 = State!Min(all)
      OBVIOUS
    <3> HIDE DEF N2, all
    <3> QED BY <3>2, <3>3, <3>4
  <2>7. R(t0).next \in {m, N1, N2}
    <3> DEFINE b == State!Boundaries(l, t0)
    <3>1. State!Scheduled(l, t0, b).next \in {m, N2}
      BY DEF State!Scheduled, State!Answer
    <3> HIDE DEF m, N2
    <3> QED BY <1>3, <3>1 DEF State!ResolveOperatingState, State!Answer, m
  <2>8. t < R(t0).next /\ t < m
    <3> HIDE DEF R, m, N1, N2
    <3>1. R(t0).next \in Int /\ R(t0).next <= m /\ R(t0).next # None
      BY <2>2, <2>4, <2>6, <2>7, Kinds
    <3>2. t < R(t0).next
      BY <3>1 DEF R
    <3> QED BY <2>2, <3>1, <3>2
  <2>9. State!DateOf(l.zone, t) = State!DateOf(l.zone, t0)
    BY <2>2, <2>8
  <2>10. entry(t) = entry(t0) /\ known(t) = known(t0) /\ State!Shifts(l, t) = State!Shifts(l, t0)
    BY <2>9 DEF State!Shifts
  <2>11. CASE l.status # "Active" \/ (l.closure # None /\ ~State!ClosureValid(l.closure))
    BY <1>3, <2>11 DEF State!ResolveOperatingState, State!Answer
  <2>12. CASE /\ l.status = "Active" /\ ~(l.closure # None /\ ~State!ClosureValid(l.closure))
              /\ State!OnClosure(l, t0)
    <3>1. R(t0) = State!Answer("Closed", N1)
      BY <1>3, <2>12 DEF State!ResolveOperatingState
    <3>2. t < N1
      <4> HIDE DEF R, N1
      <4> QED BY <2>8, <3>1 DEF State!Answer
    <3>3. State!OnClosure(l, t)
      <4>1. l.closure # None /\ l.closure.starts <= t0 /\ l.closure.starts \in Int /\ l.closure.ends \in Int
        BY <2>12 DEF State!OnClosure, Begun
      <4>2. l.closure.starts <= t
        BY <4>1
      <4>3. t < l.closure.ends
        <5> HIDE DEF N1
        <5> QED BY <2>4, <2>12, <3>2, <4>1
      <4> QED BY <4>1, <4>2, <4>3 DEF State!OnClosure
    <3> QED BY <1>3, <2>12, <3>3 DEF State!ResolveOperatingState, State!Answer
  <2>13. CASE /\ l.status = "Active" /\ ~(l.closure # None /\ ~State!ClosureValid(l.closure))
              /\ ~State!OnClosure(l, t0)
    <3>1. ~State!OnClosure(l, t)
      BY <2>13 DEF State!OnClosure, Begun
    <3> DEFINE settled == \/ l.lifecycle \notin {"normal", "modified"} \/ entry(t0) = None
                          \/ l.lifecycle = "modified" /\ ~entry(t0).dated
                          \/ entry(t0).hours.closed /\ entry(t0).dated
    <3>2. CASE settled
      BY <1>3, <2>10, <2>13, <3>1, <3>2 DEF State!ResolveOperatingState, State!Answer
    <3>3. CASE ~settled
      <4>1. R(t0) = State!Scheduled(l, t0, State!Boundaries(l, t0))
        BY <1>3, <2>13, <3>3 DEF State!ResolveOperatingState
      <4>2. R(t) = State!Scheduled(l, t, State!Boundaries(l, t))
        BY <1>3, <2>10, <2>13, <3>1, <3>3 DEF State!ResolveOperatingState
      <4> HIDE DEF R, settled
      <4>3. CASE ~known(t0)
        <5>1. R(t0).state = "Unknown"
          BY <4>1, <4>3 DEF State!Scheduled, State!Answer
        <5>2. ~known(t)
          BY <2>10, <4>3
        <5>3. R(t).state = "Unknown"
          BY <4>2, <5>2 DEF State!Scheduled, State!Answer
        <5> QED BY <5>1, <5>3 DEF R
      <4>4. CASE known(t0)
        <5>1. R(t0).state = (IF open(t0) THEN "Open" ELSE "Closed") /\ R(t0).next = N2
          BY <4>1, <4>4 DEF State!Scheduled, State!Answer
        <5>2. R(t).state = IF open(t) THEN "Open" ELSE "Closed"
          BY <2>10, <4>2, <4>4 DEF State!Scheduled, State!Answer
        <5>3. ASSUME NEW s \in State!Shifts(l, t0)
              PROVE (s[1] <= t <=> s[1] <= t0) /\ (t < s[2] <=> t0 < s[2])
          <6>1. s[1] \in State!Changes(l, t0) /\ s[2] \in State!Changes(l, t0)
            BY DEF State!Changes
          <6> HIDE DEF N2
          <6>2. t < N2
            BY <2>8, <5>1
          <6> QED BY <2>5, <2>6, <6>1, <6>2
        <5>4. open(t) <=> open(t0)
          BY <2>10, <5>3
        <5> HIDE DEF open
        <5> QED BY <5>1, <5>2, <5>4 DEF R
      <4> QED BY <4>3, <4>4
    <3> QED BY <3>2, <3>3
  <2> QED BY <2>11, <2>12, <2>13
<1> QED BY <1>1, <1>2, <1>3

(* What is shown was the answer at some time since, of a record as typed.   *)
ShownInv ==
    /\ instant \in Int /\ listed \in State!OperatingLocation /\ Begun(listed, instant)
    /\ shown # None => /\ shown.of \in State!OperatingLocation
                       /\ \E t0 \in Int : /\ t0 <= instant /\ Begun(shown.of, t0)
                                          /\ shown.answer = State!ResolveOperatingState(shown.of, t0)

LEMMA Saved ==
    ASSUME ShownInv, State!Close \/ State!Reopen \/ \E zone \in Zones \cup {None} : State!Rezone(zone)
    PROVE  listed' \in State!OperatingLocation /\ Begun(listed', instant) /\ UNCHANGED <<instant, shown>>
<1>1. listed = [status |-> listed.status, lifecycle |-> listed.lifecycle, zone |-> listed.zone,
                closure |-> listed.closure, standard |-> listed.standard, dated |-> listed.dated]
      /\ listed.zone \in Zones \cup {None} /\ listed.closure \in State!Closure \cup {None} /\ instant \in Int
  BY DEF ShownInv, State!OperatingLocation
<1>2. ASSUME NEW c \in State!Closure \cup {None}, listed' = [listed EXCEPT !.closure = c],
             c # None => c.starts <= instant
      PROVE  listed' \in State!OperatingLocation /\ Begun(listed', instant)
  <2>1. listed' \in State!OperatingLocation /\ listed'.closure = c
    BY <1>1, <1>2 DEF ShownInv, State!OperatingLocation
  <2> QED BY <1>2, <2>1 DEF Begun, State!Closure
<1>3. CASE State!Close
  <2> DEFINE c == [starts |-> instant, ends |-> State!NextLocalMidnight(instant, listed.zone), zone |-> listed.zone]
  <2>1. listed.zone \in Zones /\ listed' = [listed EXCEPT !.closure = c] /\ UNCHANGED <<instant, shown>>
    BY <1>1, <1>3 DEF State!Close, State!Update
  <2>2. c \in State!Closure /\ c.starts <= instant
    BY <1>1, <2>1, Midnight DEF State!Closure
  <2> HIDE DEF c
  <2> QED BY <1>2, <2>1, <2>2
<1>4. CASE State!Reopen
  BY <1>2, <1>4 DEF State!Reopen, State!Update
<1>5. ASSUME NEW zone \in Zones \cup {None}, State!Rezone(zone)
      PROVE  listed' \in State!OperatingLocation /\ Begun(listed', instant) /\ UNCHANGED <<instant, shown>>
  <2>1. listed' = [listed EXCEPT !.zone = zone] /\ UNCHANGED <<instant, shown>>
    BY <1>5 DEF State!Rezone, State!Update
  <2>2. listed' \in State!OperatingLocation /\ listed'.closure = listed.closure
    BY <1>1, <2>1 DEF ShownInv, State!OperatingLocation
  <2> QED BY <2>1, <2>2 DEF ShownInv, Begun
<1> QED BY <1>3, <1>4, <1>5

LEMMA ShownSteps == ASSUME ShownInv, [State!Next]_stateVars PROVE ShownInv'
<1>1. ASSUME listed' \in State!OperatingLocation, Begun(listed', instant), UNCHANGED <<instant, shown>>
      PROVE  ShownInv'
  BY <1>1 DEF ShownInv, Begun, State!OperatingLocation, State!Closure, State!Hours
<1>2. CASE UNCHANGED stateVars
  BY <1>1, <1>2 DEF ShownInv, stateVars
<1>3. CASE State!Tick
  BY <1>3 DEF State!Tick, ShownInv, Begun
<1>4. CASE State!Read
  BY <1>4 DEF State!Read, ShownInv, Begun
<1>5. CASE State!Close \/ State!Reopen \/ \E zone \in Zones \cup {None} : State!Rezone(zone)
  BY <1>1, <1>5, Saved
<1> QED BY <1>2, <1>3, <1>4, <1>5 DEF State!Next

LEMMA ShownInit == State!Init => ShownInv
<1> SUFFICES ASSUME State!Init PROVE ShownInv
  OBVIOUS
<1>1. listed \in Locations /\ instant = 0 /\ shown = None
  BY DEF State!Init
<1>2. listed \in State!OperatingLocation /\ (listed.closure # None => listed.closure.starts <= 0)
  BY <1>1, StateAssumption DEF StateAssumption, State!Dated
<1> QED BY <1>1, <1>2 DEF ShownInv, Begun, State!OperatingLocation, State!Closure

(* What a page shows is so until the transition that was named with it,     *)
(* whatever the hours, closures and zones, while dates do not go back.      *)
THEOREM ShownUntilTransition == OperatingSpec => []ShownStateHolds
<1>1. OperatingInit => ShownInv
  BY ShownInit DEF OperatingInit
<1>2. ShownInv /\ [OperatingNext]_<<vars, updateVars, stateVars>> => ShownInv'
  BY ShownSteps DEF OperatingNext, stateVars
<1>3. ShownInv => ShownStateHolds
  BY Held DEF ShownInv, ShownStateHolds, State!ShownStateHolds
<1> QED BY <1>1, <1>2, <1>3, PTL DEF OperatingSpec

-----------------------------------------------------------------------------
(* Updates and alerts explored side by side are updates and alerts.        *)
THEOREM PartsAreExplored == OperatingSpec => Spec /\ Update!Spec
<1>1. OperatingInit => Init /\ Update!Init
  BY DEF OperatingInit
<1>2. [OperatingNext]_<<vars, updateVars, stateVars>> => [Next]_vars /\ [Update!Next]_(Update!vars)
  BY DEF OperatingNext, updateVars, Update!vars
<1> QED BY <1>1, <1>2, PTL DEF OperatingSpec, Spec, Update!Spec
=============================================================================
