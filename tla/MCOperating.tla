---------------------------- MODULE MCOperating ----------------------------
(* Two tabs and two operations over two local days of two parts each, and  *)
(* four requests for the alert of one event. Updates and their mail share  *)
(* only the existence of the event, and the state that is shown is         *)
(* resolved from a record it only reads: each is explored with the others  *)
(* at rest.                                                                *)
EXTENDS OperatingMail, Integers, TLC

CONSTANTS Tabs, Ops, DayLength, MaxTime, MaxVersion, MaxFailures,
          Day, Week, Zones, Locations, StateTime, MaxUpdates
VARIABLES now, location, allowed, receipts, events, calls, tab, failures, told,
          instant, listed, shown, changed

Update == INSTANCE OperatingUpdate
updateVars == <<now, location, allowed, receipts, events, calls, tab, failures, told>>

ASSUME UpdateAssumption ==
    /\ DayLength \in Nat \ {0} /\ MaxTime \in Nat /\ MaxVersion \in Nat /\ MaxFailures \in Nat
    /\ None \notin Update!Commands
    /\ None \notin {"commit", "recover", "cancel", "saved", "refused", "cancelled"}

H(open, close) == [closed |-> FALSE, open |-> open, close |-> close]
Shut == [closed |-> TRUE, open |-> 0, close |-> 0]

\* A zone without change, one that skips an hour and one that repeats one.
Plain == [offset |-> 0, at |-> 0, by |-> 0]
Gap   == [offset |-> 0, at |-> 5, by |-> 1]
Fold  == [offset |-> -1, at |-> 6, by |-> -1]

\* Day shifts, overnight shifts, closed days and malformed hours, by weekday.
Standards == {<<H(1, 3), H(2, 1)>>, <<H(2, 1), Shut>>, <<H(2, 1), H(3, 1)>>, <<H(1, 3), H(1, 1)>>}
Exceptions == {{}, {<<1, Shut>>}, {<<1, H(0, 2)>>}, {<<1, H(0, 2)>>, <<1, Shut>>},
               {<<1, H(3, 2)>>, <<2, Shut>>}}

ExploredZones == {Plain, Gap, Fold}

Base == [status |-> "Active", lifecycle |-> "normal", zone |-> Plain, closure |-> None,
         standard |-> [d \in 0 .. 1 |-> H(2, 1)], dated |-> {}]
ExploredRecords ==
    {Base}
    \cup {[Base EXCEPT !.zone = z, !.standard = [d \in 0 .. 1 |-> w[d + 1]], !.dated = x] :
        z \in ExploredZones, w \in Standards, x \in Exceptions}
    \cup {[Base EXCEPT !.lifecycle = c, !.dated = x] :
            c \in {"modified", "emergency", "remodel", "ended", "other"}, x \in Exceptions}
    \cup {[Base EXCEPT !.status = t, !.zone = z] : t \in {"Draft", "Retired"}, z \in {Gap, None}}

State == INSTANCE OperatingState WITH
    MaxTime <- StateTime, now <- instant, location <- listed, updates <- changed

ASSUME StateAssumption == State!Dated

stateVars == <<instant, listed, shown, changed>>

MailAtRest == ~committed /\ \A r \in Requests : handler[r] = "asked"
UpdateAtRest ==
    /\ now = 0 /\ location.version = 0 /\ location.lifecycle = "trading" /\ allowed
    /\ calls = {} /\ failures = 0 /\ told = {} /\ tab = [t \in Tabs |-> Update!Quiet]
StateAtRest == listed = Base /\ instant = 0 /\ shown = None /\ changed = 0

OperatingInit == Init /\ Update!Init /\ State!Init
OperatingNext ==
    \/ UpdateAtRest /\ StateAtRest /\ Next /\ UNCHANGED <<updateVars, stateVars>>
    \/ MailAtRest /\ StateAtRest /\ Update!Next /\ UNCHANGED <<vars, stateVars>>
    \/ MailAtRest /\ UpdateAtRest /\ State!Next /\ UNCHANGED <<vars, updateVars>>

OperatingSpec == OperatingInit /\ [][OperatingNext]_<<vars, updateVars, stateVars>>

ClosuresFollowEvents == Update!ClosuresFollowEvents
ClosedOnlyTheDayConfirmed == Update!ClosedOnlyTheDayConfirmed
ToldTruth == Update!ToldTruth
UnresolvedNeverForgotten == Update!UnresolvedNeverForgotten
ShownStateHolds == State!ShownStateHolds

Symmetric == Permutations(Tabs) \cup Permutations(Ops)
=============================================================================
