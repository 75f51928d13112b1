--------------------------- MODULE OperatingMail ---------------------------
(***************************************************************************)
(* The steward alert of one committed operating event: the claim and       *)
(* finish transactions on operating_mail_receipts and the handler of       *)
(* POST /event that sends between them. Requests for the same event come   *)
(* from the save, its replays, its reconciliation and the recovery button. *)
(*                                                                         *)
(* Each await of the handler is a boundary between two actions. The outbox *)
(* display is left out: only a failure of its first record changes what    *)
(* the handler does.                                                       *)
(***************************************************************************)
EXTENDS Naturals

CONSTANTS Requests, None

Statuses == {"Sending", "Accepted", "NotStarted", "Unknown"}
Receipt == [request : Requests, status : Statuses]
Answers == {"accepted", "already-accepted", "uncertain", "failed"}
ASSUME NoneAssumption == None \notin Receipt \cup Answers

VARIABLES
    committed,  \* operating_events holds the event
    receipt,    \* operating_mail_receipts of the event
    handler,    \* where each request's handler stands
    answer,     \* what each request was answered
    attempts,   \* history: messages handed to the relay
    delivered   \* history: the relay accepted a message

vars == <<committed, receipt, handler, answer, attempts, delivered>>

Init ==
    /\ committed = FALSE /\ receipt = None
    /\ handler = [r \in Requests |-> "asked"]
    /\ answer = [r \in Requests |-> None]
    /\ attempts = 0 /\ delivered = FALSE

Move(r, from, to) == handler[r] = from /\ handler' = [handler EXCEPT ![r] = to]

CommitEvent ==
    /\ ~committed /\ committed' = TRUE
    /\ UNCHANGED <<receipt, handler, answer, attempts, delivered>>

-----------------------------------------------------------------------------
Claimable == receipt = None \/ receipt.status = "NotStarted"

RepeatAnswer == IF receipt.status = "Accepted" THEN "already-accepted" ELSE "uncertain"

(* claim: take the alert, or say what became of it.                        *)
Claim(r) ==
    /\ committed
    /\ IF Claimable
       THEN /\ Move(r, "asked", "claimed")
            /\ receipt' = [request |-> r, status |-> "Sending"]
            /\ UNCHANGED answer
       ELSE /\ Move(r, "asked", "done")
            /\ answer' = [answer EXCEPT ![r] = RepeatAnswer]
            /\ UNCHANGED receipt
    /\ UNCHANGED <<committed, attempts, delivered>>

(* An alert of an event that does not exist is refused.                    *)
Refuse(r) ==
    /\ ~committed /\ Move(r, "asked", "done")
    /\ answer' = [answer EXCEPT ![r] = "failed"]
    /\ UNCHANGED <<committed, receipt, attempts, delivered>>

(* recordMailOutcome Queued, the last step before the relay is called.     *)
RecordQueued(r) ==
    /\ Move(r, "claimed", "queued") \/ Move(r, "claimed", "failing-before")
    /\ UNCHANGED <<committed, receipt, answer, attempts, delivered>>

(* The relay accepts or refuses, and its word arrives or does not.         *)
Send(r) ==
    /\ attempts' = attempts + 1
    /\ \/ delivered' = TRUE /\ Move(r, "queued", "acknowledged")
       \/ delivered' = TRUE /\ Move(r, "queued", "failing-after")
       \/ UNCHANGED delivered /\ Move(r, "queued", "failing-after")
    /\ UNCHANGED <<committed, receipt, answer>>

Kept == receipt.status = "Accepted"

(* The finish transaction; it throws when another request holds the claim. *)
Finish(r, status) ==
    /\ receipt # None /\ receipt.request = r
    /\ receipt' = IF Kept THEN receipt ELSE [receipt EXCEPT !.status = status]

(* finish Accepted: done, refused, or done or not with its word lost.      *)
FinishAccepted(r) ==
    /\ \/ /\ Finish(r, "Accepted") /\ Move(r, "acknowledged", "done")
          /\ answer' = [answer EXCEPT ![r] = "accepted"]
       \/ /\ Finish(r, "Accepted") \/ UNCHANGED receipt
          /\ Move(r, "acknowledged", "failing-after")
          /\ UNCHANGED answer
    /\ UNCHANGED <<committed, attempts, delivered>>

FaultyFailureStatus(phase) == "NotStarted"
FailureStatus(phase) == IF phase = "failing-after" THEN "Unknown" ELSE "NotStarted"

(* The catch block: finish with what is known; its own failure is ignored. *)
FinishFailed(r) ==
    /\ handler[r] \in {"failing-before", "failing-after"}
    /\ Finish(r, FailureStatus(handler[r])) \/ UNCHANGED receipt
    /\ handler' = [handler EXCEPT ![r] = "done"]
    /\ answer' = [answer EXCEPT ![r] = "failed"]
    /\ UNCHANGED <<committed, attempts, delivered>>

(* The instance that runs the handler stops; nobody is answered.           *)
Crash(r) ==
    /\ handler[r] \notin {"asked", "done"}
    /\ handler' = [handler EXCEPT ![r] = "done"]
    /\ UNCHANGED <<committed, receipt, answer, attempts, delivered>>

Next ==
    \/ CommitEvent
    \/ \E r \in Requests :
          \/ Claim(r) \/ Refuse(r) \/ RecordQueued(r) \/ Send(r)
          \/ FinishAccepted(r) \/ FinishFailed(r) \/ Crash(r)

Spec == Init /\ [][Next]_vars

-----------------------------------------------------------------------------
Phases == {"asked", "claimed", "queued", "acknowledged", "failing-before", "failing-after", "done"}

(* Every receipt, handler and answer keeps its type.                       *)
TypeOK ==
    /\ committed \in BOOLEAN /\ delivered \in BOOLEAN /\ attempts \in Nat
    /\ receipt \in Receipt \cup {None}
    /\ handler \in [Requests -> Phases]
    /\ answer \in [Requests -> Answers \cup {None}]

(* The claim transaction suppresses duplicates: whatever is repeated, lost *)
(* or crashes, the relay is handed at most one message for the event.      *)
OneAlertPerEvent == attempts <= 1

(* A requester is told the alert was accepted, now or before, only when    *)
(* the relay accepted it.                                                  *)
AcceptedTruth ==
    \A r \in Requests : answer[r] \in {"accepted", "already-accepted"} => delivered

(* finish never downgrades an accepted receipt, whichever failure follows. *)
AcceptedIsFinal ==
    [][receipt # None /\ receipt.status = "Accepted" => UNCHANGED receipt]_vars
=============================================================================
