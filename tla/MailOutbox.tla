----------------------------- MODULE MailOutbox -----------------------------
(* Mail that is not an operating alert: diagnostics, the mails about a     *)
(* request, invitations by mail and links to copy. A call reads the        *)
(* settings, resolves whom it is about, records the message in the outbox, *)
(* hands it to the relay and records what became of it; between any two of *)
(* these it can fail or its host can stop, and a write or the relay can    *)
(* have done what is reported as failed. Meanwhile settings are replaced,  *)
(* requests decided and access records changed.                            *)
(*                                                                         *)
(* Subjects, bodies and rate limits are left out: a limit refuses a call   *)
(* before it does anything. So is the binding of invited identities, which *)
(* AccessRecords has.                                                      *)
EXTENDS Naturals

CONSTANTS
    Calls,          \* the id the server gives each call is the id of its outbox entry
    Addresses, Requests, Users, None,
    Configurations, \* what an administrator may save
    Environment     \* the configuration of the host, used until one is saved

Configuration == [steward : Addresses, recipients : SUBSET Addresses]

VARIABLES
    settings,   \* mail_settings/smtp
    requests,   \* None, or status and the requester's address
    users,      \* None, or the address and how the record says it was invited
    calls,      \* where each call stands, with what it has read
    outbox,     \* outbox_logs
    answer,     \* what each caller was answered
    relayed,    \* history: calls whose message the relay took, and to whom
    marks       \* history: how each record was ever marked, which a tab may still show

vars == <<settings, requests, users, calls, outbox, answer, relayed, marks>>
records == <<settings, requests, users, marks>>

Idle == [step |-> "idle", event |-> None, entity |-> None, with |-> None, to |-> None]

Init ==
    /\ settings = None
    /\ requests = [q \in Requests |-> None]
    /\ users = [u \in Users |-> None]
    /\ calls = [c \in Calls |-> Idle]
    /\ outbox = [c \in Calls |-> None] /\ answer = [c \in Calls |-> None]
    /\ relayed = {} /\ marks = [u \in Users |-> {}]

-----------------------------------------------------------------------------
(* Everybody else.                                                         *)
WriteSettings(s) ==
    /\ settings' = s
    /\ UNCHANGED <<requests, users, calls, outbox, answer, relayed, marks>>

Submit(q, address) ==
    /\ requests[q] = None
    /\ requests' = [requests EXCEPT ![q] = [status |-> "Pending", requester |-> address]]
    /\ UNCHANGED <<settings, users, calls, outbox, answer, relayed, marks>>

Decide(q, status) ==
    /\ requests[q] # None /\ requests[q].status = "Pending"
    /\ requests' = [requests EXCEPT ![q].status = status]
    /\ UNCHANGED <<settings, users, calls, outbox, answer, relayed, marks>>

(* An administrator's save is merged: a tab that shows no mark leaves the  *)
(* one there is, and a mark does not raise the version, so one that shows  *)
(* an older mark puts it back.                                             *)
SaveUser(u, address) ==
    /\ \E mark \in {IF users[u] = None THEN None ELSE users[u].invited} \cup marks[u] :
          users' = [users EXCEPT ![u] = [address |-> address, invited |-> mark]]
    /\ UNCHANGED <<settings, requests, calls, outbox, answer, relayed, marks>>

DeleteUser(u) ==
    /\ users[u] # None /\ users' = [users EXCEPT ![u] = None]
    /\ UNCHANGED <<settings, requests, calls, outbox, answer, relayed, marks>>

-----------------------------------------------------------------------------
Decisions == {"Approved", "Rejected"}

(* What a call can be about, by its kind.                                  *)
Entities(event) ==
    CASE event = "diagnostic" -> Addresses
      [] event \in {"submitted"} \cup Decisions -> Requests
      [] event \in {"invitation", "link"} -> Users

Events == {"diagnostic", "submitted", "invitation", "link"} \cup Decisions

ActiveConfiguration == IF settings = None THEN Environment ELSE settings

(* A call passes the checks of its body and its caller, and reads the      *)
(* settings, which only a link does without.                               *)
Start(c, event, entity) ==
    /\ calls[c] = Idle
    /\ calls' = [calls EXCEPT ![c] = [step |-> "resolving", event |-> event, entity |-> entity,
          with |-> IF event = "link" THEN None ELSE ActiveConfiguration, to |-> None]]
    /\ UNCHANGED <<records, outbox, answer, relayed>>

Answer(c, text) == answer' = [answer EXCEPT ![c] = text]
End(c, text) == calls' = [calls EXCEPT ![c].step = "done"] /\ Answer(c, text)
Advance(c, step) == calls' = [calls EXCEPT ![c].step = step] /\ UNCHANGED answer

(* Whom a message goes to, as it is resolved: nobody when it is refused. A *)
(* decision is mailed only while it is the request's status.               *)
Recipients(event, entity, with) ==
    CASE event \in Decisions ->
            {requests[q].requester : q \in
                {q \in {entity} : requests[q] # None /\ requests[q].status = event}}
      [] event = "submitted" -> {with.steward : q \in {q \in {entity} : requests[q] # None}}
      [] event = "diagnostic" -> {entity} \cap with.recipients
      [] event \in {"invitation", "link"} ->
            {users[u].address : u \in {u \in {entity} : users[u] # None}} \ {None}

(* The reads and the template; a call that fails here leaves no entry.     *)
Resolve(c) ==
    /\ calls[c].step = "resolving"
    /\ \/ \E address \in Recipients(calls[c].event, calls[c].entity, calls[c].with) :
             /\ calls' = [calls EXCEPT ![c] = [@ EXCEPT !.to = address, !.step = "resolved"]]
             /\ UNCHANGED answer
       \/ End(c, "failed")
    /\ UNCHANGED <<records, outbox, relayed>>

Record(c, status) ==
    outbox' = [outbox EXCEPT ![c] = [status |-> status, to |-> calls[c].to]]

(* The entry before anything is sent, or not, or with its word lost.       *)
FaultyRecordQueued(c) ==
    /\ calls[c].step = "resolved" /\ calls[c].event # "link"
    /\ Record(c, "Queued") \/ UNCHANGED outbox
    /\ Advance(c, "queued")
    /\ UNCHANGED <<records, relayed>>
RecordQueued(c) ==
    /\ calls[c].step = "resolved" /\ calls[c].event # "link"
    /\ \/ Record(c, "Queued") /\ Advance(c, "queued")
       \/ (Record(c, "Queued") \/ UNCHANGED outbox) /\ Advance(c, "failing")
    /\ UNCHANGED <<records, relayed>>

(* The relay takes the message or refuses it, and its word may be lost.    *)
Send(c) ==
    /\ calls[c].step = "queued"
    /\ \/ /\ relayed' = relayed \cup {[call |-> c, to |-> calls[c].to]}
          /\ Advance(c, "accepted") \/ Advance(c, "failing")
       \/ UNCHANGED relayed /\ Advance(c, "failing")
    /\ UNCHANGED <<records, outbox>>

(* The entry once the relay has taken the message; that of an invitation   *)
(* is followed by a merge into the access record.                          *)
RecordAccepted(c) ==
    /\ calls[c].step = "accepted"
    /\ \/ /\ Record(c, "Accepted")
          /\ IF calls[c].event = "invitation" THEN Advance(c, "recorded") ELSE End(c, "accepted")
       \/ (Record(c, "Accepted") \/ UNCHANGED outbox) /\ Advance(c, "failing")
    /\ UNCHANGED <<records, relayed>>

(* A merge brings a deleted record back with nothing but itself.           *)
Merge(u, how) ==
    /\ users' = [users EXCEPT ![u] =
           [address |-> IF @ = None THEN None ELSE @.address, invited |-> how]]
    /\ marks' = [marks EXCEPT ![u] = @ \cup {how}]

MarkInvited(c) ==
    /\ calls[c].step = "recorded"
    /\ \/ Merge(calls[c].entity, "Accepted") /\ End(c, "accepted")
       \/ (Merge(calls[c].entity, "Accepted") \/ UNCHANGED <<users, marks>>) /\ Advance(c, "failing")
    /\ UNCHANGED <<settings, requests, outbox, relayed>>

(* A link is made for the address that was read, and the record is marked. *)
CopyLink(c) ==
    /\ calls[c].step = "resolved" /\ calls[c].event = "link"
    /\ \/ Merge(calls[c].entity, "Submitted") /\ End(c, "link")
       \/ (Merge(calls[c].entity, "Submitted") \/ UNCHANGED <<users, marks>>) /\ End(c, "failed")
    /\ UNCHANGED <<settings, requests, outbox, relayed>>

(* The catch block: the entry says Failed, whatever it said before, unless *)
(* that fails too.                                                         *)
RecordFailed(c) ==
    /\ calls[c].step = "failing"
    /\ Record(c, "Failed") \/ UNCHANGED outbox
    /\ End(c, "failed")
    /\ UNCHANGED <<records, relayed>>

(* The host stops; nobody is answered.                                     *)
Crash(c) ==
    /\ calls[c].step \notin {"idle", "done"}
    /\ Advance(c, "done")
    /\ UNCHANGED <<records, outbox, relayed>>

-----------------------------------------------------------------------------
Next ==
    \/ \E s \in Configurations : WriteSettings(s)
    \/ \E q \in Requests :
          \/ \E a \in Addresses : Submit(q, a)
          \/ \E d \in Decisions : Decide(q, d)
    \/ \E u \in Users : DeleteUser(u) \/ \E a \in Addresses : SaveUser(u, a)
    \/ \E c \in Calls :
          \/ \E event \in Events : \E entity \in Entities(event) : Start(c, event, entity)
          \/ Resolve(c) \/ RecordQueued(c) \/ Send(c) \/ RecordAccepted(c)
          \/ MarkInvited(c) \/ CopyLink(c) \/ RecordFailed(c) \/ Crash(c)

Spec == Init /\ [][Next]_vars
-----------------------------------------------------------------------------
Entry == [status : {"Queued", "Accepted", "Failed"}, to : Addresses \cup {None}]
Request == [status : {"Pending"} \cup Decisions, requester : Addresses]
Steps == {"idle", "resolving", "resolved", "queued", "accepted", "recorded", "failing", "done"}
Things == Addresses \cup Requests \cup Users
Invited == {"Accepted", "Submitted"}
Answers == {"accepted", "link", "failed"}

\* What is configured is a configuration, and None is nothing else.
Apart ==
    /\ Configurations \cup {Environment} \subseteq Configuration
    /\ None \notin Answers \cup Invited \cup Entry \cup Request \cup Events

TypeOK ==
    /\ settings \in Configurations \cup {None}
    /\ requests \in [Requests -> Request \cup {None}]
    /\ users \in [Users ->
          [address : Addresses \cup {None}, invited : Invited \cup {None}] \cup {None}]
    /\ calls \in [Calls -> [step : Steps, event : Events \cup {None}, entity : Things \cup {None},
          with : Configurations \cup {Environment, None}, to : Addresses \cup {None}]]
    /\ outbox \in [Calls -> Entry \cup {None}]
    /\ answer \in [Calls -> Answers \cup {None}]
    /\ marks \in [Users -> SUBSET Invited]
    /\ relayed \subseteq [call : Calls, to : Addresses \cup {None}]

Took(c) == \E m \in relayed : m.call = c

(* What the outbox, the answers and the access records say of a message is *)
(* never more than happened, whichever write, word or host is lost: the    *)
(* relay takes nothing without an entry that names its recipient; an entry *)
(* or a record says Accepted, and a caller is told so, only of what the    *)
(* relay took, and then the entry says so for good; and a decision that is *)
(* mailed is the request's, to the address that asked for it.              *)
OutboxTruth ==
    /\ \A m \in relayed :
          /\ outbox[m.call] # None /\ outbox[m.call].to = m.to
          /\ calls[m.call].event \in Decisions =>
                /\ requests[calls[m.call].entity].status = calls[m.call].event
                /\ requests[calls[m.call].entity].requester = m.to
    /\ \A c \in Calls :
          /\ outbox[c] # None /\ outbox[c].status = "Accepted" => Took(c)
          /\ answer[c] = "accepted" => outbox[c].status = "Accepted"
    /\ \A u \in Users : users[u] # None /\ users[u].invited = "Accepted" =>
          \E c \in Calls : Took(c) /\ calls[c].event = "invitation" /\ calls[c].entity = u
=============================================================================
