------------------------- MODULE RequestSubmission -------------------------
(***************************************************************************)
(* Correction requests of one Location: the tab that submits them, keeps   *)
(* the exact envelope in session storage and recovers or cancels it after  *)
(* an uncertain answer, and the stewards who review them, against the      *)
(* Directory's commit and cancel transactions. Editors change the Location *)
(* meanwhile. A call may be lost, may be answered to nobody, and may reach *)
(* the server long after its sender gave up.                               *)
(*                                                                         *)
(* The Location is one corrected field and one other field. An id is a     *)
(* fresh UUID, so its envelope, and with it its digest and actor, is never *)
(* anyone else's. A request's version is that of its status: the check on  *)
(* the one is the check on the other.                                      *)
(***************************************************************************)
EXTENDS Naturals

CONSTANTS Ids, Stewards, Values, None,
    MaxCalls,     \* bound on the calls of the tab and of the stewards
    MaxVersion    \* bound on the Location's version, for writers other than this tab

Proposal == [base : Values, change : Values]
Record   == [proposal : Proposal, status : {"Pending", "Approved", "Rejected"}]
Location == [field : Values, other : Values, version : Nat]
Call     == [kind : {"submit", "recover", "cancel"}, id : Ids, no : Nat]
Review   == [steward : Stewards, id : Ids, decision : {"Approved", "Rejected"},
             location : Location, no : Nat]
Verdicts == {"saved", "cancelled", "refused"}
Events   == {"Submitted", "Approved", "Rejected", "Cancelled"}

ASSUME BoundAssumption == MaxCalls \in Nat /\ MaxVersion \in Nat
ASSUME NoneAssumption ==
    None \notin Ids \cup Proposal \cup Record \cup Call \cup Verdicts

VARIABLES
    request,   \* requests: the saved correction of each id
    sealed,    \* request_submission_receipts: ids cancelled before they were saved
    location,  \* the target document
    audits,    \* audit_logs: how often each event of each id was recorded
    shown,     \* the corrected field as the submitting tab shows it
    proposal,  \* the envelope each id was given
    stored,    \* session storage: the submission kept for recovery
    dialog,    \* the New Request dialog
    awaited,   \* the tab's call in flight
    reply,     \* what the server answered to it
    calls,     \* the tab's calls that may still reach the server
    told,      \* history: what the user was told of each id
    intent,    \* history: the ids the correction being drafted was sent under
    seen,      \* what each steward's page shows
    reviewing, \* the review calls each steward's page awaits
    blocked,   \* requests a steward must reload before reviewing again
    reviews,   \* review calls that may still reach the server
    verdicts,  \* answered reviews: the call and whether it was saved
    sent,      \* calls sent so far
    intended   \* history: each field as its last successful writer meant it

server   == <<request, sealed, location, audits, intended>>
tab      == <<proposal, stored, dialog, awaited, reply, told, intent>>
stewards == <<seen, reviewing, blocked, reviews, verdicts>>
vars     == <<server, shown, tab, calls, stewards, sent>>

Init ==
    /\ request = [id \in Ids |-> None] /\ sealed = {}
    /\ location \in [field : Values, other : Values, version : {0}]
    /\ audits = [id \in Ids |-> [e \in Events |-> 0]]
    /\ intended = location /\ shown = location.field
    /\ proposal = [id \in Ids |-> None] /\ stored = None
    /\ dialog = "closed" /\ awaited = None /\ reply = None
    /\ calls = {} /\ told = [id \in Ids |-> None] /\ intent = {}
    /\ seen = [s \in Stewards |-> [requests |-> request, location |-> location]]
    /\ reviewing = [s \in Stewards |-> {}] /\ blocked = [s \in Stewards |-> {}]
    /\ reviews = {} /\ verdicts = {} /\ sent = 0

-----------------------------------------------------------------------------
(* The dialog.                                                             *)

Open ==
    /\ dialog = "closed"
    /\ dialog' = IF stored = None THEN "draft" ELSE "recovery"
    /\ UNCHANGED <<server, shown, proposal, stored, awaited, reply, told, intent, calls, stewards, sent>>

(* A submission that is out cannot be closed; one kept for recovery can.   *)
Close ==
    /\ dialog \in {"draft", "recovery"} /\ dialog' = "closed"
    /\ intent' = IF stored = None THEN {} ELSE intent
    /\ UNCHANGED <<server, shown, proposal, stored, awaited, reply, told, calls, stewards, sent>>

(* The tab is reloaded or crashes: session storage survives.               *)
Reload ==
    /\ dialog' = "closed" /\ awaited' = None /\ reply' = None
    /\ intent' = IF stored = None THEN {} ELSE intent
    /\ shown' = location.field
    /\ UNCHANGED <<server, proposal, stored, told, calls, stewards, sent>>

Poll ==
    /\ awaited = None /\ shown' = location.field
    /\ UNCHANGED <<server, tab, calls, stewards, sent>>

Send(kind, id) ==
    LET call == [kind |-> kind, id |-> id, no |-> sent]
    IN  /\ sent < MaxCalls /\ sent' = sent + 1
        /\ dialog' = "waiting" /\ awaited' = call /\ reply' = None
        /\ calls' = calls \cup {call}

(* attemptSubmission of a new proposal: kept before it is sent.            *)
Submit(id, change) ==
    /\ dialog = "draft" /\ stored = None
    /\ proposal[id] = None /\ change # shown
    /\ proposal' = [proposal EXCEPT ![id] = [base |-> shown, change |-> change]]
    /\ stored' = id /\ intent' = intent \cup {id}
    /\ Send("submit", id)
    /\ UNCHANGED <<server, shown, told, stewards>>

(* attemptSubmission of the stored envelope, and reconcileOrCancel.        *)
Recover(kind) ==
    /\ dialog = "recovery" /\ stored # None
    /\ Send(kind, stored)
    /\ UNCHANGED <<server, shown, proposal, stored, told, intent, stewards>>

Verdict(outcome) ==
    /\ told' = [told EXCEPT ![stored] = outcome]
    /\ stored' = None
    /\ intent' = IF outcome = "saved" THEN {} ELSE intent
    /\ dialog' = IF outcome = "saved" THEN "closed" ELSE "draft"

(* A refusal settles only a first attempt: a recovered one may have an     *)
(* earlier call still on its way.                                          *)
FaultyDefinite(call) == call.kind \in {"submit", "recover"}
Definite(call) == call.kind = "submit"

Answered ==
    /\ awaited # None /\ reply # None
    /\ awaited' = None /\ reply' = None
    /\ IF reply # "refused" \/ Definite(awaited)
       THEN Verdict(reply)
       ELSE dialog' = "recovery" /\ UNCHANGED <<told, stored, intent>>
    /\ UNCHANGED <<server, shown, proposal, calls, stewards, sent>>

(* No usable answer comes back; the call itself may still arrive.          *)
Lost ==
    /\ awaited # None
    /\ awaited' = None /\ reply' = None /\ dialog' = "recovery"
    /\ UNCHANGED <<server, shown, proposal, stored, told, intent, calls, stewards, sent>>

-----------------------------------------------------------------------------
(* The server's transactions.                                              *)

Audit(id, event) == audits' = [audits EXCEPT ![id][event] = @ + 1]

Reply(call, outcome) ==
    /\ calls' = calls \ {call}
    /\ reply' = IF call = awaited THEN outcome ELSE reply

FaultyReplayed(id) == FALSE    \* no receipt check
Replayed(id) == request[id] # None

FaultyLate(id) == FALSE    \* the seal is not consulted
Late(id) == id \in sealed

(* validateRequestProposal against the current Location.                   *)
Valid(p) == p.base = location.field /\ p.change # location.field

ServeSubmission(call) ==
    /\ call.kind \in {"submit", "recover"}
    /\ IF ~Late(call.id) /\ ~Replayed(call.id) /\ Valid(proposal[call.id])
       THEN /\ request' = [request EXCEPT ![call.id] =
                    [proposal |-> proposal[call.id], status |-> "Pending"]]
            /\ Audit(call.id, "Submitted") /\ Reply(call, "saved")
       ELSE /\ Reply(call, IF ~Late(call.id) /\ Replayed(call.id) THEN "saved" ELSE "refused")
            /\ UNCHANGED <<request, audits>>
    /\ UNCHANGED <<sealed, location, intended>>

SealedBefore(id) == id \in sealed

(* cancelRequestSubmission: the saved request, or a seal against it.       *)
ServeCancel(call) ==
    /\ call.kind = "cancel"
    /\ \/ /\ request[call.id] # None /\ Reply(call, "saved")
          /\ UNCHANGED <<sealed, audits>>
       \/ /\ request[call.id] = None /\ SealedBefore(call.id)
          /\ Reply(call, "cancelled") /\ UNCHANGED <<sealed, audits>>
       \/ /\ request[call.id] = None /\ ~SealedBefore(call.id)
          /\ sealed' = sealed \cup {call.id}
          /\ Audit(call.id, "Cancelled") /\ Reply(call, "cancelled")
    /\ UNCHANGED <<request, location, intended>>

Serve(call) ==
    /\ ServeSubmission(call) \/ ServeCancel(call)
    /\ UNCHANGED <<shown, proposal, stored, dialog, awaited, told, intent, stewards, sent>>

(* Any other version-checked save of the Location.                         *)
Edit(field, other) ==
    /\ location.version < MaxVersion
    /\ <<field, other>> # <<location.field, location.other>>
    /\ location' = [field |-> field, other |-> other, version |-> location.version + 1]
    /\ intended' = location'
    /\ UNCHANGED <<request, sealed, audits, shown, tab, calls, stewards, sent>>

-----------------------------------------------------------------------------
(* The stewards.                                                           *)

(* A poll refreshes the Location alone; a reload everything.               *)
StewardPolls(s) ==
    /\ reviewing[s] = {}
    /\ seen' = [seen EXCEPT ![s].location = location]
    /\ UNCHANGED <<server, shown, tab, calls, reviewing, blocked, reviews, verdicts, sent>>

StewardReloads(s) ==
    /\ seen' = [seen EXCEPT ![s] = [requests |-> request, location |-> location]]
    /\ reviewing' = [reviewing EXCEPT ![s] = {}]
    /\ blocked' = [blocked EXCEPT ![s] = {}]
    /\ verdicts' = {v \in verdicts : v.call.steward # s}
    /\ UNCHANGED <<server, shown, tab, calls, reviews, sent>>

SeenPending(s, id) ==
    seen[s].requests[id] # None /\ seen[s].requests[id].status = "Pending"

(* reviewRequest; an approval must still fit what the page shows.          *)
Decide(s, id, decision) ==
    LET call == [steward |-> s, id |-> id, decision |-> decision,
                 location |-> seen[s].location, no |-> sent]
    IN  /\ sent < MaxCalls /\ sent' = sent + 1
        /\ SeenPending(s, id) /\ id \notin blocked[s]
        /\ \A other \in reviewing[s] : other.id # id
        /\ decision = "Approved" =>
               seen[s].requests[id].proposal.base = seen[s].location.field
        /\ reviewing' = [reviewing EXCEPT ![s] = @ \cup {call}]
        /\ reviews' = reviews \cup {call}
        /\ UNCHANGED <<server, shown, tab, calls, seen, blocked, verdicts>>

FaultyCurrent(call) == TRUE    \* no version check on the target
Current(call) == call.location.version = location.version

OpenForReview(id) == request[id].status = "Pending"

Applicable(call) ==
    /\ OpenForReview(call.id)
    /\ call.decision = "Approved" =>
           /\ Current(call)
           /\ request[call.id].proposal.base = location.field

Decided(record, decision) == [proposal |-> record.proposal, status |-> decision]

(* applyCorrection; the version check makes the copy's version the saved   *)
(* one, which the commit counts up.                                        *)
Corrected(copy, record) ==
    [field |-> record.proposal.change, other |-> copy.other, version |-> copy.version + 1]

(* The commit of a review: an approval writes the page's copy of the       *)
(* Location with the correction applied, in the same transaction.          *)
ServeReview(call) ==
    /\ call \in reviews /\ reviews' = reviews \ {call}
    /\ verdicts' = IF call \in reviewing[call.steward]
                   THEN verdicts \cup {[call |-> call, saved |-> Applicable(call)]}
                   ELSE verdicts
    /\ IF Applicable(call)
       THEN /\ request' = [request EXCEPT ![call.id] = Decided(@, call.decision)]
            /\ Audit(call.id, call.decision)
            /\ IF call.decision = "Approved"
               THEN /\ location' = Corrected(call.location, request[call.id])
                    /\ intended' = Corrected(intended, request[call.id])
               ELSE UNCHANGED <<location, intended>>
       ELSE UNCHANGED <<request, location, audits, intended>>
    /\ UNCHANGED <<sealed, shown, tab, calls, seen, reviewing, blocked, sent>>

(* The page takes over the saved records; without an answer it asks for a  *)
(* reload.                                                                 *)
ReviewSaved(v) ==
    /\ v.saved /\ verdicts' = verdicts \ {v}
    /\ reviewing' = [reviewing EXCEPT ![v.call.steward] = @ \ {v.call}]
    /\ LET page == seen[v.call.steward]
           saved == page.requests[v.call.id]
       IN  seen' = [seen EXCEPT ![v.call.steward] =
               [requests |-> [page.requests EXCEPT ![v.call.id] = Decided(saved, v.call.decision)],
                location |-> IF v.call.decision = "Approved"
                             THEN Corrected(v.call.location, saved) ELSE page.location]]
    /\ UNCHANGED <<server, shown, tab, calls, blocked, reviews, sent>>

ReviewFails(s, call) ==
    /\ reviewing' = [reviewing EXCEPT ![s] = @ \ {call}]
    /\ blocked' = [blocked EXCEPT ![s] = @ \cup {call.id}]
    /\ verdicts' = {v \in verdicts : v.call # call}
    /\ UNCHANGED <<server, shown, tab, calls, seen, reviews, sent>>

-----------------------------------------------------------------------------
Next ==
    \/ Open \/ Close \/ Reload \/ Poll \/ Answered \/ Lost
    \/ \E id \in Ids, change \in Values : Submit(id, change)
    \/ \E kind \in {"recover", "cancel"} : Recover(kind)
    \/ \E call \in calls : Serve(call)
    \/ \E field, other \in Values : Edit(field, other)
    \/ \E s \in Stewards :
          \/ StewardPolls(s) \/ StewardReloads(s)
          \/ \E id \in Ids, d \in {"Approved", "Rejected"} : Decide(s, id, d)
          \/ \E call \in reviewing[s] : ReviewFails(s, call)
    \/ \E call \in reviews : ServeReview(call)
    \/ \E v \in verdicts : ReviewSaved(v)

Spec == Init /\ [][Next]_vars

-----------------------------------------------------------------------------
(* Every variable keeps its type.                                          *)
TypeOK ==
    /\ request \in [Ids -> Record \cup {None}] /\ sealed \subseteq Ids
    /\ location \in Location /\ intended \in Location /\ shown \in Values
    /\ audits \in [Ids -> [Events -> Nat]]
    /\ proposal \in [Ids -> Proposal \cup {None}] /\ stored \in Ids \cup {None}
    /\ dialog \in {"closed", "draft", "waiting", "recovery"}
    /\ awaited \in Call \cup {None} /\ reply \in Verdicts \cup {None}
    /\ calls \subseteq Call /\ intent \subseteq Ids /\ sent \in Nat
    /\ told \in [Ids -> Verdicts \cup {None}]
    /\ seen \in [Stewards -> [requests : [Ids -> Record \cup {None}], location : Location]]
    /\ reviewing \in [Stewards -> SUBSET Review] /\ reviews \subseteq Review
    /\ blocked \in [Stewards -> SUBSET Ids]
    /\ verdicts \subseteq [call : Review, saved : BOOLEAN]

(* What the dialog told the user stays true, whatever arrives late: a      *)
(* submission confirmed as saved is saved, one reported refused or         *)
(* cancelled is never saved.                                               *)
ToldTruth ==
    \A id \in Ids :
        /\ told[id] = "saved" => request[id] # None
        /\ told[id] \in {"refused", "cancelled"} => request[id] = None

(* However often a correction is sent, recovered, cancelled and sent again *)
(* under a new id, at most one request for it is saved.                    *)
OneSavedPerIntent ==
    \A a, b \in intent : request[a] # None /\ request[b] # None => a = b

(* A retried or late submission never rewrites a saved request, and no     *)
(* call takes a second decision on it.                                     *)
DecisionsStand ==
    [][\A id \in Ids : request[id] # None =>
          /\ request'[id] # None /\ request'[id].proposal = request[id].proposal
          /\ request[id].status # "Pending" => request'[id] = request[id]]_vars

(* The audit log tells the story of each id: submitted once if it was      *)
(* saved, decided once if it was decided, cancelled once if it was sealed. *)
AuditsMatchRequests ==
    \A id \in Ids : audits[id] =
        [Submitted |-> IF request[id] = None THEN 0 ELSE 1,
         Approved  |-> IF request[id] # None /\ request[id].status = "Approved" THEN 1 ELSE 0,
         Rejected  |-> IF request[id] # None /\ request[id].status = "Rejected" THEN 1 ELSE 0,
         Cancelled |-> IF id \in sealed THEN 1 ELSE 0]

(* An approval, which writes the steward's whole copy of the Location,     *)
(* takes back nothing that an editor or another approval saved before.     *)
NoLostEdit == location = intended
=============================================================================
