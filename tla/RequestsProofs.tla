--------------------------- MODULE RequestsProofs ---------------------------
(***************************************************************************)
(* Safety of correction requests for every set of ids, stewards and        *)
(* values and every bound: what the user was told stays true, a correction *)
(* is saved once, decisions stand, the audit log is complete and no        *)
(* approval takes back an edit. Of the forms of units and people, for      *)
(* every set of tabs and names and every bound: what is saved is what its  *)
(* author saw and changed, and a new record is made once. And of saves of  *)
(* whole Locations: each changes only what the user of its tab asked for.  *)
(***************************************************************************)
EXTENDS MCRequests, TLAPS

(* Ids in use have an envelope; a fresh UUID has left no trace.            *)
TracesHaveEnvelopes ==
    \A id \in Ids : proposal[id] = None =>
        /\ request[id] = None /\ told[id] = None /\ stored # id
        /\ id \notin sealed /\ id \notin intent
        /\ \A call \in calls : call.id # id

(* The tab waits only for a call about the submission it keeps, which it   *)
(* has told nothing about yet.                                             *)
AwaitsStored ==
    /\ awaited = None => reply = None
    /\ awaited # None => awaited.id = stored
    /\ stored # None => told[stored] = None

(* The first attempt of a submission is its only call.                     *)
FirstIsAlone ==
    awaited # None /\ awaited.kind = "submit" =>
        \A call \in calls : call.id = awaited.id => call = awaited

(* An answer on its way to the tab is true, and a refusal of the first     *)
(* attempt leaves no call of that submission behind.                       *)
ReplyTruth ==
    awaited # None =>
        /\ reply = "saved" => request[awaited.id] # None
        /\ reply = "cancelled" => awaited.id \in sealed
        /\ reply = "refused" /\ awaited.kind = "submit" =>
               /\ request[awaited.id] = None
               /\ \A call \in calls : call.id # awaited.id

SealedNeverSaved == \A id \in sealed : request[id] = None

(* Why what was told stays true: a cancelled id is sealed, a refused one   *)
(* has no call left and is no longer kept.                                 *)
ToldForGood ==
    \A id \in Ids :
        /\ told[id] = "saved" => request[id] # None
        /\ told[id] = "cancelled" => id \in sealed
        /\ told[id] = "refused" => request[id] = None /\ \A call \in calls : call.id # id

(* Every id of the current intent but the one kept was given up for good.  *)
IntentSettled ==
    \A id \in intent : id = stored \/ told[id] \in {"refused", "cancelled"}

TabInv ==
    /\ TracesHaveEnvelopes /\ AwaitsStored /\ FirstIsAlone /\ ReplyTruth
    /\ SealedNeverSaved /\ ToldForGood /\ IntentSettled

(* A copy of the Location is of an older version or is the Location.       *)
Faithful(copy) ==
    copy.version < location.version \/ copy = location

StewardInv ==
    /\ location = intended
    /\ \A s \in Stewards :
          /\ Faithful(seen[s].location)
          /\ \A id \in Ids : seen[s].requests[id] # None =>
                request[id] # None /\ seen[s].requests[id].proposal = request[id].proposal
          /\ \A call \in reviewing[s] : seen[s].requests[call.id] # None
    /\ \A call \in reviews : Faithful(call.location) /\ request[call.id] # None
    /\ \A v \in verdicts :
          /\ request[v.call.id] # None
          /\ seen[v.call.steward].requests[v.call.id] # None
          /\ v.saved /\ v.call.decision = "Approved" => Faithful(Corrected(v.call.location, request[v.call.id]))

Inv == TypeOK /\ AuditsMatchRequests /\ TabInv /\ StewardInv

-----------------------------------------------------------------------------
LEMMA InitInv == Init => Inv
<1> SUFFICES ASSUME Init PROVE Inv
  OBVIOUS
<1> USE NoneAssumption DEF Init
<1>1. TypeOK
  BY DEF TypeOK, Location, Events
<1>2. AuditsMatchRequests
  BY DEF AuditsMatchRequests, Events
<1>3. TabInv
  BY DEF TabInv, TracesHaveEnvelopes, AwaitsStored, FirstIsAlone, ReplyTruth,
         SealedNeverSaved, ToldForGood, IntentSettled, Verdicts
<1>4. StewardInv
  BY DEF StewardInv, Faithful
<1>5. QED
  BY <1>1, <1>2, <1>3, <1>4 DEF Inv

-----------------------------------------------------------------------------
(* Types.                                                                  *)

LEMMA AuditType ==
    ASSUME TypeOK, NEW id \in Ids, NEW e \in Events, Audit(id, e)
    PROVE  audits' \in [Ids -> [Events -> Nat]]
<1>1. audits' = [audits EXCEPT ![id] = [audits[id] EXCEPT ![e] = audits[id][e] + 1]]
  BY DEF Audit
<1>2. [audits[id] EXCEPT ![e] = audits[id][e] + 1] \in [Events -> Nat]
  BY DEF TypeOK
<1>3. QED
  BY <1>1, <1>2 DEF TypeOK

LEMMA TypeOfTab ==
    ASSUME Inv,
           \/ Open \/ Close \/ Reload \/ Poll \/ Answered \/ Lost
           \/ \E id \in Ids, change \in Values : Submit(id, change)
           \/ \E kind \in {"recover", "cancel"} : Recover(kind)
    PROVE  TypeOK'
<1> USE NoneAssumption DEF Inv, TypeOK, server, tab, stewards
<1>1. CASE Open
  BY <1>1 DEF Open
<1>2. CASE Close
  BY <1>2 DEF Close
<1>3. CASE Reload
  BY <1>3 DEF Reload, Location
<1>4. CASE Poll
  BY <1>4 DEF Poll, Location
<1>5. CASE Answered
  <2>1. stored \in Ids
    BY <1>5 DEF Answered, TabInv, AwaitsStored, Call
  <2>2. CASE Verdict(reply)
    <3>1. told' \in [Ids -> Verdicts \cup {None}]
      BY <1>5, <2>1, <2>2 DEF Answered, Verdict
    <3>2. QED
      BY <1>5, <2>2, <3>1 DEF Answered, Verdict
  <2>3. CASE dialog' = "recovery" /\ UNCHANGED <<told, stored, intent>>
    BY <1>5, <2>3 DEF Answered
  <2>4. QED
    BY <1>5, <2>2, <2>3 DEF Answered
<1>6. CASE Lost
  BY <1>6 DEF Lost
<1>7. ASSUME NEW id \in Ids, NEW change \in Values, Submit(id, change)
      PROVE  TypeOK'
  <2>1. [kind |-> "submit", id |-> id, no |-> sent] \in Call
    BY DEF Call
  <2>2. proposal' \in [Ids -> Proposal \cup {None}]
    BY <1>7 DEF Submit, Proposal
  <2>3. QED
    BY <1>7, <2>1, <2>2 DEF Submit, Send
<1>8. ASSUME NEW kind \in {"recover", "cancel"}, Recover(kind)
      PROVE  TypeOK'
  <2>1. [kind |-> kind, id |-> stored, no |-> sent] \in Call
    BY <1>8 DEF Recover, Call
  <2>2. QED
    BY <1>8, <2>1 DEF Recover, Send
<1>9. QED
  BY <1>1, <1>2, <1>3, <1>4, <1>5, <1>6, <1>7, <1>8

LEMMA TypeOfServe ==
    ASSUME Inv, NEW call \in calls, Serve(call)
    PROVE  TypeOK'
<1> USE NoneAssumption DEF Inv, TypeOK, server, tab, stewards
<1>1. call.id \in Ids /\ call \in Call
  BY DEF Call
<1>2. proposal[call.id] \in Proposal
  BY <1>1 DEF TabInv, TracesHaveEnvelopes
<1>3. calls' \subseteq Call /\ reply' \in Verdicts \cup {None}
  BY DEF Serve, ServeSubmission, ServeCancel, Reply, Verdicts
<1>4. request' \in [Ids -> Record \cup {None}]
  <2>1. [proposal |-> proposal[call.id], status |-> "Pending"] \in Record
    BY <1>2 DEF Record
  <2>2. QED
    BY <1>1, <2>1 DEF Serve, ServeSubmission, ServeCancel
<1>5. audits' \in [Ids -> [Events -> Nat]]
  <2>1. UNCHANGED audits \/ Audit(call.id, "Submitted") \/ Audit(call.id, "Cancelled")
    BY DEF Serve, ServeSubmission, ServeCancel
  <2>2. QED
    BY <1>1, <2>1, AuditType DEF Events
<1>6. sealed' \subseteq Ids
  BY <1>1 DEF Serve, ServeSubmission, ServeCancel
<1>7. location' = location /\ intended' = intended
  BY DEF Serve, ServeSubmission, ServeCancel
<1>8. QED
  BY <1>3, <1>4, <1>5, <1>6, <1>7 DEF Serve

LEMMA TypeOfReview ==
    ASSUME Inv, NEW call \in reviews, ServeReview(call)
    PROVE  TypeOK'
<1> USE NoneAssumption DEF Inv, TypeOK, server, tab, stewards
<1>1. call \in Review /\ call.id \in Ids /\ call.location \in Location
      /\ call.decision \in {"Approved", "Rejected"} /\ call.steward \in Stewards
  BY DEF Review
<1>2. request[call.id] \in Record
  BY <1>1 DEF StewardInv
<1>3. Decided(request[call.id], call.decision) \in Record
  BY <1>1, <1>2 DEF Decided, Record
<1>4. request' \in [Ids -> Record \cup {None}]
  BY <1>1, <1>3 DEF ServeReview
<1>5. audits' \in [Ids -> [Events -> Nat]]
  <2>1. UNCHANGED audits \/ Audit(call.id, call.decision)
    BY DEF ServeReview
  <2>2. QED
    BY <1>1, <2>1, AuditType DEF Events
<1>6. location' \in Location /\ intended' \in Location
  <2>1. request[call.id].proposal.change \in Values
    BY <1>2 DEF Record, Proposal
  <2>2. Corrected(call.location, request[call.id]) \in Location
        /\ Corrected(intended, request[call.id]) \in Location
    BY <1>1, <2>1 DEF Corrected, Location
  <2>3. QED
    BY <2>2 DEF ServeReview
<1>7. verdicts' \subseteq [call : Review, saved : BOOLEAN]
  <2>1. Applicable(call) \in BOOLEAN
    BY DEF Applicable
  <2>2. QED
    BY <1>1, <2>1 DEF ServeReview
<1>8. reviews' \subseteq Review
  BY DEF ServeReview
<1>9. QED
  BY <1>4, <1>5, <1>6, <1>7, <1>8 DEF ServeReview

LEMMA TypeOfSteward ==
    ASSUME Inv, NEW s \in Stewards,
           \/ StewardPolls(s) \/ StewardReloads(s)
           \/ \E id \in Ids, d \in {"Approved", "Rejected"} : Decide(s, id, d)
           \/ \E call \in reviewing[s] : ReviewFails(s, call)
    PROVE  TypeOK'
<1> USE NoneAssumption DEF Inv, TypeOK, server, tab, stewards
<1>1. CASE StewardPolls(s)
  BY <1>1 DEF StewardPolls
<1>2. CASE StewardReloads(s)
  BY <1>2 DEF StewardReloads
<1>3. ASSUME NEW id \in Ids, NEW d \in {"Approved", "Rejected"}, Decide(s, id, d)
      PROVE  TypeOK'
  <2>1. [steward |-> s, id |-> id, decision |-> d,
         location |-> seen[s].location, no |-> sent] \in Review
    BY DEF Review
  <2>2. QED
    BY <1>3, <2>1 DEF Decide
<1>4. ASSUME NEW call \in reviewing[s], ReviewFails(s, call)
      PROVE  TypeOK'
  <2>1. call.id \in Ids
    BY DEF Review
  <2>2. QED
    BY <1>4, <2>1 DEF ReviewFails
<1>5. QED
  BY <1>1, <1>2, <1>3, <1>4

LEMMA TypeOfSaved ==
    ASSUME Inv, NEW v \in verdicts, ReviewSaved(v)
    PROVE  TypeOK'
<1> USE NoneAssumption DEF Inv, TypeOK, server, tab, stewards
<1> DEFINE s == v.call.steward
           id == v.call.id
<1>1. s \in Stewards /\ id \in Ids /\ v.call.location \in Location
      /\ v.call.decision \in {"Approved", "Rejected"}
  BY DEF Review
<1>2. seen[s].requests[id] \in Record
  BY <1>1 DEF StewardInv
<1>3. Decided(seen[s].requests[id], v.call.decision) \in Record
  BY <1>1, <1>2 DEF Decided, Record
<1>4. Corrected(v.call.location, seen[s].requests[id]) \in Location
  BY <1>1, <1>2 DEF Corrected, Location, Record, Proposal
<1>5. seen[s].requests \in [Ids -> Record \cup {None}] /\ seen[s].location \in Location
  BY <1>1
<1>6. seen' \in [Stewards -> [requests : [Ids -> Record \cup {None}], location : Location]]
  BY <1>1, <1>3, <1>4, <1>5 DEF ReviewSaved
<1>7. QED
  BY <1>6 DEF ReviewSaved

LEMMA TypeOfEdit ==
    ASSUME Inv, NEW field \in Values, NEW other \in Values, Edit(field, other)
    PROVE  TypeOK'
BY DEF Inv, TypeOK, server, tab, stewards, Edit, Location

LEMMA TypeStep == Inv /\ [Next]_vars => TypeOK'
<1> SUFFICES ASSUME Inv, [Next]_vars PROVE TypeOK'
  OBVIOUS
<1>1. CASE UNCHANGED vars
  BY <1>1 DEF Inv, TypeOK, vars, server, tab, stewards
<1>2. CASE Next
  BY <1>2, TypeOfTab, TypeOfServe, TypeOfReview, TypeOfSteward, TypeOfSaved, TypeOfEdit DEF Next
<1>3. QED
  BY <1>1, <1>2

-----------------------------------------------------------------------------
(* The server's documents: what a step does to the saved requests.         *)

(* Saved requests stay saved, keep their proposal and, once decided, their *)
(* decision.                                                               *)
RequestsKept ==
    \A id \in Ids : request[id] # None =>
        /\ request'[id] # None /\ request'[id].proposal = request[id].proposal
        /\ request[id].status # "Pending" => request'[id] = request[id]

LEMMA RequestsStep == Inv /\ [Next]_vars => RequestsKept
<1> SUFFICES ASSUME Inv, [Next]_vars PROVE RequestsKept
  OBVIOUS
<1> USE DEF RequestsKept
<1>1. ASSUME NEW call \in calls, Serve(call) PROVE RequestsKept
  <2>1. call.id \in Ids
    BY DEF Inv, TypeOK, Call
  <2>2. UNCHANGED request \/ (request[call.id] = None /\ \A id \in Ids : id # call.id => request'[id] = request[id])
    BY <1>1, <2>1 DEF Serve, ServeSubmission, ServeCancel, Replayed, Inv, TypeOK
  <2>3. QED
    BY <2>1, <2>2
<1>2. ASSUME NEW call \in reviews, ServeReview(call) PROVE RequestsKept
  <2>1. call.id \in Ids /\ request[call.id] # None
    BY DEF Inv, TypeOK, StewardInv, Review
  <2>2. CASE UNCHANGED request
    BY <2>2
  <2>3. CASE Applicable(call) /\ request' = [request EXCEPT ![call.id] = Decided(@, call.decision)]
    <3>1. request[call.id].status = "Pending"
      BY <2>3 DEF Applicable, OpenForReview
    <3>2. request'[call.id] = Decided(request[call.id], call.decision)
      BY <2>1, <2>3 DEF Inv, TypeOK
    <3>3. Decided(request[call.id], call.decision) \in Record
      BY <2>1 DEF Decided, Record, Inv, TypeOK, Review
    <3>4. request'[call.id] # None /\ request'[call.id].proposal = request[call.id].proposal
      BY <3>2, <3>3, NoneAssumption DEF Decided
    <3>5. \A id \in Ids : id # call.id => request'[id] = request[id]
      BY <2>1, <2>3 DEF Inv, TypeOK
    <3>6. QED
      BY <3>1, <3>4, <3>5
  <2>4. QED
    BY <1>2, <2>2, <2>3 DEF ServeReview
<1>3. CASE UNCHANGED request
  BY <1>3
<1>4. QED
  <2>1. [Next]_vars => UNCHANGED request
          \/ (\E call \in calls : Serve(call)) \/ (\E call \in reviews : ServeReview(call))
    BY DEF Next, vars, server, Open, Close, Reload, Poll, Answered, Lost, Submit, Recover,
           Edit, StewardPolls, StewardReloads, Decide, ReviewFails, ReviewSaved
  <2>2. QED
    BY <1>1, <1>2, <1>3, <2>1

LEMMA AuditsStep == Inv /\ [Next]_vars => AuditsMatchRequests'
<1> SUFFICES ASSUME Inv, [Next]_vars PROVE AuditsMatchRequests'
  OBVIOUS
<1> DEFINE Told(id, r, s) ==
        [Submitted |-> IF r = None THEN 0 ELSE 1,
         Approved  |-> IF r # None /\ r.status = "Approved" THEN 1 ELSE 0,
         Rejected  |-> IF r # None /\ r.status = "Rejected" THEN 1 ELSE 0,
         Cancelled |-> IF s THEN 1 ELSE 0]
<1>0. \A id \in Ids : audits[id] = Told(id, request[id], id \in sealed)
  BY DEF Inv, AuditsMatchRequests
<1>1. ASSUME NEW call \in calls, Serve(call) PROVE AuditsMatchRequests'
  <2>1. call.id \in Ids
    BY DEF Inv, TypeOK, Call
  <2>2. CASE UNCHANGED <<request, sealed, audits>>
    BY <2>2 DEF Inv, AuditsMatchRequests
  <2>3. CASE /\ request[call.id] = None /\ UNCHANGED sealed
             /\ request' = [request EXCEPT ![call.id] =
                    [proposal |-> proposal[call.id], status |-> "Pending"]]
             /\ Audit(call.id, "Submitted")
    <3>1. proposal[call.id] \in Proposal
      BY <2>1 DEF Inv, TypeOK, TabInv, TracesHaveEnvelopes
    <3>2. [proposal |-> proposal[call.id], status |-> "Pending"] \in Record
      BY <3>1 DEF Record
    <3>3. audits'[call.id] = [audits[call.id] EXCEPT !["Submitted"] = audits[call.id]["Submitted"] + 1]
          /\ \A id \in Ids : id # call.id => audits'[id] = audits[id] /\ request'[id] = request[id]
      BY <2>1, <2>3 DEF Audit, Inv, TypeOK
    <3>4. audits[call.id] = Told(call.id, None, call.id \in sealed)
      BY <1>0, <2>1, <2>3
    <3>5. request'[call.id] = [proposal |-> proposal[call.id], status |-> "Pending"]
          /\ request'[call.id] # None
      BY <2>1, <2>3, <3>2, NoneAssumption DEF Inv, TypeOK
    <3>6. audits'[call.id] = Told(call.id, request'[call.id], call.id \in sealed)
      BY <3>3, <3>4, <3>5
    <3>7. QED
      BY <1>0, <2>3, <3>3, <3>6 DEF AuditsMatchRequests
  <2>4. CASE /\ call.id \notin sealed /\ UNCHANGED request
             /\ sealed' = sealed \cup {call.id} /\ Audit(call.id, "Cancelled")
    <3>1. audits'[call.id] = [audits[call.id] EXCEPT !["Cancelled"] = audits[call.id]["Cancelled"] + 1]
          /\ \A id \in Ids : id # call.id => audits'[id] = audits[id]
      BY <2>1, <2>4 DEF Audit, Inv, TypeOK
    <3>2. audits[call.id] = Told(call.id, request[call.id], FALSE)
      BY <1>0, <2>1, <2>4
    <3>3. audits'[call.id] = Told(call.id, request[call.id], TRUE)
      BY <3>1, <3>2
    <3>4. QED
      BY <1>0, <2>1, <2>4, <3>1, <3>3 DEF AuditsMatchRequests
  <2>5. QED
    BY <1>1, <2>2, <2>3, <2>4 DEF Serve, ServeSubmission, ServeCancel, Replayed, SealedBefore
<1>2. ASSUME NEW call \in reviews, ServeReview(call) PROVE AuditsMatchRequests'
  <2>1. call.id \in Ids /\ request[call.id] \in Record /\ request[call.id] # None
        /\ call.decision \in {"Approved", "Rejected"}
    BY DEF Inv, TypeOK, StewardInv, Review
  <2>2. CASE UNCHANGED <<request, sealed, audits>>
    BY <2>2 DEF Inv, AuditsMatchRequests
  <2>3. CASE /\ request[call.id].status = "Pending" /\ UNCHANGED sealed
             /\ request' = [request EXCEPT ![call.id] = Decided(@, call.decision)]
             /\ Audit(call.id, call.decision)
    <3>1. request'[call.id] = Decided(request[call.id], call.decision)
          /\ \A id \in Ids : id # call.id => audits'[id] = audits[id] /\ request'[id] = request[id]
      BY <2>1, <2>3 DEF Audit, Inv, TypeOK
    <3>2. Decided(request[call.id], call.decision) \in Record
      BY <2>1 DEF Decided, Record
    <3>3. request'[call.id] # None /\ request'[call.id].status = call.decision
      BY <3>1, <3>2, NoneAssumption DEF Decided
    <3>4. audits[call.id] = Told(call.id, request[call.id], call.id \in sealed)
      BY <1>0, <2>1
    <3>5. audits'[call.id] = [audits[call.id] EXCEPT ![call.decision] = audits[call.id][call.decision] + 1]
      BY <2>1, <2>3 DEF Audit, Inv, TypeOK
    <3>6. CASE call.decision = "Approved"
      BY <2>1, <2>3, <3>3, <3>4, <3>5, <3>6, <1>0, <3>1 DEF AuditsMatchRequests
    <3>7. CASE call.decision = "Rejected"
      BY <2>1, <2>3, <3>3, <3>4, <3>5, <3>7, <1>0, <3>1 DEF AuditsMatchRequests
    <3>8. QED
      BY <2>1, <3>6, <3>7
  <2>4. QED
    BY <1>2, <2>2, <2>3 DEF ServeReview, Applicable, OpenForReview
<1>3. CASE UNCHANGED <<request, sealed, audits>>
  BY <1>3 DEF Inv, AuditsMatchRequests
<1>4. QED
  <2>1. [Next]_vars => UNCHANGED <<request, sealed, audits>>
          \/ (\E call \in calls : Serve(call)) \/ (\E call \in reviews : ServeReview(call))
    BY DEF Next, vars, server, Open, Close, Reload, Poll, Answered, Lost, Submit, Recover,
           Edit, StewardPolls, StewardReloads, Decide, ReviewFails, ReviewSaved
  <2>2. QED
    BY <1>1, <1>2, <1>3, <2>1

-----------------------------------------------------------------------------
(* The tab.                                                                *)

LEMMA TabGivesUp == Inv /\ (Close \/ Reload \/ Lost) => TabInv'
<1> SUFFICES ASSUME Inv, Close \/ Reload \/ Lost PROVE TabInv'
  OBVIOUS
<1> USE NoneAssumption DEF Inv, TabInv, server
<1>1. UNCHANGED <<request, sealed, proposal, stored, told, calls>>
      /\ (intent' = intent \/ intent' = {})
      /\ (UNCHANGED <<awaited, reply>> \/ (awaited' = None /\ reply' = None))
  <2>1. CASE Close
    BY <2>1 DEF Close
  <2>2. CASE Reload
    BY <2>2 DEF Reload
  <2>3. CASE Lost
    BY <2>3 DEF Lost
  <2>4. QED
    BY <2>1, <2>2, <2>3
<1>2. TracesHaveEnvelopes' /\ SealedNeverSaved' /\ ToldForGood' /\ IntentSettled'
  BY <1>1 DEF TracesHaveEnvelopes, SealedNeverSaved, ToldForGood, IntentSettled
<1>3. AwaitsStored' /\ FirstIsAlone' /\ ReplyTruth'
  BY <1>1 DEF AwaitsStored, FirstIsAlone, ReplyTruth
<1>4. QED
  BY <1>2, <1>3

LEMMA TabAnswered == Inv /\ Answered => TabInv'
<1> SUFFICES ASSUME Inv, Answered PROVE TabInv'
  OBVIOUS
<1> USE NoneAssumption DEF Inv, TabInv, server
<1>1. stored \in Ids /\ awaited.id = stored /\ told[stored] = None /\ stored # None
      /\ awaited # None /\ reply \in Verdicts
  BY DEF Answered, AwaitsStored, TypeOK, Call
<1>2. UNCHANGED <<request, sealed, proposal, calls>> /\ awaited' = None /\ reply' = None
  BY DEF Answered
<1>3. AwaitsStored' /\ FirstIsAlone' /\ ReplyTruth' /\ SealedNeverSaved'
  <2>1. stored' # None => told'[stored'] = None
    BY <1>1 DEF Answered, Verdict
  <2>2. QED
    BY <1>2, <2>1 DEF AwaitsStored, FirstIsAlone, ReplyTruth, SealedNeverSaved
<1>4. CASE Verdict(reply) /\ (reply # "refused" \/ Definite(awaited))
  <2>1. told' = [told EXCEPT ![stored] = reply] /\ stored' = None
    BY <1>4 DEF Verdict
  <2>2. told'[stored] = reply /\ \A id \in Ids : id # stored => told'[id] = told[id]
    BY <1>1, <2>1 DEF TypeOK
  <2>3. /\ reply = "saved" => request[stored] # None
        /\ reply = "cancelled" => stored \in sealed
        /\ reply = "refused" => request[stored] = None /\ \A call \in calls : call.id # stored
    BY <1>1, <1>4 DEF ReplyTruth, Definite
  <2>4. ToldForGood'
    BY <1>1, <1>2, <2>2, <2>3 DEF ToldForGood
  <2>5. TracesHaveEnvelopes'
    BY <1>1, <1>2, <2>1, <2>2, <1>4 DEF TracesHaveEnvelopes, Verdict
  <2>6. IntentSettled'
    BY <1>1, <1>4, <2>1, <2>2 DEF IntentSettled, Verdict, TypeOK, Verdicts
  <2>7. QED
    BY <1>3, <2>4, <2>5, <2>6
<1>5. CASE UNCHANGED <<told, stored, intent>>
  BY <1>2, <1>3, <1>5 DEF TracesHaveEnvelopes, ToldForGood, IntentSettled
<1>6. QED
  BY <1>4, <1>5 DEF Answered

LEMMA TabSubmits ==
    ASSUME Inv, NEW id \in Ids, NEW change \in Values, Submit(id, change)
    PROVE  TabInv'
<1> USE NoneAssumption DEF Inv, TabInv, server
<1> DEFINE call == [kind |-> "submit", id |-> id, no |-> sent]
<1>1. call \in Call /\ call # None
  BY DEF Call, TypeOK
<1>2. /\ UNCHANGED <<request, sealed, told>>
      /\ proposal' = [proposal EXCEPT ![id] = [base |-> shown, change |-> change]]
      /\ stored' = id /\ intent' = intent \cup {id} /\ stored = None
      /\ awaited' = call /\ reply' = None /\ calls' = calls \cup {call}
  BY DEF Submit, Send
<1>3. [base |-> shown, change |-> change] \in Proposal
  BY DEF Proposal, TypeOK
<1>4. proposal'[id] # None /\ \A other \in Ids : other # id => proposal'[other] = proposal[other]
  BY <1>2, <1>3 DEF TypeOK
<1>5. proposal[id] = None
  BY DEF Submit
<1>6. request[id] = None /\ told[id] = None /\ id \notin sealed /\ id \notin intent
      /\ \A other \in calls : other.id # id
  BY <1>5 DEF TracesHaveEnvelopes
<1>7. TracesHaveEnvelopes'
  BY <1>2, <1>4 DEF TracesHaveEnvelopes
<1>8. AwaitsStored' /\ FirstIsAlone' /\ ReplyTruth' /\ SealedNeverSaved'
  BY <1>1, <1>2, <1>6 DEF AwaitsStored, FirstIsAlone, ReplyTruth, SealedNeverSaved, Verdicts
<1>9. ToldForGood'
  BY <1>2, <1>6, None \notin Verdicts DEF ToldForGood, Verdicts
<1>10. IntentSettled'
  BY <1>2 DEF IntentSettled, TypeOK
<1>11. QED
  BY <1>7, <1>8, <1>9, <1>10

LEMMA TabRecovers ==
    ASSUME Inv, NEW kind \in {"recover", "cancel"}, Recover(kind)
    PROVE  TabInv'
<1> USE NoneAssumption DEF Inv, TabInv, server
<1> DEFINE call == [kind |-> kind, id |-> stored, no |-> sent]
<1>1. call \in Call /\ call # None /\ call.kind # "submit"
  BY DEF Call, TypeOK, Recover
<1>2. /\ UNCHANGED <<request, sealed, proposal, stored, told, intent>>
      /\ stored \in Ids /\ awaited' = call /\ reply' = None /\ calls' = calls \cup {call}
  BY DEF Recover, Send, TypeOK
<1>3. told[stored] = None /\ proposal[stored] # None
  BY <1>2 DEF AwaitsStored, TracesHaveEnvelopes
<1>4. TracesHaveEnvelopes' /\ SealedNeverSaved' /\ IntentSettled'
  BY <1>2, <1>3 DEF TracesHaveEnvelopes, SealedNeverSaved, IntentSettled
<1>5. AwaitsStored' /\ FirstIsAlone' /\ ReplyTruth'
  BY <1>1, <1>2, <1>3 DEF AwaitsStored, FirstIsAlone, ReplyTruth, Verdicts
<1>6. ToldForGood'
  BY <1>2, <1>3 DEF ToldForGood, Verdicts
<1>7. QED
  BY <1>4, <1>5, <1>6

LEMMA TabServed ==
    ASSUME Inv, NEW call \in calls, Serve(call)
    PROVE  TabInv'
<1> USE NoneAssumption DEF Inv, TabInv
<1>1. call.id \in Ids /\ call \in Call /\ call # None
  BY DEF TypeOK, Call
<1>2. UNCHANGED <<proposal, stored, awaited, told, intent>> /\ calls' = calls \ {call}
  BY DEF Serve, ServeSubmission, ServeCancel, Reply
<1>3. \A id \in Ids : request[id] # None => request'[id] # None
  BY RequestsStep DEF RequestsKept, Next
<1>4. /\ sealed \subseteq sealed'
      /\ \A id \in Ids : id # call.id =>
            (request'[id] = None <=> request[id] = None) /\ (id \in sealed' <=> id \in sealed)
  BY <1>1 DEF Serve, ServeSubmission, ServeCancel, TypeOK
<1>5. proposal[call.id] # None
  BY <1>1 DEF TracesHaveEnvelopes
<1>6. told[call.id] # "refused"
  BY <1>1 DEF ToldForGood
<1>7. TracesHaveEnvelopes'
  BY <1>1, <1>2, <1>4, <1>5 DEF TracesHaveEnvelopes, TypeOK
<1>8. SealedNeverSaved'
  <2>1. call.id \in sealed' => request'[call.id] = None
    BY <1>1 DEF Serve, ServeSubmission, ServeCancel, Late, SealedNeverSaved
  <2>2. \A id \in sealed' : id \in Ids
    BY <1>1 DEF Serve, ServeSubmission, ServeCancel, TypeOK
  <2>3. QED
    BY <1>4, <2>1, <2>2 DEF SealedNeverSaved
<1>9. ToldForGood' /\ IntentSettled'
  BY <1>1, <1>2, <1>3, <1>4, <1>6 DEF ToldForGood, IntentSettled
<1>10. FirstIsAlone'
  BY <1>2 DEF FirstIsAlone
<1>11. AwaitsStored'
  BY <1>1, <1>2 DEF AwaitsStored, Serve, ServeSubmission, ServeCancel, Reply
<1>12. ReplyTruth'
  <2>1. CASE call # awaited
    <3>1. reply' = reply
      BY <2>1 DEF Serve, ServeSubmission, ServeCancel, Reply
    <3>2. awaited # None => awaited.id \in Ids
      BY DEF TypeOK, Call
    <3>3. awaited # None /\ reply = "refused" /\ awaited.kind = "submit" => call.id # awaited.id
      BY DEF ReplyTruth
    <3>4. QED
      BY <1>2, <1>3, <1>4, <3>1, <3>2, <3>3 DEF ReplyTruth
  <2>2. CASE call = awaited /\ ServeCancel(call)
    <3>1. \/ request[call.id] # None /\ Reply(call, "saved") /\ UNCHANGED request
          \/ call.id \in sealed' /\ Reply(call, "cancelled")
      BY <2>2, Zenon DEF ServeCancel, SealedBefore
    <3>2. \/ reply' = "saved" /\ request'[call.id] # None
          \/ reply' = "cancelled" /\ call.id \in sealed'
      BY <2>2, <3>1 DEF Reply
    <3>3. QED
      BY <1>2, <2>2, <3>2 DEF ReplyTruth
  <2>3. CASE call = awaited /\ ServeSubmission(call)
    <3>1. [proposal |-> proposal[call.id], status |-> "Pending"] # None
      BY <1>1, <1>5 DEF Record, TypeOK
    <3>2. \/ reply' = "saved" /\ request'[call.id] # None
          \/ reply' = "refused" /\ request'[call.id] = None
      <4>1. CASE Late(call.id)
        BY <1>1, <2>3, <4>1 DEF ServeSubmission, Late, Reply, SealedNeverSaved
      <4>2. CASE ~Late(call.id) /\ Replayed(call.id)
        BY <1>1, <2>3, <4>2 DEF ServeSubmission, Replayed, Reply
      <4>3. CASE ~Late(call.id) /\ ~Replayed(call.id)
        BY <1>1, <2>3, <3>1, <4>3 DEF ServeSubmission, Replayed, Reply, TypeOK
      <4>4. QED
        BY <4>1, <4>2, <4>3
    <3>3. call.kind = "submit" => \A other \in calls' : other.id # call.id
      BY <1>2, <2>3, <1>1 DEF FirstIsAlone
    <3>4. QED
      BY <1>2, <2>3, <3>2, <3>3 DEF ReplyTruth
  <2>4. QED
    BY <2>1, <2>2, <2>3 DEF Serve
<1>13. QED
  BY <1>7, <1>8, <1>9, <1>10, <1>11, <1>12

LEMMA TabStep == Inv /\ [Next]_vars => TabInv'
<1> SUFFICES ASSUME Inv, [Next]_vars PROVE TabInv'
  OBVIOUS
<1>1. CASE /\ UNCHANGED <<sealed, proposal, stored, awaited, reply, told, intent, calls>>
           /\ \A id \in Ids : request'[id] = None <=> request[id] = None
  <2>1. awaited # None => awaited.id \in Ids
    BY DEF Inv, TypeOK, Call
  <2>2. sealed \subseteq Ids
    BY DEF Inv, TypeOK
  <2>3. QED
    BY <1>1, <2>1, <2>2 DEF Inv, TabInv, TracesHaveEnvelopes, AwaitsStored, FirstIsAlone, ReplyTruth,
       SealedNeverSaved, ToldForGood, IntentSettled
<1>2. ASSUME NEW call \in reviews, ServeReview(call) PROVE TabInv'
  <2>1. \A id \in Ids : request[id] # None => request'[id] # None
    BY <1>2, RequestsStep DEF RequestsKept, Next
  <2>2. call.id \in Ids /\ request[call.id] # None
    BY DEF Inv, TypeOK, Review, StewardInv
  <2>3. \A id \in Ids : id # call.id => request'[id] = request[id]
    BY <1>2, <2>2 DEF ServeReview, Inv, TypeOK
  <2>4. UNCHANGED <<sealed, proposal, stored, awaited, reply, told, intent, calls>>
    BY <1>2 DEF ServeReview, tab
  <2>5. QED
    BY <1>1, <2>1, <2>2, <2>3, <2>4
<1>3. CASE UNCHANGED <<request, sealed, proposal, stored, awaited, reply, told, intent, calls>>
  BY <1>1, <1>3
<1>4. UNCHANGED vars \/ Open \/ Poll \/ (\E field, other \in Values : Edit(field, other))
      => UNCHANGED <<request, sealed, proposal, stored, awaited, reply, told, intent, calls>>
  BY DEF vars, server, tab, Open, Poll, Edit
<1>5. \A s \in Stewards :
         \/ StewardPolls(s) \/ StewardReloads(s)
         \/ \E id \in Ids, d \in {"Approved", "Rejected"} : Decide(s, id, d)
         \/ \E call \in reviewing[s] : ReviewFails(s, call)
         => UNCHANGED <<request, sealed, proposal, stored, awaited, reply, told, intent, calls>>
  BY DEF server, tab, StewardPolls, StewardReloads, Decide, ReviewFails
<1>6. \A v \in verdicts : ReviewSaved(v) =>
         UNCHANGED <<request, sealed, proposal, stored, awaited, reply, told, intent, calls>>
  BY DEF server, tab, ReviewSaved
<1>7. QED
  BY <1>2, <1>3, <1>4, <1>5, <1>6,
     TabGivesUp, TabAnswered, TabSubmits, TabRecovers, TabServed DEF Next

-----------------------------------------------------------------------------
(* The stewards.                                                           *)

(* The Location only moves to later versions.                              *)
Advances == UNCHANGED location \/ location.version < location'.version

StillFaithful(copy) == copy.version < location'.version \/ copy = location'

(* The copies and the saved requests known before a step, after it.        *)
CopiesKept ==
    /\ \A s \in Stewards :
          /\ StillFaithful(seen[s].location)
          /\ \A id \in Ids : seen[s].requests[id] # None =>
                request'[id] # None /\ seen[s].requests[id].proposal = request'[id].proposal
          /\ \A call \in reviewing[s] : seen[s].requests[call.id] # None
    /\ \A call \in reviews : StillFaithful(call.location) /\ request'[call.id] # None
    /\ \A v \in verdicts :
          /\ request'[v.call.id] # None
          /\ seen[v.call.steward].requests[v.call.id] # None
          /\ v.saved /\ v.call.decision = "Approved" =>
                StillFaithful(Corrected(v.call.location, request'[v.call.id]))

LEMMA CopiesStay ==
    ASSUME Inv, TypeOK', RequestsKept, Advances
    PROVE  CopiesKept
<1> USE DEF Inv
<1>1. location \in Location /\ location' \in Location
  BY DEF TypeOK
<1>2. ASSUME NEW copy \in Location, Faithful(copy)
      PROVE  StillFaithful(copy)
  BY <1>1, <1>2 DEF Faithful, StillFaithful, Advances, Location
<1>3. \A s \in Stewards :
         /\ StillFaithful(seen[s].location)
         /\ \A id \in Ids : seen[s].requests[id] # None =>
               request'[id] # None /\ seen[s].requests[id].proposal = request'[id].proposal
         /\ \A call \in reviewing[s] : seen[s].requests[call.id] # None
  BY <1>2 DEF StewardInv, TypeOK, RequestsKept
<1>4. \A call \in reviews :
         /\ StillFaithful(call.location)
         /\ request'[call.id] # None
  BY <1>2 DEF StewardInv, TypeOK, RequestsKept, Review
<1>5. ASSUME NEW v \in verdicts
      PROVE  /\ request'[v.call.id] # None
             /\ seen[v.call.steward].requests[v.call.id] # None
             /\ v.saved /\ v.call.decision = "Approved" =>
                   StillFaithful(Corrected(v.call.location, request'[v.call.id]))
  <2>1. v.call.id \in Ids /\ v.call.location \in Location
    BY DEF TypeOK, Review
  <2>2. /\ request[v.call.id] # None /\ request'[v.call.id] # None
        /\ request'[v.call.id].proposal = request[v.call.id].proposal
        /\ seen[v.call.steward].requests[v.call.id] # None
    BY <2>1 DEF StewardInv, RequestsKept
  <2>3. Corrected(v.call.location, request'[v.call.id]) = Corrected(v.call.location, request[v.call.id])
    BY <2>2 DEF Corrected
  <2>4. request[v.call.id].proposal.change \in Values
    BY <2>1, <2>2 DEF TypeOK, Record, Proposal
  <2>5. Corrected(v.call.location, request[v.call.id]) \in Location
    BY <2>1, <2>4 DEF Corrected, Location
  <2>6. QED
    BY <1>2, <2>2, <2>3, <2>5 DEF StewardInv
<1>6. QED
  BY <1>3, <1>4, <1>5 DEF CopiesKept

(* Steps that leave the pages as they are.                                 *)
LEMMA PagesStay ==
    ASSUME CopiesKept, location' = intended',
           UNCHANGED seen, reviews' \subseteq reviews, verdicts' \subseteq verdicts,
           \A s \in Stewards : reviewing'[s] \subseteq reviewing[s]
    PROVE  StewardInv'
BY DEF CopiesKept, StewardInv, StillFaithful, Faithful, Corrected

LEMMA StewardSees ==
    ASSUME Inv, NEW s \in Stewards, StewardPolls(s) \/ StewardReloads(s)
    PROVE  StewardInv'
<1> USE DEF Inv, server
<1>1. /\ UNCHANGED <<request, location, intended, reviews>>
      /\ verdicts' \subseteq verdicts
      /\ \A other \in Stewards : other # s => seen'[other] = seen[other]
      /\ seen'[s].location = location
      /\ seen'[s].requests = seen[s].requests \/ seen'[s].requests = request
  <2>1. CASE StewardPolls(s)
    BY <2>1 DEF StewardPolls, TypeOK
  <2>2. CASE StewardReloads(s)
    BY <2>2 DEF StewardReloads, TypeOK
  <2>3. QED
    BY <2>1, <2>2
<1>2. \A v \in verdicts' : v.call.steward # s \/ seen'[s].requests = seen[s].requests
  BY DEF StewardPolls, StewardReloads, TypeOK
<1>3. \A v \in verdicts : v.call.steward \in Stewards
  BY DEF TypeOK, Review
<1>4. \A v \in verdicts' : seen'[v.call.steward].requests[v.call.id] # None
  BY <1>1, <1>2, <1>3 DEF StewardInv
<1>5. /\ \A other \in Stewards : other # s => reviewing'[other] = reviewing[other]
      /\ reviewing'[s] = {} \/ (reviewing'[s] = reviewing[s] /\ seen'[s].requests = seen[s].requests)
  BY DEF StewardPolls, StewardReloads, TypeOK
<1>6. QED
  BY <1>1, <1>4, <1>5 DEF StewardInv, Faithful

LEMMA StewardDecides ==
    ASSUME Inv, NEW s \in Stewards, NEW id \in Ids, NEW d \in {"Approved", "Rejected"},
           Decide(s, id, d)
    PROVE  StewardInv'
<1> DEFINE call == [steward |-> s, id |-> id, decision |-> d,
                    location |-> seen[s].location, no |-> sent]
<1>1. UNCHANGED <<request, location, intended, seen, verdicts>> /\ reviews' = reviews \cup {call}
  BY DEF Decide, server
<1>2. Faithful(call.location) /\ request[call.id] # None /\ seen[s].requests[call.id] # None
  BY DEF Decide, SeenPending, Inv, StewardInv
<1>3. /\ \A other \in Stewards : other # s => reviewing'[other] = reviewing[other]
      /\ reviewing'[s] = reviewing[s] \cup {call}
  BY DEF Decide, Inv, TypeOK
<1>4. QED
  BY <1>1, <1>2, <1>3 DEF Inv, StewardInv, Faithful

LEMMA StewardSaved ==
    ASSUME Inv, NEW v \in verdicts, ReviewSaved(v)
    PROVE  StewardInv'
<1> USE NoneAssumption DEF Inv
<1> DEFINE s == v.call.steward
           id == v.call.id
           saved == seen[s].requests[id]
           copy == IF v.call.decision = "Approved"
                   THEN Corrected(v.call.location, saved) ELSE seen[s].location
<1>1. s \in Stewards /\ id \in Ids
  BY DEF TypeOK, Review
<1>2. saved \in Record /\ saved # None /\ request[id] # None /\ saved.proposal = request[id].proposal
  BY <1>1 DEF StewardInv, TypeOK
<1>3. Decided(saved, v.call.decision) \in Record
  BY <1>2 DEF Decided, Record, TypeOK, Review
<1>4. /\ UNCHANGED <<request, location, intended, reviews>> /\ verdicts' = verdicts \ {v}
      /\ \A other \in Stewards : other # s => seen'[other] = seen[other]
      /\ seen'[s] = [requests |-> [seen[s].requests EXCEPT ![id] = Decided(saved, v.call.decision)],
                     location |-> copy]
  BY <1>1 DEF ReviewSaved, server, TypeOK
<1>5. /\ seen'[s].requests[id] = Decided(saved, v.call.decision)
      /\ \A other \in Ids : other # id => seen'[s].requests[other] = seen[s].requests[other]
      /\ seen'[s].location = copy
  BY <1>1, <1>4 DEF TypeOK
<1>6. seen'[s].requests[id] # None /\ seen'[s].requests[id].proposal = request[id].proposal
  BY <1>2, <1>3, <1>5 DEF Decided
<1>7. Faithful(copy)
  <2>1. Corrected(v.call.location, saved) = Corrected(v.call.location, request[id])
    BY <1>2 DEF Corrected
  <2>2. QED
    BY <1>1, <2>1 DEF StewardInv, ReviewSaved
<1>8. \A t \in Stewards : Faithful(seen'[t].location)
  BY <1>4, <1>5, <1>7 DEF StewardInv
<1>9. \A t \in Stewards : \A other \in Ids :
         /\ seen[t].requests[other] # None => seen'[t].requests[other] # None
         /\ seen'[t].requests[other] # None =>
               request[other] # None /\ seen'[t].requests[other].proposal = request[other].proposal
  <2> TAKE t \in Stewards
  <2> TAKE other \in Ids
  <2>1. CASE t # s
    BY <1>4, <2>1 DEF StewardInv
  <2>2. CASE t = s /\ other # id
    <3>1. seen'[s].requests[other] = seen[s].requests[other]
      BY <1>5, <2>2
    <3>2. QED
      BY <1>1, <2>2, <3>1 DEF StewardInv
  <2>3. CASE t = s /\ other = id
    BY <1>2, <1>6, <2>3
  <2>4. QED
    BY <2>1, <2>2, <2>3
<1>10. \A w \in verdicts : seen'[w.call.steward].requests[w.call.id] # None
  BY <1>9 DEF StewardInv, TypeOK, Review
<1>11. \A t \in Stewards : \A call \in reviewing'[t] : seen'[t].requests[call.id] # None
  <2>1. \A t \in Stewards : reviewing'[t] \subseteq reviewing[t]
    BY DEF ReviewSaved, TypeOK
  <2>2. \A t \in Stewards : \A call \in reviewing[t] : call.id \in Ids
    BY DEF TypeOK, Review
  <2>3. QED
    BY <1>9, <2>1, <2>2 DEF StewardInv
<1>12. QED
  BY <1>4, <1>8, <1>9, <1>10, <1>11 DEF StewardInv, Faithful

LEMMA ReviewServed ==
    ASSUME Inv, NEW call \in reviews, ServeReview(call)
    PROVE  StewardInv'
<1> USE DEF Inv
<1>1. TypeOK' /\ RequestsKept
  BY TypeStep, RequestsStep DEF Next
<1>2. call.id \in Ids /\ call.steward \in Stewards /\ call.location \in Location
      /\ Faithful(call.location) /\ request[call.id] \in Record
  BY DEF StewardInv, TypeOK, Review
<1>3. /\ UNCHANGED <<seen, reviewing>> /\ reviews' = reviews \ {call}
      /\ \A v \in verdicts' : v \in verdicts \/
            (call \in reviewing[call.steward] /\ v = [call |-> call, saved |-> Applicable(call)])
  BY DEF ServeReview
<1>4. location' = intended' /\ Advances /\ request'[call.id] # None
      /\ (Applicable(call) /\ call.decision = "Approved" =>
              StillFaithful(Corrected(call.location, request'[call.id])))
  <2>1. CASE Applicable(call) /\ call.decision = "Approved"
    <3>1. call.location = location /\ location = intended
      BY <1>2, <2>1 DEF Applicable, Current, Faithful, StewardInv, Location, TypeOK
    <3>2. location' = Corrected(location, request[call.id]) /\ intended' = location'
      BY <2>1, <3>1 DEF ServeReview
    <3>3. location.version < location'.version
      BY <3>2 DEF Corrected, TypeOK, Location
    <3>4. request'[call.id] # None /\ request'[call.id].proposal = request[call.id].proposal
      BY <1>1, <1>2 DEF RequestsKept, StewardInv
    <3>5. Corrected(call.location, request'[call.id]) = location'
      BY <3>1, <3>2, <3>4 DEF Corrected
    <3>6. QED
      BY <3>2, <3>3, <3>4, <3>5 DEF Advances, StillFaithful
  <2>2. CASE ~(Applicable(call) /\ call.decision = "Approved")
    <3>1. UNCHANGED <<location, intended>>
      BY <2>2 DEF ServeReview
    <3>2. request'[call.id] # None
      BY <1>1, <1>2 DEF RequestsKept, StewardInv
    <3>3. QED
      BY <2>2, <3>1, <3>2 DEF Advances, StewardInv
  <2>3. QED
    BY <2>1, <2>2
<1>5. CopiesKept
  BY <1>1, <1>4, CopiesStay
<1>6. ASSUME NEW v \in verdicts'
      PROVE  /\ request'[v.call.id] # None
             /\ seen[v.call.steward].requests[v.call.id] # None
             /\ v.saved /\ v.call.decision = "Approved" =>
                  StillFaithful(Corrected(v.call.location, request'[v.call.id]))
  <2>1. CASE v \in verdicts
    BY <1>5, <2>1 DEF CopiesKept
  <2>2. CASE call \in reviewing[call.steward] /\ v = [call |-> call, saved |-> Applicable(call)]
    <3>1. seen[call.steward].requests[call.id] # None
      BY <1>2, <2>2 DEF StewardInv
    <3>2. v.call = call /\ (v.saved => Applicable(call))
      BY <2>2
    <3>3. QED
      BY <1>4, <3>1, <3>2
  <2>3. QED
    BY <1>3, <2>1, <2>2
<1>7. QED
  BY <1>3, <1>4, <1>5, <1>6 DEF CopiesKept, StewardInv, StillFaithful, Faithful, Corrected

LEMMA StewardStep == Inv /\ [Next]_vars => StewardInv'
<1> SUFFICES ASSUME Inv, [Next]_vars PROVE StewardInv'
  OBVIOUS
<1>1. TypeOK' /\ RequestsKept
  BY TypeStep, RequestsStep
<1>2. CASE /\ UNCHANGED <<location, intended, seen, reviews>> /\ verdicts' \subseteq verdicts
           /\ \A s \in Stewards : reviewing'[s] \subseteq reviewing[s]
  <2>1. Advances /\ location' = intended'
    BY <1>2 DEF Advances, Inv, StewardInv
  <2>2. QED
    BY <1>1, <1>2, <2>1, CopiesStay, PagesStay
<1>3. ASSUME NEW field \in Values, NEW other \in Values, Edit(field, other)
      PROVE  StewardInv'
  <2>1. location' = intended' /\ UNCHANGED <<seen, reviewing, reviews, verdicts>>
    BY <1>3 DEF Edit, stewards
  <2>2. Advances
    BY <1>3 DEF Advances, Edit, Inv, TypeOK, Location
  <2>3. QED
    BY <1>1, <2>1, <2>2, CopiesStay, PagesStay
<1>4. ASSUME NEW s \in Stewards, NEW call \in reviewing[s], ReviewFails(s, call)
      PROVE  StewardInv'
  <2>1. \A t \in Stewards : reviewing'[t] \subseteq reviewing[t]
    BY <1>4 DEF ReviewFails, Inv, TypeOK
  <2>2. QED
    BY <1>2, <1>4, <2>1 DEF ReviewFails, server
<1>5. UNCHANGED vars \/ Open \/ Close \/ Reload \/ Poll \/ Answered \/ Lost
      \/ (\E id \in Ids, change \in Values : Submit(id, change))
      \/ (\E kind \in {"recover", "cancel"} : Recover(kind))
      => UNCHANGED <<location, intended, seen, reviews, reviewing, verdicts>>
  BY DEF vars, server, stewards, Open, Close, Reload, Poll, Answered, Lost, Submit, Recover
<1>6. \A call \in calls : Serve(call) =>
         UNCHANGED <<location, intended, seen, reviews, reviewing, verdicts>>
  BY DEF stewards, Serve, ServeSubmission, ServeCancel
<1>7. QED
  BY <1>2, <1>3, <1>4, <1>5, <1>6, StewardSees, StewardDecides, StewardSaved, ReviewServed DEF Next

-----------------------------------------------------------------------------
LEMMA Invariance == Spec => []Inv
<1>1. Inv /\ [Next]_vars => Inv'
  BY TypeStep, AuditsStep, TabStep, StewardStep DEF Inv
<1>2. QED
  BY InitInv, <1>1, PTL DEF Spec

(* Every reachable state is well typed, for all ids, stewards and values.  *)
THEOREM TypeCorrect == Spec => []TypeOK
BY Invariance, PTL DEF Inv

(* What the dialog told the user of a submission stays true, however late  *)
(* a lost call arrives.                                                    *)
THEOREM ToldTheTruth == Spec => []ToldTruth
<1>1. Inv => ToldTruth
  BY DEF Inv, TabInv, ToldForGood, ToldTruth, SealedNeverSaved
<1>2. QED
  BY <1>1, Invariance, PTL

(* One correction is saved at most once, under whichever of its ids.       *)
THEOREM SavedOnce == Spec => []OneSavedPerIntent
<1>1. Inv => OneSavedPerIntent
  <2> SUFFICES ASSUME Inv PROVE OneSavedPerIntent
    OBVIOUS
  <2>1. ASSUME NEW id \in intent, request[id] # None PROVE id = stored
    BY <2>1 DEF Inv, TypeOK, TabInv, IntentSettled, ToldForGood, SealedNeverSaved
  <2>2. QED
    BY <2>1 DEF OneSavedPerIntent
<1>2. QED
  BY <1>1, Invariance, PTL

(* The audit log tells the story of each id.                               *)
THEOREM AuditsComplete == Spec => []AuditsMatchRequests
BY Invariance, PTL DEF Inv

(* No approval takes back what another writer of the Location saved.       *)
THEOREM EditsKept == Spec => []NoLostEdit
<1>1. Inv => NoLostEdit
  BY DEF Inv, StewardInv, NoLostEdit
<1>2. QED
  BY <1>1, Invariance, PTL

(* Saved requests are never rewritten and their decisions are final.       *)
THEOREM DecisionsFinal == Spec => DecisionsStand
<1>1. Inv /\ [Next]_vars => [RequestsKept]_vars
  BY RequestsStep
<1>2. QED
  BY <1>1, Invariance, PTL DEF Spec, DecisionsStand, RequestsKept

(***************************************************************************)
(* Forms of single records.                                                 *)

\* A copy of the record is of an older version or is the record.
Genuine(r) == r \in Forms!Record /\ r.version <= records.version /\ (r.version = records.version => r = records)

\* A save of a person is shown before it is saved; this is what is shown without it.
Optimistic(t) == scope = "person" /\ form[t] # None /\ form[t].saving # None
                 /\ saves[form[t].saving].expected # None
Base(t) == IF Optimistic(t) THEN saves[form[t].saving].undo ELSE display[t]

(* A form that saves is what its call answers to, and no other call of the  *)
(* tab is waited for.                                                       *)
SavesLinked ==
    /\ \A t \in Tabs : form[t] # None /\ form[t].saving # None =>
           /\ form[t].saving \in Forms!Numbers /\ Forms!Sending(form[t].saving)
           /\ saves[form[t].saving].tab = t /\ saves[form[t].saving].waiting
           /\ form[t].first \in {None, saves[form[t].saving].first} /\ ~form[t].uncertain
    /\ \A n \in Forms!Numbers : Forms!Sending(n) /\ saves[n].waiting =>
           form[saves[n].tab] # None /\ form[saves[n].tab].saving = n

(* What a form is based on or reviews was saved once, and is no newer than  *)
(* what its tab shows.                                                      *)
FormsBehind == \A t \in Tabs :
    /\ Genuine(Base(t))
    /\ form[t] # None =>
        /\ Genuine(form[t].seen) /\ form[t].seen.version <= Base(t).version
        /\ form[t].review # None => Genuine(form[t].review) /\ form[t].review.version <= Base(t).version

(* A save that may still be committed differs from the record its author    *)
(* saw in nothing but what was asked, as long as that is the saved one.      *)
CallKeeps(c) ==
    /\ Genuine(c.seen) /\ c.seen.version = c.expected
    /\ c.expected = records.version => Forms!Differ(c.data, records) \subseteq c.asked

CallsKeep == \A n \in Forms!Numbers : Forms!Sending(n) /\ saves[n].expected # None =>
    /\ saves[n].stage = "sent" => CallKeeps(saves[n])
    /\ saves[n].stage = "saved" => Genuine([saves[n].data EXCEPT !.version = saves[n].expected + 1])

Creating(n) == Forms!InFlight(n) /\ saves[n].expected = None

(* Numbers in use are of calls that were sent.                              *)
FirstsSent ==
    /\ \A p \in created : p[1] \notin Forms!Unsent /\ p[2] \notin Forms!Unsent
    /\ \A n \in Forms!Numbers : Forms!Sending(n) => saves[n].first \in Forms!Numbers \ Forms!Unsent
    /\ \A t \in Tabs : form[t] # None /\ form[t].first # None => form[t].first \in Forms!Numbers \ Forms!Unsent

(* A form that may send again has nothing on its way and nothing created.   *)
CreatedOnce ==
    /\ \A p, q \in created : p[2] = q[2] => p = q
    /\ \A n, k \in Forms!Numbers : Creating(n) /\ Creating(k) /\ saves[n].first = saves[k].first => n = k
    /\ \A n \in Forms!Numbers, p \in created : Creating(n) => p[2] # saves[n].first
    /\ \A t, u \in Tabs : form[t] # None /\ form[u] # None /\ form[t].first # None
                          /\ form[t].first = form[u].first => t = u
    /\ \A t \in Tabs : form[t] # None /\ form[t].new /\ form[t].first # None /\ ~form[t].uncertain =>
        /\ \A n \in Forms!Numbers : Creating(n) /\ saves[n].first = form[t].first => n = form[t].saving
        /\ \A p \in created : p[2] = form[t].first =>
               form[t].saving # None /\ saves[form[t].saving].stage = "saved"

FormsInv ==
    /\ scope \in Kinds /\ Forms!TypeOK
    /\ SavesLinked /\ FormsBehind /\ CallsKeep /\ FirstsSent /\ CreatedOnce

-----------------------------------------------------------------------------
LEMMA Numbered == Forms!Numbers \subseteq Nat
BY DEF Forms!Numbers

\* What a call that was sent, and an open form, are made of.
LEMMA CallShape ==
    ASSUME FormsInv, NEW n \in Forms!Numbers, Forms!Sending(n) PROVE saves[n] \in Forms!Call
BY DEF FormsInv, Forms!TypeOK, Forms!Sending

LEMMA FormShape ==
    ASSUME FormsInv, NEW t \in Tabs, form[t] # None PROVE form[t] \in Forms!Form
BY DEF FormsInv, Forms!TypeOK

LEMMA NoCall == None \notin Nat /\ None \notin Forms!Form /\ None \notin Forms!Call /\ None \notin Forms!Record
                /\ Done \notin Forms!Call /\ Done # None
BY FormsAssumption DEF Forms!Apart

-----------------------------------------------------------------------------
(* Steps of a form that neither send nor answer.                            *)
FormStep(t) == Forms!Open(t) \/ Forms!Fill(t) \/ Forms!Refresh(t) \/ Forms!Reapply(t) \/ Forms!Close(t) \/ Forms!Poll(t)

LEMMA FormTypes == ASSUME FormsInv, NEW t \in Tabs, FormStep(t) PROVE Forms!TypeOK'
<1>1. records \in Forms!Record /\ display \in [Tabs -> Forms!Record] /\ scope' = scope /\ display[t] \in Forms!Record
  BY DEF FormStep, Forms!Open, Forms!Fill, Forms!Refresh, Forms!Reapply, Forms!Close, Forms!Poll, FormsInv, Forms!TypeOK
<1>2. UNCHANGED <<scope, records, created, saves, failures>>
  BY DEF FormStep, Forms!Open, Forms!Fill, Forms!Refresh, Forms!Reapply, Forms!Close, Forms!Poll
<1>3. display' \in [Tabs -> Forms!Record] /\ offered' \subseteq Tabs
  <2>1. display' = display \/ display' = [display EXCEPT ![t] = records]
    BY DEF FormStep, Forms!Open, Forms!Fill, Forms!Refresh, Forms!Reapply, Forms!Close, Forms!Poll
  <2>2. offered \subseteq Tabs /\ (offered' = offered \/ offered' = offered \ {t})
    BY DEF FormStep, Forms!Open, Forms!Fill, Forms!Refresh, Forms!Reapply, Forms!Close, Forms!Poll, FormsInv, Forms!TypeOK
  <2> QED BY <1>1, <2>1, <2>2
<1>4. form' \in [Tabs -> Forms!Form \cup {None}]
  <2>1. form \in [Tabs -> Forms!Form \cup {None}]
    BY DEF FormsInv, Forms!TypeOK
  <2>2. \A r \in Forms!Form \cup {None} : [form EXCEPT ![t] = r] \in [Tabs -> Forms!Form \cup {None}]
    BY <2>1
  <2>3. CASE Forms!Open(t)
    <3>1. PICK new \in BOOLEAN : form' = [form EXCEPT ![t] = Forms!Blank(t, new)]
      BY <2>3 DEF Forms!Open
    <3>2. Forms!Blank(t, new) \in Forms!Form
      BY <1>1 DEF Forms!Blank, Forms!Form
    <3> QED BY <2>2, <3>1, <3>2
  <2>4. CASE Forms!Fill(t)
    <3>1. PICK f \in Forms!Inputs \ form[t].touched, v \in Names :
            form' = [form EXCEPT ![t].draft[f] = v, ![t].touched = @ \cup {f}]
      BY <2>4 DEF Forms!Fill
    <3>2. form[t] \in Forms!Form /\ f \in {"name", "status"}
      BY <2>4, FormShape DEF Forms!Fill, Forms!Idle, Forms!Inputs, Forms!FormFields
    <3>3. [form[t].draft EXCEPT ![f] = v] \in Forms!Record
      BY <3>2 DEF Forms!Form, Forms!Record
    <3>4. [form[t] EXCEPT !.draft[f] = v, !.touched = @ \cup {f}] \in Forms!Form
      BY <3>2, <3>3 DEF Forms!Form, Forms!FormFields
    <3> QED BY <2>1, <3>1, <3>4
  <2>5. CASE Forms!Refresh(t)
    BY <1>1, <2>1, <2>5 DEF Forms!Refresh, Forms!Form
  <2>6. CASE Forms!Reapply(t)
    <3>1. form[t] \in Forms!Form /\ form[t].review # None
          /\ form' = [form EXCEPT ![t] = [form[t] EXCEPT !.seen = form[t].review, !.review = None]]
      BY <2>1, <2>6, FormShape DEF Forms!Reapply, Forms!Idle
    <3>2. [form[t] EXCEPT !.seen = form[t].review, !.review = None] \in Forms!Form
      BY <3>1 DEF Forms!Form
    <3> QED BY <2>2, <3>1, <3>2
  <2>7. CASE Forms!Close(t) \/ Forms!Poll(t)
    BY <2>1, <2>2, <2>7 DEF Forms!Close, Forms!Poll
  <2> QED BY <2>3, <2>4, <2>5, <2>6, <2>7 DEF FormStep
<1> QED BY <1>2, <1>3, <1>4 DEF FormsInv, Forms!TypeOK, Forms!Numbers

\* What such a step changes.
LEMMA FormEffect ==
    ASSUME FormsInv, NEW t \in Tabs, FormStep(t)
    PROVE  /\ UNCHANGED <<scope, records, created, saves>>
           /\ \A u \in Tabs : u # t => form'[u] = form[u] /\ display'[u] = display[u]
           /\ display'[t] \in {display[t], records}
           /\ form[t] # None => form[t].saving = None
           /\ form'[t] # None /\ form[t] = None =>
                form'[t].saving = None /\ form'[t].first = None /\ form'[t].review = None
                /\ form'[t].seen = display[t] /\ display'[t] = display[t]
           /\ form'[t] # None /\ form[t] # None =>
                /\ form'[t].saving = None /\ form'[t].first = form[t].first
                /\ form'[t].new = form[t].new /\ form'[t].uncertain = form[t].uncertain
                /\ form'[t].seen = form[t].seen \/ (form[t].review # None /\ form'[t].seen = form[t].review)
                /\ \/ form'[t].review \in {form[t].review, None}
                   \/ form'[t].review = records /\ display'[t] = records
<1> DEFINE Effect ==
           /\ UNCHANGED <<scope, records, created, saves>>
           /\ \A u \in Tabs : u # t => form'[u] = form[u] /\ display'[u] = display[u]
           /\ display'[t] \in {display[t], records}
           /\ form[t] # None => form[t].saving = None
           /\ form'[t] # None /\ form[t] = None =>
                form'[t].saving = None /\ form'[t].first = None /\ form'[t].review = None
                /\ form'[t].seen = display[t] /\ display'[t] = display[t]
           /\ form'[t] # None /\ form[t] # None =>
                /\ form'[t].saving = None /\ form'[t].first = form[t].first
                /\ form'[t].new = form[t].new /\ form'[t].uncertain = form[t].uncertain
                /\ form'[t].seen = form[t].seen \/ (form[t].review # None /\ form'[t].seen = form[t].review)
                /\ \/ form'[t].review \in {form[t].review, None}
                   \/ form'[t].review = records /\ display'[t] = records
<1>1. DOMAIN form = Tabs /\ DOMAIN display = Tabs /\ (form[t] # None => form[t] \in Forms!Form)
  BY DEF FormsInv, Forms!TypeOK
<1>2. Forms!Open(t) => Effect
  BY <1>1 DEF Forms!Open, Forms!Blank
<1>3. Forms!Fill(t) => Effect
  BY <1>1 DEF Forms!Fill, Forms!Idle, Forms!Form
<1>4. Forms!Refresh(t) => Effect
  BY <1>1 DEF Forms!Refresh, Forms!Idle, Forms!Form
<1>5. Forms!Reapply(t) => Effect
  BY <1>1 DEF Forms!Reapply, Forms!Idle, Forms!Form
<1>6. Forms!Close(t) => Effect
  BY <1>1 DEF Forms!Close, Forms!Idle
<1>7. Forms!Poll(t) => Effect
  BY <1>1 DEF Forms!Poll
<1> QED BY <1>2, <1>3, <1>4, <1>5, <1>6, <1>7 DEF FormStep

LEMMA FormsStepKeeps == ASSUME FormsInv, NEW t \in Tabs, FormStep(t) PROVE FormsInv'
<1>1. /\ scope' = scope /\ records' = records /\ created' = created /\ saves' = saves
      /\ Forms!Numbers' = Forms!Numbers /\ Forms!Unsent' = Forms!Unsent
      /\ \A n : Forms!Sending(n)' = Forms!Sending(n) /\ Creating(n)' = Creating(n)
  BY FormEffect DEF Forms!Numbers, Forms!Unsent, Forms!Sending, Creating, Forms!InFlight
<1>2. Forms!TypeOK'
  BY FormTypes
<1>3. SavesLinked'
  <2>1. ASSUME NEW u \in Tabs, form'[u] # None, form'[u].saving # None PROVE u # t /\ form'[u] = form[u]
    BY <2>1, FormEffect
  <2>2. ASSUME NEW n \in Forms!Numbers, Forms!Sending(n), saves[n].waiting
        PROVE  saves[n].tab # t /\ form'[saves[n].tab] = form[saves[n].tab]
    <3>1. saves[n].tab \in Tabs /\ form[saves[n].tab] # None /\ form[saves[n].tab].saving = n /\ n # None
      BY <2>2, CallShape, Numbered, NoCall DEF FormsInv, SavesLinked, Forms!Call
    <3> QED BY <3>1, FormEffect
  <2> QED BY <1>1, <2>1, <2>2 DEF FormsInv, SavesLinked
<1>4. FormsBehind'
  <2> SUFFICES ASSUME NEW u \in Tabs
      PROVE  /\ Genuine(Base(u))'
             /\ form'[u] # None =>
                  /\ Genuine(form[u].seen)' /\ form'[u].seen.version <= Base(u)'.version
                  /\ form'[u].review # None => Genuine(form[u].review)' /\ form'[u].review.version <= Base(u)'.version
    BY DEF FormsBehind
  <2>1. \A r : Genuine(r)' = Genuine(r)
    BY <1>1 DEF Genuine, Forms!Record
  <2>2. CASE u # t
    <3>1. Base(u)' = Base(u) /\ form'[u] = form[u]
      BY <1>1, <2>2, FormEffect DEF Base, Optimistic
    <3> QED BY <2>1, <3>1 DEF FormsInv, FormsBehind, Genuine, Forms!Record
  <2>3. CASE u = t
    <3>1. Base(t) = display[t] /\ Base(t)' = display'[t]
      BY FormEffect DEF Base, Optimistic
    <3>2. records \in Forms!Record /\ Genuine(records) /\ records.version \in Nat
      BY DEF FormsInv, Forms!TypeOK, Genuine, Forms!Record
    <3>3. Genuine(display[t]) /\ Genuine(display'[t]) /\ display'[t].version >= display[t].version
          /\ display[t].version \in Nat /\ display'[t].version \in Nat
      <4>1. Genuine(display[t])
        BY <3>1 DEF FormsInv, FormsBehind
      <4>2. display[t].version \in Nat /\ display[t].version <= records.version
        BY <4>1 DEF Genuine, Forms!Record
      <4> QED BY <3>2, <4>1, <4>2, FormEffect
    <3>4. form[t] # None =>
            /\ Genuine(form[t].seen) /\ form[t].seen.version \in Nat /\ form[t].seen.version <= display'[t].version
            /\ form[t].review # None => Genuine(form[t].review) /\ form[t].review.version \in Nat
                                        /\ form[t].review.version <= display'[t].version
      BY <3>1, <3>3 DEF FormsInv, FormsBehind, Genuine, Forms!Record
    <3>5. CASE form'[t] # None /\ form[t] # None
      BY <2>1, <2>3, <3>1, <3>2, <3>3, <3>4, <3>5, FormEffect
    <3>6. CASE form'[t] # None /\ form[t] = None
      BY <2>1, <2>3, <3>1, <3>3, <3>6, FormEffect
    <3>7. CASE form'[t] = None
      BY <2>1, <2>3, <3>1, <3>3, <3>7
    <3> QED BY <3>5, <3>6, <3>7
  <2> QED BY <2>2, <2>3
<1>5. CallsKeep'
  BY <1>1 DEF FormsInv, CallsKeep, CallKeeps, Genuine, Forms!Record, Forms!Differ, Forms!FormFields
<1>6. FirstsSent' /\ CreatedOnce'
  <2>1. \A u \in Tabs : form'[u] # None /\ form'[u].first # None =>
            /\ form[u] # None /\ form'[u].first = form[u].first /\ form'[u].new = form[u].new
            /\ form'[u].saving = form[u].saving /\ form'[u].uncertain = form[u].uncertain
    BY FormEffect
  <2>2. FirstsSent'
    BY <1>1, <2>1 DEF FormsInv, FirstsSent
  <2>3. CreatedOnce'
    BY <1>1, <2>1 DEF FormsInv, CreatedOnce
  <2> QED BY <2>2, <2>3
<1> QED BY <1>1, <1>2, <1>3, <1>4, <1>5, <1>6 DEF FormsInv

-----------------------------------------------------------------------------
(* Sending a save.                                                          *)
LEMMA Merged ==
    ASSUME NEW r \in Forms!Record, NEW s \in Forms!Record, NEW fields \in SUBSET Forms!FormFields
    PROVE  /\ Forms!With(r, s, fields) \in Forms!Record
           /\ Forms!With(r, s, fields).version = r.version
           /\ Forms!Differ(Forms!With(r, s, fields), r) \subseteq fields
<1>1. DOMAIN r = {"name", "status", "version"}
  BY DEF Forms!Record
<1> QED BY <1>1 DEF Forms!Record, Forms!With, Forms!Differ, Forms!FormFields

LEMMA FreshCall == Forms!Unsent # {} => Forms!NextCall \in Forms!Unsent /\ Forms!NextCall \in Forms!Numbers
BY DEF Forms!NextCall, Forms!Unsent

LEMMA ShownGenuine ==
    ASSUME FormsInv, NEW t \in Tabs, form[t] = None \/ form[t].saving = None
    PROVE  display[t] = Base(t) /\ Genuine(display[t])
BY DEF FormsInv, FormsBehind, Base, Optimistic

\* c is sent by t as call m, and f is the form that waits for it.
Sends(t, m, c, f) ==
    /\ m \in Forms!Unsent /\ m \in Forms!Numbers /\ c \in Forms!Call /\ f \in Forms!Form
    /\ saves' = [saves EXCEPT ![m] = c] /\ form' = [form EXCEPT ![t] = f]
    /\ UNCHANGED <<scope, records, created, failures>> /\ offered' = offered \ {t}
    /\ display' \in [Tabs -> Forms!Record] /\ \A u \in Tabs : u # t => display'[u] = display[u]
    /\ c.tab = t /\ c.waiting /\ c.stage = "sent" /\ f.saving = m /\ ~f.uncertain
    /\ IF scope = "person" /\ c.expected # None THEN c.undo = display[t] ELSE display'[t] = display[t]
    /\ c.expected # None => CallKeeps(c)
    /\ \/ /\ form[t] = None /\ f.seen = display[t] /\ f.review = None
          /\ f.first = None /\ c.first = m /\ c.expected # None
       \/ /\ form[t] # None /\ form[t].saving = None
          /\ f.seen = form[t].seen /\ f.review = form[t].review
          /\ f.new = form[t].new /\ f.uncertain = form[t].uncertain
          /\ f.first = c.first
          /\ c.first = IF form[t].first = None THEN m ELSE form[t].first
          /\ c.expected = None => form[t].new /\ ~form[t].uncertain

LEMMA SendEffect ==
    ASSUME FormsInv, NEW t \in Tabs,
           Forms!SaveEdit(t) \/ Forms!SavePerson(t) \/ Forms!AddPerson(t) \/ Forms!SetStatus(t)
    PROVE  \E m, c, f : Sends(t, m, c, f)
<1> DEFINE m == Forms!NextCall
<1>1. /\ Forms!Unsent # {} /\ m \in Forms!Unsent /\ m \in Forms!Numbers /\ m \in Nat
  BY FreshCall, Numbered DEF Forms!SaveEdit, Forms!SavePerson, Forms!AddPerson, Forms!SetStatus, Forms!Ready
<1>2. /\ form[t] = None \/ (form[t].saving = None /\ form[t] \in Forms!Form)
      /\ display[t] = Base(t) /\ Genuine(display[t])
      /\ display[t] \in Forms!Record /\ display \in [Tabs -> Forms!Record]
      /\ display[t].version \in Nat /\ records \in Forms!Record /\ records.version \in Nat
  BY FormShape, ShownGenuine DEF Forms!SaveEdit, Forms!SavePerson, Forms!AddPerson, Forms!SetStatus, Forms!Ready,
     Forms!Idle, FormsInv, Forms!TypeOK, Forms!Record
<1>3. DOMAIN form = Tabs
  BY DEF FormsInv, Forms!TypeOK
<1>4. ASSUME form[t] # None, form[t].saving = None
      PROVE  LET first == IF form[t].first = None THEN m ELSE form[t].first
             IN /\ first \in Nat /\ first = Forms!First(t)
                /\ [form[t] EXCEPT !.saving = m, !.first = first] \in Forms!Form
  BY <1>1, <1>4, FormShape DEF Forms!Form, Forms!First
<1>5. ASSUME form[t] # None
      PROVE  Genuine(form[t].seen) /\ form[t].seen.version <= display[t].version /\ form[t].seen \in Forms!Record
             /\ form[t].seen.version \in Nat
  BY <1>2, <1>5 DEF FormsInv, FormsBehind, Genuine, Forms!Record
<1>6. CASE Forms!SaveEdit(t)
  <2> DEFINE c == Forms!Sent(t, Forms!RegistryEdit(t), form[t].seen.version, form[t].seen, Forms!Inputs, Forms!First(t))
             f == [form[t] EXCEPT !.saving = m, !.first = Forms!First(t)]
  <2>1. scope = "unit" /\ form[t] # None /\ form[t].saving = None /\ ~form[t].uncertain
    BY <1>6 DEF Forms!SaveEdit, Forms!Ready, Forms!Idle
  <2>2. form[t] \in Forms!Form /\ Forms!Inputs = {"name"} /\ Forms!Inputs \in SUBSET Forms!FormFields
    BY <1>2, <2>1 DEF Forms!Inputs, Forms!FormFields
  <2>3. /\ Forms!RegistryEdit(t) \in Forms!Record
        /\ Forms!Differ(Forms!RegistryEdit(t), form[t].seen) \subseteq Forms!Inputs
    BY <1>5, <2>1, <2>2, Merged DEF Forms!RegistryEdit, Forms!Form
  <2>4. c \in Forms!Call /\ c.tab = t /\ c.waiting /\ c.stage = "sent" /\ c.expected = form[t].seen.version
        /\ c.first = Forms!First(t) /\ c.seen = form[t].seen /\ c.data = Forms!RegistryEdit(t)
        /\ c.asked = Forms!Inputs
    BY <1>4, <1>5, <2>1, <2>2, <2>3 DEF Forms!Sent, Forms!Call
  <2>5. CallKeeps(c)
    BY <1>5, <2>1, <2>3, <2>4 DEF CallKeeps, Genuine
  <2>6. c.expected # None
    BY <1>5, <2>1, <2>4, NoCall
  <2>7. /\ saves' = [saves EXCEPT ![m] = c] /\ form' = [form EXCEPT ![t] = f]
        /\ UNCHANGED <<scope, records, created, failures, display>> /\ offered' = offered \ {t}
    BY <1>3, <1>6, <2>4 DEF Forms!SaveEdit, Forms!Saving
  <2>8. f \in Forms!Form /\ f.saving = m /\ f.seen = form[t].seen /\ f.review = form[t].review
        /\ f.new = form[t].new /\ f.uncertain = form[t].uncertain /\ f.first = Forms!First(t)
    BY <1>4, <2>1, <2>2 DEF Forms!Form
  <2> HIDE DEF c, f, m
  <2>9. Sends(t, m, c, f)
    BY <1>1, <1>2, <1>4, <2>1, <2>4, <2>5, <2>6, <2>7, <2>8 DEF Sends
  <2> QED BY <2>9
<1>7. CASE Forms!SavePerson(t)
  <2> DEFINE data == Forms!With(display[t], form[t].draft, form[t].touched)
             c == Forms!Sent(t, data, form[t].seen.version, form[t].seen, form[t].touched, Forms!First(t))
             f == [form[t] EXCEPT !.saving = m, !.first = Forms!First(t)]
  <2>1. scope = "person" /\ form[t] # None /\ form[t].saving = None /\ ~form[t].uncertain
    BY <1>7 DEF Forms!SavePerson, Forms!Ready, Forms!Idle
  <2>2. form[t] \in Forms!Form /\ form[t].touched \in SUBSET Forms!FormFields /\ form[t].draft \in Forms!Record
    BY <1>2, <2>1 DEF Forms!Form
  <2>3. data \in Forms!Record /\ Forms!Differ(data, display[t]) \subseteq form[t].touched
    BY <1>2, <2>2, Merged
  <2>4. c \in Forms!Call /\ c.tab = t /\ c.waiting /\ c.stage = "sent" /\ c.expected = form[t].seen.version
        /\ c.first = Forms!First(t) /\ c.seen = form[t].seen /\ c.data = data
        /\ c.asked = form[t].touched /\ c.undo = display[t]
    BY <1>2, <1>4, <1>5, <2>1, <2>2, <2>3 DEF Forms!Sent, Forms!Call
  <2>5. CallKeeps(c)
    BY <1>2, <1>5, <2>1, <2>3, <2>4 DEF CallKeeps, Genuine
  <2>6. c.expected # None
    BY <1>5, <2>1, <2>4, NoCall
  <2>7. /\ saves' = [saves EXCEPT ![m] = c] /\ form' = [form EXCEPT ![t] = f]
        /\ UNCHANGED <<scope, records, created, failures>> /\ offered' = offered \ {t}
        /\ display' = [display EXCEPT ![t] = data]
    BY <1>3, <1>7, <2>4 DEF Forms!SavePerson, Forms!Saving
  <2>8. f \in Forms!Form /\ f.saving = m /\ f.seen = form[t].seen /\ f.review = form[t].review
        /\ f.new = form[t].new /\ f.uncertain = form[t].uncertain /\ f.first = Forms!First(t)
    BY <1>4, <2>1, <2>2 DEF Forms!Form
  <2> HIDE DEF c, f, m, data
  <2>9. Sends(t, m, c, f)
    BY <1>1, <1>2, <1>4, <2>1, <2>3, <2>4, <2>5, <2>6, <2>7, <2>8 DEF Sends
  <2> QED BY <2>9
<1>8. CASE Forms!AddPerson(t)
  <2> DEFINE c == Forms!Sent(t, form[t].draft, None, None, Forms!FormFields, Forms!First(t))
             f == [form[t] EXCEPT !.saving = m, !.first = Forms!First(t)]
  <2>1. scope = "person" /\ form[t] # None /\ form[t].saving = None /\ form[t].new /\ ~form[t].uncertain
    BY <1>8 DEF Forms!AddPerson, Forms!Ready, Forms!Idle
  <2>2. form[t] \in Forms!Form /\ form[t].draft \in Forms!Record
    BY <1>2, <2>1 DEF Forms!Form
  <2>3. c \in Forms!Call /\ c.tab = t /\ c.waiting /\ c.stage = "sent" /\ c.expected = None
        /\ c.first = Forms!First(t)
    BY <1>2, <1>4, <2>1, <2>2 DEF Forms!Sent, Forms!Call
  <2>4. /\ saves' = [saves EXCEPT ![m] = c] /\ form' = [form EXCEPT ![t] = f]
        /\ UNCHANGED <<scope, records, created, failures, display>> /\ offered' = offered \ {t}
    BY <1>3, <1>8, <2>3 DEF Forms!AddPerson, Forms!Saving
  <2>5. f \in Forms!Form /\ f.saving = m /\ f.seen = form[t].seen /\ f.review = form[t].review
        /\ f.new = form[t].new /\ f.uncertain = form[t].uncertain /\ f.first = Forms!First(t)
    BY <1>4, <2>1, <2>2 DEF Forms!Form
  <2> HIDE DEF c, f, m
  <2>6. Sends(t, m, c, f)
    BY <1>1, <1>2, <1>4, <2>1, <2>3, <2>4, <2>5 DEF Sends
  <2> QED BY <2>6
<1>9. CASE Forms!SetStatus(t)
  <2>1. PICK v \in Names \ {display[t].status} :
            /\ saves' = [saves EXCEPT ![m] =
                   Forms!Sent(t, [display[t] EXCEPT !.status = v], display[t].version, display[t], {"status"}, m)]
            /\ form' = [form EXCEPT ![t] = [Forms!Blank(t, TRUE) EXCEPT !.saving = m]]
            /\ offered' = offered \ {t}
            /\ UNCHANGED <<scope, records, created, display, failures>>
    BY <1>9, Zenon DEF Forms!SetStatus
  <2>0. scope = "unit" /\ form[t] = None
    BY <1>9 DEF Forms!SetStatus
  <2> DEFINE data == [display[t] EXCEPT !.status = v]
             c == Forms!Sent(t, data, display[t].version, display[t], {"status"}, m)
             f == [Forms!Blank(t, TRUE) EXCEPT !.saving = m]
  <2>2. data \in Forms!Record /\ Forms!Differ(data, display[t]) \subseteq {"status"}
    BY <1>2 DEF Forms!Record, Forms!Differ, Forms!FormFields
  <2>3. c \in Forms!Call /\ c.tab = t /\ c.waiting /\ c.stage = "sent" /\ c.expected = display[t].version
        /\ c.first = m /\ c.seen = display[t] /\ c.data = data /\ c.asked = {"status"}
    BY <1>1, <1>2, <2>0, <2>1, <2>2 DEF Forms!Sent, Forms!Call, Forms!FormFields
  <2>4. CallKeeps(c)
    BY <1>2, <2>2, <2>3 DEF CallKeeps, Genuine
  <2>5. c.expected # None
    BY <1>2, <2>3, NoCall
  <2>6. f \in Forms!Form /\ f.saving = m /\ f.seen = display[t] /\ f.review = None /\ f.first = None
        /\ ~f.uncertain
    BY <1>1, <1>2 DEF Forms!Blank, Forms!Form
  <2> HIDE DEF c, f, m, data
  <2>7. saves' = [saves EXCEPT ![m] = c] /\ form' = [form EXCEPT ![t] = f]
    BY <2>1 DEF c, f, data
  <2>8. Sends(t, m, c, f)
    BY <1>1, <1>2, <2>0, <2>1, <2>3, <2>4, <2>5, <2>6, <2>7 DEF Sends
  <2> QED BY <2>8
<1> QED BY <1>6, <1>7, <1>8, <1>9

LEMMA SendsKeep == ASSUME FormsInv, NEW t \in Tabs, NEW m, NEW c, NEW f, Sends(t, m, c, f) PROVE FormsInv'
<1>1. /\ scope' = scope /\ records' = records /\ created' = created /\ Forms!Numbers' = Forms!Numbers
      /\ m \in Forms!Numbers /\ saves[m] = None /\ ~Forms!Sending(m) /\ m # None
      /\ c \notin {None, Done} /\ f # None /\ f \in Forms!Form /\ c \in Forms!Call
  BY NoCall, Numbered DEF Sends, Forms!Numbers, Forms!Unsent, Forms!Sending
<1>2. /\ saves \in [Forms!Numbers -> Forms!Call \cup {None, Done}] /\ form \in [Tabs -> Forms!Form \cup {None}]
      /\ saves' = [saves EXCEPT ![m] = c] /\ form' = [form EXCEPT ![t] = f]
  BY DEF Sends, FormsInv, Forms!TypeOK
<1>3. /\ saves'[m] = c /\ \A n \in Forms!Numbers : n # m => saves'[n] = saves[n]
      /\ form'[t] = f /\ \A u \in Tabs : u # t => form'[u] = form[u] /\ display'[u] = display[u]
  BY <1>1, <1>2 DEF Sends
<1>4. /\ Forms!Sending(m)' /\ Forms!InFlight(m)'
      /\ \A n \in Forms!Numbers : n # m => Forms!Sending(n)' = Forms!Sending(n) /\ Forms!InFlight(n)' = Forms!InFlight(n)
      /\ Forms!Unsent' \subseteq Forms!Unsent \ {m}
  BY <1>1, <1>3 DEF Forms!Sending, Forms!InFlight, Forms!Unsent, Sends
<1>5. Forms!TypeOK'
  <2>1. saves' \in [Forms!Numbers -> Forms!Call \cup {None, Done}] /\ form' \in [Tabs -> Forms!Form \cup {None}]
    BY <1>1, <1>2
  <2> QED BY <1>1, <2>1 DEF Sends, FormsInv, Forms!TypeOK
<1>6. \A u \in Tabs : form[u] # None => form[u].saving # m
  BY <1>1 DEF FormsInv, SavesLinked
<1>7. \A n \in Forms!Numbers : Forms!Sending(n) /\ saves[n].waiting => saves[n].tab # t /\ saves[n].tab \in Tabs
  <2> SUFFICES ASSUME NEW n \in Forms!Numbers, Forms!Sending(n), saves[n].waiting, saves[n].tab = t PROVE FALSE
    BY CallShape DEF Forms!Call
  <2>1. form[t] # None /\ form[t].saving = n /\ n # None
    BY NoCall, Numbered DEF FormsInv, SavesLinked
  <2> QED BY <2>1 DEF Sends
<1>8. SavesLinked'
  <2>1. ASSUME NEW u \in Tabs, form'[u] # None, form'[u].saving # None
        PROVE  /\ form'[u].saving \in Forms!Numbers /\ Forms!Sending(form[u].saving)'
               /\ saves'[form'[u].saving].tab = u /\ saves'[form'[u].saving].waiting
               /\ form'[u].first \in {None, saves'[form'[u].saving].first} /\ ~form'[u].uncertain
    <3>1. CASE u = t
      BY <1>1, <1>3, <1>4, <3>1 DEF Sends
    <3>2. CASE u # t
      <4>1. form'[u] = form[u] /\ form[u].saving \in Forms!Numbers /\ form[u].saving # m
        BY <1>3, <1>6, <2>1, <3>2 DEF FormsInv, SavesLinked
      <4> QED BY <1>3, <1>4, <2>1, <3>2, <4>1 DEF FormsInv, SavesLinked
    <3> QED BY <3>1, <3>2
  <2>2. ASSUME NEW n \in Forms!Numbers, Forms!Sending(n)', saves'[n].waiting
        PROVE  form'[saves'[n].tab] # None /\ form'[saves'[n].tab].saving = n
    <3>1. CASE n = m
      BY <1>1, <1>3, <3>1 DEF Sends
    <3>2. CASE n # m
      BY <1>3, <1>4, <1>7, <2>2, <3>2 DEF FormsInv, SavesLinked
    <3> QED BY <3>1, <3>2
  <2> QED BY <1>1, <2>1, <2>2 DEF SavesLinked
<1>9. \A r : Genuine(r)' = Genuine(r)
  BY <1>1 DEF Genuine, Forms!Record
<1>10. FormsBehind'
  <2> SUFFICES ASSUME NEW u \in Tabs
      PROVE  /\ Genuine(Base(u))'
             /\ form'[u] # None =>
                  /\ Genuine(form[u].seen)' /\ form'[u].seen.version <= Base(u)'.version
                  /\ form'[u].review # None => Genuine(form[u].review)' /\ form'[u].review.version <= Base(u)'.version
    BY DEF FormsBehind
  <2>1. Base(u)' = Base(u)
    <3>1. CASE u = t
      <4>1. Base(t) = display[t]
        BY ShownGenuine DEF Sends
      <4>2. Base(t)' = IF scope = "person" /\ c.expected # None THEN c.undo ELSE display'[t]
        BY <1>1, <1>3 DEF Base, Optimistic, Sends
      <4> QED BY <3>1, <4>1, <4>2 DEF Sends
    <3>2. CASE u # t
      <4>1. form'[u] = form[u] /\ display'[u] = display[u]
            /\ (form[u] # None /\ form[u].saving # None => form[u].saving \in Forms!Numbers /\ form[u].saving # m)
        BY <1>3, <1>6, <3>2 DEF FormsInv, SavesLinked
      <4> QED BY <1>1, <1>3, <4>1 DEF Base, Optimistic
    <3> QED BY <3>1, <3>2
  <2>2. CASE u # t
    BY <1>3, <1>9, <2>1, <2>2 DEF FormsInv, FormsBehind
  <2>3. CASE u = t /\ form[t] # None
    BY <1>3, <1>9, <2>1, <2>3 DEF FormsInv, FormsBehind, Sends
  <2>4. CASE u = t /\ form[t] = None
    <3>1. Base(t) = display[t] /\ Genuine(display[t]) /\ display[t].version \in Nat
      BY <2>4, ShownGenuine DEF Genuine, Forms!Record
    <3>2. f.seen = display[t] /\ f.review = None
      BY <2>4 DEF Sends
    <3> QED BY <1>3, <1>9, <2>1, <2>4, <3>1, <3>2
  <2> QED BY <2>2, <2>3, <2>4
<1>11. CallsKeep'
  <2> SUFFICES ASSUME NEW n \in Forms!Numbers, Forms!Sending(n)', saves'[n].expected # None
      PROVE  /\ saves'[n].stage = "sent" => CallKeeps(saves[n])'
             /\ saves'[n].stage = "saved" => Genuine([saves[n].data EXCEPT !.version = saves[n].expected + 1])'
    BY <1>1 DEF CallsKeep
  <2>1. \A d : CallKeeps(d)' = CallKeeps(d)
    BY <1>1 DEF CallKeeps, Genuine, Forms!Record, Forms!Differ, Forms!FormFields
  <2>2. CASE n = m
    <3>1. saves'[n] = c /\ c.stage = "sent" /\ CallKeeps(c)
      BY <1>3, <2>2 DEF Sends
    <3> QED BY <2>1, <3>1
  <2>3. CASE n # m
    BY <1>3, <1>4, <1>9, <2>1, <2>3 DEF FormsInv, CallsKeep
  <2> QED BY <2>2, <2>3
<1>12. c.first \in Forms!Numbers /\ c.first \notin Forms!Unsent \ {m}
  BY <1>1 DEF Sends, FormsInv, FirstsSent
<1>13. f.first # None => f.first = c.first
  BY DEF Sends
<1>14. FirstsSent'
  <2>1. \A p \in created : p[1] \notin Forms!Unsent' /\ p[2] \notin Forms!Unsent'
    BY <1>4 DEF FormsInv, FirstsSent
  <2>2. \A n \in Forms!Numbers : Forms!Sending(n)' => saves'[n].first \in Forms!Numbers \ Forms!Unsent'
    BY <1>3, <1>4, <1>12 DEF FormsInv, FirstsSent
  <2>3. \A u \in Tabs : form'[u] # None /\ form'[u].first # None => form'[u].first \in Forms!Numbers \ Forms!Unsent'
    BY <1>3, <1>4, <1>12, <1>13 DEF FormsInv, FirstsSent
  <2> QED BY <1>1, <2>1, <2>2, <2>3 DEF FirstsSent
<1>15. \* whose first the call has
       \/ c.first = m
       \/ form[t] # None /\ form[t].first # None /\ form[t].saving = None /\ c.first = form[t].first
  BY DEF Sends
<1>16. c.expected = None =>
          /\ form[t] # None /\ form[t].new /\ ~form[t].uncertain /\ f.first = c.first
          /\ \A n \in Forms!Numbers : Creating(n) => saves[n].first # c.first
          /\ \A p \in created : p[2] # c.first
  <2> SUFFICES ASSUME c.expected = None
      PROVE  /\ form[t] # None /\ form[t].new /\ ~form[t].uncertain /\ f.first = c.first
             /\ \A n \in Forms!Numbers : Creating(n) => saves[n].first # c.first
             /\ \A p \in created : p[2] # c.first
    OBVIOUS
  <2>1. form[t] # None /\ form[t].new /\ ~form[t].uncertain /\ f.first = c.first /\ form[t].saving = None
    BY DEF Sends
  <2>2. CASE c.first = m
    BY <2>1, <2>2 DEF Sends, FormsInv, FirstsSent, Creating, Forms!InFlight
  <2>3. CASE form[t].first # None /\ c.first = form[t].first
    BY <2>1, <2>3, NoCall, Numbered DEF FormsInv, CreatedOnce
  <2> QED BY <1>15, <2>1, <2>2, <2>3
<1>17. \A n \in Forms!Numbers : Creating(n)' => IF n = m THEN c.expected = None ELSE Creating(n) /\ saves'[n] = saves[n]
  BY <1>1, <1>3, <1>4 DEF Creating
<1>18. \A u \in Tabs : u # t /\ form[u] # None /\ form[u].first # None => form[u].first # c.first
  <2> SUFFICES ASSUME NEW u \in Tabs, u # t, form[u] # None, form[u].first # None, form[u].first = c.first PROVE FALSE
    OBVIOUS
  <2>1. c.first # m
    BY DEF Sends, FormsInv, FirstsSent
  <2> QED BY <1>15, <2>1 DEF FormsInv, CreatedOnce
<1>19. CreatedOnce'
  <2>1. \A p, q \in created' : p[2] = q[2] => p = q
    BY <1>1 DEF FormsInv, CreatedOnce
  <2>2. \A n, k \in Forms!Numbers : Creating(n)' /\ Creating(k)' /\ saves'[n].first = saves'[k].first => n = k
    BY <1>3, <1>16, <1>17 DEF FormsInv, CreatedOnce
  <2>3. \A n \in Forms!Numbers, p \in created' : Creating(n)' => p[2] # saves'[n].first
    BY <1>1, <1>3, <1>16, <1>17 DEF FormsInv, CreatedOnce
  <2>4. \A u, v \in Tabs : form'[u] # None /\ form'[v] # None /\ form'[u].first # None
                          /\ form'[u].first = form'[v].first => u = v
    BY <1>3, <1>13, <1>18 DEF FormsInv, CreatedOnce
  <2>5. ASSUME NEW u \in Tabs, form'[u] # None, form'[u].new, form'[u].first # None, ~form'[u].uncertain
        PROVE  /\ \A n \in Forms!Numbers : Creating(n)' /\ saves'[n].first = form'[u].first => n = form'[u].saving
               /\ \A p \in created' : p[2] = form'[u].first =>
                      form'[u].saving # None /\ saves'[form'[u].saving].stage = "saved"
    <3>1. CASE u # t
      <4>1. form'[u] = form[u] /\ form[u].first # c.first
        BY <1>3, <1>18, <2>5, <3>1
      <4>2. form[u].saving # None => form[u].saving \in Forms!Numbers /\ form[u].saving # m
        BY <1>6, <2>5, <4>1 DEF FormsInv, SavesLinked
      <4> QED BY <1>1, <1>3, <1>17, <2>5, <4>1, <4>2 DEF FormsInv, CreatedOnce
    <3>2. CASE u = t
      <4>1. f.first = c.first /\ f.saving = m /\ form'[u] = f /\ form[t] # None /\ form[t].new /\ ~form[t].uncertain
            /\ form[t].saving = None
        BY <1>3, <2>5, <3>2 DEF Sends
      <4>2. /\ \A n \in Forms!Numbers : Creating(n) => saves[n].first # c.first
            /\ \A p \in created : p[2] # c.first
        <5>1. CASE c.first = m
          BY <5>1 DEF Sends, FormsInv, FirstsSent, Creating, Forms!InFlight
        <5>2. CASE form[t].first # None /\ c.first = form[t].first
          BY <4>1, <5>2, NoCall, Numbered DEF FormsInv, CreatedOnce
        <5> QED BY <1>15, <5>1, <5>2
      <4> QED BY <1>1, <1>3, <1>17, <4>1, <4>2
    <3> QED BY <3>1, <3>2
  <2> QED BY <1>1, <2>1, <2>2, <2>3, <2>4, <2>5 DEF CreatedOnce
<1> QED BY <1>1, <1>5, <1>8, <1>10, <1>11, <1>14, <1>19 DEF FormsInv

-----------------------------------------------------------------------------
(* The commit decides: call n is saved or refused.                          *)
Decides(n, stage) ==
    /\ Forms!InFlight(n) /\ stage \in {"saved", "conflict", "invalid"}
    /\ saves' = [saves EXCEPT ![n] = Forms!Settled(@, stage)]
    /\ UNCHANGED <<scope, display, form, offered, failures>>
    /\ IF stage = "saved" /\ saves[n].expected = None
       THEN created' = created \cup {<<n, saves[n].first>>} ELSE created' = created
    /\ IF stage = "saved" /\ saves[n].expected # None
       THEN records' = [saves[n].data EXCEPT !.version = records.version + 1]
            /\ saves[n].expected = records.version
       ELSE records' = records

LEMMA ServerDecides ==
    ASSUME FormsInv, NEW n \in Forms!Numbers, Forms!Commit(n) \/ Forms!Refuse(n)
    PROVE  \E stage : Decides(n, stage)
<1>1. CASE Forms!Commit(n)
  <2>1. Decides(n, "saved")
    <3>1. Forms!InFlight(n) /\ Forms!Accepted(saves[n])
          /\ saves' = [saves EXCEPT ![n] = Forms!Settled(@, "saved")]
          /\ UNCHANGED <<scope, display, form, offered, failures>>
          /\ IF saves[n].expected = None
             THEN created' = created \cup {<<n, saves[n].first>>} /\ UNCHANGED records
             ELSE records' = [saves[n].data EXCEPT !.version = records.version + 1] /\ UNCHANGED created
      BY <1>1 DEF Forms!Commit
    <3> QED BY <3>1 DEF Decides, Forms!Accepted
  <2> QED BY <2>1
<1>2. CASE Forms!Refuse(n)
  <2>1. PICK stage \in {"conflict", "invalid"} :
            /\ saves' = [saves EXCEPT ![n] = Forms!Settled(@, stage)]
            /\ UNCHANGED <<scope, records, created, display, form, offered, failures>>
    BY <1>2 DEF Forms!Refuse
  <2>2. Decides(n, stage)
    BY <1>2, <2>1 DEF Decides, Forms!Refuse
  <2> QED BY <2>2
<1> QED BY <1>1, <1>2

LEMMA DecidesKeep == ASSUME FormsInv, NEW n \in Forms!Numbers, NEW stage, Decides(n, stage) PROVE FormsInv'
<1> DEFINE c == saves[n]
           d == Forms!Settled(c, stage)
<1>1. /\ scope' = scope /\ display' = display /\ form' = form /\ Forms!Numbers' = Forms!Numbers
      /\ Forms!Sending(n) /\ c \in Forms!Call /\ c.stage = "sent" /\ n # None
      /\ c.first \in Forms!Numbers \ Forms!Unsent /\ c.data \in Forms!Record
  BY CallShape, NoCall, Numbered DEF Decides, Forms!Numbers, Forms!InFlight, FormsInv, FirstsSent, Forms!Call
<1>2. /\ saves'[n] = d /\ \A k \in Forms!Numbers : k # n => saves'[k] = saves[k]
      /\ saves' = [saves EXCEPT ![n] = d] /\ saves \in [Forms!Numbers -> Forms!Call \cup {None, Done}]
  BY DEF Decides, FormsInv, Forms!TypeOK
<1>3. /\ c.waiting => d = [c EXCEPT !.stage = stage] /\ d \in Forms!Call
      /\ ~c.waiting => d = Done
      /\ d # None
  BY <1>1, NoCall DEF Decides, Forms!Settled, Forms!Call
<1>4. c.waiting => d.expected = c.expected /\ d.first = c.first /\ d.tab = c.tab /\ d.waiting /\ d.undo = c.undo
                   /\ d.stage = stage /\ d.data = c.data
  BY <1>1, <1>3 DEF Forms!Call
<1> HIDE DEF c, d
<1>5. /\ Forms!Sending(n)' <=> c.waiting
      /\ ~Forms!InFlight(n)' /\ n \notin Forms!Unsent /\ Forms!Unsent' = Forms!Unsent
      /\ \A k \in Forms!Numbers : k # n => Forms!Sending(k)' = Forms!Sending(k) /\ Forms!InFlight(k)' = Forms!InFlight(k)
  <2>1. saves[n] # None /\ saves'[n] # None
    BY <1>1, <1>2, <1>3 DEF Forms!Sending
  <2>2. Forms!Sending(n)' <=> c.waiting
    BY <1>2, <1>3, NoCall DEF Forms!Sending
  <2>3. ~Forms!InFlight(n)'
    BY <1>2, <1>4, <2>2 DEF Forms!InFlight, Decides
  <2> QED BY <1>1, <1>2, <2>1, <2>2, <2>3 DEF Forms!Sending, Forms!InFlight, Forms!Unsent
<1>6. /\ records \in Forms!Record /\ records' \in Forms!Record
      /\ records.version \in Nat /\ records'.version \in Nat
      /\ records' = records \/ records'.version = records.version + 1
  <2>1. records \in Forms!Record /\ records.version \in Nat
    BY DEF FormsInv, Forms!TypeOK, Forms!Record
  <2>2. records' = records \/ records' = [c.data EXCEPT !.version = records.version + 1]
    BY DEF Decides, c
  <2> QED BY <1>1, <2>1, <2>2 DEF Forms!Record
<1>7. ASSUME NEW r, Genuine(r) PROVE Genuine(r)'
  BY <1>6, <1>7 DEF Genuine, Forms!Record
<1>8. Forms!TypeOK'
  <2>1. saves' \in [Forms!Numbers -> Forms!Call \cup {None, Done}]
    BY <1>2, <1>3
  <2>2. created' \subseteq Forms!Numbers \X Forms!Numbers
    BY <1>1 DEF Decides, FormsInv, Forms!TypeOK, c
  <2> QED BY <1>1, <1>6, <2>1, <2>2 DEF Decides, FormsInv, Forms!TypeOK
<1>9. \A t \in Tabs : form[t] # None /\ form[t].saving = n => c.waiting
  BY <1>1 DEF FormsInv, SavesLinked, c
<1>10. SavesLinked'
  <2>1. ASSUME NEW t \in Tabs, form[t] # None, form[t].saving # None
        PROVE  /\ form[t].saving \in Forms!Numbers /\ Forms!Sending(form[t].saving)'
               /\ saves'[form[t].saving].tab = t /\ saves'[form[t].saving].waiting
               /\ form[t].first \in {None, saves'[form[t].saving].first} /\ ~form[t].uncertain
    <3>1. CASE form[t].saving = n
      <4>1. c.tab = t /\ c.waiting /\ form[t].first \in {None, c.first} /\ ~form[t].uncertain
        BY <2>1, <3>1 DEF FormsInv, SavesLinked, c
      <4> QED BY <1>1, <1>2, <1>4, <1>5, <3>1, <4>1
    <3>2. CASE form[t].saving # n
      BY <1>1, <1>2, <1>5, <2>1, <3>2 DEF FormsInv, SavesLinked
    <3> QED BY <3>1, <3>2
  <2>2. ASSUME NEW k \in Forms!Numbers, Forms!Sending(k)', saves'[k].waiting
        PROVE  form[saves'[k].tab] # None /\ form[saves'[k].tab].saving = k
    BY <1>1, <1>2, <1>4, <1>5, <2>2 DEF FormsInv, SavesLinked, c
  <2> QED BY <1>1, <2>1, <2>2 DEF SavesLinked
<1>11. FormsBehind'
  <2>1. ASSUME NEW t \in Tabs PROVE Base(t)' = Base(t)
    <3>1. CASE form[t] # None /\ form[t].saving = n
      BY <1>1, <1>2, <1>4, <1>9, <3>1 DEF Base, Optimistic, c
    <3>2. CASE form[t] # None /\ form[t].saving # None /\ form[t].saving # n
      <4>1. form[t].saving \in Forms!Numbers
        BY <3>2 DEF FormsInv, SavesLinked
      <4> QED BY <1>1, <1>2, <3>2, <4>1 DEF Base, Optimistic
    <3>3. CASE form[t] = None \/ form[t].saving = None
      BY <1>1, <3>3 DEF Base, Optimistic
    <3> QED BY <3>1, <3>2, <3>3
  <2> QED BY <1>1, <1>7, <2>1 DEF FormsInv, FormsBehind
<1>12. CallsKeep'
  <2> SUFFICES ASSUME NEW k \in Forms!Numbers, Forms!Sending(k)', saves'[k].expected # None
      PROVE  /\ saves'[k].stage = "sent" => CallKeeps(saves[k])'
             /\ saves'[k].stage = "saved" => Genuine([saves[k].data EXCEPT !.version = saves[k].expected + 1])'
    BY <1>1 DEF CallsKeep
  <2>1. CASE k = n
    <3>1. c.waiting /\ saves'[k].stage = stage /\ stage # "sent" /\ saves'[k].expected = c.expected /\ saves'[k].data = c.data
      BY <1>2, <1>4, <1>5, <2>1 DEF Decides
    <3>2. CASE stage = "saved"
      <4>1. records' = [c.data EXCEPT !.version = c.expected + 1]
        BY <3>1, <3>2 DEF Decides, c
      <4>2. Genuine(records)'
        BY <1>6 DEF Genuine
      <4> QED BY <3>1, <4>1, <4>2
    <3> QED BY <3>1, <3>2
  <2>2. CASE k # n
    <3>1. saves'[k] = saves[k] /\ Forms!Sending(k)
      BY <1>2, <1>5, <2>2
    <3>2. ASSUME CallKeeps(saves[k]) PROVE CallKeeps(saves[k])'
      <4>1. Genuine(saves[k].seen) /\ saves[k].seen.version = saves[k].expected
            /\ saves[k].expected \in Nat /\ saves[k].expected <= records.version
        BY <3>2 DEF CallKeeps, Genuine, Forms!Record
      <4>2. Genuine(saves[k].seen)'
        BY <1>7, <3>1, <4>1
      <4>3. saves[k].expected = records'.version => records' = records
        BY <1>6, <4>1
      <4> QED BY <3>1, <3>2, <4>1, <4>2, <4>3 DEF CallKeeps, Forms!Differ, Forms!FormFields
    <3>3. saves[k].stage = "saved" => Genuine([saves[k].data EXCEPT !.version = saves[k].expected + 1])'
      BY <1>7, <2>2, <3>1 DEF FormsInv, CallsKeep
    <3> QED BY <3>1, <3>2, <3>3 DEF FormsInv, CallsKeep
  <2> QED BY <2>1, <2>2
<1>13. FirstsSent'
  <2>1. \A p \in created' : p[1] \notin Forms!Unsent /\ p[2] \notin Forms!Unsent
    BY <1>1, <1>5 DEF Decides, FormsInv, FirstsSent, c
  <2>2. \A k \in Forms!Numbers : Forms!Sending(k)' => saves'[k].first \in Forms!Numbers \ Forms!Unsent
    BY <1>1, <1>2, <1>4, <1>5 DEF FormsInv, FirstsSent
  <2> QED BY <1>1, <1>5, <2>1, <2>2 DEF FormsInv, FirstsSent
<1>14. \A k \in Forms!Numbers : Creating(k)' => k # n /\ Creating(k) /\ saves'[k] = saves[k]
  BY <1>2, <1>5 DEF Creating
<1>15. \A p \in created' : p \in created \/ (p = <<n, c.first>> /\ Creating(n) /\ stage = "saved")
  BY DEF Decides, Creating, c
<1>16. CreatedOnce'
  <2>1. Creating(n) => \A p \in created : p[2] # c.first
    BY DEF FormsInv, CreatedOnce, c
  <2>2. \A p, q \in created' : p[2] = q[2] => p = q
    BY <1>15, <2>1 DEF FormsInv, CreatedOnce
  <2>3. \A j, k \in Forms!Numbers : Creating(j)' /\ Creating(k)' /\ saves'[j].first = saves'[k].first => j = k
    BY <1>14 DEF FormsInv, CreatedOnce
  <2>4. \A k \in Forms!Numbers, p \in created' : Creating(k)' => p[2] # saves'[k].first
    BY <1>14, <1>15 DEF FormsInv, CreatedOnce, c
  <2>5. ASSUME NEW u \in Tabs, form[u] # None, form[u].new, form[u].first # None, ~form[u].uncertain
        PROVE  /\ \A k \in Forms!Numbers : Creating(k)' /\ saves'[k].first = form[u].first => k = form[u].saving
               /\ \A p \in created' : p[2] = form[u].first =>
                      form[u].saving # None /\ saves'[form[u].saving].stage = "saved"
    <3>1. \A k \in Forms!Numbers : Creating(k)' /\ saves'[k].first = form[u].first => k = form[u].saving
      BY <1>14, <2>5 DEF FormsInv, CreatedOnce
    <3>2. ASSUME NEW p \in created', p[2] = form[u].first
          PROVE  form[u].saving # None /\ saves'[form[u].saving].stage = "saved"
      <4>1. CASE p \in created
        <5>1. form[u].saving # None /\ saves[form[u].saving].stage = "saved"
          BY <2>5, <3>2, <4>1 DEF FormsInv, CreatedOnce
        <5>2. form[u].saving \in Forms!Numbers /\ form[u].saving # n
          BY <1>1, <2>5, <5>1 DEF FormsInv, SavesLinked, c
        <5> QED BY <1>2, <5>1, <5>2
      <4>2. CASE p = <<n, c.first>> /\ Creating(n) /\ stage = "saved"
        <5>1. n = form[u].saving
          BY <2>5, <3>2, <4>2 DEF FormsInv, CreatedOnce, c
        <5> QED BY <1>1, <1>2, <1>4, <1>9, <2>5, <4>2, <5>1
      <4> QED BY <1>15, <4>1, <4>2
    <3> QED BY <3>1, <3>2
  <2> QED BY <1>1, <2>2, <2>3, <2>4, <2>5, FormsInv DEF FormsInv, CreatedOnce
<1> QED BY <1>1, <1>8, <1>10, <1>11, <1>12, <1>13, <1>16 DEF FormsInv

-----------------------------------------------------------------------------
(* A call is answered: its tab's form closes or may go on, and the tab shows *)
(* the record saved, or what it showed before.                              *)
Answers(n, f) ==
    LET t == saves[n].tab IN
    /\ Forms!Sending(n) /\ saves[n].waiting
    /\ form' = [form EXCEPT ![t] = f] /\ f \in Forms!Form \cup {None}
    /\ UNCHANGED <<scope, records, created>> /\ offered' \subseteq Tabs /\ failures' \in Nat
    /\ saves'[n] = Done \/ (saves[n].stage = "sent" /\ saves'[n] = [saves[n] EXCEPT !.waiting = FALSE])
    /\ saves' \in [Forms!Numbers -> Forms!Call \cup {None, Done}]
    /\ \A k \in Forms!Numbers : k # n => saves'[k] = saves[k]
    /\ display' = [display EXCEPT ![t] = display'[t]] /\ display'[t] \in Forms!Record
    /\ \/ f = None /\ Genuine(display'[t])
       \/ /\ display'[t] = Base(t)
          /\ f # None => /\ f.saving = None /\ f.seen = form[t].seen /\ f.review = form[t].review
                         /\ f.first = form[t].first /\ f.new = form[t].new
                         /\ f.new /\ ~f.uncertain => saves[n].stage \in {"conflict", "invalid"}

LEMMA AnswerEffect ==
    ASSUME FormsInv, NEW n \in Forms!Numbers, Forms!Saved(n) \/ Forms!Refused(n) \/ Forms!Lost(n)
    PROVE  \E f : Answers(n, f)
<1> DEFINE c == saves[n]
           t == c.tab
<1>1. /\ Forms!Sending(n) /\ c.waiting /\ c \in Forms!Call /\ t \in Tabs /\ n # None
      /\ saves \in [Forms!Numbers -> Forms!Call \cup {None, Done}]
      /\ display \in [Tabs -> Forms!Record] /\ form \in [Tabs -> Forms!Form \cup {None}]
      /\ offered \subseteq Tabs /\ failures \in Nat /\ scope \in Kinds
  BY CallShape, NoCall, Numbered DEF Forms!Saved, Forms!Refused, Forms!Lost, Forms!Answerable, FormsInv, Forms!TypeOK,
     Forms!Call
<1>2. form[t] # None /\ form[t].saving = n /\ form[t] \in Forms!Form
  BY <1>1 DEF FormsInv, SavesLinked
<1>3. Genuine(Base(t)) /\ Base(t) \in Forms!Record
      /\ Base(t) = IF scope = "person" /\ c.expected # None THEN c.undo ELSE display[t]
  BY <1>1, <1>2 DEF FormsInv, FormsBehind, Genuine, Base, Optimistic
<1>4. [c EXCEPT !.waiting = FALSE] \in Forms!Call
  BY <1>1 DEF Forms!Call
<1>5. CASE Forms!Saved(n)
  <2>1. /\ display' = [display EXCEPT ![t] = IF c.expected = None THEN @ ELSE [c.data EXCEPT !.version = c.expected + 1]]
        /\ form' = [form EXCEPT ![t] = None] /\ saves' = [saves EXCEPT ![n] = Done] /\ c.stage = "saved"
        /\ UNCHANGED <<scope, records, created, offered, failures>>
    BY <1>5 DEF Forms!Saved
  <2>2. Genuine(display'[t]) /\ display'[t] \in Forms!Record
    <3>1. CASE c.expected = None
      BY <1>1, <1>3, <2>1, <3>1
    <3>2. CASE c.expected # None
      <4>1. Genuine([c.data EXCEPT !.version = c.expected + 1])
        BY <1>1, <2>1, <3>2 DEF FormsInv, CallsKeep
      <4> QED BY <1>1, <2>1, <3>2, <4>1 DEF Genuine
    <3> QED BY <3>1, <3>2
  <2>3. display' = [display EXCEPT ![t] = display'[t]]
    BY <1>1, <2>1
  <2>4. Answers(n, None)
    BY <1>1, <2>1, <2>2, <2>3 DEF Answers
  <2> QED BY <2>4
<1>6. ASSUME NEW known \in BOOLEAN, Forms!Failed(n, known), offered' \subseteq Tabs, failures' \in Nat,
             known => c.stage \in {"conflict", "invalid"}
      PROVE  \E f : Answers(n, f)
  <2> DEFINE f == IF scope = "unit" /\ form[t].new THEN None ELSE Forms!After(form[t], known)
  <2>1. /\ display' = [display EXCEPT ![t] = IF scope = "person" /\ c.expected # None THEN c.undo ELSE @]
        /\ form' = [form EXCEPT ![t] = f]
        /\ saves' = [saves EXCEPT ![n] = IF c.stage = "sent" THEN [c EXCEPT !.waiting = FALSE] ELSE Done]
        /\ UNCHANGED <<scope, records, created>>
    BY <1>1, <1>6 DEF Forms!Failed
  <2>2. display'[t] = Base(t) /\ display' = [display EXCEPT ![t] = display'[t]]
    BY <1>1, <1>3, <2>1
  <2>3. /\ f \in Forms!Form \cup {None}
        /\ f # None => /\ f.saving = None /\ f.seen = form[t].seen /\ f.review = form[t].review
                       /\ f.first = form[t].first /\ f.new = form[t].new
                       /\ f.uncertain = (scope = "person" /\ ~known)
                       /\ scope = "unit" => ~f.new
    BY <1>2, NoCall DEF Forms!After, Forms!Form
  <2>4. f # None /\ f.new /\ ~f.uncertain => c.stage \in {"conflict", "invalid"}
    BY <1>1, <1>6, <2>3 DEF Kinds
  <2>5. saves' \in [Forms!Numbers -> Forms!Call \cup {None, Done}]
        /\ (saves'[n] = Done \/ (c.stage = "sent" /\ saves'[n] = [c EXCEPT !.waiting = FALSE]))
        /\ \A k \in Forms!Numbers : k # n => saves'[k] = saves[k]
    BY <1>1, <1>4, <2>1
  <2> HIDE DEF f
  <2>6. Answers(n, f)
    BY <1>1, <1>3, <1>6, <2>1, <2>2, <2>3, <2>4, <2>5 DEF Answers
  <2> QED BY <2>6
<1>7. CASE Forms!Refused(n)
  <2>1. offered' \subseteq Tabs /\ failures' = failures /\ Forms!Failed(n, TRUE) /\ c.stage \in {"conflict", "invalid"}
    BY <1>1, <1>7 DEF Forms!Refused
  <2> QED BY <1>1, <1>6, <2>1
<1>8. CASE Forms!Lost(n)
  <2>1. offered' = offered /\ failures' \in Nat /\ Forms!Failed(n, FALSE)
    <3>1. offered' = offered /\ failures' = failures + 1 /\ Forms!Failed(n, FALSE)
      BY <1>8, Zenon DEF Forms!Lost
    <3>2. failures' \in Nat
      <4>1. failures \in Nat
        BY <1>1
      <4>2. failures' = failures + 1
        BY <3>1
      <4> QED BY <4>1, <4>2
    <3> QED BY <3>1, <3>2
  <2> QED BY <1>1, <1>6, <2>1
<1> QED BY <1>5, <1>7, <1>8

LEMMA AnswersKeep == ASSUME FormsInv, NEW n \in Forms!Numbers, NEW f, Answers(n, f) PROVE FormsInv'
<1> DEFINE c == saves[n]
           t == c.tab
<1>1. /\ Forms!Sending(n) /\ c.waiting /\ c \in Forms!Call /\ t \in Tabs /\ n # None /\ c \notin {None, Done}
      /\ display \in [Tabs -> Forms!Record] /\ form \in [Tabs -> Forms!Form \cup {None}]
      /\ scope' = scope /\ records' = records /\ created' = created /\ Forms!Numbers' = Forms!Numbers
      /\ f \in Forms!Form \cup {None} /\ form' = [form EXCEPT ![t] = f]
  BY CallShape, NoCall, Numbered DEF Answers, FormsInv, Forms!TypeOK, Forms!Call, Forms!Numbers, Forms!Sending
<1>2. form[t] # None /\ form[t].saving = n /\ form[t] \in Forms!Form
  BY <1>1 DEF FormsInv, SavesLinked
<1>3. /\ \A k \in Forms!Numbers : k # n => saves'[k] = saves[k]
      /\ \A u \in Tabs : u # t => form'[u] = form[u] /\ display'[u] = display[u]
      /\ form'[t] = f
  BY <1>1 DEF Answers
<1>4. /\ saves'[n] = Done \/ (c.stage = "sent" /\ saves'[n] = [c EXCEPT !.waiting = FALSE])
      /\ saves'[n] # None
      /\ Forms!Sending(n)' => /\ saves'[n].waiting = FALSE /\ saves'[n].stage = c.stage /\ c.stage = "sent"
                              /\ saves'[n].expected = c.expected /\ saves'[n].first = c.first
                              /\ saves'[n].data = c.data /\ saves'[n].seen = c.seen /\ saves'[n].asked = c.asked
  <2>1. saves'[n] = Done \/ (c.stage = "sent" /\ saves'[n] = [c EXCEPT !.waiting = FALSE])
    BY DEF Answers
  <2>2. [c EXCEPT !.waiting = FALSE] \in Forms!Call
    BY <1>1 DEF Forms!Call
  <2>3. saves'[n] # None
    BY <2>1, <2>2, NoCall
  <2>4. Forms!Sending(n)' => saves'[n] # Done
    BY DEF Forms!Sending
  <2> QED BY <1>1, <2>1, <2>3, <2>4 DEF Forms!Call
<1>5. /\ Forms!Unsent' = Forms!Unsent
      /\ \A k \in Forms!Numbers : k # n => Forms!Sending(k)' = Forms!Sending(k) /\ Forms!InFlight(k)' = Forms!InFlight(k)
      /\ \A k \in Forms!Numbers : Creating(k)' => Creating(k) /\ saves'[k].first = saves[k].first
  <2>1. \A k \in Forms!Numbers : k # n => Forms!Sending(k)' = Forms!Sending(k) /\ Forms!InFlight(k)' = Forms!InFlight(k)
    BY <1>3 DEF Forms!Sending, Forms!InFlight
  <2>2. Forms!Unsent' = Forms!Unsent
    BY <1>1, <1>3, <1>4 DEF Forms!Unsent
  <2>3. Creating(n)' => Creating(n) /\ saves'[n].first = saves[n].first
    BY <1>1, <1>4 DEF Creating, Forms!InFlight
  <2> QED BY <1>3, <2>1, <2>2, <2>3 DEF Creating
<1>6. \A u \in Tabs : u # t /\ form[u] # None /\ form[u].saving # None =>
          form[u].saving # n /\ form[u].saving \in Forms!Numbers
  BY DEF FormsInv, SavesLinked
<1>7. \A k \in Forms!Numbers : k # n /\ Forms!Sending(k) /\ saves[k].waiting => saves[k].tab # t
  BY <1>2 DEF FormsInv, SavesLinked
<1>8. f # None => f.saving = None /\ f \in Forms!Form
  BY DEF Answers
<1> HIDE DEF c, t
<1>9. Forms!TypeOK'
  <2>1. form' \in [Tabs -> Forms!Form \cup {None}]
    BY <1>1
  <2>2. display' \in [Tabs -> Forms!Record]
    BY <1>1 DEF Answers, t, c
  <2> QED BY <1>1, <2>1, <2>2 DEF Answers, FormsInv, Forms!TypeOK
<1>10. SavesLinked'
  <2>1. ASSUME NEW u \in Tabs, form'[u] # None, form'[u].saving # None
        PROVE  /\ form'[u].saving \in Forms!Numbers /\ Forms!Sending(form[u].saving)'
               /\ saves'[form'[u].saving].tab = u /\ saves'[form'[u].saving].waiting
               /\ form'[u].first \in {None, saves'[form'[u].saving].first} /\ ~form'[u].uncertain
    <3>1. u # t /\ form'[u] = form[u]
      BY <1>3, <1>8, <2>1
    <3>2. form[u].saving # n /\ form[u].saving \in Forms!Numbers
      BY <1>6, <2>1, <3>1
    <3> QED BY <1>3, <1>5, <2>1, <3>1, <3>2 DEF FormsInv, SavesLinked
  <2>2. ASSUME NEW k \in Forms!Numbers, Forms!Sending(k)', saves'[k].waiting
        PROVE  form'[saves'[k].tab] # None /\ form'[saves'[k].tab].saving = k
    <3>1. k # n
      BY <1>4, <2>2
    <3>2. saves'[k] = saves[k] /\ Forms!Sending(k) /\ saves[k].tab # t /\ saves[k].tab \in Tabs
      BY <1>3, <1>5, <1>7, <2>2, <3>1, CallShape DEF Forms!Call
    <3> QED BY <1>3, <2>2, <3>2 DEF FormsInv, SavesLinked
  <2> QED BY <1>1, <2>1, <2>2 DEF SavesLinked
<1>11. \A r : Genuine(r)' = Genuine(r)
  BY <1>1 DEF Genuine, Forms!Record
<1>12. FormsBehind'
  <2> SUFFICES ASSUME NEW u \in Tabs
      PROVE  /\ Genuine(Base(u))'
             /\ form'[u] # None =>
                  /\ Genuine(form[u].seen)' /\ form'[u].seen.version <= Base(u)'.version
                  /\ form'[u].review # None => Genuine(form[u].review)' /\ form'[u].review.version <= Base(u)'.version
    BY DEF FormsBehind
  <2>1. CASE u # t
    <3>1. Base(u)' = Base(u) /\ form'[u] = form[u]
      BY <1>1, <1>3, <1>6, <2>1 DEF Base, Optimistic
    <3> QED BY <1>11, <3>1 DEF FormsInv, FormsBehind
  <2>2. CASE u = t
    <3>1. Base(u)' = display'[t] /\ form'[u] = f
      BY <1>1, <1>3, <1>8, <2>2 DEF Base, Optimistic
    <3>2. Genuine(Base(t)) /\ Genuine(form[t].seen) /\ form[t].seen.version <= Base(t).version
          /\ (form[t].review # None => Genuine(form[t].review) /\ form[t].review.version <= Base(t).version)
      BY <1>1, <1>2 DEF FormsInv, FormsBehind
    <3>3. CASE f = None /\ Genuine(display'[t])
      BY <1>11, <2>2, <3>1, <3>3
    <3>4. CASE display'[t] = Base(t) /\ (f # None => f.seen = form[t].seen /\ f.review = form[t].review)
      BY <1>11, <2>2, <3>1, <3>2, <3>4
    <3> QED BY <3>3, <3>4 DEF Answers, t, c
  <2> QED BY <2>1, <2>2
<1>13. CallsKeep'
  <2>1. \A d : CallKeeps(d)' = CallKeeps(d)
    BY <1>1 DEF CallKeeps, Genuine, Forms!Record, Forms!Differ, Forms!FormFields
  <2>2. ASSUME NEW k \in Forms!Numbers, Forms!Sending(k)', saves'[k].expected # None
        PROVE  /\ saves'[k].stage = "sent" => CallKeeps(saves'[k])
               /\ saves'[k].stage = "saved" => Genuine([saves'[k].data EXCEPT !.version = saves'[k].expected + 1])
    <3>1. CASE k # n
      BY <1>3, <1>5, <2>2, <3>1 DEF FormsInv, CallsKeep
    <3>2. CASE k = n
      <4>1. CallKeeps(c) /\ saves'[n].stage = "sent"
        BY <1>1, <1>4, <2>2, <3>2 DEF FormsInv, CallsKeep, c
      <4> QED BY <1>4, <2>2, <3>2, <4>1 DEF CallKeeps
    <3> QED BY <3>1, <3>2
  <2> QED BY <1>1, <1>11, <2>1, <2>2 DEF CallsKeep
<1>14. \A u \in Tabs : form'[u] # None => form[u] # None /\ form'[u].first = form[u].first /\ form'[u].new = form[u].new
  BY <1>2, <1>3 DEF Answers, t, c
<1>15. FirstsSent'
  <2>1. \A k \in Forms!Numbers : Forms!Sending(k)' => Forms!Sending(k) /\ saves'[k].first = saves[k].first
    BY <1>1, <1>3, <1>4, <1>5 DEF c
  <2> QED BY <1>1, <1>5, <1>14, <2>1 DEF FormsInv, FirstsSent
<1>16. CreatedOnce'
  <2>1. ASSUME NEW u \in Tabs, form'[u] # None, form'[u].new, form'[u].first # None, ~form'[u].uncertain
        PROVE  /\ \A k \in Forms!Numbers : Creating(k)' /\ saves'[k].first = form'[u].first => k = form'[u].saving
               /\ \A p \in created' : p[2] = form'[u].first =>
                      form'[u].saving # None /\ saves'[form'[u].saving].stage = "saved"
    <3>1. CASE u # t
      <4>1. form'[u] = form[u] /\ (form[u].saving # None => saves'[form[u].saving] = saves[form[u].saving])
        BY <1>3, <1>6, <2>1, <3>1
      <4> QED BY <1>1, <1>5, <2>1, <4>1 DEF FormsInv, CreatedOnce
    <3>2. CASE u = t
      <4>1. c.stage \in {"conflict", "invalid"} /\ f # None /\ form[t].first = f.first /\ form[t].new /\ ~form[t].uncertain
        BY <1>1, <1>2, <1>3, <2>1, <3>2 DEF Answers, t, c, FormsInv, SavesLinked
      <4>2. ~Creating(n)
        BY <4>1 DEF Creating, Forms!InFlight, c
      <4>3. \A k \in Forms!Numbers : Creating(k) => saves[k].first # f.first
        BY <1>1, <1>2, <1>3, <2>1, <3>2, <4>1, <4>2 DEF FormsInv, CreatedOnce
      <4>4. \A p \in created : p[2] # f.first
        BY <1>1, <1>2, <1>3, <2>1, <3>2, <4>1 DEF FormsInv, CreatedOnce, c
      <4> QED BY <1>1, <1>3, <1>5, <3>2, <4>3, <4>4
    <3> QED BY <3>1, <3>2
  <2>2. \A u, v \in Tabs : form'[u] # None /\ form'[v] # None /\ form'[u].first # None
                          /\ form'[u].first = form'[v].first => u = v
    BY <1>14 DEF FormsInv, CreatedOnce
  <2>3. /\ \A p, q \in created : p[2] = q[2] => p = q
        /\ \A j, k \in Forms!Numbers : Creating(j)' /\ Creating(k)' /\ saves'[j].first = saves'[k].first => j = k
        /\ \A k \in Forms!Numbers, p \in created : Creating(k)' => p[2] # saves'[k].first
    BY <1>5 DEF FormsInv, CreatedOnce
  <2> QED BY <1>1, <2>1, <2>2, <2>3 DEF CreatedOnce
<1> QED BY <1>1, <1>9, <1>10, <1>12, <1>13, <1>15, <1>16 DEF FormsInv

-----------------------------------------------------------------------------
LEMMA InitForms == RequestsInit => (scope \in Kinds => FormsInv)
<1> SUFFICES ASSUME FormsInit, scope \in Kinds, asked = None PROVE FormsInv
  BY DEF RequestsInit, FormsInit, Edits, Kinds, EditsInit
<1>1. PICK v \in Names : records = [name |-> v, status |-> v, version |-> 1]
  BY DEF FormsInit, Forms!Init
<1>2. /\ records \in Forms!Record /\ records.version = 1 /\ created = {} /\ offered = {} /\ failures = 0
      /\ display = [t \in Tabs |-> records] /\ form = [t \in Tabs |-> None]
      /\ saves = [n \in Forms!Numbers |-> None]
  BY <1>1 DEF FormsInit, Forms!Init, Forms!Record
<1>3. Forms!TypeOK
  BY <1>2 DEF Forms!TypeOK
<1>4. \A n \in Forms!Numbers : ~Forms!Sending(n) /\ ~Creating(n)
  BY <1>2 DEF Forms!Sending, Forms!InFlight, Creating
<1>5. SavesLinked /\ CallsKeep
  BY <1>2, <1>4 DEF SavesLinked, CallsKeep
<1>6. FormsBehind
  BY <1>2 DEF FormsBehind, Base, Optimistic, Genuine
<1>7. FirstsSent /\ CreatedOnce
  BY <1>2, <1>4 DEF FirstsSent, CreatedOnce
<1> QED BY <1>3, <1>5, <1>6, <1>7 DEF FormsInv

LEMMA FormsNext == FormsInv /\ Forms!Next => FormsInv'
<1> SUFFICES ASSUME FormsInv, Forms!Next PROVE FormsInv'
  OBVIOUS
<1>1. CASE \E t \in Tabs : FormStep(t)
  BY <1>1, FormsStepKeeps
<1>2. CASE \E t \in Tabs : Forms!SaveEdit(t) \/ Forms!SavePerson(t) \/ Forms!AddPerson(t) \/ Forms!SetStatus(t)
  BY <1>2, SendEffect, SendsKeep
<1>3. CASE \E n \in Forms!Numbers : Forms!Commit(n) \/ Forms!Refuse(n)
  BY <1>3, ServerDecides, DecidesKeep
<1>4. CASE \E n \in Forms!Numbers : Forms!Saved(n) \/ Forms!Refused(n) \/ Forms!Lost(n)
  BY <1>4, AnswerEffect, AnswersKeep
<1> QED BY <1>1, <1>2, <1>3, <1>4 DEF Forms!Next, FormStep

LEMMA FormsStep == (scope \in Kinds => FormsInv) /\ [RequestsNext]_<<vars, edits>> => (scope \in Kinds => FormsInv)'
<1> SUFFICES ASSUME scope \in Kinds => FormsInv, [RequestsNext]_<<vars, edits>>, scope' \in Kinds PROVE FormsInv'
  OBVIOUS
<1>1. CASE scope = "requests" /\ Next /\ UNCHANGED edits
  BY <1>1 DEF edits, Kinds
<1>2. CASE scope \in Edits /\ Editor!Next /\ UNCHANGED <<vars, scope, formVars>> /\ Within'
  BY <1>2 DEF Edits, Kinds
<1>3. CASE scope \in Kinds /\ Forms!Next /\ UNCHANGED <<vars, asked>>
  BY <1>3, FormsNext
<1>4. CASE UNCHANGED <<vars, edits>>
  <2>1. UNCHANGED <<scope, records, display, form, saves, failures, created, offered>>
    BY <1>4 DEF edits, formVars
  <2>2. FormsInv
    BY <2>1
  <2>3. /\ Forms!Numbers' = Forms!Numbers /\ Forms!Unsent' = Forms!Unsent
        /\ \A n : Forms!Sending(n)' = Forms!Sending(n) /\ Creating(n)' = Creating(n)
        /\ \A r : Genuine(r)' = Genuine(r)
        /\ \A t : Base(t)' = Base(t)
    BY <2>1 DEF Forms!Numbers, Forms!Unsent, Forms!Sending, Creating, Forms!InFlight, Genuine, Base, Optimistic, Forms!Record
  <2>4. Forms!TypeOK' /\ SavesLinked' /\ FirstsSent' /\ CreatedOnce'
    BY <2>1, <2>2, <2>3 DEF FormsInv, Forms!TypeOK, SavesLinked, FirstsSent, CreatedOnce
  <2>5. FormsBehind' /\ CallsKeep'
    BY <2>1, <2>2, <2>3 DEF FormsInv, FormsBehind, CallsKeep, CallKeeps, Forms!Differ, Forms!FormFields
  <2> QED BY <2>1, <2>2, <2>4, <2>5 DEF FormsInv
<1> QED BY <1>1, <1>2, <1>3, <1>4 DEF RequestsNext

LEMMA FormsKeepScope == ASSUME FormsInv, Forms!Next PROVE scope' = scope
<1>1. \A t \in Tabs : FormStep(t) => scope' = scope
    BY FormEffect
<1>2. \A t \in Tabs : Forms!SaveEdit(t) \/ Forms!SavePerson(t) \/ Forms!AddPerson(t) \/ Forms!SetStatus(t)
                            => scope' = scope
    BY SendEffect DEF Sends
<1>3. \A j \in Forms!Numbers : Forms!Saved(j) \/ Forms!Refused(j) \/ Forms!Lost(j) => scope' = scope
    BY AnswerEffect DEF Answers
<1>4. \A j \in Forms!Numbers : Forms!Commit(j) \/ Forms!Refuse(j) => scope' = scope
    BY ServerDecides DEF Decides
<1> QED BY <1>1, <1>2, <1>3, <1>4 DEF Forms!Next, FormStep

(* However answers are lost, records polled and drafts reapplied, the save   *)
(* of a form replaces the very record its author was shown, and only in what *)
(* was asked, and a form of a new person creates one at most                 *)
(* (hierarchyRegistryEditing.ts, HierarchyRegistryPanel.tsx,                 *)
(* PersonEditorForm.tsx and the commit).                                     *)
THEOREM FormsReplaceWhatWasShown == RequestsSpec => FormsSaveWhatWasShown
<1>1. ASSUME FormsInv, FormsInv', Forms!Next PROVE Forms!Honest
  <2>1. Forms!CreatesOnce
    BY <1>1 DEF Forms!CreatesOnce, FormsInv, CreatedOnce
  <2>2. Forms!ReplacesWhatWasShown
    <3> SUFFICES ASSUME NEW n \in Forms!Numbers, Forms!Sending(n), records' # records, saves'[n] # saves[n]
        PROVE  Forms!Differ(records, saves[n].seen) = {} /\ Forms!Differ(records', records) \subseteq saves[n].asked
      BY DEF Forms!ReplacesWhatWasShown
    <3>1. PICK k \in Forms!Numbers : Forms!Commit(k) \/ Forms!Refuse(k)
      <4>1. \A t \in Tabs : FormStep(t) => records' = records
        BY FormEffect, <1>1
      <4>2. \A t \in Tabs : Forms!SaveEdit(t) \/ Forms!SavePerson(t) \/ Forms!AddPerson(t) \/ Forms!SetStatus(t)
                                => records' = records
        BY SendEffect, <1>1 DEF Sends
      <4>3. \A j \in Forms!Numbers : Forms!Saved(j) \/ Forms!Refused(j) \/ Forms!Lost(j) => records' = records
        BY AnswerEffect, <1>1 DEF Answers
      <4> QED BY <1>1, <4>1, <4>2, <4>3 DEF Forms!Next, FormStep
    <3>2. PICK stage : Decides(k, stage)
      BY <1>1, <3>1, ServerDecides
    <3>3. k = n
      BY <1>1, <3>2 DEF Decides, FormsInv, Forms!TypeOK
    <3>4. /\ saves[n].expected # None /\ records' = [saves[n].data EXCEPT !.version = records.version + 1]
          /\ saves[n].expected = records.version /\ saves[n].stage = "sent"
      BY <3>2, <3>3 DEF Decides, Forms!InFlight
    <3>5. CallKeeps(saves[n]) /\ saves[n].data \in Forms!Record
      BY <1>1, <3>4, CallShape DEF FormsInv, CallsKeep, Forms!Call
    <3>6. Forms!Differ(records', records) = Forms!Differ(saves[n].data, records)
      BY <3>4, <3>5 DEF Forms!Record, Forms!Differ, Forms!FormFields
    <3>7. saves[n].seen = records
      BY <3>4, <3>5 DEF CallKeeps, Genuine
    <3> QED BY <3>4, <3>5, <3>6, <3>7 DEF CallKeeps, Forms!Differ
  <2> QED BY <2>1, <2>2 DEF Forms!Honest
<1>2. (scope \in Kinds => FormsInv) /\ (scope \in Kinds => FormsInv)' /\ [RequestsNext]_<<vars, edits>>
          => [(scope \in Kinds => Forms!Honest)]_edits
  <2> SUFFICES ASSUME scope \in Kinds, FormsInv, scope' \in Kinds => FormsInv', [RequestsNext]_<<vars, edits>>, edits' # edits
      PROVE  Forms!Honest
    OBVIOUS
  <2>1. Forms!Next
    BY DEF RequestsNext, Kinds, Edits
  <2>2. scope' = scope
    BY <2>1, FormsKeepScope
  <2> QED BY <1>1, <2>1, <2>2
<1> QED BY <1>2, InitForms, FormsStep, PTL DEF RequestsSpec, FormsSaveWhatWasShown

-----------------------------------------------------------------------------
(***************************************************************************)
(* Edits of whole Locations.                                                *)

Saved(l) == records.locations[l]

\* Where two copies differ was asked for.
Asked(l, old, new, asks) ==
    /\ \A k \in Editor!PlainFields : new[k] # old[k] => <<l, k, new[k]>> \in asks
    /\ \A f \in Fields : new.metadata[f] # old.metadata[f] => <<l, f, new.metadata[f]>> \in asks

\* A copy is no newer than what is saved; one of the same version differs from
\* it in nothing but what was asked.
Fits(l, copy, asks) ==
    /\ copy.version <= Saved(l).version
    /\ copy.version = Saved(l).version => Asked(l, Saved(l), copy, asks)

\* What a write makes of a saved Location, apart from what the commit puts back.
Proposed(w, old) == [w.data EXCEPT !.manager = IF @ = Kept THEN old.manager ELSE @]

Waits(n) == Editor!Sending(n) /\ saves[n].waiting
Numbers == 1 .. MaxEdits

(* What the calls and forms are made of.                                    *)
Sheet == [hours : Schedules, template : Templates \cup {None}, mode : {"template", "custom"},
          manager : People \cup {None, Kept}, managerName : Names \cup {None},
          verifiedBy : Tabs \cup {None}, version : Nat, metadata : [Fields -> Choices \cup {None}]]
Person == [name : Names, version : Nat]

LocationWrites == [id : Locations, expected : [Fields -> Choices \cup {None}] \cup {None}, data : Sheet]
PeopleWrites == [id : People, data : Person]
TemplateWrites == [id : Templates, data : Schedules \cup {None}]
DefinitionWrites == [id : Fields, data : Editor!Definition, expected : Editor!Definition \cup {None}]
Writes == [locations : SUBSET LocationWrites, people : SUBSET PeopleWrites,
           templates : SUBSET TemplateWrites, definitions : SUBSET DefinitionWrites]

FormShaped(f) ==
    f \in [id : Locations, base : Editor!LocationData, data : Editor!LocationData,
           asked : {f.asked}, saving : {f.saving}]

SaveShaped(c) ==
    /\ c \in [tab : Tabs, writes : Writes, undo : {c.undo}, asked : {c.asked},
              stage : {"sent", "saved", "refused"}, waiting : BOOLEAN, result : {c.result}]
    /\ \A l \in DOMAIN c.undo.locations : l \in Locations /\ c.undo.locations[l] \in Editor!LocationData
    /\ \A p \in DOMAIN c.undo.people : p \in People /\ c.undo.people[p] \in Person

\* The answer to a save that was committed.
AnswerShaped(c) ==
    /\ \A w \in c.writes.locations :
        LET r == c.result.locations[w.id]
        IN  /\ r \in Editor!LocationData /\ r.version = w.data.version + 1
            /\ r.version <= Saved(w.id).version
            /\ r.version = Saved(w.id).version => r = Saved(w.id)
    /\ \A w \in c.writes.people : c.result.people[w.id] \in Person
    /\ \A w \in c.writes.definitions : c.result.definitions[w.id] \in Editor!Definition \cup {None}

EditTypes ==
    /\ scope \in Edits
    /\ records \in Editor!Directory
    /\ display \in [Tabs -> Editor!Directory]
    /\ DOMAIN form = Tabs /\ DOMAIN asked = Tabs /\ DOMAIN saves = Numbers
    /\ \A t \in Tabs : form[t] # None => FormShaped(form[t])
    /\ \A n \in Numbers : Editor!Sending(n) => SaveShaped(saves[n])
    /\ \A n \in Numbers : Waits(n) /\ saves[n].stage = "saved" => AnswerShaped(saves[n])

(* Whatever a tab shows, fills in, may put back or has sent fits.           *)
CopiesFit ==
    /\ \A t \in Tabs, l \in Locations : Fits(l, display[t].locations[l], asked[t])
    /\ \A t \in Tabs : form[t] # None =>
        /\ Fits(form[t].id, form[t].base, form[t].asked) /\ Fits(form[t].id, form[t].data, form[t].asked)
        /\ form[t].data.version = form[t].base.version
    /\ \A n \in Numbers : Waits(n) => \A l \in DOMAIN saves[n].undo.locations :
        Fits(l, saves[n].undo.locations[l], asked[saves[n].tab])
    /\ \A n \in Numbers : Editor!Sending(n) => \A w \in saves[n].writes.locations :
        /\ w.data.version <= Saved(w.id).version
        /\ saves[n].stage = "sent" => Fits(w.id, Proposed(w, Saved(w.id)), saves[n].asked)

(* As long as a save may be confirmed, no copy its tab holds of what it      *)
(* saves is newer than what it expects, or it will be refused.              *)
NotPast(n, w, version) ==
    \/ version <= w.data.version
    \/ saves[n].stage = "sent" /\ Saved(w.id).version > w.data.version

CopiesNotPast == \A n \in Numbers : Waits(n) /\ saves[n].stage # "refused" => \A w \in saves[n].writes.locations :
    LET t == saves[n].tab
    IN  /\ NotPast(n, w, display[t].locations[w.id].version)
        /\ form[t] # None /\ form[t].id = w.id => NotPast(n, w, form[t].base.version)
        /\ \A k \in Numbers : Waits(k) /\ saves[k].tab = t =>
            /\ w.id \in DOMAIN saves[k].undo.locations => NotPast(n, w, saves[k].undo.locations[w.id].version)
            /\ \A v \in saves[k].writes.locations : v.id = w.id => NotPast(n, w, v.data.version)
            /\ saves[k].stage = "saved" /\ saves[n].stage = "saved" =>
                   \A v \in saves[k].writes.locations : v.id = w.id => n = k

EditInv == EditTypes /\ CopiesFit /\ CopiesNotPast /\ Editor!MetadataDefined

-----------------------------------------------------------------------------
(* Copies of a Location.                                                    *)

LEMMA AskedOf ==
    ASSUME NEW l, NEW old, NEW new, NEW asks
    PROVE  Asked(l, old, new, asks) <=> Editor!Of(l, Editor!Changes(old, new)) \subseteq asks
<1>1. ASSUME Asked(l, old, new, asks) PROVE Editor!Of(l, Editor!Changes(old, new)) \subseteq asks
  BY <1>1 DEF Asked, Editor!Of, Editor!Changes
<1>2. ASSUME Editor!Of(l, Editor!Changes(old, new)) \subseteq asks PROVE Asked(l, old, new, asks)
  <2>1. \A c \in Editor!Changes(old, new) : <<l, c[1], c[2]>> \in asks
    BY <1>2 DEF Editor!Of
  <2>2. ASSUME NEW k \in Editor!PlainFields, new[k] # old[k] PROVE <<l, k, new[k]>> \in asks
    <3>1. <<k, new[k]>> \in Editor!Changes(old, new)
      BY <2>2 DEF Editor!Changes
    <3> QED BY <2>1, <3>1
  <2>3. ASSUME NEW f \in Fields, new.metadata[f] # old.metadata[f] PROVE <<l, f, new.metadata[f]>> \in asks
    <3>1. <<f, new.metadata[f]>> \in Editor!Changes(old, new)
      BY <2>3 DEF Editor!Changes
    <3> QED BY <2>1, <3>1
  <2> QED BY <2>2, <2>3 DEF Asked
<1> QED BY <1>1, <1>2

\* What was asked of two steps.
LEMMA AskedTwice ==
    ASSUME NEW l, NEW first, NEW second, NEW third, NEW asks, NEW more,
           Asked(l, first, second, asks), asks \subseteq more, Asked(l, second, third, more)
    PROVE  Asked(l, first, third, more)
<1>1. ASSUME NEW k \in Editor!PlainFields, third[k] # first[k] PROVE <<l, k, third[k]>> \in more
  BY <1>1 DEF Asked
<1>2. ASSUME NEW f \in Fields, third.metadata[f] # first.metadata[f] PROVE <<l, f, third.metadata[f]>> \in more
  BY <1>2 DEF Asked
<1> QED BY <1>1, <1>2 DEF Asked

LEMMA FitsMore ==
    ASSUME NEW l, NEW copy, NEW asks, NEW more, Fits(l, copy, asks), asks \subseteq more PROVE Fits(l, copy, more)
BY DEF Fits, Asked

\* A copy that was changed as asked.
LEMMA FitsChanged ==
    ASSUME NEW l, NEW copy, NEW next, NEW asks, NEW more, Fits(l, copy, asks), asks \subseteq more,
           next.version = copy.version, Asked(l, copy, next, more)
    PROVE  Fits(l, next, more)
BY AskedTwice DEF Fits

\* A Location is saved as the next version, or stays.
Newer(l) == UNCHANGED Saved(l) \/ Saved(l)'.version = Saved(l).version + 1

LEMMA FitsSaved ==
    ASSUME EditTypes, records' \in Editor!Directory, NEW l \in Locations, NEW copy, NEW asks,
           copy.version \in Nat, Fits(l, copy, asks), Newer(l)
    PROVE  Fits(l, copy, asks)'
<1>1. Saved(l).version \in Nat /\ Saved(l)'.version \in Nat
  BY DEF EditTypes, Saved, Editor!Directory, Editor!LocationData
<1>2. CASE UNCHANGED Saved(l)
  BY <1>2 DEF Fits, Asked
<1>3. CASE Saved(l)'.version = Saved(l).version + 1
  BY <1>1, <1>3 DEF Fits
<1> QED BY <1>2, <1>3 DEF Newer

LEMMA SavedType ==
    ASSUME EditTypes, NEW l \in Locations
    PROVE  Saved(l) \in Editor!LocationData /\ Saved(l).version \in Nat
BY DEF EditTypes, Saved, Editor!Directory, Editor!LocationData

LEMMA ShownType ==
    ASSUME EditTypes, NEW t \in Tabs, NEW l \in Locations
    PROVE  display[t].locations[l] \in Editor!LocationData /\ display[t].locations[l].version \in Nat
BY DEF EditTypes, Editor!Directory, Editor!LocationData

LEMMA WriteType ==
    ASSUME EditTypes, NEW n \in Numbers, Editor!Sending(n), NEW w \in saves[n].writes.locations
    PROVE  w \in LocationWrites /\ w.id \in Locations /\ w.data \in Sheet /\ w.data.version \in Nat
<1>1. saves[n].writes \in Writes
  BY DEF EditTypes, SaveShaped
<1> QED BY <1>1 DEF Writes, LocationWrites, Sheet

-----------------------------------------------------------------------------
(* The start.                                                               *)

LEMMA InitEdits == EditsInit => EditInv
<1> SUFFICES ASSUME EditsInit PROVE EditInv
  OBVIOUS
<1>1. scope \in Edits /\ Editor!Init
  BY DEF EditsInit
<1>2. PICK data \in Editor!Fresh, n \in Names, h \in Schedules, v \in Choices :
        records = [locations |-> [l \in Locations |-> data], people |-> [p \in People |-> [name |-> n, version |-> 0]],
                   templates |-> [u \in Templates |-> h],
                   definitions |-> [f \in Fields |-> [valid |-> {v}, retired |-> FALSE]]]
  BY <1>1 DEF Editor!Init
<1>3. data \in Editor!LocationData
  BY DEF Editor!Fresh, Editor!LocationData
<1>4. records \in Editor!Directory
  BY <1>2, <1>3 DEF Editor!Directory, Editor!Definition
<1>5. /\ display = [t \in Tabs |-> records] /\ form = [t \in Tabs |-> None]
      /\ asked = [t \in Tabs |-> {}] /\ saves = [k \in 1 .. MaxEdits |-> None]
  BY <1>1 DEF Editor!Init
<1>6. \A k \in Numbers : ~Editor!Sending(k) /\ ~Waits(k)
  BY <1>5 DEF Numbers, Editor!Sending, Waits
<1>7. EditTypes
  BY <1>1, <1>4, <1>5, <1>6 DEF EditTypes, Numbers
<1>8. CopiesFit
  <2>1. \A l \in Locations : Saved(l).version \in Nat
    BY <1>7, SavedType
  <2>2. \A t \in Tabs, l \in Locations : display[t].locations[l] = Saved(l)
    BY <1>5 DEF Saved
  <2>3. \A t \in Tabs, l \in Locations : Fits(l, display[t].locations[l], asked[t])
    BY <2>1, <2>2 DEF Fits, Asked
  <2> QED BY <1>5, <1>6, <2>3 DEF CopiesFit
<1>9. CopiesNotPast
  BY <1>6 DEF CopiesNotPast
<1>10. Editor!MetadataDefined
  <2> SUFFICES ASSUME NEW l \in Locations, NEW f \in Fields, records.locations[l].metadata[f] # None
      PROVE  records.definitions[f] # None /\ records.locations[l].metadata[f] \in records.definitions[f].valid
    BY DEF Editor!MetadataDefined
  <2>1. records.locations[l].metadata[f] \in records.definitions[f].valid \cup {None}
    BY <1>1 DEF Editor!Init
  <2>2. records.definitions[f] \in Editor!Definition
    BY <1>2 DEF Editor!Definition
  <2> QED BY <2>1, <2>2, EditsAssumption DEF Editor!Apart
<1> QED BY <1>7, <1>8, <1>9, <1>10 DEF EditInv

LEMMA EditsStay ==
    EditInv /\ UNCHANGED <<scope, records, display, form, saves, asked>> => EditInv'
<1> SUFFICES ASSUME EditInv, UNCHANGED <<scope, records, display, form, saves, asked>> PROVE EditInv'
  OBVIOUS
<1>1. /\ \A n : Editor!Sending(n)' = Editor!Sending(n) /\ Waits(n)' = Waits(n)
      /\ \A l : Saved(l)' = Saved(l)
      /\ \A l, copy, asks : Fits(l, copy, asks)' = Fits(l, copy, asks)
      /\ \A n, w, version : NotPast(n, w, version)' = NotPast(n, w, version)
      /\ \A c : (FormShaped(c)' = FormShaped(c)) /\ (SaveShaped(c)' = SaveShaped(c)) /\ (AnswerShaped(c)' = AnswerShaped(c))
  BY DEF Editor!Sending, Waits, Saved, Fits, Asked, NotPast, FormShaped, SaveShaped, AnswerShaped
<1>2. EditTypes'
  BY <1>1 DEF EditInv, EditTypes
<1>3. CopiesFit'
  BY <1>1 DEF EditInv, CopiesFit
<1>4. CopiesNotPast'
  BY <1>1 DEF EditInv, CopiesNotPast
<1>5. Editor!MetadataDefined'
  BY DEF EditInv, Editor!MetadataDefined
<1> QED BY <1>2, <1>3, <1>4, <1>5 DEF EditInv

-----------------------------------------------------------------------------
(* The form.                                                                *)

\* A form on a copy that fits and that no save of the tab forbids.
GoodForm(t, f) ==
    /\ FormShaped(f)
    /\ Fits(f.id, f.base, f.asked) /\ Fits(f.id, f.data, f.asked) /\ f.data.version = f.base.version
    /\ \A n \in Numbers : Waits(n) /\ saves[n].tab = t /\ saves[n].stage # "refused" =>
         \A w \in saves[n].writes.locations : w.id = f.id => NotPast(n, w, f.base.version)

LEMMA FormChanges ==
    ASSUME EditInv, UNCHANGED <<scope, records, display, saves, asked>>, NEW t \in Tabs,
           DOMAIN form' = Tabs, form'[t] # None => GoodForm(t, form'[t]), \A u \in Tabs : u # t => form'[u] = form[u]
    PROVE  EditInv'
<1>1. /\ \A n : Editor!Sending(n)' = Editor!Sending(n) /\ Waits(n)' = Waits(n)
      /\ \A l : Saved(l)' = Saved(l)
      /\ \A l, copy, asks : Fits(l, copy, asks)' = Fits(l, copy, asks)
      /\ \A n, w, version : NotPast(n, w, version)' = NotPast(n, w, version)
      /\ \A c : (FormShaped(c)' = FormShaped(c)) /\ (SaveShaped(c)' = SaveShaped(c)) /\ (AnswerShaped(c)' = AnswerShaped(c))
  BY DEF Editor!Sending, Waits, Saved, Fits, Asked, NotPast, FormShaped, SaveShaped, AnswerShaped
<1>3. EditTypes'
  BY <1>1 DEF EditInv, EditTypes, GoodForm
<1>4. CopiesFit'
  <2>1. \A u \in Tabs : form'[u] # None =>
            /\ Fits(form'[u].id, form'[u].base, form'[u].asked) /\ Fits(form'[u].id, form'[u].data, form'[u].asked)
            /\ form'[u].data.version = form'[u].base.version
    BY DEF EditInv, CopiesFit, GoodForm
  <2> QED BY <1>1, <2>1 DEF EditInv, CopiesFit
<1>5. CopiesNotPast'
  <2> SUFFICES ASSUME NEW n \in Numbers, Waits(n), saves[n].stage # "refused",
                      NEW w \in saves[n].writes.locations, NEW u, u = saves[n].tab
      PROVE  form'[u] # None /\ form'[u].id = w.id => NotPast(n, w, form'[u].base.version)
    BY <1>1 DEF EditInv, CopiesNotPast
  <2>1. u \in Tabs
    BY DEF EditInv, EditTypes, Waits, SaveShaped
  <2>2. CASE u = t
    BY <2>2 DEF GoodForm
  <2>3. CASE u # t
    BY <2>1, <2>3 DEF EditInv, CopiesNotPast
  <2> QED BY <2>2, <2>3
<1>6. Editor!MetadataDefined'
  BY DEF EditInv, Editor!MetadataDefined
<1> QED BY <1>3, <1>4, <1>5, <1>6 DEF EditInv

LEMMA OpenKeeps == ASSUME EditInv, UNCHANGED scope, NEW t \in Tabs, Editor!Open(t) PROVE EditInv'
<1>1. PICK l \in Locations : form' = [form EXCEPT ![t] =
        [id |-> l, base |-> display[t].locations[l], data |-> display[t].locations[l], asked |-> asked[t], saving |-> None]]
  BY DEF Editor!Open
<1> DEFINE f == [id |-> l, base |-> display[t].locations[l], data |-> display[t].locations[l], asked |-> asked[t],
                 saving |-> None]
<1>2. FormShaped(f)
  BY ShownType DEF EditInv, FormShaped
<1>3. Fits(l, display[t].locations[l], asked[t])
  BY DEF EditInv, CopiesFit
<1>4. \A n \in Numbers : Waits(n) /\ saves[n].tab = t /\ saves[n].stage # "refused" =>
        \A w \in saves[n].writes.locations : w.id = l => NotPast(n, w, display[t].locations[l].version)
  BY DEF EditInv, CopiesNotPast
<1>5. GoodForm(t, f)
  BY <1>2, <1>3, <1>4 DEF GoodForm
<1>6. DOMAIN form' = Tabs /\ form'[t] = f /\ \A u \in Tabs : u # t => form'[u] = form[u]
  BY <1>1 DEF EditInv, EditTypes
<1> QED BY <1>5, <1>6, FormChanges DEF Editor!Open

LEMMA LeaveKeeps == ASSUME EditInv, UNCHANGED scope, NEW t \in Tabs, Editor!Leave(t) PROVE EditInv'
<1>1. DOMAIN form' = Tabs /\ form'[t] = None /\ \A u \in Tabs : u # t => form'[u] = form[u]
  BY DEF EditInv, EditTypes, Editor!Leave
<1> QED BY <1>1, FormChanges DEF Editor!Leave

\* What is filled in is asked for.
LEMMA FilledType ==
    ASSUME EditInv, NEW t \in Tabs, form[t] # None, NEW data \in Editor!Filled(t)
    PROVE  data \in Editor!LocationData /\ data.version = form[t].data.version
<1>1. form[t].data \in Editor!LocationData /\ display[t] \in Editor!Directory
  BY DEF EditInv, EditTypes, FormShaped
<1> DEFINE now == form[t].data
<1>2. CASE data \in {[now EXCEPT !.hours = h, !.mode = "custom"] : h \in Schedules}
  BY <1>1, <1>2 DEF Editor!LocationData
<1>3. CASE data \in {[now EXCEPT !.hours = display[t].templates[u], !.template = u, !.mode = "template"] :
                u \in {v \in Templates : display[t].templates[v] # None}}
  <2>1. PICK u \in Templates : /\ display[t].templates[u] # None
            /\ data = [now EXCEPT !.hours = display[t].templates[u], !.template = u, !.mode = "template"]
    BY <1>3
  <2>2. display[t].templates[u] \in Schedules
    BY <1>1, <2>1 DEF Editor!Directory
  <2> QED BY <1>1, <2>1, <2>2 DEF Editor!LocationData
<1>4. CASE data \in {[now EXCEPT !.manager = p] : p \in People \cup {None}}
  BY <1>1, <1>4 DEF Editor!LocationData
<1>5. ASSUME NEW x \in Fields \X (Choices \cup {None}), data = [now EXCEPT !.metadata[x[1]] = x[2]]
      PROVE  data \in Editor!LocationData /\ data.version = now.version
  <2>1. [now.metadata EXCEPT ![x[1]] = x[2]] \in [Fields -> Choices \cup {None}]
    BY <1>1, <1>5 DEF Editor!LocationData
  <2> QED BY <1>1, <1>5, <2>1 DEF Editor!LocationData
<1> QED BY <1>2, <1>3, <1>4, <1>5 DEF Editor!Filled

LEMMA FillKeeps == ASSUME EditInv, UNCHANGED scope, NEW t \in Tabs, Editor!Fill(t) PROVE EditInv'
<1>1. PICK data \in Editor!Filled(t) :
        form' = [form EXCEPT ![t].data = data,
                             ![t].asked = @ \cup Editor!Of(form[t].id, Editor!Changes(form[t].data, data))]
  BY DEF Editor!Fill
<1> DEFINE g == form[t]
           more == g.asked \cup Editor!Of(g.id, Editor!Changes(g.data, data))
           f == form'[t]
<1>2. form[t] # None /\ FormShaped(g) /\ DOMAIN form = Tabs
  BY DEF Editor!Fill, EditInv, EditTypes
<1>3. DOMAIN form' = Tabs /\ \A u \in Tabs : u # t => form'[u] = form[u]
  BY <1>1, <1>2
<1>4. data \in Editor!LocationData /\ data.version = g.data.version
  BY <1>2, FilledType
<1>5. FormShaped(f) /\ f.id = g.id /\ f.base = g.base /\ f.data = data /\ f.asked = more
  BY <1>1, <1>2, <1>4 DEF FormShaped
<1>6. Fits(g.id, g.base, g.asked) /\ Fits(g.id, g.data, g.asked) /\ g.data.version = g.base.version
  BY <1>2 DEF EditInv, CopiesFit
<1>7. Asked(g.id, g.data, data, more)
  BY AskedOf
<1>8. Fits(g.id, g.base, more) /\ Fits(g.id, data, more)
  BY <1>4, <1>6, <1>7, FitsMore, FitsChanged
<1>9. \A n \in Numbers : Waits(n) /\ saves[n].tab = t /\ saves[n].stage # "refused" =>
        \A w \in saves[n].writes.locations : w.id = g.id => NotPast(n, w, g.base.version)
  BY <1>2 DEF EditInv, CopiesNotPast
<1>10. GoodForm(t, f)
  BY <1>4, <1>5, <1>6, <1>8, <1>9 DEF GoodForm
<1> QED BY <1>3, <1>10, FormChanges DEF Editor!Fill

-----------------------------------------------------------------------------
(* Saves are sent.                                                          *)

LEMMA NextIsUnsent ==
    ASSUME EditInv, Editor!Unsent # {} PROVE Editor!NextCall \in Numbers /\ ~Editor!Sending(Editor!NextCall)
BY DEF Editor!Unsent, Editor!NextCall, Editor!Sending, Numbers

\* What the versions of copies are, whatever holds them.
LEMMA VersionTypes ==
    ASSUME EditInv
    PROVE  /\ \A t \in Tabs : form[t] # None => form[t].id \in Locations /\ form[t].base.version \in Nat
           /\ \A n \in Numbers : Editor!Sending(n) =>
                /\ saves[n].tab \in Tabs
                /\ \A l \in DOMAIN saves[n].undo.locations :
                        l \in Locations /\ saves[n].undo.locations[l].version \in Nat
<1>1. ASSUME NEW t \in Tabs, form[t] # None PROVE form[t].id \in Locations /\ form[t].base.version \in Nat
  BY <1>1 DEF EditInv, EditTypes, FormShaped, Editor!LocationData
<1>2. ASSUME NEW n \in Numbers, Editor!Sending(n)
      PROVE  /\ saves[n].tab \in Tabs
             /\ \A l \in DOMAIN saves[n].undo.locations : l \in Locations /\ saves[n].undo.locations[l].version \in Nat
  BY <1>2 DEF EditInv, EditTypes, SaveShaped, Editor!LocationData
<1> QED BY <1>1, <1>2

\* Nothing is newer than what is saved: a save that is sent may be refused or
\* expects the saved one.
LEMMA SentNotPast ==
    ASSUME NEW n, NEW w, NEW version, w.data.version \in Nat, version \in Nat, Saved(w.id).version \in Nat,
           saves[n].stage = "sent", version <= Saved(w.id).version
    PROVE  NotPast(n, w, version)
BY DEF NotPast

\* A save of a tab that holds nothing newer for it.
Dispatches(t, n, c) ==
    /\ UNCHANGED <<scope, records>>
    /\ ~Editor!Sending(n) /\ saves' = [saves EXCEPT ![n] = c]
    /\ SaveShaped(c) /\ c.tab = t /\ c.stage = "sent" /\ c.waiting
    /\ \A l \in DOMAIN c.undo.locations :
         Fits(l, c.undo.locations[l], asked'[t]) /\ c.undo.locations[l].version = display[t].locations[l].version
    /\ \A w \in c.writes.locations :
         /\ Fits(w.id, Proposed(w, Saved(w.id)), c.asked)
         /\ \/ w.data.version = display[t].locations[w.id].version
            \/ form[t] # None /\ w.id = form[t].id /\ w.data.version = form[t].base.version
    /\ display' \in [Tabs -> Editor!Directory] /\ \A u \in Tabs : u # t => display'[u] = display[u]
    /\ \A l \in Locations : Fits(l, display'[t].locations[l], asked'[t])
                            /\ display'[t].locations[l].version = display[t].locations[l].version
    /\ DOMAIN asked' = Tabs /\ asked[t] \subseteq asked'[t] /\ \A u \in Tabs : u # t => asked'[u] = asked[u]
    /\ DOMAIN form' = Tabs
    /\ \A u \in Tabs : form'[u] # None =>
         /\ form[u] # None /\ FormShaped(form'[u]) /\ form'[u].id = form[u].id
         /\ form'[u].base = form[u].base /\ form'[u].data = form[u].data /\ form'[u].asked = form[u].asked

LEMMA SendKeeps ==
    ASSUME EditInv, NEW t \in Tabs, NEW n \in Numbers, NEW c, Dispatches(t, n, c) PROVE EditInv'
<1>1. /\ \A l : Saved(l)' = Saved(l)
      /\ \A l, copy, asks : Fits(l, copy, asks)' = Fits(l, copy, asks)
  BY DEF Dispatches, Saved, Fits, Asked
<1>2. /\ DOMAIN saves' = Numbers /\ saves'[n] = c
      /\ \A m \in Numbers : m # n => saves'[m] = saves[m]
  BY DEF EditInv, EditTypes, Dispatches
<1>3. /\ \A m \in Numbers : m # n => /\ Editor!Sending(m)' = Editor!Sending(m) /\ Waits(m)' = Waits(m)
                                    /\ \A w, version : NotPast(m, w, version)' = NotPast(m, w, version)
      /\ ~Waits(n)
  BY <1>1, <1>2 DEF Dispatches, Editor!Sending, Waits, NotPast
<1>4. EditTypes'
  <2>1. \A m \in Numbers : Editor!Sending(m)' => SaveShaped(saves'[m])
    BY <1>2, <1>3 DEF EditInv, EditTypes, Dispatches
  <2>2. \A m \in Numbers : Waits(m)' /\ saves'[m].stage = "saved" => AnswerShaped(saves[m]) /\ m # n
    BY <1>2, <1>3 DEF EditInv, EditTypes, Dispatches
  <2>3. \A k : AnswerShaped(k)' = AnswerShaped(k)
    BY <1>1 DEF AnswerShaped
  <2>4. \A m \in Numbers : Waits(m)' /\ saves'[m].stage = "saved" => AnswerShaped(saves[m])' /\ saves'[m] = saves[m]
    BY <1>2, <2>2, <2>3
  <2>5. \A m \in Numbers : (Waits(m) /\ saves[m].stage = "saved" => AnswerShaped(saves[m]))'
    BY <2>4
  <2>6. \A m \in Numbers : (Editor!Sending(m) => SaveShaped(saves[m]))'
    BY <2>1 DEF SaveShaped
  <2>7. scope' \in Edits /\ records' \in Editor!Directory
    BY DEF EditInv, EditTypes, Dispatches
  <2>8. \A u \in Tabs : (form[u] # None => FormShaped(form[u]))'
    BY DEF Dispatches, FormShaped
  <2> QED BY <1>2, <2>5, <2>6, <2>7, <2>8 DEF Dispatches, EditTypes
<1>5. \A w \in c.writes.locations :
        w.id \in Locations /\ w.data.version \in Nat /\ w.data.version <= Saved(w.id).version
  <2> SUFFICES ASSUME NEW w \in c.writes.locations
      PROVE  w.id \in Locations /\ w.data.version \in Nat /\ w.data.version <= Saved(w.id).version
    OBVIOUS
  <2>1. w \in LocationWrites /\ w.data \in Sheet
    BY DEF Dispatches, SaveShaped, Writes, LocationWrites
  <2>2. Proposed(w, Saved(w.id)).version = w.data.version
    BY <2>1 DEF Proposed, Sheet
  <2> QED BY <2>1, <2>2 DEF Dispatches, Fits, LocationWrites, Sheet
<1>6. CopiesFit'
  <2>1. \A u \in Tabs, l \in Locations : Fits(l, display'[u].locations[l], asked'[u])
    BY DEF EditInv, CopiesFit, Dispatches
  <2>2. \A u \in Tabs : form'[u] # None =>
            /\ Fits(form'[u].id, form'[u].base, form'[u].asked) /\ Fits(form'[u].id, form'[u].data, form'[u].asked)
            /\ form'[u].data.version = form'[u].base.version
    BY DEF EditInv, CopiesFit, Dispatches
  <2>3. ASSUME NEW m \in Numbers, Waits(m)', NEW l \in DOMAIN saves'[m].undo.locations
        PROVE  Fits(l, saves'[m].undo.locations[l], asked'[saves'[m].tab])
    <3>1. CASE m = n
      BY <1>2, <2>3, <3>1 DEF Dispatches
    <3>2. CASE m # n
      <4>1. Waits(m) /\ saves'[m] = saves[m] /\ saves[m].tab \in Tabs
        BY <1>2, <1>3, <2>3, <3>2, VersionTypes DEF Waits
      <4>2. Fits(l, saves[m].undo.locations[l], asked[saves[m].tab])
        BY <2>3, <4>1 DEF EditInv, CopiesFit
      <4>3. asked[saves[m].tab] \subseteq asked'[saves[m].tab]
        BY <4>1 DEF Dispatches
      <4> QED BY <4>1, <4>2, <4>3, FitsMore
    <3> QED BY <3>1, <3>2
  <2>4. ASSUME NEW m \in Numbers, Editor!Sending(m)', NEW w \in saves'[m].writes.locations
        PROVE  /\ w.data.version <= Saved(w.id).version
               /\ saves'[m].stage = "sent" => Fits(w.id, Proposed(w, Saved(w.id)), saves'[m].asked)
    <3>1. CASE m = n
      BY <1>2, <1>5, <2>4, <3>1 DEF Dispatches
    <3>2. CASE m # n
      BY <1>2, <1>3, <2>4, <3>2 DEF EditInv, CopiesFit
    <3> QED BY <3>1, <3>2
  <2>5. \A w, old : Proposed(w, old)' = Proposed(w, old)
    BY DEF Proposed
  <2> QED BY <1>1, <2>1, <2>2, <2>3, <2>4, <2>5 DEF CopiesFit
<1>7. CopiesNotPast'
  <2> SUFFICES ASSUME NEW m \in Numbers, Waits(m)', saves'[m].stage # "refused",
                      NEW w \in saves'[m].writes.locations, NEW u, u = saves'[m].tab
      PROVE  /\ NotPast(m, w, display[u].locations[w.id].version)'
             /\ form'[u] # None /\ form'[u].id = w.id => NotPast(m, w, form[u].base.version)'
             /\ \A k \in Numbers : Waits(k)' /\ saves'[k].tab = u =>
                  /\ w.id \in DOMAIN saves'[k].undo.locations => NotPast(m, w, saves[k].undo.locations[w.id].version)'
                  /\ \A v \in saves'[k].writes.locations : v.id = w.id => NotPast(m, w, v.data.version)'
                  /\ saves'[k].stage = "saved" /\ saves'[m].stage = "saved" =>
                        \A v \in saves'[k].writes.locations : v.id = w.id => m = k
    BY DEF CopiesNotPast
  <2>1. CASE m # n
    <3>1. Waits(m) /\ saves'[m] = saves[m] /\ u \in Tabs /\ w \in saves[m].writes.locations /\ saves[m].stage # "refused"
          /\ saves[m].tab = u /\ w.id \in Locations
      BY <1>2, <1>3, <2>1, VersionTypes, WriteType DEF Waits, EditInv
    <3>2. NotPast(m, w, display[u].locations[w.id].version) /\ (form[u] # None /\ form[u].id = w.id => NotPast(m, w, form[u].base.version))
      BY <3>1 DEF EditInv, CopiesNotPast
    <3>3. \A version : NotPast(m, w, version)' = NotPast(m, w, version)
      BY <1>3, <2>1
    <3>4. display'[u].locations[w.id].version = display[u].locations[w.id].version
      BY <3>1 DEF Dispatches
    <3>5. ASSUME NEW k \in Numbers, Waits(k)', saves'[k].tab = u
          PROVE  /\ w.id \in DOMAIN saves'[k].undo.locations => NotPast(m, w, saves'[k].undo.locations[w.id].version)
                 /\ \A v \in saves'[k].writes.locations : v.id = w.id => NotPast(m, w, v.data.version)
                 /\ saves'[k].stage = "saved" /\ saves'[m].stage = "saved" =>
                        \A v \in saves'[k].writes.locations : v.id = w.id => m = k
      <4>1. CASE k # n
        BY <1>2, <1>3, <3>1, <3>5, <4>1 DEF EditInv, CopiesNotPast
      <4>2. CASE k = n
        BY <1>2, <3>1, <3>2, <3>5, <4>2 DEF Dispatches
      <4> QED BY <4>1, <4>2
    <3>6. form'[u] # None => form[u] # None /\ form'[u].id = form[u].id /\ form'[u].base = form[u].base
      BY <3>1 DEF Dispatches
    <3>7. /\ NotPast(m, w, display[u].locations[w.id].version)'
          /\ form'[u] # None /\ form'[u].id = w.id => NotPast(m, w, form[u].base.version)'
      <4>1. NotPast(m, w, display'[u].locations[w.id].version)
            /\ (form'[u] # None /\ form'[u].id = w.id => NotPast(m, w, form'[u].base.version))
        BY <3>2, <3>4, <3>6
      <4> QED BY <3>3, <4>1
    <3>8. \A k \in Numbers : Waits(k)' /\ saves'[k].tab = u =>
            /\ w.id \in DOMAIN saves'[k].undo.locations => NotPast(m, w, saves[k].undo.locations[w.id].version)'
            /\ \A v \in saves'[k].writes.locations : v.id = w.id => NotPast(m, w, v.data.version)'
      BY <3>3, <3>5
    <3> QED BY <3>5, <3>7, <3>8
  <2>2. CASE m = n
    <3>1. u = t /\ w \in c.writes.locations /\ w.id \in Locations /\ w.data.version \in Nat /\ saves'[m].stage = "sent"
          /\ Saved(w.id).version \in Nat
      BY <1>2, <1>5, <2>2, SavedType DEF Dispatches, EditInv
    <3>2. ASSUME NEW version, version \in Nat, version <= Saved(w.id).version
          PROVE  version <= w.data.version \/ (saves'[m].stage = "sent" /\ Saved(w.id).version > w.data.version)
      BY <3>1, <3>2
    <3>3. \A version \in Nat : version <= Saved(w.id).version => NotPast(m, w, version)'
      BY <1>1, <3>2 DEF NotPast
    <3>4. display[t].locations[w.id].version \in Nat /\ display[t].locations[w.id].version <= Saved(w.id).version
      BY <3>1, ShownType DEF EditInv, CopiesFit, Fits
    <3>5. form'[t] # None /\ form'[t].id = w.id => form'[t].base.version \in Nat /\ form'[t].base.version <= Saved(w.id).version
      BY <3>1, VersionTypes DEF Dispatches, EditInv, CopiesFit, Fits
    <3>6. ASSUME NEW k \in Numbers, Waits(k)', saves'[k].tab = u
          PROVE  /\ w.id \in DOMAIN saves'[k].undo.locations =>
                        saves'[k].undo.locations[w.id].version \in Nat
                        /\ saves'[k].undo.locations[w.id].version <= Saved(w.id).version
                 /\ \A v \in saves'[k].writes.locations : v.id = w.id =>
                        v.data.version \in Nat /\ v.data.version <= Saved(w.id).version
      <4>1. CASE k # n
        BY <1>2, <1>3, <3>1, <3>6, <4>1, VersionTypes, WriteType DEF EditInv, CopiesFit, Fits, Waits
      <4>2. CASE k = n
        BY <1>2, <1>5, <3>1, <3>4, <3>6, <4>2 DEF Dispatches
      <4> QED BY <4>1, <4>2
    <3>7. display'[t].locations[w.id].version = display[t].locations[w.id].version
      BY <3>1 DEF Dispatches
    <3>8. NotPast(m, w, display[u].locations[w.id].version)'
             /\ (form'[u] # None /\ form'[u].id = w.id => NotPast(m, w, form[u].base.version)')
      BY <3>1, <3>3, <3>4, <3>5, <3>7
    <3>9. ASSUME NEW k \in Numbers, Waits(k)', saves'[k].tab = u
          PROVE  /\ w.id \in DOMAIN saves'[k].undo.locations => NotPast(m, w, saves[k].undo.locations[w.id].version)'
                 /\ \A v \in saves'[k].writes.locations : v.id = w.id => NotPast(m, w, v.data.version)'
      BY <3>3, <3>6, <3>9
    <3> QED BY <3>1, <3>8, <3>9
  <2> QED BY <2>1, <2>2
<1>8. Editor!MetadataDefined'
  BY DEF EditInv, Editor!MetadataDefined, Dispatches
<1> QED BY <1>4, <1>6, <1>7, <1>8 DEF EditInv

\* A write is asked for if what it names is.
LEMMA ProposedFits ==
    ASSUME EditInv, NEW l \in Locations, NEW w \in LocationWrites, NEW asks, w.data.version <= Saved(l).version,
           w.data.version = Saved(l).version =>
               /\ \A k \in Editor!PlainFields : w.data[k] # Saved(l)[k] => <<l, k, w.data[k]>> \in asks
                                                    \/ (k = "manager" /\ w.data[k] = Kept)
               /\ \A f \in Fields : w.data.metadata[f] # Saved(l).metadata[f] => <<l, f, w.data.metadata[f]>> \in asks
    PROVE  Fits(l, Proposed(w, Saved(l)), asks)
<1> DEFINE p == Proposed(w, Saved(l))
<1>1. w.data \in Sheet /\ Saved(l) \in Editor!LocationData
  BY SavedType DEF LocationWrites, EditInv
<1>2. /\ p.version = w.data.version /\ p.metadata = w.data.metadata
      /\ p["manager"] = IF w.data["manager"] = Kept THEN Saved(l)["manager"] ELSE w.data["manager"]
      /\ \A k \in Editor!PlainFields \ {"manager"} : p[k] = w.data[k]
  BY <1>1 DEF Proposed, Sheet, Editor!PlainFields
<1>3. ASSUME w.data.version = Saved(l).version PROVE Asked(l, Saved(l), p, asks)
  <2>1. ASSUME NEW k \in Editor!PlainFields, p[k] # Saved(l)[k] PROVE <<l, k, p[k]>> \in asks
    <3>1. CASE k = "manager"
      BY <1>2, <1>3, <2>1, <3>1
    <3>2. CASE k # "manager"
      BY <1>2, <1>3, <2>1, <3>2
    <3> QED BY <3>1, <3>2
  <2>2. ASSUME NEW f \in Fields, p.metadata[f] # Saved(l).metadata[f] PROVE <<l, f, p.metadata[f]>> \in asks
    BY <1>2, <1>3, <2>2
  <2> QED BY <2>1, <2>2 DEF Asked
<1> HIDE DEF p
<1> QED BY <1>2, <1>3 DEF Fits, p

LEMMA OptimisticKeeps ==
    ASSUME EditInv, UNCHANGED scope, NEW t \in Tabs, NEW writes \in Writes, NEW undo,
           NEW locations \in [Locations -> Editor!LocationData], NEW people \in [People -> Person],
           NEW templates \in [Templates -> Schedules \cup {None}],
           Editor!Optimistic(t, writes, locations, people, templates, undo),
           \A l \in Locations : locations[l].version = display[t].locations[l].version,
           \A w \in writes.locations : w = Editor!LocationWrite(w.id, locations[w.id]),
           \A l \in DOMAIN undo.locations : l \in Locations /\ undo.locations[l] = display[t].locations[l],
           \A p \in DOMAIN undo.people : p \in People /\ undo.people[p] \in Person
    PROVE  EditInv'
<1> DEFINE n == Editor!NextCall
           asks == asked[t] \cup
               UNION {Editor!Of(l, Editor!Changes(display[t].locations[l], locations[l])) : l \in Locations}
           c == [tab |-> t, writes |-> writes, undo |-> undo, asked |-> asks,
                 stage |-> "sent", waiting |-> TRUE, result |-> None]
<1>1. /\ n \in Numbers /\ ~Editor!Sending(n) /\ saves' = [saves EXCEPT ![n] = c]
      /\ display' = [display EXCEPT ![t].locations = locations, ![t].people = people, ![t].templates = templates]
      /\ asked' = [asked EXCEPT ![t] = asks] /\ UNCHANGED <<records, form>>
  BY NextIsUnsent DEF Editor!Optimistic, Editor!Send
<1>2. \A l \in Locations : Fits(l, locations[l], asks)
  <2> TAKE l \in Locations
  <2>1. Asked(l, display[t].locations[l], locations[l], asks)
    BY AskedOf
  <2>2. Fits(l, display[t].locations[l], asked[t])
    BY DEF EditInv, CopiesFit
  <2> QED BY <2>1, <2>2, FitsChanged
<1>3. \A w \in writes.locations : Fits(w.id, Proposed(w, Saved(w.id)), asks) /\ w.id \in Locations
                                  /\ w.data.version = display[t].locations[w.id].version
  <2> TAKE w \in writes.locations
  <2> DEFINE l == w.id
             data == locations[l]
  <2>1. w \in LocationWrites /\ l \in Locations /\ w.data = [data EXCEPT !.manager = IF @ = None THEN Kept ELSE @]
        /\ data \in Editor!LocationData
    BY DEF Writes, LocationWrites, Editor!LocationWrite
  <2>2. Fits(l, data, asks)
    BY <1>2, <2>1
  <2>3. /\ w.data.version = data.version /\ w.data.metadata = data.metadata
        /\ \A k \in Editor!PlainFields : w.data[k] = data[k] \/ (k = "manager" /\ w.data[k] = Kept)
    BY <2>1 DEF Editor!LocationData, Editor!PlainFields
  <2>4. /\ w.data.version <= Saved(l).version
        /\ w.data.version = Saved(l).version =>
               /\ \A k \in Editor!PlainFields : w.data[k] # Saved(l)[k] => <<l, k, w.data[k]>> \in asks
                                                    \/ (k = "manager" /\ w.data[k] = Kept)
               /\ \A f \in Fields : w.data.metadata[f] # Saved(l).metadata[f] => <<l, f, w.data.metadata[f]>> \in asks
    BY <2>2, <2>3 DEF Fits, Asked
  <2> HIDE DEF asks, data
  <2>5. Fits(l, Proposed(w, Saved(l)), asks)
    BY <2>1, <2>4, ProposedFits
  <2> QED BY <2>1, <2>3, <2>5 DEF data
<1>4. /\ display' \in [Tabs -> Editor!Directory] /\ display'[t].locations = locations
      /\ \A u \in Tabs : u # t => display'[u] = display[u]
  <2>1. display \in [Tabs -> Editor!Directory] /\ display[t] \in Editor!Directory
    BY DEF EditInv, EditTypes
  <2>2. /\ DOMAIN display' = Tabs /\ display' = [u \in Tabs |-> display'[u]]
        /\ \A u \in Tabs : u # t => display'[u] = display[u]
    BY <1>1, <2>1
  <2>3. display'[t] = [[[display[t] EXCEPT !.locations = locations] EXCEPT !.people = people] EXCEPT !.templates = templates]
    BY <1>1, <2>1
  <2>4. display'[t] \in Editor!Directory /\ display'[t].locations = locations
    BY <2>1, <2>3 DEF Editor!Directory, Person
  <2> QED BY <2>1, <2>2, <2>4
<1>5. SaveShaped(c)
  BY DEF SaveShaped, EditInv, EditTypes, Editor!Directory
<1>6. asked'[t] = asks /\ DOMAIN asked' = Tabs /\ \A u \in Tabs : u # t => asked'[u] = asked[u]
  BY <1>1 DEF EditInv, EditTypes
<1>7. \A l \in DOMAIN undo.locations : Fits(l, undo.locations[l], asks)
  BY FitsMore DEF EditInv, CopiesFit
<1> HIDE DEF n, asks
<1>8. asked[t] \subseteq asks
  BY DEF asks
<1>9. \A u \in Tabs : form[u] # None => FormShaped(form[u])
  BY DEF EditInv, EditTypes
<1>10. c.tab = t /\ c.stage = "sent" /\ c.waiting /\ c.writes = writes /\ c.undo = undo /\ c.asked = asks
  OBVIOUS
<1> HIDE DEF c
<1>11. /\ \A l \in DOMAIN c.undo.locations :
            Fits(l, c.undo.locations[l], asked'[t]) /\ c.undo.locations[l].version = display[t].locations[l].version
       /\ \A w \in c.writes.locations :
            Fits(w.id, Proposed(w, Saved(w.id)), c.asked) /\ w.data.version = display[t].locations[w.id].version
  BY <1>3, <1>6, <1>7, <1>10
<1>12. \A l \in Locations : Fits(l, display'[t].locations[l], asked'[t])
                            /\ display'[t].locations[l].version = display[t].locations[l].version
  BY <1>2, <1>4, <1>6
<1>13. DOMAIN form' = Tabs /\ form' = form
  BY <1>1 DEF EditInv, EditTypes
<1>14. \A u \in Tabs : form'[u] # None =>
         /\ form[u] # None /\ FormShaped(form'[u]) /\ form'[u].id = form[u].id
         /\ form'[u].base = form[u].base /\ form'[u].data = form[u].data /\ form'[u].asked = form[u].asked
  BY <1>9, <1>13
<1>15. asked[t] \subseteq asked'[t]
  BY <1>6, <1>8
<1>16. Dispatches(t, n, c)
  BY <1>1, <1>4, <1>5, <1>6, <1>10, <1>11, <1>12, <1>13, <1>14, <1>15 DEF Dispatches
<1> QED BY <1>1, <1>16, SendKeeps

LEMMA WrittenLocation ==
    ASSUME NEW l \in Locations, NEW data \in Editor!LocationData
    PROVE  Editor!LocationWrite(l, data) \in LocationWrites /\ Editor!LocationWrite(l, data).id = l
BY DEF Editor!LocationWrite, LocationWrites, Sheet, Editor!LocationData

LEMMA NothingWritten ==
    /\ Editor!Nothing \in Writes
    /\ Editor!Nothing.locations = {} /\ Editor!Nothing.definitions = {}
    /\ DOMAIN Editor!NoUndo.locations = {} /\ DOMAIN Editor!NoUndo.people = {}
    /\ \A locations : [Editor!Nothing EXCEPT !.locations = locations].locations = locations
    /\ \A locations \in SUBSET LocationWrites : [Editor!Nothing EXCEPT !.locations = locations] \in Writes
BY DEF Editor!Nothing, Editor!NoUndo, Writes

LEMMA VerifyKeeps == ASSUME EditInv, UNCHANGED scope, NEW t \in Tabs, Editor!Verify(t) PROVE EditInv'
<1> DEFINE now == display[t].locations
<1>1. /\ now \in [Locations -> Editor!LocationData] /\ display[t].people \in [People -> Person]
      /\ display[t].templates \in [Templates -> Schedules \cup {None}]
  BY DEF EditInv, EditTypes, Editor!Directory, Person
<1>2. PICK l \in Locations :
        Editor!Optimistic(t, [Editor!Nothing EXCEPT !.locations =
                                {Editor!LocationWrite(l, [now EXCEPT ![l].verifiedBy = t][l])}],
                          [now EXCEPT ![l].verifiedBy = t], display[t].people, display[t].templates,
                          [Editor!NoUndo EXCEPT !.locations = [k \in {l} |-> now[l]]])
  BY DEF Editor!Verify
<1> DEFINE next == [now EXCEPT ![l].verifiedBy = t]
           writes == [Editor!Nothing EXCEPT !.locations = {Editor!LocationWrite(l, next[l])}]
           undo == [Editor!NoUndo EXCEPT !.locations = [k \in {l} |-> now[l]]]
<1>3. next \in [Locations -> Editor!LocationData] /\ \A k \in Locations : next[k].version = now[k].version
  BY <1>1 DEF Editor!LocationData
<1>4. /\ writes \in Writes /\ writes.locations = {Editor!LocationWrite(l, next[l])}
      /\ \A w \in writes.locations : w = Editor!LocationWrite(w.id, next[w.id])
  <2> HIDE DEF next
  <2>1. Editor!LocationWrite(l, next[l]) \in LocationWrites /\ Editor!LocationWrite(l, next[l]).id = l
    BY <1>3, WrittenLocation
  <2> QED BY <2>1, NothingWritten
<1>5. /\ \A k \in DOMAIN undo.locations : k \in Locations /\ undo.locations[k] = now[k]
      /\ \A p \in DOMAIN undo.people : p \in People /\ undo.people[p] \in Person
  <2>1. undo.locations = [k \in {l} |-> now[l]] /\ undo.people = Editor!NoUndo.people
    BY DEF Editor!NoUndo
  <2> QED BY <2>1, NothingWritten
<1>6. Editor!Optimistic(t, writes, next, display[t].people, display[t].templates, undo)
  BY <1>2
<1> HIDE DEF next, writes, undo
<1> QED BY <1>1, <1>3, <1>4, <1>5, <1>6, OptimisticKeeps

\* Writes of some Locations as they are shown next.
LEMMA WrittenLocations ==
    ASSUME NEW S \in SUBSET Locations, NEW next \in [Locations -> Editor!LocationData],
           NEW W, W = {Editor!LocationWrite(l, next[l]) : l \in S}
    PROVE  W \in SUBSET LocationWrites /\ \A w \in W : w = Editor!LocationWrite(w.id, next[w.id])
<1> SUFFICES ASSUME NEW w \in W PROVE w \in LocationWrites /\ w = Editor!LocationWrite(w.id, next[w.id])
  OBVIOUS
<1>1. PICK l \in S : w = Editor!LocationWrite(l, next[l])
  OBVIOUS
<1>2. w \in LocationWrites /\ w.id = l
  BY <1>1, WrittenLocation
<1> QED BY <1>1, <1>2

LEMMA UpdateTemplateKeeps == ASSUME EditInv, UNCHANGED scope, NEW t \in Tabs, Editor!UpdateTemplate(t) PROVE EditInv'
<1> DEFINE now == display[t].locations
           following(u) == {l \in Locations : now[l].template = u /\ now[l].mode = "template"}
           next(u, h) == [l \in Locations |-> IF l \in following(u) THEN [now[l] EXCEPT !.hours = h] ELSE now[l]]
           locations(u, h) == {Editor!LocationWrite(l, next(u, h)[l]) : l \in following(u)}
           writes(u, h) == [Editor!Nothing EXCEPT !.locations = locations(u, h), !.templates = {[id |-> u, data |-> h]}]
           templates(u, h) == [display[t].templates EXCEPT ![u] = h]
<1>1. /\ now \in [Locations -> Editor!LocationData] /\ display[t].people \in [People -> Person]
      /\ display[t].templates \in [Templates -> Schedules \cup {None}]
  BY DEF EditInv, EditTypes, Editor!Directory, Person
<1>2. PICK u \in Templates, h \in Schedules :
        Editor!Optimistic(t, writes(u, h), next(u, h), display[t].people, templates(u, h), Editor!NoUndo)
  BY DEF Editor!UpdateTemplate
<1>3. next(u, h) \in [Locations -> Editor!LocationData] /\ \A k \in Locations : next(u, h)[k].version = now[k].version
  BY <1>1 DEF Editor!LocationData
<1>4. templates(u, h) \in [Templates -> Schedules \cup {None}]
  BY <1>1
<1> HIDE DEF next
<1>5. /\ locations(u, h) \in SUBSET LocationWrites
      /\ \A w \in locations(u, h) : w = Editor!LocationWrite(w.id, next(u, h)[w.id])
  BY <1>3, WrittenLocations
<1> HIDE DEF locations
<1>6. writes(u, h) \in Writes /\ writes(u, h).locations = locations(u, h)
  <2>1. {[id |-> u, data |-> h]} \in SUBSET TemplateWrites
    BY <1>4 DEF TemplateWrites
  <2> QED BY <1>5, <2>1, NothingWritten DEF Writes
<1>7. /\ \A l \in DOMAIN Editor!NoUndo.locations : l \in Locations /\ Editor!NoUndo.locations[l] = now[l]
      /\ \A p \in DOMAIN Editor!NoUndo.people : p \in People /\ Editor!NoUndo.people[p] \in Person
  BY NothingWritten
<1>8. \A w \in writes(u, h).locations : w = Editor!LocationWrite(w.id, next(u, h)[w.id])
  BY <1>5, <1>6
<1> HIDE DEF writes, templates
<1> QED BY <1>1, <1>2, <1>3, <1>4, <1>6, <1>7, <1>8, OptimisticKeeps

LEMMA DeleteTemplateKeeps == ASSUME EditInv, UNCHANGED scope, NEW t \in Tabs, Editor!DeleteTemplate(t) PROVE EditInv'
<1> DEFINE now == display[t].locations
           using(u) == {l \in Locations : now[l].template = u}
           next(u) == [l \in Locations |-> IF l \in using(u)
                          THEN [now[l] EXCEPT !.template = None, !.mode = "custom"] ELSE now[l]]
           locations(u) == {Editor!LocationWrite(l, next(u)[l]) : l \in using(u)}
           writes(u) == [Editor!Nothing EXCEPT !.locations = locations(u), !.templates = {[id |-> u, data |-> None]}]
           templates(u) == [display[t].templates EXCEPT ![u] = None]
<1>1. /\ now \in [Locations -> Editor!LocationData] /\ display[t].people \in [People -> Person]
      /\ display[t].templates \in [Templates -> Schedules \cup {None}]
  BY DEF EditInv, EditTypes, Editor!Directory, Person
<1>2. PICK u \in Templates :
        Editor!Optimistic(t, writes(u), next(u), display[t].people, templates(u), Editor!NoUndo)
  BY DEF Editor!DeleteTemplate
<1>3. next(u) \in [Locations -> Editor!LocationData] /\ \A k \in Locations : next(u)[k].version = now[k].version
  BY <1>1 DEF Editor!LocationData
<1>4. templates(u) \in [Templates -> Schedules \cup {None}]
  BY <1>1
<1> HIDE DEF next
<1>5. /\ locations(u) \in SUBSET LocationWrites
      /\ \A w \in locations(u) : w = Editor!LocationWrite(w.id, next(u)[w.id])
  BY <1>3, WrittenLocations
<1> HIDE DEF locations
<1>6. writes(u) \in Writes /\ writes(u).locations = locations(u)
  <2>1. {[id |-> u, data |-> None]} \in SUBSET TemplateWrites
    BY <1>4 DEF TemplateWrites
  <2> QED BY <1>5, <2>1, NothingWritten DEF Writes
<1>7. /\ \A l \in DOMAIN Editor!NoUndo.locations : l \in Locations /\ Editor!NoUndo.locations[l] = now[l]
      /\ \A p \in DOMAIN Editor!NoUndo.people : p \in People /\ Editor!NoUndo.people[p] \in Person
  BY NothingWritten
<1>8. \A w \in writes(u).locations : w = Editor!LocationWrite(w.id, next(u)[w.id])
  BY <1>5, <1>6
<1> HIDE DEF writes, templates
<1> QED BY <1>1, <1>2, <1>3, <1>4, <1>6, <1>7, <1>8, OptimisticKeeps

LEMMA RenameKeeps == ASSUME EditInv, UNCHANGED scope, NEW t \in Tabs, Editor!Rename(t) PROVE EditInv'
<1> DEFINE now == display[t].locations
           managed(p) == {l \in Locations : now[l].manager = p}
           next(p, n) == [l \in Locations |-> IF l \in managed(p) THEN [now[l] EXCEPT !.managerName = n] ELSE now[l]]
           person(p, n) == [display[t].people[p] EXCEPT !.name = n]
           locations(p, n) == {Editor!LocationWrite(l, next(p, n)[l]) : l \in managed(p)}
           writes(p, n) == [Editor!Nothing EXCEPT !.locations = locations(p, n), !.people = {[id |-> p, data |-> person(p, n)]}]
           people(p, n) == [display[t].people EXCEPT ![p] = person(p, n)]
           undo(p) == [locations |-> now, people |-> [q \in {p} |-> display[t].people[p]]]
<1>1. /\ now \in [Locations -> Editor!LocationData] /\ display[t].people \in [People -> Person]
      /\ display[t].templates \in [Templates -> Schedules \cup {None}]
  BY DEF EditInv, EditTypes, Editor!Directory, Person
<1>2. PICK p \in People, n \in Names :
        Editor!Optimistic(t, writes(p, n), next(p, n), people(p, n), display[t].templates, undo(p))
  BY DEF Editor!Rename
<1>3. next(p, n) \in [Locations -> Editor!LocationData] /\ \A k \in Locations : next(p, n)[k].version = now[k].version
  BY <1>1 DEF Editor!LocationData
<1>4. person(p, n) \in Person /\ people(p, n) \in [People -> Person]
  BY <1>1 DEF Person
<1> HIDE DEF next, person
<1>5. /\ locations(p, n) \in SUBSET LocationWrites
      /\ \A w \in locations(p, n) : w = Editor!LocationWrite(w.id, next(p, n)[w.id])
  BY <1>3, WrittenLocations
<1> HIDE DEF locations
<1>6. writes(p, n) \in Writes /\ writes(p, n).locations = locations(p, n)
  <2>1. {[id |-> p, data |-> person(p, n)]} \in SUBSET PeopleWrites
    BY <1>4 DEF PeopleWrites
  <2> QED BY <1>5, <2>1, NothingWritten DEF Writes
<1>7. /\ \A l \in DOMAIN undo(p).locations : l \in Locations /\ undo(p).locations[l] = now[l]
      /\ \A q \in DOMAIN undo(p).people : q \in People /\ undo(p).people[q] \in Person
  BY <1>1
<1>8. \A w \in writes(p, n).locations : w = Editor!LocationWrite(w.id, next(p, n)[w.id])
  BY <1>5, <1>6
<1> HIDE DEF writes, people, undo
<1> QED BY <1>1, <1>2, <1>3, <1>4, <1>6, <1>7, <1>8, OptimisticKeeps

LEMMA SaveDefinitionKeeps == ASSUME EditInv, UNCHANGED scope, NEW t \in Tabs, Editor!SaveDefinition(t) PROVE EditInv'
<1>1. PICK f \in Fields, definition \in Editor!Definition :
        /\ Editor!Send(t, [Editor!Nothing EXCEPT !.definitions =
                    {[id |-> f, data |-> definition, expected |-> display[t].definitions[f]]}], Editor!NoUndo, asked[t])
        /\ UNCHANGED <<records, display, form, asked, failures>>
  BY DEF Editor!SaveDefinition
<1> DEFINE n == Editor!NextCall
           writes == [Editor!Nothing EXCEPT !.definitions =
                    {[id |-> f, data |-> definition, expected |-> display[t].definitions[f]]}]
           c == [tab |-> t, writes |-> writes, undo |-> Editor!NoUndo, asked |-> asked[t],
                 stage |-> "sent", waiting |-> TRUE, result |-> None]
<1>2. n \in Numbers /\ ~Editor!Sending(n) /\ saves' = [saves EXCEPT ![n] = c]
  BY <1>1, NextIsUnsent DEF Editor!Send
<1>3. writes \in Writes /\ writes.locations = {}
  <2>1. display[t].definitions[f] \in Editor!Definition \cup {None}
    BY DEF EditInv, EditTypes, Editor!Directory
  <2>2. {[id |-> f, data |-> definition, expected |-> display[t].definitions[f]]} \in SUBSET DefinitionWrites
    BY <2>1 DEF DefinitionWrites
  <2>3. Editor!Nothing \in Writes /\ writes.locations = Editor!Nothing.locations
    BY NothingWritten DEF Editor!Nothing
  <2> QED BY <2>2, <2>3, NothingWritten DEF Writes
<1> HIDE DEF writes
<1>4. SaveShaped(c)
  BY <1>3, NothingWritten DEF SaveShaped
<1>5. c.tab = t /\ c.stage = "sent" /\ c.waiting /\ c.writes = writes /\ c.undo = Editor!NoUndo
  OBVIOUS
<1> HIDE DEF n, c
<1>6. /\ display' \in [Tabs -> Editor!Directory] /\ display' = display /\ asked' = asked /\ form' = form
      /\ DOMAIN asked' = Tabs /\ DOMAIN form' = Tabs /\ UNCHANGED <<scope, records>>
  BY <1>1 DEF EditInv, EditTypes
<1>7. \A l \in Locations : Fits(l, display'[t].locations[l], asked'[t])
                           /\ display'[t].locations[l].version = display[t].locations[l].version
  BY <1>6 DEF EditInv, CopiesFit
<1>8. \A u \in Tabs : form'[u] # None =>
         /\ form[u] # None /\ FormShaped(form'[u]) /\ form'[u].id = form[u].id
         /\ form'[u].base = form[u].base /\ form'[u].data = form[u].data /\ form'[u].asked = form[u].asked
  BY <1>6 DEF EditInv, EditTypes
<1>9. /\ \A l \in DOMAIN c.undo.locations :
         Fits(l, c.undo.locations[l], asked'[t]) /\ c.undo.locations[l].version = display[t].locations[l].version
      /\ c.writes.locations = {}
  BY <1>3, <1>5, NothingWritten
<1>10. Dispatches(t, n, c)
  BY <1>2, <1>4, <1>5, <1>6, <1>7, <1>8, <1>9 DEF Dispatches
<1> QED BY <1>2, <1>10, SendKeeps

\* What the form saves, and what that asks of the copied name.
Staffing(t) == Editor!Staffed(t, form[t].base, form[t].data)
NameAsked(t) == IF Staffing(t).manager = form[t].base.manager THEN {}
                ELSE {<<form[t].id, "managerName", Staffing(t).managerName>>}
Submitted(t) == [id |-> form[t].id, expected |-> form[t].base.metadata,
    data |-> [Editor!Cleared(t, Staffing(t)) EXCEPT !.version = Editor!Expected(t),
                    !.metadata = Editor!Retained(display[t].definitions, @, form[t].base.metadata)]]

LEMMA SubmittedFits ==
    ASSUME EditInv, NEW t \in Tabs, form[t] # None
    PROVE  /\ Submitted(t) \in LocationWrites
           /\ Submitted(t).id = form[t].id /\ Submitted(t).data.version = form[t].base.version
           /\ Fits(Submitted(t).id, Proposed(Submitted(t), Saved(Submitted(t).id)), form[t].asked \cup NameAsked(t))
<1> DEFINE base == form[t].base
           data == Staffing(t)
           name == NameAsked(t)
           w == Submitted(t)
<1>a. /\ base = form[t].base /\ data = Editor!Staffed(t, base, form[t].data)
      /\ name = IF data.manager = base.manager THEN {} ELSE {<<form[t].id, "managerName", data.managerName>>}
      /\ w = [id |-> form[t].id, expected |-> base.metadata,
              data |-> [Editor!Cleared(t, data) EXCEPT !.version = Editor!Expected(t),
                                !.metadata = Editor!Retained(display[t].definitions, @, base.metadata)]]
  BY DEF Staffing, NameAsked, Submitted
<1> HIDE DEF base, data, name, w
<1> USE <1>a
<1> DEFINE l == form[t].id
           filled == form[t].data
           asks == form[t].asked \cup name
<1>1. /\ l \in Locations /\ base \in Editor!LocationData /\ filled \in Editor!LocationData
      /\ display[t] \in Editor!Directory
  BY DEF EditInv, EditTypes, FormShaped
<1>2. /\ Fits(l, base, form[t].asked) /\ Fits(l, filled, form[t].asked) /\ filled.version = base.version
  BY DEF EditInv, CopiesFit
<1>3. /\ data \in Editor!LocationData
      /\ data.metadata = filled.metadata
      /\ \A k \in Editor!PlainFields : data[k] = filled[k] \/ (k = "managerName" /\ data.manager # base.manager)
  <2>1. CASE filled.manager = base.manager
    BY <1>1, <2>1 DEF Editor!Staffed
  <2>2. CASE filled.manager # base.manager
    <3> DEFINE copied == IF filled.manager = None THEN None ELSE display[t].people[filled.manager].name
    <3>1. copied \in Names \cup {None}
      BY <1>1 DEF Editor!LocationData, Editor!Directory
    <3>2. data = [filled EXCEPT !.managerName = copied]
      BY <2>2 DEF Editor!Staffed
    <3> HIDE DEF copied
    <3> QED BY <1>1, <2>2, <3>1, <3>2 DEF Editor!LocationData, Editor!PlainFields
  <2> QED BY <2>1, <2>2
<1> DEFINE cleared == Editor!Cleared(t, data)
           kept == Editor!Retained(display[t].definitions, data.metadata, base.metadata)
<1>4. /\ cleared \in Sheet /\ cleared.metadata = data.metadata
      /\ \A k \in Editor!PlainFields : cleared[k] = data[k] \/ (k = "manager" /\ cleared[k] = Kept)
  BY <1>3 DEF Editor!Cleared, Editor!LocationData, Editor!PlainFields, Sheet
<1>5. /\ kept \in [Fields -> Choices \cup {None}]
      /\ \A f \in Fields : kept[f] \in {data.metadata[f], base.metadata[f]}
  BY <1>1, <1>3 DEF Editor!Retained, Editor!LocationData
<1>6. w = [id |-> l, expected |-> base.metadata, data |-> [cleared EXCEPT !.version = base.version, !.metadata = kept]]
  BY <1>4 DEF Editor!Expected
<1>7. base.version \in Nat /\ base.metadata \in [Fields -> Choices \cup {None}]
  BY <1>1 DEF Editor!LocationData
<1> HIDE DEF cleared, kept
<1> DEFINE sheet == [cleared EXCEPT !.version = base.version, !.metadata = kept]
<1>8. /\ sheet \in Sheet /\ sheet.version = base.version /\ sheet.metadata = kept
      /\ \A k \in Editor!PlainFields : sheet[k] = cleared[k]
  BY <1>4, <1>5, <1>7 DEF Sheet, Editor!PlainFields
<1> HIDE DEF sheet
<1>9. w.id = l /\ w.data = sheet /\ w \in LocationWrites
  BY <1>1, <1>6, <1>7, <1>8 DEF LocationWrites, sheet
<1>10. ASSUME base.version = Saved(l).version
       PROVE  /\ \A k \in Editor!PlainFields : sheet[k] # Saved(l)[k] => <<l, k, sheet[k]>> \in asks
                                                    \/ (k = "manager" /\ sheet[k] = Kept)
              /\ \A f \in Fields : sheet.metadata[f] # Saved(l).metadata[f] => <<l, f, sheet.metadata[f]>> \in asks
  <2>1. Asked(l, Saved(l), base, form[t].asked) /\ Asked(l, Saved(l), filled, form[t].asked)
    BY <1>2, <1>10 DEF Fits
  <2>2. ASSUME NEW f \in Fields, sheet.metadata[f] # Saved(l).metadata[f] PROVE <<l, f, sheet.metadata[f]>> \in asks
    BY <1>3, <1>5, <1>8, <2>1, <2>2 DEF Asked
  <2>3. ASSUME NEW k \in Editor!PlainFields, sheet[k] # Saved(l)[k], ~(k = "manager" /\ sheet[k] = Kept)
        PROVE  <<l, k, sheet[k]>> \in asks
    <3>1. sheet[k] = data[k]
      BY <1>4, <1>8, <2>3
    <3>2. CASE data[k] = filled[k]
      BY <2>1, <2>3, <3>1, <3>2 DEF Asked
    <3>3. CASE k = "managerName" /\ data.manager # base.manager
      BY <3>1, <3>3
    <3> QED BY <1>3, <3>2, <3>3
  <2> QED BY <2>2, <2>3
<1> HIDE DEF asks
<1>11. Fits(l, Proposed(w, Saved(l)), asks)
  <2>1. base.version <= Saved(l).version
    BY <1>2 DEF Fits
  <2> QED BY <1>1, <1>8, <1>9, <1>10, <2>1, ProposedFits
<1> QED BY <1>8, <1>9, <1>11 DEF asks, name, w

LEMMA SubmitKeeps == ASSUME EditInv, UNCHANGED scope, NEW t \in Tabs, Editor!Submit(t) PROVE EditInv'
<1> DEFINE w == Submitted(t)
           n == Editor!NextCall
           writes == [Editor!Nothing EXCEPT !.locations = {w}]
           asks == form[t].asked \cup NameAsked(t)
           c == [tab |-> t, writes |-> writes, undo |-> Editor!NoUndo, asked |-> asks,
                 stage |-> "sent", waiting |-> TRUE, result |-> None]
<1>1. /\ form[t] # None /\ Editor!Unsent # {} /\ saves' = [saves EXCEPT ![n] = c]
      /\ form' = [form EXCEPT ![t].saving = n] /\ UNCHANGED <<records, display, asked>>
  BY DEF Editor!Submit, Editor!Send, Submitted, NameAsked, Staffing
<1>2. n \in Numbers /\ ~Editor!Sending(n)
  BY <1>1, NextIsUnsent
<1>3. /\ w \in LocationWrites /\ w.id = form[t].id /\ w.data.version = form[t].base.version
      /\ Fits(w.id, Proposed(w, Saved(w.id)), asks)
  BY <1>1, SubmittedFits
<1> HIDE DEF w, asks
<1>4. writes \in Writes /\ writes.locations = {w}
  BY <1>3, NothingWritten
<1> HIDE DEF writes
<1>5. SaveShaped(c)
  BY <1>4, NothingWritten DEF SaveShaped
<1>6. c.tab = t /\ c.stage = "sent" /\ c.waiting /\ c.writes = writes /\ c.undo = Editor!NoUndo /\ c.asked = asks
  OBVIOUS
<1> HIDE DEF n, c
<1>7. /\ display' \in [Tabs -> Editor!Directory] /\ display' = display /\ asked' = asked
      /\ DOMAIN asked' = Tabs /\ UNCHANGED <<scope, records>>
  BY <1>1 DEF EditInv, EditTypes
<1>8. \A l \in Locations : Fits(l, display'[t].locations[l], asked'[t])
                           /\ display'[t].locations[l].version = display[t].locations[l].version
  BY <1>7 DEF EditInv, CopiesFit
<1>9. DOMAIN form' = Tabs /\ \A u \in Tabs : form'[u] # None =>
         /\ form[u] # None /\ FormShaped(form'[u]) /\ form'[u].id = form[u].id
         /\ form'[u].base = form[u].base /\ form'[u].data = form[u].data /\ form'[u].asked = form[u].asked
  <2>1. DOMAIN form = Tabs /\ \A u \in Tabs : form[u] # None => FormShaped(form[u])
    BY DEF EditInv, EditTypes
  <2>2. DOMAIN form' = Tabs /\ form'[t] = [form[t] EXCEPT !.saving = n] /\ \A u \in Tabs : u # t => form'[u] = form[u]
    BY <1>1, <2>1
  <2>3. /\ FormShaped(form'[t]) /\ form'[t].id = form[t].id
        /\ form'[t].base = form[t].base /\ form'[t].data = form[t].data /\ form'[t].asked = form[t].asked
    BY <1>1, <2>1, <2>2 DEF FormShaped
  <2> QED BY <1>1, <2>1, <2>2, <2>3
<1>10. /\ \A l \in DOMAIN c.undo.locations :
            Fits(l, c.undo.locations[l], asked'[t]) /\ c.undo.locations[l].version = display[t].locations[l].version
       /\ \A v \in c.writes.locations :
            Fits(v.id, Proposed(v, Saved(v.id)), c.asked) /\ v.id = form[t].id /\ v.data.version = form[t].base.version
  BY <1>3, <1>4, <1>6, NothingWritten
<1>11. Dispatches(t, n, c)
  BY <1>1, <1>2, <1>5, <1>6, <1>7, <1>8, <1>9, <1>10 DEF Dispatches
<1> QED BY <1>2, <1>11, SendKeeps

-----------------------------------------------------------------------------
(* The Directory is read.                                                   *)

LEMMA SavedFits == ASSUME EditInv, NEW l \in Locations, NEW asks PROVE Fits(l, Saved(l), asks)
BY SavedType DEF EditInv, Fits, Asked

\* A save nobody waits for any longer.
LEMMA Abandoned ==
    ASSUME NEW c, SaveShaped(c), NEW d, d = [c EXCEPT !.waiting = FALSE]
    PROVE  /\ SaveShaped(d) /\ d.tab = c.tab /\ d.writes = c.writes /\ d.undo = c.undo /\ d.asked = c.asked
           /\ d.stage = c.stage /\ d.result = c.result /\ d.waiting = FALSE
BY DEF SaveShaped

\* What saves remain: some are waited for no longer, some are over.
Remain(n) == \/ saves'[n] = saves[n]
             \/ ~Editor!Sending(n)'
             \/ Editor!Sending(n) /\ saves'[n] = [saves[n] EXCEPT !.waiting = FALSE]

LEMMA Remaining ==
    ASSUME EditInv, NEW n \in Numbers, Remain(n), Editor!Sending(n)'
    PROVE  /\ Editor!Sending(n) /\ SaveShaped(saves'[n])
           /\ saves'[n].tab = saves[n].tab /\ saves'[n].writes = saves[n].writes
           /\ saves'[n].asked = saves[n].asked /\ saves'[n].stage = saves[n].stage
           /\ Waits(n)' => Waits(n) /\ saves'[n] = saves[n]
<1>1. CASE saves'[n] = saves[n]
  BY <1>1 DEF EditInv, EditTypes, Editor!Sending, Waits
<1>2. CASE Editor!Sending(n) /\ saves'[n] = [saves[n] EXCEPT !.waiting = FALSE]
  <2>1. SaveShaped(saves[n])
    BY <1>2 DEF EditInv, EditTypes
  <2> QED BY <1>2, <2>1, Abandoned DEF Waits
<1> QED BY <1>1, <1>2 DEF Remain

\* A tab reads, or takes back, what fits and no remaining save forbids.
LEMMA ReadKeeps ==
    ASSUME EditInv, UNCHANGED <<scope, records>>, NEW t \in Tabs,
           DOMAIN saves' = Numbers, \A n \in Numbers : Remain(n),
           display' \in [Tabs -> Editor!Directory], \A u \in Tabs : u # t => display'[u] = display[u],
           DOMAIN asked' = Tabs, \A u \in Tabs : u # t => asked'[u] = asked[u],
           \A l \in Locations : Fits(l, display'[t].locations[l], asked'[t]),
           \A n \in Numbers : Waits(n)' /\ saves'[n].tab = t =>
               /\ \A l \in DOMAIN saves'[n].undo.locations : Fits(l, saves'[n].undo.locations[l], asked'[t])
               /\ saves'[n].stage # "refused" => \A w \in saves'[n].writes.locations :
                      NotPast(n, w, display'[t].locations[w.id].version),
           DOMAIN form' = Tabs,
           \A u \in Tabs : form'[u] # None =>
               /\ form[u] # None /\ FormShaped(form'[u]) /\ form'[u].id = form[u].id
               /\ form'[u].base = form[u].base /\ form'[u].data = form[u].data /\ form'[u].asked = form[u].asked
    PROVE  EditInv'
<1>1. /\ \A l : Saved(l)' = Saved(l)
      /\ \A l, copy, asks : Fits(l, copy, asks)' = Fits(l, copy, asks)
      /\ \A c : (FormShaped(c)' = FormShaped(c)) /\ (SaveShaped(c)' = SaveShaped(c)) /\ (AnswerShaped(c)' = AnswerShaped(c))
      /\ \A w, old : Proposed(w, old)' = Proposed(w, old)
  BY DEF Saved, Fits, Asked, FormShaped, SaveShaped, AnswerShaped, Proposed
<1>2. \A n \in Numbers : Waits(n)' => Editor!Sending(n)' /\ Waits(n) /\ saves'[n] = saves[n]
                                      /\ \A w, version : NotPast(n, w, version)' = NotPast(n, w, version)
  BY <1>1, Remaining DEF Waits, NotPast
<1>3. EditTypes'
  <2>1. \A n \in Numbers : Editor!Sending(n)' => SaveShaped(saves'[n])
    BY Remaining
  <2>2. \A n \in Numbers : Waits(n)' /\ saves'[n].stage = "saved" => AnswerShaped(saves'[n])
    BY <1>2 DEF EditInv, EditTypes
  <2>3. scope' \in Edits /\ records' \in Editor!Directory
    BY DEF EditInv, EditTypes
  <2>4. \A n \in Numbers : (Editor!Sending(n) => SaveShaped(saves[n]))' /\ (Waits(n) /\ saves[n].stage = "saved" => AnswerShaped(saves[n]))'
    BY <1>1, <2>1, <2>2
  <2>5. \A u \in Tabs : (form[u] # None => FormShaped(form[u]))'
    BY <1>1
  <2> QED BY <2>3, <2>4, <2>5 DEF EditTypes
<1>4. CopiesFit'
  <2>1. \A u \in Tabs, l \in Locations : Fits(l, display'[u].locations[l], asked'[u])
    BY DEF EditInv, CopiesFit
  <2>2. \A u \in Tabs : form'[u] # None =>
            /\ Fits(form'[u].id, form'[u].base, form'[u].asked) /\ Fits(form'[u].id, form'[u].data, form'[u].asked)
            /\ form'[u].data.version = form'[u].base.version
    BY DEF EditInv, CopiesFit
  <2>3. \A n \in Numbers : Waits(n)' => \A l \in DOMAIN saves'[n].undo.locations :
            Fits(l, saves'[n].undo.locations[l], asked'[saves'[n].tab])
    <3> SUFFICES ASSUME NEW n \in Numbers, Waits(n)', NEW l \in DOMAIN saves'[n].undo.locations
        PROVE  Fits(l, saves'[n].undo.locations[l], asked'[saves'[n].tab])
      OBVIOUS
    <3>1. saves'[n].tab \in Tabs
      BY <1>2, VersionTypes DEF Waits
    <3> QED BY <1>2, <3>1 DEF EditInv, CopiesFit
  <2>4. \A n \in Numbers : Editor!Sending(n)' => \A w \in saves'[n].writes.locations :
            /\ w.data.version <= Saved(w.id).version
            /\ saves'[n].stage = "sent" => Fits(w.id, Proposed(w, Saved(w.id)), saves'[n].asked)
    BY Remaining DEF EditInv, CopiesFit
  <2> QED BY <1>1, <2>1, <2>2, <2>3, <2>4 DEF CopiesFit
<1>5. CopiesNotPast'
  <2> SUFFICES ASSUME NEW n \in Numbers, Waits(n)', saves'[n].stage # "refused",
                      NEW w \in saves'[n].writes.locations, NEW u, u = saves'[n].tab
      PROVE  /\ NotPast(n, w, display[u].locations[w.id].version)'
             /\ form'[u] # None /\ form'[u].id = w.id => NotPast(n, w, form[u].base.version)'
             /\ \A k \in Numbers : Waits(k)' /\ saves'[k].tab = u =>
                  /\ w.id \in DOMAIN saves'[k].undo.locations => NotPast(n, w, saves[k].undo.locations[w.id].version)'
                  /\ \A v \in saves'[k].writes.locations : v.id = w.id => NotPast(n, w, v.data.version)'
                  /\ saves'[k].stage = "saved" /\ saves'[n].stage = "saved" =>
                        \A v \in saves'[k].writes.locations : v.id = w.id => n = k
    BY DEF CopiesNotPast
  <2>1. Waits(n) /\ saves'[n] = saves[n] /\ u \in Tabs
    BY <1>2, VersionTypes DEF Waits
  <2>2. \A version : NotPast(n, w, version)' = NotPast(n, w, version)
    BY <1>2
  <2>3. NotPast(n, w, display'[u].locations[w.id].version)
    BY <2>1 DEF EditInv, CopiesNotPast
  <2>4. form'[u] # None /\ form'[u].id = w.id => NotPast(n, w, form'[u].base.version)
    BY <2>1 DEF EditInv, CopiesNotPast
  <2>5. ASSUME NEW k \in Numbers, Waits(k)', saves'[k].tab = u
        PROVE  /\ w.id \in DOMAIN saves'[k].undo.locations => NotPast(n, w, saves'[k].undo.locations[w.id].version)
               /\ \A v \in saves'[k].writes.locations : v.id = w.id => NotPast(n, w, v.data.version)
               /\ saves'[k].stage = "saved" /\ saves'[n].stage = "saved" =>
                      \A v \in saves'[k].writes.locations : v.id = w.id => n = k
    BY <1>2, <2>1, <2>5 DEF EditInv, CopiesNotPast
  <2> QED BY <2>2, <2>3, <2>4, <2>5
<1>6. Editor!MetadataDefined'
  BY DEF EditInv, Editor!MetadataDefined
<1> QED BY <1>3, <1>4, <1>5, <1>6 DEF EditInv

LEMMA PollKeeps == ASSUME EditInv, UNCHANGED scope, NEW t \in Tabs, Editor!Poll(t) PROVE EditInv'
<1>1. /\ \A n \in Numbers : Waits(n) => saves[n].tab # t
      /\ display' = [display EXCEPT ![t] = [records EXCEPT !.definitions = display[t].definitions]]
      /\ asked' = [asked EXCEPT ![t] = {}] /\ UNCHANGED <<records, form, saves>>
  BY DEF Editor!Poll, Editor!Waiting, Waits, Numbers
<1>2. records \in Editor!Directory /\ display \in [Tabs -> Editor!Directory]
      /\ DOMAIN form = Tabs /\ DOMAIN asked = Tabs /\ DOMAIN saves = Numbers
      /\ \A u \in Tabs : form[u] # None => FormShaped(form[u])
  BY DEF EditInv, EditTypes
<1>3. /\ [records EXCEPT !.definitions = display[t].definitions] \in Editor!Directory
      /\ [records EXCEPT !.definitions = display[t].definitions].locations = records.locations
  BY <1>2 DEF Editor!Directory
<1>4. /\ display' \in [Tabs -> Editor!Directory] /\ display'[t].locations = records.locations
      /\ DOMAIN asked' = Tabs /\ \A u \in Tabs : u # t => display'[u] = display[u] /\ asked'[u] = asked[u]
  BY <1>1, <1>2, <1>3
<1>5. \A l \in Locations : Fits(l, display'[t].locations[l], asked'[t])
  <2>1. \A l \in Locations : display'[t].locations[l] = Saved(l)
    BY <1>4 DEF Saved
  <2> QED BY <2>1, SavedFits
<1>6. \A n \in Numbers : Remain(n) /\ ~(Waits(n)' /\ saves'[n].tab = t)
  BY <1>1 DEF Remain, Waits, Editor!Sending
<1> QED BY <1>1, <1>2, <1>4, <1>5, <1>6, ReadKeeps

LEMMA ReloadKeeps == ASSUME EditInv, UNCHANGED scope, NEW t \in Tabs, Editor!Reload(t) PROVE EditInv'
<1>1. /\ display' = [display EXCEPT ![t] = records] /\ form' = [form EXCEPT ![t] = None]
      /\ asked' = [asked EXCEPT ![t] = {}] /\ UNCHANGED records
      /\ saves' = [n \in Numbers |-> IF n \notin Editor!Waiting(t) THEN saves[n]
                    ELSE IF saves[n].stage = "sent" THEN [saves[n] EXCEPT !.waiting = FALSE] ELSE Done]
  BY DEF Editor!Reload, Numbers
<1>2. records \in Editor!Directory /\ display \in [Tabs -> Editor!Directory]
      /\ DOMAIN form = Tabs /\ DOMAIN asked = Tabs
      /\ \A u \in Tabs : form[u] # None => FormShaped(form[u])
  BY DEF EditInv, EditTypes
<1>3. /\ display' \in [Tabs -> Editor!Directory] /\ display'[t] = records
      /\ DOMAIN asked' = Tabs /\ \A u \in Tabs : u # t => display'[u] = display[u] /\ asked'[u] = asked[u]
      /\ DOMAIN form' = Tabs /\ form'[t] = None /\ \A u \in Tabs : u # t => form'[u] = form[u]
  BY <1>1, <1>2
<1>4. \A l \in Locations : Fits(l, display'[t].locations[l], asked'[t])
  <2>1. \A l \in Locations : display'[t].locations[l] = Saved(l)
    BY <1>3 DEF Saved
  <2> QED BY <2>1, SavedFits
<1>a. DOMAIN saves' = Numbers
  BY <1>1
<1>5. \A n \in Numbers : Remain(n) /\ ~(Waits(n)' /\ saves'[n].tab = t)
  <2> TAKE n \in Numbers
  <2>2. CASE n \notin Editor!Waiting(t)
    <3>1. saves'[n] = saves[n]
      BY <1>1, <2>2
    <3>2. Remain(n)
      BY <3>1 DEF Remain
    <3>3. ~(Waits(n)' /\ saves'[n].tab = t)
      BY <2>2, <3>1 DEF Waits, Editor!Waiting, Numbers, Editor!Sending
    <3> QED BY <3>2, <3>3
  <2>3. CASE n \in Editor!Waiting(t)
    <3>1. Editor!Sending(n) /\ SaveShaped(saves[n])
      BY <2>3 DEF Editor!Waiting, EditInv, EditTypes
    <3>2. CASE saves[n].stage = "sent"
      <4>1. saves'[n] = [saves[n] EXCEPT !.waiting = FALSE]
        BY <1>1, <2>3, <3>2
      <4>2. Remain(n)
        BY <3>1, <4>1 DEF Remain
      <4>3. ~Waits(n)'
        BY <3>1, <4>1, Abandoned DEF Waits
      <4> QED BY <4>2, <4>3
    <3>3. CASE saves[n].stage # "sent"
      <4>1. saves'[n] = Done
        BY <1>1, <2>3, <3>3
      <4>2. ~Editor!Sending(n)'
        BY <4>1 DEF Editor!Sending
      <4> QED BY <4>2 DEF Remain, Waits
    <3> QED BY <3>2, <3>3
  <2> QED BY <2>2, <2>3
<1>6. \A u \in Tabs : form'[u] # None =>
               /\ form[u] # None /\ FormShaped(form'[u]) /\ form'[u].id = form[u].id
               /\ form'[u].base = form[u].base /\ form'[u].data = form[u].data /\ form'[u].asked = form[u].asked
  BY <1>2, <1>3
<1> QED BY <1>1, <1>a, <1>3, <1>4, <1>5, <1>6, ReadKeeps

\* The form of a save that failed or was confirmed.
LEMMA FormReleased ==
    ASSUME EditInv, NEW t \in Tabs, NEW n,
           form' = [form EXCEPT ![t] = IF @ # None /\ @.saving = n THEN None ELSE @]
             \/ form' = [form EXCEPT ![t] = IF @ # None /\ @.saving = n THEN [@ EXCEPT !.saving = None] ELSE @]
    PROVE  /\ DOMAIN form' = Tabs
           /\ \A u \in Tabs : form'[u] # None =>
               /\ form[u] # None /\ FormShaped(form'[u]) /\ form'[u].id = form[u].id
               /\ form'[u].base = form[u].base /\ form'[u].data = form[u].data /\ form'[u].asked = form[u].asked
<1>1. DOMAIN form = Tabs /\ \A u \in Tabs : form[u] # None => FormShaped(form[u])
  BY DEF EditInv, EditTypes
<1>2. /\ DOMAIN form' = Tabs /\ \A u \in Tabs : u # t => form'[u] = form[u]
      /\ form'[t] \in {None, form[t]} \/ (form[t] # None /\ form'[t] = [form[t] EXCEPT !.saving = None])
  BY <1>1
<1>3. ASSUME form[t] # None, form'[t] = [form[t] EXCEPT !.saving = None]
      PROVE  /\ FormShaped(form'[t]) /\ form'[t].id = form[t].id
             /\ form'[t].base = form[t].base /\ form'[t].data = form[t].data /\ form'[t].asked = form[t].asked
  BY <1>1, <1>3 DEF FormShaped
<1> QED BY <1>1, <1>2, <1>3

LEMMA FailKeeps == ASSUME EditInv, UNCHANGED scope, NEW n \in Numbers, Editor!Fail(n) PROVE EditInv'
<1> DEFINE c == saves[n]
           t == c.tab
           now == display[t]
           Before(part) == [r \in DOMAIN now[part] |-> IF r \in DOMAIN c.undo[part] THEN c.undo[part][r] ELSE now[part][r]]
<1>1. /\ Waits(n) /\ Editor!Sending(n) /\ SaveShaped(c) /\ t \in Tabs
      /\ display' = [display EXCEPT ![t] = Editor!Undone(c)]
      /\ form' = [form EXCEPT ![t] = IF @ # None /\ @.saving = n THEN [@ EXCEPT !.saving = None] ELSE @]
      /\ saves' = [saves EXCEPT ![n] = IF c.stage = "sent" THEN [c EXCEPT !.waiting = FALSE] ELSE Done]
      /\ UNCHANGED <<records, asked>>
  BY DEF Editor!Fail, Waits, EditInv, EditTypes, SaveShaped
<1>2. display \in [Tabs -> Editor!Directory] /\ now \in Editor!Directory /\ DOMAIN asked = Tabs /\ DOMAIN saves = Numbers
  BY <1>1 DEF EditInv, EditTypes
<1>3. /\ Editor!Undone(c) \in Editor!Directory
      /\ \A l \in Locations : Editor!Undone(c).locations[l] =
            IF l \in DOMAIN c.undo.locations THEN c.undo.locations[l] ELSE now.locations[l]
  <2>1. /\ Before("locations") = [l \in Locations |->
                IF l \in DOMAIN c.undo.locations THEN c.undo.locations[l] ELSE now.locations[l]]
        /\ Before("people") = [p \in People |->
                IF p \in DOMAIN c.undo.people THEN c.undo.people[p] ELSE now.people[p]]
    BY <1>2 DEF Editor!Directory
  <2>2. Before("locations") \in [Locations -> Editor!LocationData] /\ Before("people") \in [People -> Person]
    BY <1>1, <1>2, <2>1 DEF Editor!Directory, SaveShaped, Person
  <2>3. Editor!Undone(c) = [now EXCEPT !.locations = Before("locations"), !.people = Before("people")]
    BY DEF Editor!Undone
  <2> HIDE DEF Before
  <2>4. Editor!Undone(c) \in Editor!Directory /\ Editor!Undone(c).locations = Before("locations")
    BY <1>2, <2>2, <2>3 DEF Editor!Directory, Person
  <2> QED BY <2>1, <2>4
<1> HIDE DEF t
<1>4. /\ display' \in [Tabs -> Editor!Directory] /\ display'[t] = Editor!Undone(c)
      /\ \A u \in Tabs : u # t => display'[u] = display[u]
  BY <1>1, <1>2, <1>3
<1>5. DOMAIN saves' = Numbers /\ ~Waits(n)' /\ Remain(n) /\ \A m \in Numbers : m # n => saves'[m] = saves[m] /\ Remain(m)
  <2>1. DOMAIN saves' = Numbers /\ \A m \in Numbers : m # n => saves'[m] = saves[m]
    BY <1>1, <1>2
  <2>2. CASE c.stage = "sent"
    <3>1. saves'[n] = [saves[n] EXCEPT !.waiting = FALSE]
      BY <1>1, <1>2, <2>2
    <3> QED BY <1>1, <2>1, <3>1, Abandoned DEF Remain, Waits
  <2>3. CASE c.stage # "sent"
    <3>1. saves'[n] = Done
      BY <1>1, <1>2, <2>3
    <3> QED BY <2>1, <3>1 DEF Remain, Waits, Editor!Sending
  <2> QED BY <2>2, <2>3
<1>6. \A l \in Locations : Fits(l, display'[t].locations[l], asked'[t])
  <2>1. \A l \in Locations : Fits(l, display[t].locations[l], asked[t])
    BY <1>1 DEF EditInv, CopiesFit
  <2>2. \A l \in DOMAIN c.undo.locations : Fits(l, c.undo.locations[l], asked[t])
    BY <1>1 DEF EditInv, CopiesFit, t
  <2> QED BY <1>1, <1>3, <1>4, <2>1, <2>2 DEF t
<1>7. ASSUME NEW m \in Numbers, Waits(m)', saves'[m].tab = t
      PROVE  /\ \A l \in DOMAIN saves'[m].undo.locations : Fits(l, saves'[m].undo.locations[l], asked'[t])
             /\ saves'[m].stage # "refused" => \A w \in saves'[m].writes.locations :
                    NotPast(m, w, display'[t].locations[w.id].version)
  <2>1. Waits(m) /\ Editor!Sending(m) /\ saves'[m] = saves[m] /\ saves[m].tab = t
    BY <1>5, <1>7 DEF Waits, Editor!Sending
  <2>2. \A l \in DOMAIN saves[m].undo.locations : Fits(l, saves[m].undo.locations[l], asked[t])
    BY <2>1 DEF EditInv, CopiesFit
  <2>3. ASSUME saves[m].stage # "refused", NEW w \in saves[m].writes.locations
        PROVE  NotPast(m, w, display'[t].locations[w.id].version)
    <3>1. w.id \in Locations
      BY <2>1, WriteType DEF EditInv
    <3>2. NotPast(m, w, display[t].locations[w.id].version)
      BY <2>1, <2>3 DEF EditInv, CopiesNotPast
    <3>3. w.id \in DOMAIN c.undo.locations => NotPast(m, w, c.undo.locations[w.id].version)
      BY <1>1, <2>1, <2>3 DEF EditInv, CopiesNotPast, t
    <3> QED BY <1>3, <1>4, <3>1, <3>2, <3>3 DEF t
  <2> QED BY <1>1, <2>1, <2>2, <2>3
<1>8. DOMAIN form' = Tabs /\ \A u \in Tabs : form'[u] # None =>
               /\ form[u] # None /\ FormShaped(form'[u]) /\ form'[u].id = form[u].id
               /\ form'[u].base = form[u].base /\ form'[u].data = form[u].data /\ form'[u].asked = form[u].asked
  BY <1>1, FormReleased
<1>9. \A m \in Numbers : Remain(m)
  BY <1>5
<1>10. DOMAIN asked' = Tabs /\ asked' = asked
  BY <1>1, <1>2
<1> QED BY <1>1, <1>4, <1>5, <1>6, <1>7, <1>8, <1>9, <1>10, ReadKeeps

-----------------------------------------------------------------------------
(* A save is confirmed.                                                     *)

LEMMA FitsCleared ==
    ASSUME NEW l, NEW copy, NEW asks, Fits(l, copy, asks), NEW S, l \notin S
    PROVE  Fits(l, copy, {x \in asks : x[1] \notin S})
<1> DEFINE less == {x \in asks : x[1] \notin S}
<1>1. \A k, value : <<l, k, value>> \in asks => <<l, k, value>> \in less
  OBVIOUS
<1> HIDE DEF less
<1> QED BY <1>1 DEF Fits, Asked, less

LEMMA ConfirmKeeps == ASSUME EditInv, UNCHANGED scope, NEW n \in Numbers, Editor!Confirm(n) PROVE EditInv'
<1> DEFINE c == saves[n]
           t == c.tab
           now == display[t]
           ids == Editor!IdsIn(c.writes.locations)
           New(part) == [r \in DOMAIN now[part] |->
                            IF r \in Editor!IdsIn(c.writes[part]) THEN c.result[part][r] ELSE now[part][r]]
           next == [now EXCEPT !.locations = New("locations"), !.people = New("people"),
                               !.definitions = New("definitions")]
<1>1. /\ Waits(n) /\ Editor!Sending(n) /\ c.stage = "saved" /\ SaveShaped(c) /\ AnswerShaped(c) /\ t \in Tabs
      /\ display' = [display EXCEPT ![t] = next]
      /\ form' = [form EXCEPT ![t] = IF @ # None /\ @.saving = n THEN None ELSE @]
      /\ saves' = [saves EXCEPT ![n] = Done]
      /\ asked' = [asked EXCEPT ![t] = {x \in @ : x[1] \notin ids}]
      /\ UNCHANGED records
  <2>1. Waits(n) /\ Editor!Sending(n) /\ c.stage = "saved" /\ UNCHANGED records
        /\ form' = [form EXCEPT ![t] = IF @ # None /\ @.saving = n THEN None ELSE @]
        /\ saves' = [saves EXCEPT ![n] = Done]
        /\ asked' = [asked EXCEPT ![t] = {x \in @ : x[1] \notin ids}]
    BY DEF Editor!Confirm, Waits
  <2>2. SaveShaped(c) /\ AnswerShaped(c) /\ t \in Tabs
    BY <2>1, VersionTypes DEF EditInv, EditTypes
  <2>3. display' = [display EXCEPT ![t] = next]
    BY Zenon DEF Editor!Confirm
  <2> QED BY <2>1, <2>2, <2>3
<1>2. display \in [Tabs -> Editor!Directory] /\ now \in Editor!Directory /\ DOMAIN asked = Tabs /\ DOMAIN saves = Numbers
  BY <1>1 DEF EditInv, EditTypes
<1>3. /\ next \in Editor!Directory
      /\ \A l \in Locations : next.locations[l] = IF l \in ids THEN c.result.locations[l] ELSE now.locations[l]
  <2>1. /\ New("locations") = [l \in Locations |->
                IF l \in ids THEN c.result.locations[l] ELSE now.locations[l]]
        /\ New("people") = [p \in People |->
                IF p \in Editor!IdsIn(c.writes.people) THEN c.result.people[p] ELSE now.people[p]]
        /\ New("definitions") = [f \in Fields |->
                IF f \in Editor!IdsIn(c.writes.definitions) THEN c.result.definitions[f] ELSE now.definitions[f]]
    BY <1>2 DEF Editor!Directory
  <2>2. /\ \A l \in ids : c.result.locations[l] \in Editor!LocationData
        /\ \A p \in Editor!IdsIn(c.writes.people) : c.result.people[p] \in Person
        /\ \A f \in Editor!IdsIn(c.writes.definitions) : c.result.definitions[f] \in Editor!Definition \cup {None}
    BY <1>1 DEF AnswerShaped, Editor!IdsIn
  <2>3. New("locations") \in [Locations -> Editor!LocationData]
    BY <1>2, <2>1, <2>2 DEF Editor!Directory
  <2>4. New("people") \in [People -> Person]
    BY <1>2, <2>1, <2>2 DEF Editor!Directory, Person
  <2>5. New("definitions") \in [Fields -> Editor!Definition \cup {None}]
    BY <1>2, <2>1, <2>2 DEF Editor!Directory
  <2> HIDE DEF New
  <2>6. next \in Editor!Directory /\ next.locations = New("locations")
    BY <1>2, <2>3, <2>4, <2>5 DEF Editor!Directory, Person
  <2> QED BY <2>1, <2>6
<1> HIDE DEF next
<1> HIDE DEF t
<1>4. /\ display' \in [Tabs -> Editor!Directory] /\ display'[t] = next
      /\ \A u \in Tabs : u # t => display'[u] = display[u]
      /\ DOMAIN asked' = Tabs /\ asked'[t] = {x \in asked[t] : x[1] \notin ids}
      /\ \A u \in Tabs : u # t => asked'[u] = asked[u]
  BY <1>1, <1>2, <1>3
<1>5. DOMAIN saves' = Numbers /\ ~Editor!Sending(n)' /\ \A m \in Numbers : m # n => saves'[m] = saves[m]
  BY <1>1, <1>2 DEF Editor!Sending
\* What is saved of a Location has passed what was expected.
<1>6. ASSUME NEW l \in ids
      PROVE  \E w \in c.writes.locations :
                /\ w.id = l /\ l \in Locations /\ w.data.version \in Nat
                /\ c.result.locations[l].version = w.data.version + 1
                /\ c.result.locations[l].version <= Saved(l).version /\ Saved(l).version \in Nat
                /\ c.result.locations[l].version = Saved(l).version => c.result.locations[l] = Saved(l)
  <2>1. PICK w \in c.writes.locations : w.id = l
    BY DEF Editor!IdsIn
  <2>2. w.id \in Locations /\ w.data.version \in Nat
    BY <1>1, WriteType DEF EditInv
  <2> QED BY <1>1, <2>1, <2>2, SavedType DEF AnswerShaped, EditInv
<1>7. \A l \in Locations : Fits(l, display'[t].locations[l], asked'[t])
  <2> TAKE l \in Locations
  <2>1. CASE l \in ids
    BY <1>3, <1>4, <1>6, <2>1 DEF Fits, Asked
  <2>2. CASE l \notin ids
    <3>1. Fits(l, display[t].locations[l], asked[t])
      BY <1>1 DEF EditInv, CopiesFit, t
    <3> QED BY <1>3, <1>4, <2>2, <3>1, FitsCleared DEF t
  <2> QED BY <2>1, <2>2
<1>8. ASSUME NEW m \in Numbers, Waits(m)', saves'[m].tab = t
      PROVE  /\ \A l \in DOMAIN saves'[m].undo.locations : Fits(l, saves'[m].undo.locations[l], asked'[t])
             /\ saves'[m].stage # "refused" => \A w \in saves'[m].writes.locations :
                    NotPast(m, w, display'[t].locations[w.id].version)
  <2>1. m # n /\ Waits(m) /\ Editor!Sending(m) /\ saves'[m] = saves[m] /\ saves[m].tab = t
    BY <1>5, <1>8 DEF Waits, Editor!Sending
  <2>2. ASSUME NEW l \in DOMAIN saves[m].undo.locations PROVE Fits(l, saves[m].undo.locations[l], asked'[t])
    <3> DEFINE copy == saves[m].undo.locations[l]
    <3>1. Fits(l, copy, asked[t]) /\ copy.version \in Nat
      BY <2>1, VersionTypes DEF EditInv, CopiesFit
    <3>2. CASE l \notin ids
      BY <1>4, <2>2, <3>1, <3>2, FitsCleared
    <3>3. CASE l \in ids
      <4>1. PICK w \in c.writes.locations :
                /\ w.id = l /\ w.data.version \in Nat /\ w.data.version + 1 <= Saved(l).version /\ Saved(l).version \in Nat
        BY <1>6, <3>3
      <4>2. NotPast(n, w, copy.version)
        BY <1>1, <2>1, <2>2, <4>1 DEF EditInv, CopiesNotPast, t
      <4>3. copy.version <= w.data.version
        BY <1>1, <4>2 DEF NotPast
      <4> QED BY <3>1, <4>1, <4>3 DEF Fits
    <3> QED BY <3>2, <3>3
  <2>3. ASSUME saves[m].stage # "refused", NEW w \in saves[m].writes.locations
        PROVE  NotPast(m, w, display'[t].locations[w.id].version)
    <3>1. w.id \in Locations /\ w.data.version \in Nat
      BY <2>1, WriteType DEF EditInv
    <3>2. CASE w.id \notin ids
      <4>1. NotPast(m, w, display[t].locations[w.id].version)
        BY <2>1, <2>3 DEF EditInv, CopiesNotPast
      <4> QED BY <1>3, <1>4, <3>1, <3>2, <4>1 DEF t
    <3>3. CASE w.id \in ids
      <4>1. PICK v \in c.writes.locations :
                /\ v.id = w.id /\ v.data.version \in Nat /\ Saved(w.id).version \in Nat
                /\ c.result.locations[w.id].version = v.data.version + 1 /\ v.data.version + 1 <= Saved(w.id).version
        BY <1>6, <3>3
      <4>2. display'[t].locations[w.id].version = v.data.version + 1
        BY <1>3, <1>4, <3>1, <3>3, <4>1
      <4>3. /\ NotPast(m, w, v.data.version)
            /\ saves[m].stage # "saved"
        BY <1>1, <2>1, <2>3, <4>1 DEF EditInv, CopiesNotPast, t
      <4>4. saves[m].stage = "sent"
        BY <2>1, <2>3, <4>3 DEF EditInv, EditTypes, SaveShaped
      <4> QED BY <3>1, <4>1, <4>2, <4>3, <4>4 DEF NotPast
    <3> QED BY <3>2, <3>3
  <2> QED BY <2>1, <2>2, <2>3
<1>9. DOMAIN form' = Tabs /\ \A u \in Tabs : form'[u] # None =>
               /\ form[u] # None /\ FormShaped(form'[u]) /\ form'[u].id = form[u].id
               /\ form'[u].base = form[u].base /\ form'[u].data = form[u].data /\ form'[u].asked = form[u].asked
  BY <1>1, FormReleased
<1>10. \A m \in Numbers : Remain(m)
  BY <1>5 DEF Remain
<1>11. t \in Tabs
  BY <1>1 DEF t
<1> QED BY <1>1, <1>4, <1>5, <1>7, <1>8, <1>9, <1>10, <1>11, ReadKeeps

-----------------------------------------------------------------------------
(* The commit.                                                              *)

LEMMA TheWrite ==
    ASSUME NEW W, NEW id \in Editor!IdsIn(W) PROVE Editor!The(W, id) \in W /\ Editor!The(W, id).id = id
BY DEF Editor!IdsIn, Editor!The

LEMMA DefinitionExists == None \notin Editor!Definition
BY EditsAssumption DEF Editor!Apart

\* What a write that was accepted makes of its Location.
LEMMA WrittenType ==
    ASSUME EditInv, NEW w \in LocationWrites, Editor!LocationAccepted(w)
    PROVE  /\ Editor!Written(w) \in Editor!LocationData
           /\ Editor!Written(w).version = Saved(w.id).version + 1 /\ w.data.version = Saved(w.id).version
           /\ \A k \in Editor!PlainFields : Editor!Written(w)[k] = Proposed(w, Saved(w.id))[k]
           /\ Editor!Written(w).metadata = IF w.data.metadata # Saved(w.id).metadata
                  THEN Editor!Retained(records.definitions, w.data.metadata, Saved(w.id).metadata)
                  ELSE w.data.metadata
<1> DEFINE old == Saved(w.id)
           kept == IF w.data.metadata # old.metadata
                     THEN Editor!Retained(records.definitions, w.data.metadata, old.metadata) ELSE w.data.metadata
           manager == IF w.data.manager = Kept THEN old.manager ELSE w.data.manager
<1>1. old \in Editor!LocationData /\ w.data \in Sheet /\ w.id \in Locations
  BY SavedType DEF EditInv, LocationWrites
<1>2. w.data.version = old.version
  BY DEF Editor!LocationAccepted, Saved
<1>3. kept \in [Fields -> Choices \cup {None}]
  BY <1>1 DEF Editor!Retained, Editor!LocationData, Sheet
<1>4. manager \in People \cup {None}
  BY <1>1 DEF Editor!LocationData, Sheet
<1>5. Editor!Written(w) = [w.data EXCEPT !.version = old.version + 1, !.manager = manager, !.metadata = kept]
  BY <1>1 DEF Editor!Written, Saved, Sheet
<1>6. \A k \in Editor!PlainFields : Proposed(w, old)[k] = IF k = "manager" THEN manager ELSE w.data[k]
  BY <1>1 DEF Proposed, Sheet, Editor!PlainFields
<1> HIDE DEF kept, manager
<1>7. /\ Editor!Written(w) \in Editor!LocationData /\ Editor!Written(w).version = old.version + 1
      /\ Editor!Written(w).metadata = kept
  <2> DEFINE data == w.data
             next == old.version + 1
  <2>1. next \in Nat
    BY <1>1 DEF Editor!LocationData
  <2>2. data \in Sheet /\ Editor!Written(w) = [data EXCEPT !.version = next, !.manager = manager, !.metadata = kept]
    BY <1>1, <1>5
  <2> HIDE DEF data, next
  <2>3. Editor!Written(w) \in Editor!LocationData
    BY <1>3, <1>4, <2>1, <2>2 DEF Editor!LocationData, Sheet
  <2>4. Editor!Written(w).version = next /\ Editor!Written(w).metadata = kept
    BY <2>2 DEF Sheet
  <2> QED BY <2>3, <2>4 DEF next
<1>8. \A k \in Editor!PlainFields : Editor!Written(w)[k] = IF k = "manager" THEN manager ELSE w.data[k]
  BY <1>1, <1>5 DEF Sheet, Editor!PlainFields
<1> QED BY <1>2, <1>6, <1>7, <1>8 DEF kept

\* The Directory after a save that was accepted.
LEMMA AfterSave ==
    ASSUME EditInv, NEW k \in Numbers, Editor!Sending(k), NEW c, c = saves[k].writes, Editor!Accepted(c),
           records' = Editor!After(c)
    PROVE  /\ records' \in Editor!Directory
           /\ \A l \in Locations : l \notin Editor!IdsIn(c.locations) => Saved(l)' = Saved(l)
           /\ \A l \in Editor!IdsIn(c.locations) : l \in Locations /\ \E w \in c.locations :
                /\ w \in LocationWrites /\ w.id = l /\ Editor!LocationAccepted(w) /\ Saved(l)' = Editor!Written(w)
           /\ \A f \in Fields : f \notin Editor!IdsIn(c.definitions) => records'.definitions[f] = records.definitions[f]
           /\ \A f \in Editor!IdsIn(c.definitions) : f \in Fields /\ records'.definitions[f] \in Editor!Definition
                /\ Editor!Redefines(records.definitions[f], records'.definitions[f])
<1>1. /\ c.locations \in SUBSET LocationWrites /\ c.people \in SUBSET PeopleWrites
      /\ c.templates \in SUBSET TemplateWrites /\ c.definitions \in SUBSET DefinitionWrites
      /\ records \in Editor!Directory
  <2>1. c \in Writes
    BY DEF EditInv, EditTypes, SaveShaped
  <2> QED BY <2>1 DEF Writes, EditInv, EditTypes
<1>2. /\ records'.locations = [l \in Locations |->
            IF l \in Editor!IdsIn(c.locations) THEN Editor!Written(Editor!The(c.locations, l)) ELSE records.locations[l]]
      /\ records'.people = [p \in People |-> IF p \in Editor!IdsIn(c.people)
            THEN [Editor!The(c.people, p).data EXCEPT !.version = @ + 1] ELSE records.people[p]]
      /\ records'.templates = [u \in Templates |-> IF u \in Editor!IdsIn(c.templates)
            THEN Editor!The(c.templates, u).data ELSE records.templates[u]]
      /\ records'.definitions = [f \in Fields |-> IF f \in Editor!IdsIn(c.definitions)
            THEN Editor!The(c.definitions, f).data ELSE records.definitions[f]]
      /\ records' = [locations |-> records'.locations, people |-> records'.people,
                     templates |-> records'.templates, definitions |-> records'.definitions]
  BY DEF Editor!After
<1>3. ASSUME NEW l \in Editor!IdsIn(c.locations)
      PROVE  l \in Locations /\ \E w \in c.locations :
                /\ w \in LocationWrites /\ w.id = l /\ Editor!LocationAccepted(w) /\ Saved(l)' = Editor!Written(w)
  <2> DEFINE w == Editor!The(c.locations, l)
  <2>1. w \in c.locations /\ w.id = l
    BY TheWrite
  <2>2. w \in LocationWrites /\ Editor!LocationAccepted(w) /\ l \in Locations
    BY <1>1, <2>1 DEF Editor!Accepted, LocationWrites
  <2>3. Saved(l)' = Editor!Written(w)
    BY <1>2, <2>2 DEF Saved
  <2> QED BY <2>1, <2>2, <2>3
<1>4. ASSUME NEW f \in Editor!IdsIn(c.definitions)
      PROVE  f \in Fields /\ records'.definitions[f] \in Editor!Definition
                /\ Editor!Redefines(records.definitions[f], records'.definitions[f])
  <2> DEFINE w == Editor!The(c.definitions, f)
  <2>1. w \in c.definitions /\ w.id = f
    BY TheWrite
  <2>2. w \in DefinitionWrites /\ Editor!DefinitionAccepted(w) /\ f \in Fields
    BY <1>1, <2>1 DEF Editor!Accepted, DefinitionWrites
  <2>3. records'.definitions[f] = w.data
    BY <1>2, <2>2
  <2> QED BY <2>1, <2>2, <2>3 DEF Editor!DefinitionAccepted, DefinitionWrites
<1>5. ASSUME NEW p \in Editor!IdsIn(c.people) PROVE [Editor!The(c.people, p).data EXCEPT !.version = @ + 1] \in Person
  <2>1. Editor!The(c.people, p) \in PeopleWrites
    BY <1>1, TheWrite
  <2> QED BY <2>1 DEF PeopleWrites, Person
<1>6. ASSUME NEW u \in Editor!IdsIn(c.templates) PROVE Editor!The(c.templates, u).data \in Schedules \cup {None}
  <2>1. Editor!The(c.templates, u) \in TemplateWrites
    BY <1>1, TheWrite
  <2> QED BY <2>1 DEF TemplateWrites
<1>7. records' \in Editor!Directory
  <2>1. records'.locations \in [Locations -> Editor!LocationData]
    <3>1. \A l \in Editor!IdsIn(c.locations) : Saved(l)' \in Editor!LocationData
      BY <1>3, WrittenType
    <3>2. \A l \in Locations : records'.locations[l] \in Editor!LocationData
      BY <1>1, <1>2, <3>1 DEF Saved, Editor!Directory
    <3> QED BY <1>2, <3>2
  <2>2. records'.people \in [People -> Person]
    <3>1. \A p \in People : records.people[p] \in Person
      BY <1>1 DEF Editor!Directory, Person
    <3>2. \A p \in People : records'.people[p] \in Person
      BY <1>2, <1>5, <3>1
    <3> QED BY <1>2, <3>2
  <2>3. records'.templates \in [Templates -> Schedules \cup {None}]
    BY <1>1, <1>2, <1>6 DEF Editor!Directory
  <2>4. records'.definitions \in [Fields -> Editor!Definition \cup {None}]
    <3>1. \A f \in Fields : records'.definitions[f] \in Editor!Definition \cup {None}
      BY <1>1, <1>2, <1>4 DEF Editor!Directory
    <3> QED BY <1>2, <3>1
  <2> QED BY <1>2, <2>1, <2>2, <2>3, <2>4 DEF Editor!Directory, Person
<1>8. \A l \in Locations : l \notin Editor!IdsIn(c.locations) => Saved(l)' = Saved(l)
  BY <1>2 DEF Saved
<1>9. \A f \in Fields : f \notin Editor!IdsIn(c.definitions) => records'.definitions[f] = records.definitions[f]
  BY <1>2
<1> QED BY <1>3, <1>4, <1>7, <1>8, <1>9

\* A save that is answered.
AnsweredAs(n, stage) ==
    /\ Waits(n) /\ Waits(n)' /\ SaveShaped(saves'[n]) /\ saves'[n].stage = stage
    /\ saves'[n].tab = saves[n].tab /\ saves'[n].writes = saves[n].writes /\ saves'[n].undo = saves[n].undo

LEMMA CallAnswered ==
    ASSUME NEW c, SaveShaped(c), NEW stage \in {"saved", "refused"}, NEW result, NEW d,
           d = [c EXCEPT !.stage = stage, !.result = result]
    PROVE  /\ SaveShaped(d) /\ d.stage = stage /\ d.result = result
           /\ d.tab = c.tab /\ d.writes = c.writes /\ d.undo = c.undo /\ d.waiting = c.waiting
BY DEF SaveShaped

LEMMA CommitEffect ==
    ASSUME EditInv, NEW n \in Numbers, Editor!Commit(n)
    PROVE  /\ Editor!Sending(n) /\ saves[n].stage = "sent" /\ UNCHANGED <<display, form, asked>>
           /\ DOMAIN saves' = Numbers /\ \A m \in Numbers : m # n => saves'[m] = saves[m]
           /\ \/ UNCHANGED records /\ (~Editor!Sending(n)' \/ AnsweredAs(n, "refused"))
              \/ /\ Editor!Accepted(saves[n].writes) /\ records' = Editor!After(saves[n].writes)
                 /\ \/ ~Editor!Sending(n)'
                    \/ AnsweredAs(n, "saved") /\ saves'[n].result = Editor!Answer(saves[n].writes, records')
<1> DEFINE c == saves[n]
           saved == Editor!Accepted(c.writes)
           stage == IF saved THEN "saved" ELSE "refused"
           result == IF saved THEN Editor!Answer(c.writes, Editor!After(c.writes)) ELSE None
<1>1. /\ Editor!Sending(n) /\ c.stage = "sent" /\ UNCHANGED <<display, form, asked>>
      /\ records' = (IF saved THEN Editor!After(c.writes) ELSE records)
      /\ saves' = [saves EXCEPT ![n] = IF ~c.waiting THEN Done ELSE [c EXCEPT !.stage = stage, !.result = result]]
  BY DEF Editor!Commit
<1>2. DOMAIN saves = Numbers /\ SaveShaped(c)
  BY <1>1 DEF EditInv, EditTypes
<1>3. /\ DOMAIN saves' = Numbers /\ \A m \in Numbers : m # n => saves'[m] = saves[m]
      /\ saves'[n] = IF ~c.waiting THEN Done ELSE [c EXCEPT !.stage = stage, !.result = result]
  BY <1>1, <1>2
<1>4. stage \in {"saved", "refused"} /\ (saved => stage = "saved") /\ (~saved => stage = "refused")
  OBVIOUS
<1>5. saved => result = Editor!Answer(c.writes, records')
  BY <1>1
<1> HIDE DEF stage, result
<1>6. CASE ~c.waiting
  BY <1>1, <1>3, <1>6 DEF Editor!Sending
<1>7. CASE c.waiting
  <2> DEFINE d == [c EXCEPT !.stage = stage, !.result = result]
  <2>1. saves'[n] = d
    BY <1>3, <1>7
  <2> HIDE DEF d
  <2>2. /\ SaveShaped(d) /\ d.stage = stage /\ d.result = result
        /\ d.tab = c.tab /\ d.writes = c.writes /\ d.undo = c.undo /\ d.waiting = c.waiting
    <3>1. SaveShaped(c) /\ stage \in {"saved", "refused"}
      BY <1>2, <1>4
    <3>2. d = [c EXCEPT !.stage = stage, !.result = result]
      BY DEF d
    <3> HIDE DEF c
    <3>3. SaveShaped(d) /\ d.stage = stage /\ d.tab = c.tab /\ d.writes = c.writes /\ d.undo = c.undo
      BY <3>1, <3>2 DEF SaveShaped
    <3>4. d.result = result /\ d.waiting = c.waiting
      BY <3>1, <3>2 DEF SaveShaped
    <3> QED BY <3>3, <3>4
  <2>3. CASE ~Editor!Sending(n)'
    BY <1>1, <1>3, <2>3
  <2>4. CASE Editor!Sending(n)'
    <3>1. AnsweredAs(n, stage) /\ saves'[n].result = result
      BY <1>1, <1>7, <2>1, <2>2, <2>4 DEF AnsweredAs, Waits
    <3> QED BY <1>1, <1>3, <1>4, <1>5, <3>1
  <2> QED BY <2>3, <2>4
<1> QED BY <1>6, <1>7

\* Where a commit changes what a Location holds, it was asked to.
LEMMA SavedAsAsked ==
    ASSUME EditInv, NEW n \in Numbers, Editor!Sending(n), saves[n].stage = "sent",
           Editor!Accepted(saves[n].writes), records' = Editor!After(saves[n].writes), NEW l \in Locations
    PROVE  /\ Newer(l) /\ Asked(l, Saved(l), Saved(l)', saves[n].asked)
           /\ \A f \in Fields :
                LET value == Saved(l)'.metadata[f]
                    held == Saved(l).metadata[f]
                    definition == records.definitions[f]
                IN  /\ value # None => definition # None /\ value \in definition.valid
                    /\ held # None /\ definition.retired => value = held
<1>1. CASE l \notin Editor!IdsIn(saves[n].writes.locations)
  <2>1. Saved(l)' = Saved(l)
    BY <1>1, AfterSave
  <2> QED BY <2>1 DEF Newer, Asked, EditInv, Editor!MetadataDefined, Saved
<1>2. CASE l \in Editor!IdsIn(saves[n].writes.locations)
  <2>1. PICK w \in saves[n].writes.locations :
            w \in LocationWrites /\ w.id = l /\ Editor!LocationAccepted(w) /\ Saved(l)' = Editor!Written(w)
    BY <1>2, AfterSave
  <2> DEFINE held == Saved(l).metadata
             given == w.data.metadata
             definitions == records.definitions
  <2>2. /\ Saved(l)'.version = Saved(l).version + 1 /\ w.data.version = Saved(l).version
        /\ \A k \in Editor!PlainFields : Saved(l)'[k] = Proposed(w, Saved(l))[k]
        /\ Saved(l)'.metadata = IF given # held THEN Editor!Retained(definitions, given, held) ELSE given
    BY <2>1, WrittenType
  <2>3. \A f \in Fields : Saved(l)'.metadata[f] =
            IF given # held /\ definitions[f] # None /\ definitions[f].retired /\ held[f] # None
            THEN held[f] ELSE given[f]
    BY <2>2 DEF Editor!Retained
  <2>4. Proposed(w, Saved(l)).metadata = given /\ Proposed(w, Saved(l)).version = w.data.version
    BY <2>1 DEF Proposed, LocationWrites, Sheet
  <2>5. Asked(l, Saved(l), Proposed(w, Saved(l)), saves[n].asked)
    BY <2>1, <2>2, <2>4 DEF EditInv, CopiesFit, Fits
  <2>6. Asked(l, Saved(l), Saved(l)', saves[n].asked)
    BY <2>2, <2>3, <2>4, <2>5 DEF Asked
  <2>7. given # held => Editor!Suits(definitions, given, held)
    BY <2>1 DEF Editor!LocationAccepted, Editor!MetadataAccepted, Saved
  <2>8. \A f \in Fields : held[f] # None => definitions[f] # None /\ held[f] \in definitions[f].valid
    BY DEF EditInv, Editor!MetadataDefined, Saved
  <2> HIDE DEF held, given, definitions
  <2>9. ASSUME NEW f \in Fields
        PROVE  /\ Saved(l)'.metadata[f] # None =>
                    definitions[f] # None /\ Saved(l)'.metadata[f] \in definitions[f].valid
               /\ held[f] # None /\ definitions[f].retired => Saved(l)'.metadata[f] = held[f]
    <3>1. CASE given = held
      BY <2>3, <2>8, <3>1
    <3>2. CASE given # held
      BY <2>3, <2>7, <2>8, <3>2 DEF Editor!Suits
    <3> QED BY <3>1, <3>2
  <2> QED BY <2>2, <2>6, <2>9 DEF Newer, held, definitions
<1> QED BY <1>1, <1>2

\* What a commit is to the copies.
Commits(n) ==
    /\ UNCHANGED <<scope, display, form, asked>>
    /\ records' \in Editor!Directory /\ \A l \in Locations : Newer(l)
    /\ DOMAIN saves' = Numbers /\ \A m \in Numbers : m # n => saves'[m] = saves[m]
    /\ Editor!Sending(n) /\ saves[n].stage = "sent"
    /\ \/ ~Editor!Sending(n)'
       \/ AnsweredAs(n, "refused")
       \/ /\ AnsweredAs(n, "saved") /\ AnswerShaped(saves[n])'
          /\ \A w \in saves[n].writes.locations : w.data.version = Saved(w.id).version

LEMMA CommitsSomething ==
    ASSUME EditInv, UNCHANGED scope, NEW n \in Numbers, Editor!Commit(n) PROVE Commits(n) /\ Editor!MetadataDefined'
<1>1. /\ Editor!Sending(n) /\ saves[n].stage = "sent" /\ UNCHANGED <<display, form, asked>>
      /\ DOMAIN saves' = Numbers /\ \A m \in Numbers : m # n => saves'[m] = saves[m]
  BY CommitEffect
<1>2. CASE UNCHANGED records /\ (~Editor!Sending(n)' \/ AnsweredAs(n, "refused"))
  <2>1. \A l : Newer(l)
    BY <1>2 DEF Newer, Saved
  <2>2. Editor!MetadataDefined' /\ records' \in Editor!Directory
    BY <1>2 DEF Editor!MetadataDefined, EditInv, EditTypes
  <2> QED BY <1>1, <1>2, <2>1, <2>2 DEF Commits
<1>3. CASE /\ Editor!Accepted(saves[n].writes) /\ records' = Editor!After(saves[n].writes)
           /\ \/ ~Editor!Sending(n)'
              \/ AnsweredAs(n, "saved") /\ saves'[n].result = Editor!Answer(saves[n].writes, records')
  <2> DEFINE W == saves[n].writes
  <2>1. \A l \in Locations : Newer(l)
    BY <1>1, <1>3, SavedAsAsked
  <2>2. records' \in Editor!Directory
    BY <1>1, <1>3, AfterSave
  <2>3. Editor!MetadataDefined'
    <3> SUFFICES ASSUME NEW l \in Locations, NEW f \in Fields, Saved(l)'.metadata[f] # None
        PROVE  records'.definitions[f] # None /\ Saved(l)'.metadata[f] \in records'.definitions[f].valid
      BY DEF Editor!MetadataDefined, Saved
    <3>1. records.definitions[f] # None /\ Saved(l)'.metadata[f] \in records.definitions[f].valid
      BY <1>1, <1>3, SavedAsAsked
    <3>2. CASE f \notin Editor!IdsIn(W.definitions)
      <4>1. records'.definitions[f] = records.definitions[f]
        BY <1>1, <1>3, <3>2, AfterSave
      <4> QED BY <3>1, <4>1
    <3>3. CASE f \in Editor!IdsIn(W.definitions)
      <4>1. /\ records'.definitions[f] \in Editor!Definition
            /\ Editor!Redefines(records.definitions[f], records'.definitions[f])
        BY <1>1, <1>3, <3>3, AfterSave
      <4> QED BY <3>1, <4>1, DefinitionExists DEF Editor!Redefines
    <3> QED BY <3>2, <3>3
  <2>4. ASSUME NEW w \in W.locations
        PROVE  w.id \in Editor!IdsIn(W.locations) /\ w.data.version = Saved(w.id).version
    BY <1>3 DEF Editor!Accepted, Editor!LocationAccepted, Saved, Editor!IdsIn
  <2>5. ASSUME AnsweredAs(n, "saved"), saves'[n].result = Editor!Answer(W, records') PROVE AnswerShaped(saves[n])'
    <3>1. saves'[n].writes = W
      BY <2>5 DEF AnsweredAs
    <3>2. /\ \A w \in W.locations : saves'[n].result.locations[w.id] = records'.locations[w.id]
          /\ \A w \in W.people : saves'[n].result.people[w.id] = records'.people[w.id]
          /\ \A w \in W.definitions : saves'[n].result.definitions[w.id] = records'.definitions[w.id]
      BY <2>5 DEF Editor!Answer, Editor!IdsIn
    <3>3. \A w \in W.locations : w.id \in Locations /\ Saved(w.id)'.version = w.data.version + 1
      <4> TAKE w \in W.locations
      <4>1. w.id \in Locations
        BY <1>1, WriteType DEF EditInv
      <4>2. PICK v \in W.locations : /\ v \in LocationWrites /\ v.id = w.id /\ Editor!LocationAccepted(v)
                                     /\ Saved(w.id)' = Editor!Written(v)
        BY <1>1, <1>3, <2>4, AfterSave
      <4>3. Saved(w.id)'.version = Saved(w.id).version + 1
        BY <4>2, WrittenType
      <4> QED BY <2>4, <4>1, <4>3
    <3>4. \A w \in W.people : w.id \in People
      BY <1>1 DEF EditInv, EditTypes, SaveShaped, Writes, PeopleWrites
    <3>5. \A w \in W.definitions : w.id \in Fields
      BY <1>1 DEF EditInv, EditTypes, SaveShaped, Writes, DefinitionWrites
    <3>6. /\ \A l \in Locations : records'.locations[l] \in Editor!LocationData /\ records'.locations[l].version \in Nat
          /\ \A p \in People : records'.people[p] \in Person
          /\ \A f \in Fields : records'.definitions[f] \in Editor!Definition \cup {None}
      BY <2>2 DEF Editor!Directory, Person, Editor!LocationData
    <3>7. \A w \in W.locations :
            /\ saves'[n].result.locations[w.id] \in Editor!LocationData
            /\ saves'[n].result.locations[w.id].version = w.data.version + 1
            /\ saves'[n].result.locations[w.id].version <= Saved(w.id)'.version
            /\ saves'[n].result.locations[w.id] = Saved(w.id)'
      BY <3>2, <3>3, <3>6 DEF Saved
    <3> QED BY <3>1, <3>2, <3>4, <3>5, <3>6, <3>7 DEF AnswerShaped
  <2> QED BY <1>1, <1>3, <2>1, <2>2, <2>3, <2>4, <2>5 DEF Commits
<1> QED BY <1>2, <1>3, CommitEffect

\* What Fits and NotPast say of a Location as it is saved.
Suited(l, saved, copy, asks) ==
    /\ copy.version <= saved.version
    /\ copy.version = saved.version => Asked(l, saved, copy, asks)

Behind(stage, w, saved, version) ==
    \/ version <= w.data.version
    \/ stage = "sent" /\ saved.version > w.data.version

LEMMA CommitMoves ==
    ASSUME EditInv, NEW n \in Numbers, Commits(n), Editor!MetadataDefined' PROVE EditInv'
<1>1. /\ UNCHANGED <<scope, display, form, asked>> /\ records' \in Editor!Directory
      /\ \A l \in Locations : Newer(l)
      /\ DOMAIN saves' = Numbers /\ \A m \in Numbers : m # n => saves'[m] = saves[m]
      /\ Editor!Sending(n) /\ saves[n].stage = "sent"
  BY DEF Commits
<1>2. ASSUME NEW m \in Numbers, Editor!Sending(m)'
      PROVE  /\ Editor!Sending(m) /\ SaveShaped(saves'[m])
             /\ saves'[m].tab = saves[m].tab /\ saves'[m].writes = saves[m].writes /\ saves'[m].undo = saves[m].undo
             /\ Waits(m)' => Waits(m)
  <2>1. CASE m # n
    <3>1. saves'[m] = saves[m] /\ Editor!Sending(m)
      BY <1>1, <1>2, <2>1 DEF Editor!Sending
    <3> QED BY <3>1 DEF EditInv, EditTypes, Waits
  <2>2. CASE m = n
    BY <1>1, <1>2, <2>2 DEF Commits, AnsweredAs
  <2> QED BY <2>1, <2>2
<1>3. ASSUME NEW m \in Numbers, Waits(m)' PROVE Editor!Sending(m)' /\ Waits(m)
  BY <1>2, <1>3 DEF Waits
<1>4. ASSUME Waits(n)', saves'[n].stage # "refused"
      PROVE  saves'[n].stage = "saved" /\ AnswerShaped(saves[n])'
                /\ \A w \in saves[n].writes.locations : w.data.version = Saved(w.id).version
  BY <1>3, <1>4 DEF Commits, AnsweredAs
<1>5. ASSUME NEW l \in Locations
      PROVE  /\ Saved(l).version \in Nat /\ Saved(l)'.version \in Nat /\ Saved(l).version <= Saved(l)'.version
             /\ Saved(l)'.version = Saved(l).version => UNCHANGED Saved(l)
  <2>1. Saved(l).version \in Nat /\ Saved(l)'.version \in Nat
    BY <1>1, SavedType DEF EditInv, Saved, Editor!Directory, Editor!LocationData
  <2> QED BY <1>1, <2>1 DEF Newer
<1>6. ASSUME NEW m \in Numbers, Editor!Sending(m), NEW w \in saves[m].writes.locations
      PROVE  w.id \in Locations /\ w.data.version \in Nat
  BY <1>6, WriteType DEF EditInv
<1>7. EditTypes'
  <2>1. ASSUME NEW m \in Numbers, Waits(m)', saves'[m].stage = "saved" PROVE AnswerShaped(saves[m])'
    <3>1. CASE m = n
      BY <1>4, <2>1, <3>1
    <3>2. CASE m # n
      <4>1. saves'[m] = saves[m] /\ Waits(m) /\ Editor!Sending(m)
        BY <1>1, <1>2, <1>3, <2>1, <3>2
      <4>2. AnswerShaped(saves[m])
        BY <2>1, <4>1 DEF EditInv, EditTypes
      <4>3. ASSUME NEW w \in saves[m].writes.locations
            PROVE  LET r == saves[m].result.locations[w.id]
                   IN  /\ r \in Editor!LocationData /\ r.version = w.data.version + 1
                       /\ r.version <= Saved(w.id)'.version
                       /\ r.version = Saved(w.id)'.version => r = Saved(w.id)'
        <5> DEFINE r == saves[m].result.locations[w.id]
        <5>1. /\ r \in Editor!LocationData /\ r.version = w.data.version + 1
              /\ r.version <= Saved(w.id).version
              /\ r.version = Saved(w.id).version => r = Saved(w.id)
          BY <4>2 DEF AnswerShaped
        <5>2. w.id \in Locations /\ w.data.version \in Nat
          BY <1>6, <4>1
        <5> HIDE DEF r
        <5>3. /\ r.version <= Saved(w.id)'.version
              /\ r.version = Saved(w.id)'.version => r = Saved(w.id)'
          BY <1>5, <5>1, <5>2
        <5> QED BY <5>1, <5>3 DEF r
      <4> QED BY <4>1, <4>2, <4>3 DEF AnswerShaped, Saved
    <3> QED BY <3>1, <3>2
  <2>2. \A m \in Numbers : Editor!Sending(m)' => SaveShaped(saves'[m])
    BY <1>2
  <2>3. \A m \in Numbers : Editor!Sending(m)' => SaveShaped(saves[m])'
    BY <2>2 DEF SaveShaped
  <2> QED BY <1>1, <2>1, <2>3 DEF EditInv, EditTypes, FormShaped
<1>8. ASSUME NEW l \in Locations, NEW copy, NEW asks, copy.version \in Nat, Fits(l, copy, asks)
      PROVE  Suited(l, Saved(l)', copy, asks)
  BY <1>1, <1>5, <1>8 DEF Fits, Suited
<1>9. CopiesFit'
  <2>1. ASSUME NEW t \in Tabs, NEW l \in Locations PROVE Fits(l, display[t].locations[l], asked[t])'
    <3>1. display[t].locations[l].version \in Nat /\ Fits(l, display[t].locations[l], asked[t])
      BY ShownType DEF EditInv, CopiesFit
    <3>2. Suited(l, Saved(l)', display[t].locations[l], asked[t])
      BY <1>8, <3>1
    <3>3. Suited(l, Saved(l)', display'[t].locations[l], asked'[t])
      BY <1>1, <3>2
    <3> QED BY <3>3 DEF Fits, Suited
  <2>2. ASSUME NEW t \in Tabs, form'[t] # None
        PROVE  (/\ Fits(form[t].id, form[t].base, form[t].asked) /\ Fits(form[t].id, form[t].data, form[t].asked)
                /\ form[t].data.version = form[t].base.version)'
    <3>1. FormShaped(form[t]) /\ form' = form
      BY <1>1, <2>2 DEF EditInv, EditTypes
    <3>2. form[t].id \in Locations /\ form[t].base.version \in Nat /\ form[t].data.version \in Nat
      BY <3>1 DEF FormShaped, Editor!LocationData
    <3>3. /\ Fits(form[t].id, form[t].base, form[t].asked) /\ Fits(form[t].id, form[t].data, form[t].asked)
          /\ form[t].data.version = form[t].base.version
      BY <2>2, <3>1 DEF EditInv, CopiesFit
    <3>4. ASSUME NEW l, l = form[t].id
          PROVE  Suited(l, Saved(l)', form[t].base, form[t].asked) /\ Suited(l, Saved(l)', form[t].data, form[t].asked)
      BY <1>8, <3>2, <3>3, <3>4
    <3>5. ASSUME NEW l, l = form'[t].id
          PROVE  Suited(l, Saved(l)', form'[t].base, form'[t].asked) /\ Suited(l, Saved(l)', form'[t].data, form'[t].asked)
      BY <3>1, <3>4, <3>5
    <3>6. form'[t].data.version = form'[t].base.version
      BY <3>1, <3>3
    <3> QED BY <3>5, <3>6 DEF Fits, Suited
  <2>3. ASSUME NEW m \in Numbers, Waits(m)', NEW l \in DOMAIN saves'[m].undo.locations
        PROVE  Fits(l, saves[m].undo.locations[l], asked[saves[m].tab])'
    <3>1. /\ Waits(m) /\ saves'[m].undo = saves[m].undo /\ saves'[m].tab = saves[m].tab
          /\ Editor!Sending(m)' /\ SaveShaped(saves'[m])
      BY <1>2, <1>3, <2>3
    <3> DEFINE copy == saves[m].undo.locations[l]
    <3>2. l \in Locations /\ copy \in Editor!LocationData
      BY <3>1, <2>3 DEF SaveShaped
    <3>3. copy.version \in Nat
      BY <3>2 DEF Editor!LocationData
    <3>4. Fits(l, copy, asked[saves[m].tab])
      BY <2>3, <3>1 DEF EditInv, CopiesFit
    <3>5. Fits(l, copy, asked[saves[m].tab])'
      <4>1. Suited(l, Saved(l)', copy, asked[saves[m].tab])
        BY <1>8, <3>2, <3>3, <3>4
      <4>2. Suited(l, Saved(l)', saves'[m].undo.locations[l], asked'[saves'[m].tab])
        BY <1>1, <3>1, <4>1
      <4> QED BY <4>2 DEF Fits, Suited
    <3> QED BY <3>5
  <2>4. ASSUME NEW m \in Numbers, Editor!Sending(m)', NEW w \in saves'[m].writes.locations
        PROVE  /\ w.data.version <= Saved(w.id)'.version
               /\ saves'[m].stage = "sent" => Fits(w.id, Proposed(w, Saved(w.id)), saves[m].asked)'
    <3>1. Editor!Sending(m) /\ w \in saves[m].writes.locations
      BY <1>2, <2>4
    <3>2. w \in LocationWrites /\ w.id \in Locations /\ w.data \in Sheet /\ w.data.version \in Nat
      BY <3>1, WriteType DEF EditInv
    <3>3. w.data.version <= Saved(w.id).version
      BY <3>1 DEF EditInv, CopiesFit
    <3>4. w.data.version <= Saved(w.id)'.version
      BY <1>5, <3>2, <3>3
    <3>5. ASSUME saves'[m].stage = "sent" PROVE Fits(w.id, Proposed(w, Saved(w.id)), saves[m].asked)'
      <4>1. m # n
        BY <1>1, <2>4, <3>5 DEF Commits, AnsweredAs
      <4>2. saves'[m] = saves[m]
        BY <1>1, <4>1
      <4>3. CASE UNCHANGED Saved(w.id)
        BY <3>1, <3>5, <4>2, <4>3 DEF EditInv, CopiesFit, Fits, Asked, Proposed
      <4>4. CASE Saved(w.id)'.version = Saved(w.id).version + 1
        <5>1. Proposed(w, Saved(w.id)').version = w.data.version
          BY <3>2 DEF Proposed, Sheet
        <5> QED BY <1>5, <3>2, <3>3, <4>4, <5>1 DEF Fits
      <4> QED BY <1>1, <3>2, <4>3, <4>4 DEF Newer
    <3> QED BY <3>4, <3>5
  <2> QED BY <2>1, <2>2, <2>3, <2>4 DEF CopiesFit
<1>10. ASSUME NEW m \in Numbers, Waits(m)', saves'[m].stage # "refused", NEW w \in saves[m].writes.locations,
              NEW version \in Nat, version <= Saved(w.id).version, NotPast(m, w, version)
       PROVE  Behind(saves'[m].stage, w, Saved(w.id)', version)
  <2>1. Editor!Sending(m)
    BY <1>2, <1>3, <1>10
  <2>2. w.id \in Locations /\ w.data.version \in Nat
    BY <1>6, <2>1
  <2>3. CASE m = n
    BY <1>4, <1>10, <2>2, <2>3 DEF Behind
  <2>4. CASE m # n
    BY <1>1, <1>5, <1>10, <2>2, <2>4 DEF NotPast, Behind
  <2> QED BY <2>3, <2>4
<1>11. CopiesNotPast'
  <2> SUFFICES ASSUME NEW m \in Numbers, Waits(m)', saves'[m].stage # "refused",
                      NEW w \in saves'[m].writes.locations
      PROVE  LET t == saves'[m].tab
                 Now(version) == Behind(saves'[m].stage, w, Saved(w.id)', version)
             IN  /\ Now(display'[t].locations[w.id].version)
                 /\ form'[t] # None /\ form'[t].id = w.id => Now(form'[t].base.version)
                 /\ \A k \in Numbers : Waits(k)' /\ saves'[k].tab = t =>
                     /\ w.id \in DOMAIN saves'[k].undo.locations => Now(saves'[k].undo.locations[w.id].version)
                     /\ \A v \in saves'[k].writes.locations : v.id = w.id => Now(v.data.version)
                     /\ saves'[k].stage = "saved" /\ saves'[m].stage = "saved" =>
                            \A v \in saves'[k].writes.locations : v.id = w.id => m = k
    BY DEF CopiesNotPast, NotPast, Behind
  <2> DEFINE Now(version) == Behind(saves'[m].stage, w, Saved(w.id)', version)
  <2> DEFINE t == saves[m].tab
  <2>1. /\ Waits(m) /\ Editor!Sending(m) /\ saves'[m].tab = t /\ saves'[m].writes = saves[m].writes
        /\ w \in saves[m].writes.locations /\ saves[m].stage # "refused"
    <3>1. Waits(m) /\ Editor!Sending(m) /\ saves'[m].tab = t /\ saves'[m].writes = saves[m].writes
      BY <1>2, <1>3
    <3> QED BY <1>1, <3>1
  <2>2. w.id \in Locations /\ w.data.version \in Nat /\ t \in Tabs
    BY <1>6, <2>1 DEF EditInv, EditTypes, SaveShaped
  <2> HIDE DEF t
  <2>7. ASSUME NEW version \in Nat, version <= Saved(w.id).version, NotPast(m, w, version) PROVE Now(version)
    BY <1>10, <2>1, <2>7
  <2> HIDE DEF Now
  <2>3. Now(display[t].locations[w.id].version)
    <3>1. /\ display[t].locations[w.id].version \in Nat
          /\ display[t].locations[w.id].version <= Saved(w.id).version
      BY <2>2, ShownType DEF EditInv, CopiesFit, Fits
    <3>2. NotPast(m, w, display[t].locations[w.id].version)
      BY <2>1 DEF EditInv, CopiesNotPast, t
    <3> QED BY <2>7, <3>1, <3>2
  <2>4. ASSUME form[t] # None, form[t].id = w.id PROVE Now(form[t].base.version)
    <3>1. form[t].base.version \in Nat /\ form[t].base.version <= Saved(w.id).version
      BY <2>2, <2>4 DEF EditInv, EditTypes, FormShaped, CopiesFit, Fits, Editor!LocationData
    <3>2. NotPast(m, w, form[t].base.version)
      BY <2>1, <2>4 DEF EditInv, CopiesNotPast, t
    <3> QED BY <2>7, <3>1, <3>2
  <2>5. ASSUME NEW k \in Numbers, Waits(k)', saves'[k].tab = t
        PROVE  /\ w.id \in DOMAIN saves'[k].undo.locations => Now(saves'[k].undo.locations[w.id].version)
               /\ \A v \in saves'[k].writes.locations : v.id = w.id => Now(v.data.version)
               /\ saves'[k].stage = "saved" /\ saves'[m].stage = "saved" =>
                      \A v \in saves'[k].writes.locations : v.id = w.id => m = k
    <3>1. /\ Waits(k) /\ Editor!Sending(k) /\ saves[k].tab = t /\ saves'[k].undo = saves[k].undo
          /\ saves'[k].writes = saves[k].writes /\ SaveShaped(saves'[k])
      BY <1>2, <1>3, <2>5
    <3>2. ASSUME w.id \in DOMAIN saves[k].undo.locations
          PROVE  Now(saves'[k].undo.locations[w.id].version)
      <4> DEFINE copy == saves[k].undo.locations[w.id]
      <4>1. copy.version \in Nat /\ copy.version <= Saved(w.id).version
        BY <3>1, <3>2 DEF SaveShaped, EditInv, CopiesFit, Fits, Editor!LocationData
      <4>2. NotPast(m, w, copy.version)
        BY <2>1, <3>1, <3>2 DEF EditInv, CopiesNotPast, t
      <4>3. saves'[k].undo.locations[w.id] = copy
        BY <3>1
      <4> HIDE DEF copy
      <4> QED BY <2>7, <4>1, <4>2, <4>3
    <3>3. ASSUME NEW v \in saves[k].writes.locations, v.id = w.id
          PROVE  NotPast(m, w, v.data.version) /\ Now(v.data.version)
      <4>1. v.data.version \in Nat /\ v.data.version <= Saved(w.id).version
        BY <1>6, <3>1, <3>3 DEF EditInv, CopiesFit
      <4>2. NotPast(m, w, v.data.version)
        BY <2>1, <3>1, <3>3 DEF EditInv, CopiesNotPast, t
      <4> QED BY <2>7, <4>1, <4>2
    <3>4. ASSUME saves'[k].stage = "saved", saves'[m].stage = "saved",
                 NEW v \in saves[k].writes.locations, v.id = w.id, m # k
          PROVE  FALSE
      <4>1. NotPast(m, w, v.data.version) /\ NotPast(k, v, w.data.version)
        <5>1. saves[k].stage # "refused"
          BY <1>1, <3>4
        <5> QED BY <2>1, <3>1, <3>3, <3>4, <5>1 DEF EditInv, CopiesNotPast, t
      <4>2. v.data.version \in Nat
        BY <1>6, <3>1, <3>4
      <4>3. CASE m = n
        <5>1. w.data.version = Saved(w.id).version
          BY <1>4, <2>1, <3>4, <4>3
        <5>2. saves[k].stage = "saved"
          BY <1>1, <3>4, <4>3
        <5>3. v.data.version + 1 <= Saved(w.id).version
          BY <3>1, <3>4, <5>2 DEF EditInv, EditTypes, AnswerShaped
        <5> QED BY <2>2, <4>1, <4>2, <5>1, <5>2, <5>3 DEF NotPast
      <4>4. CASE k = n
        <5>1. v.data.version = Saved(w.id).version
          BY <1>4, <2>5, <3>4, <4>4
        <5>2. saves[m].stage = "saved"
          BY <1>1, <3>4, <4>4
        <5>3. w.data.version + 1 <= Saved(w.id).version
          BY <2>1, <5>2 DEF EditInv, EditTypes, AnswerShaped
        <5> QED BY <2>2, <4>1, <4>2, <5>1, <5>2, <5>3 DEF NotPast
      <4>5. CASE m # n /\ k # n
        BY <1>1, <2>1, <3>1, <3>4, <4>5 DEF EditInv, CopiesNotPast, t
      <4> QED BY <4>3, <4>4, <4>5
    <3> QED BY <3>1, <3>2, <3>3, <3>4
  <2>6. display' = display /\ form' = form /\ saves'[m].tab = t
    BY <1>1, <2>1
  <2> QED BY <2>3, <2>4, <2>5, <2>6 DEF Now
<1> QED BY <1>7, <1>9, <1>11 DEF EditInv

LEMMA CommitKeeps ==
    ASSUME EditInv, UNCHANGED scope, NEW n \in Numbers, Editor!Commit(n) PROVE EditInv'
BY CommitsSomething, CommitMoves

-----------------------------------------------------------------------------
(* The next-state relation.                                                 *)

\* Only a commit changes the records.
OnTab(t) ==
    \/ Editor!Open(t) \/ Editor!Fill(t) \/ Editor!Submit(t) \/ Editor!Leave(t)
    \/ Editor!Verify(t) \/ Editor!UpdateTemplate(t) \/ Editor!DeleteTemplate(t) \/ Editor!Rename(t)
    \/ Editor!SaveDefinition(t) \/ Editor!Poll(t) \/ Editor!Reload(t)

LEMMA OnlyCommits ==
    ASSUME Editor!Next, records' # records PROVE \E n \in Numbers : Editor!Commit(n)
<1>1. ASSUME NEW t \in Tabs, OnTab(t) PROVE records' = records
  <2>1. Editor!Open(t) \/ Editor!Fill(t) \/ Editor!Submit(t) \/ Editor!Leave(t) => records' = records
    BY DEF Editor!Open, Editor!Fill, Editor!Submit, Editor!Leave
  <2>2. Editor!SaveDefinition(t) \/ Editor!Poll(t) \/ Editor!Reload(t) => records' = records
    BY DEF Editor!SaveDefinition, Editor!Poll, Editor!Reload
  <2>3. Editor!Verify(t) => records' = records
    BY DEF Editor!Verify, Editor!Optimistic
  <2>4. Editor!UpdateTemplate(t) => records' = records
    BY DEF Editor!UpdateTemplate, Editor!Optimistic
  <2>5. Editor!DeleteTemplate(t) => records' = records
    BY DEF Editor!DeleteTemplate, Editor!Optimistic
  <2>6. Editor!Rename(t) => records' = records
    BY DEF Editor!Rename, Editor!Optimistic
  <2> QED BY <1>1, <2>1, <2>2, <2>3, <2>4, <2>5, <2>6 DEF OnTab
<1>2. ASSUME NEW n \in Numbers, Editor!Confirm(n) \/ Editor!Fail(n) PROVE records' = records
  BY <1>2 DEF Editor!Confirm, Editor!Fail
<1>3. (\E t \in Tabs : OnTab(t)) \/ (\E n \in Numbers : Editor!Commit(n) \/ Editor!Confirm(n) \/ Editor!Fail(n))
  BY DEF Editor!Next, OnTab, Numbers
<1> QED BY <1>1, <1>2, <1>3

LEMMA EditsNext == ASSUME EditInv, UNCHANGED scope, Editor!Next PROVE EditInv'
<1>1. ASSUME NEW t \in Tabs, OnTab(t) PROVE EditInv'
  BY <1>1, OpenKeeps, FillKeeps, SubmitKeeps, LeaveKeeps, VerifyKeeps, UpdateTemplateKeeps, DeleteTemplateKeeps,
     RenameKeeps, SaveDefinitionKeeps, PollKeeps, ReloadKeeps DEF OnTab
<1>2. ASSUME NEW n \in Numbers, Editor!Commit(n) \/ Editor!Confirm(n) \/ Editor!Fail(n) PROVE EditInv'
  BY <1>2, CommitKeeps, ConfirmKeeps, FailKeeps
<1>3. (\E t \in Tabs : OnTab(t)) \/ (\E n \in Numbers : Editor!Commit(n) \/ Editor!Confirm(n) \/ Editor!Fail(n))
  BY DEF Editor!Next, OnTab, Numbers
<1> QED BY <1>1, <1>2, <1>3

\* What the commit of a save may change.
LEMMA CommitAsked == ASSUME EditInv, NEW k \in Numbers, Editor!Commit(k) PROVE Editor!OnlyAsked /\ Editor!RetiredKept
<1>1. CASE UNCHANGED records
  BY <1>1 DEF Editor!OnlyAsked, Editor!RetiredKept
<1>2. CASE records' # records
  <2>1. /\ Editor!Sending(k) /\ saves[k].stage = "sent"
        /\ Editor!Accepted(saves[k].writes) /\ records' = Editor!After(saves[k].writes)
        /\ \A n \in Numbers : n # k => saves'[n] = saves[n]
    BY <1>2, CommitEffect
  <2>2. ASSUME NEW l \in Locations
        PROVE  /\ Asked(l, Saved(l), Saved(l)', saves[k].asked)
               /\ \A f \in Fields : Saved(l).metadata[f] # None /\ records.definitions[f].retired =>
                                        Saved(l)'.metadata[f] = Saved(l).metadata[f]
    BY <2>1, SavedAsAsked
  <2>3. Editor!OnlyAsked
    <3> SUFFICES ASSUME NEW n \in Numbers, saves'[n] # saves[n], NEW l \in Locations
        PROVE  Editor!Of(l, Editor!Changes(records.locations[l], records'.locations[l])) \subseteq saves[n].asked
      BY DEF Editor!OnlyAsked, Numbers
    <3>1. Asked(l, records.locations[l], records'.locations[l], saves[k].asked) /\ n = k
      BY <2>1, <2>2 DEF Saved
    <3> QED BY <3>1, AskedOf
  <2>4. Editor!RetiredKept
    BY <2>2 DEF Editor!RetiredKept, Saved
  <2> QED BY <2>3, <2>4
<1> QED BY <1>1, <1>2

LEMMA EditsInvariant ==
    ASSUME scope \in Kinds => FormsInv, scope \in Edits => EditInv, [RequestsNext]_<<vars, edits>>, scope' \in Edits
    PROVE  EditInv'
<1>1. CASE scope = "requests" /\ Next /\ UNCHANGED edits
  BY <1>1 DEF edits, Edits
<1>2. CASE scope \in Edits /\ Editor!Next /\ UNCHANGED <<vars, scope, formVars>> /\ Within'
  BY <1>2, EditsNext
<1>3. CASE scope \in Kinds /\ Forms!Next /\ UNCHANGED <<vars, asked>>
  BY <1>3, FormsKeepScope DEF Kinds, Edits
<1>4. CASE UNCHANGED <<vars, edits>>
  BY <1>4, EditsStay DEF edits
<1> QED BY <1>1, <1>2, <1>3, <1>4 DEF RequestsNext

LEMMA EditsAsAsked ==
    ASSUME scope \in Edits, EditInv, [RequestsNext]_<<vars, edits>>
    PROVE  Editor!OnlyAsked /\ Editor!RetiredKept
<1>1. CASE UNCHANGED records
  BY <1>1 DEF Editor!OnlyAsked, Editor!RetiredKept
<1>2. CASE records' # records
  <2>1. Editor!Next
    BY <1>2 DEF RequestsNext, Kinds, Edits, edits
  <2> QED BY <1>2, <2>1, OnlyCommits, CommitAsked
<1> QED BY <1>1, <1>2

LEMMA EditsInvariance ==
    RequestsSpec => []((scope \in Kinds => FormsInv) /\ (scope \in Edits => EditInv))
<1>1. RequestsInit => (scope \in Edits => EditInv)
  <2> SUFFICES ASSUME RequestsInit, scope \in Edits PROVE EditInv
    OBVIOUS
  <2>1. EditsInit
    BY DEF RequestsInit, FormsInit, Forms!Init, Edits, Kinds
  <2> QED BY <2>1, InitEdits
<1>2. (scope \in Kinds => FormsInv) /\ (scope \in Edits => EditInv) /\ [RequestsNext]_<<vars, edits>>
        => (scope \in Edits => EditInv)'
  BY EditsInvariant
<1> QED BY <1>1, <1>2, InitForms, FormsStep, PTL DEF RequestsSpec

(* A save of a whole Location changes only what the user of its tab asked    *)
(* for, whatever other tabs saved meanwhile and whichever earlier saves of   *)
(* the tab were refused or lost (LocationEditModal.tsx, DirectoryContext.tsx *)
(* and the commit).                                                          *)
THEOREM SavesChangeWhatWasAsked == RequestsSpec => NothingUnasked
<1>1. (scope \in Edits => EditInv) /\ [RequestsNext]_<<vars, edits>> => [(scope \in Edits => Editor!OnlyAsked)]_edits
  BY EditsAsAsked
<1> QED BY <1>1, EditsInvariance, PTL DEF RequestsSpec, NothingUnasked

(* Every stored value of a custom field is one that its definition allows,   *)
(* however often the definition was saved since the form was opened, and it  *)
(* stays while the field is retired (docs/custom-fields.md and the commit).  *)
THEOREM CustomFieldsAreKept == RequestsSpec => MetadataKept
<1>1. (scope \in Edits => EditInv) => (scope \in Edits => Editor!MetadataDefined)
  BY DEF EditInv
<1>2. (scope \in Edits => EditInv) /\ [RequestsNext]_<<vars, edits>> => [(scope \in Edits => Editor!RetiredKept)]_edits
  BY EditsAsAsked
<1> QED BY <1>1, <1>2, EditsInvariance, PTL DEF RequestsSpec, MetadataKept
=============================================================================
