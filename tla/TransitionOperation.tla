------------------------ MODULE TransitionOperation ------------------------
(***************************************************************************)
(* The server side of one Person transition: a signed review of a planned  *)
(* change (previewPersonTransitionCommand), a receipt prepared for it, the *)
(* atomic commit of the reviewed plan, and the cancellation that seals an  *)
(* operation against a late prepare or commit.                             *)
(*                                                                         *)
(* Every handler body is one Firestore transaction, so each is one action. *)
(* No network appears here: an action may be taken for any review that was *)
(* ever signed and any operation id, at any time and in any order, which   *)
(* covers requests that are delayed, repeated, reordered or never sent.    *)
(* A request that is refused, or replayed from its receipt, changes no     *)
(* document; it is a stuttering step and has no action.                    *)
(***************************************************************************)
EXTENDS Naturals, FiniteSets

CONSTANTS
    Actors,         \* administrators' Firebase uids
    Operations,     \* operation UUIDs a client may choose
    Intents,        \* normalized transition intents
    Docs,           \* the Directory documents a plan reads
    Values,         \* their business contents
    Plan(_, _),     \* planPersonTransition: the contents after an intent,
                    \* the contents given when it is blocked
    TTL,            \* TRANSITION_REVIEW_TTL_MS, in ticks
    Skew,           \* how far a host's clock may be from the true time
    NoReceipt,      \* the receipt document is absent
    NoReview,       \* a receipt sealed before it was ever prepared
    MaxTime,        \* bound: the true time
    MaxWrites,      \* bound: writes by others to one document
    MaxReviews      \* bound: reviews signed

ASSUME PlanAssumption ==
    \A i \in Intents, data \in [Docs -> Values] : Plan(i, data) \in [Docs -> Values]
ASSUME ClockAssumption == TTL \in Nat \ {0} /\ Skew \in Nat /\ MaxTime \in Nat
ASSUME BoundAssumption == MaxWrites \in Nat /\ MaxReviews \in Nat

VARIABLES
    directory,      \* the documents: content, version, native update time
    access,         \* the actors' User documents, read for live authority
    clock,          \* the true time
    reviews,        \* every review envelope signed so far
    receipts,       \* person_transition_operations, by actor and operation
    audits,         \* ids of the audit records written, deterministic per key
    applied         \* history: times the business writes of a key were made

vars == <<directory, access, clock, reviews, receipts, audits, applied>>

Keys == Actors \X Operations

Document == [value : Values, version : Nat, updateTime : Nat]
Account == [admin : BOOLEAN, updateTime : Nat]
State == [docs : [Docs -> Document], users : [Actors -> Account]]
Review == [actor : Actors, intent : Intents, state : State, issuedAt : Nat]

(* What a receipt keeps. The digest of a command binds its actor, person,  *)
(* intent and envelope, so the review it was made from stands for it.      *)
Receipt ==
    [state : {"prepared", "committed", "cancelled"}, digest : Review,
     review : Review \cup {NoReview}, createdAt : Nat, updatedAt : Nat,
     changes : SUBSET (Docs \X Nat)]

ASSUME SentinelAssumption == NoReceipt \notin Receipt /\ NoReview \notin Review

(* Definitions named Faulty... are seeded faults: no specification uses    *)
(* them; each is a plausible slip in the definition that follows it.       *)
FaultyLater(s, t) == s      \* a receipt stamped with the host's own reading
Later(s, t) == IF s > t THEN s ELSE t

-----------------------------------------------------------------------------
(* The planner's view of the documents, and the digest of everything it    *)
(* read: native update times are part of stateHash, as are the Users.      *)
Data == [d \in Docs |-> directory[d].value]
StateHash == [docs |-> directory, users |-> access]
Ready(i) == Plan(i, Data) # Data
Patched(i) == {d \in Docs : Plan(i, Data)[d] # directory[d].value}

(* A host reads its own clock.                                             *)
HostTimes == {t \in 0..(clock + Skew) : t + Skew >= clock}

Fresh(r, t) == r.issuedAt <= t /\ t < r.issuedAt + TTL

(* readTransitionReceipt: the strict shape a stored receipt must have, or  *)
(* every later request for its operation fails.                            *)
Readable(k, rc) ==
    /\ rc.createdAt <= rc.updatedAt
    /\ rc.digest.actor = k[1]
    /\ rc.review # NoReview => rc.review = rc.digest /\ Fresh(rc.review, rc.createdAt)
    /\ rc.state = "prepared" =>
           rc.review # NoReview /\ rc.changes = {} /\ rc.updatedAt = rc.createdAt
    /\ rc.state = "committed" => rc.review # NoReview /\ rc.changes # {}
    /\ rc.state = "cancelled" => rc.changes = {}
    /\ \A c \in rc.changes : c[2] >= 1

NewPrepared(r, t) ==
    [state |-> "prepared", digest |-> r, review |-> r,
     createdAt |-> t, updatedAt |-> t, changes |-> {}]

FaultyCancelled(rc, r, t) ==    \* a prepared receipt is deleted, not sealed
    IF rc = NoReceipt
    THEN [state |-> "cancelled", digest |-> r, review |-> NoReview,
          createdAt |-> t, updatedAt |-> t, changes |-> {}]
    ELSE NoReceipt
Cancelled(rc, r, t) ==
    IF rc = NoReceipt
    THEN [state |-> "cancelled", digest |-> r, review |-> NoReview,
          createdAt |-> t, updatedAt |-> t, changes |-> {}]
    ELSE [rc EXCEPT !.state = "cancelled", !.updatedAt = Later(t, rc.updatedAt)]

Committed(rc, t, changes) ==
    [rc EXCEPT !.state = "committed", !.updatedAt = Later(t, rc.updatedAt),
               !.changes = changes]

-----------------------------------------------------------------------------
(* Guards of the three handlers.                                           *)
Preparable(k) == receipts[k] = NoReceipt

FaultyStillReviewed(r) == Ready(r.intent)   \* any plan that is ready will do
StillReviewed(r) == Ready(r.intent) /\ StateHash = r.state

FaultyCancellable(k, r) ==      \* a committed outcome is cancelled
    receipts[k] # NoReceipt => receipts[k].state # "cancelled" /\ receipts[k].digest = r
Cancellable(k, r) ==
    receipts[k] # NoReceipt => receipts[k].state = "prepared" /\ receipts[k].digest = r

CancelAudit(k) == {<<"cancel", k>>}

-----------------------------------------------------------------------------
Init ==
    /\ directory \in [Docs -> [value : Values, version : {0}, updateTime : {0}]]
    /\ access = [a \in Actors |-> [admin |-> TRUE, updateTime |-> 0]]
    /\ clock = 0
    /\ reviews = {}
    /\ receipts = [k \in Keys |-> NoReceipt]
    /\ audits = {}
    /\ applied = [k \in Keys |-> 0]

Tick ==
    /\ clock < MaxTime
    /\ clock' = clock + 1
    /\ UNCHANGED <<directory, access, reviews, receipts, audits, applied>>

(* Any other writer of a document the plan reads: the generic Directory    *)
(* commit (version + 1), a writer that keeps the version, or a delete and  *)
(* re-creation, which starts the version again.                            *)
WriteDocument(d, v) ==
    /\ directory[d].updateTime < MaxWrites
    /\ \E n \in {0, directory[d].version, directory[d].version + 1} :
           directory' = [directory EXCEPT ![d] =
               [value |-> v, version |-> n, updateTime |-> @.updateTime + 1]]
    /\ UNCHANGED <<access, clock, reviews, receipts, audits, applied>>

(* An actor's User document loses or regains the administrator access.     *)
ChangeAccess(a) ==
    /\ access[a].updateTime < MaxWrites
    /\ access' = [access EXCEPT ![a] =
                      [admin |-> ~ @.admin, updateTime |-> @.updateTime + 1]]
    /\ UNCHANGED <<directory, clock, reviews, receipts, audits, applied>>

(* The clock is read before the transaction and again after it; the review *)
(* is dated from the first reading, so a slow read cannot stretch it.      *)
PreviewCommand(a, i) ==
    /\ access[a].admin
    /\ Ready(i)
    /\ Cardinality(reviews) < MaxReviews
    /\ \E started \in 0..(clock + Skew), now \in HostTimes :
           /\ started <= now /\ now < started + TTL
           /\ reviews' = reviews \cup
                  {[actor |-> a, intent |-> i, state |-> StateHash, issuedAt |-> started]}
    /\ UNCHANGED <<directory, access, clock, receipts, audits, applied>>

Prepare(k, r) ==
    /\ r.actor = k[1]
    /\ access[k[1]].admin
    /\ Preparable(k)
    /\ \E now \in HostTimes :
           /\ Fresh(r, now)
           /\ receipts' = [receipts EXCEPT ![k] = NewPrepared(r, now)]
    /\ UNCHANGED <<directory, access, clock, reviews, audits, applied>>

(* The commit recomputes the plan and insists on the reviewed digest. The  *)
(* clock is read before the inventory reads and again after them.          *)
Commit(k, r) ==
    /\ r.actor = k[1]
    /\ access[k[1]].admin
    /\ receipts[k] # NoReceipt
    /\ receipts[k].state = "prepared"
    /\ receipts[k].digest = r
    /\ StillReviewed(r)
    /\ <<"commit", k>> \notin audits
    /\ \E first \in 0..(clock + Skew), second \in HostTimes :
           /\ first <= second
           /\ Fresh(r, first) /\ Fresh(r, second)
           /\ receipts' = [receipts EXCEPT ![k] =
                  Committed(@, first, {<<d, directory[d].version + 1>> : d \in Patched(r.intent)})]
    /\ directory' = [d \in Docs |->
           IF d \in Patched(r.intent)
           THEN [value |-> Plan(r.intent, Data)[d], version |-> directory[d].version + 1,
                 updateTime |-> directory[d].updateTime + 1]
           ELSE directory[d]]
    /\ audits' = audits \cup {<<"commit", k>>}
    /\ applied' = [applied EXCEPT ![k] = @ + 1]
    /\ UNCHANGED <<access, clock, reviews>>

(* Seals an absent or a prepared operation. It needs the marker (whose     *)
(* digest is the review's), not the review's freshness.                    *)
Cancel(k, r) ==
    /\ r.actor = k[1]
    /\ access[k[1]].admin
    /\ Cancellable(k, r)
    /\ <<"cancel", k>> \notin audits
    /\ \E now \in HostTimes :
           receipts' = [receipts EXCEPT ![k] = Cancelled(@, r, now)]
    /\ audits' = audits \cup CancelAudit(k)
    /\ UNCHANGED <<directory, access, clock, reviews, applied>>

Next ==
    \/ Tick
    \/ \E d \in Docs, v \in Values : WriteDocument(d, v)
    \/ \E a \in Actors : ChangeAccess(a)
    \/ \E a \in Actors, i \in Intents : PreviewCommand(a, i)
    \/ \E k \in Keys, r \in reviews : Prepare(k, r) \/ Commit(k, r) \/ Cancel(k, r)

Spec == Init /\ [][Next]_vars

-----------------------------------------------------------------------------
(* The variables hold what the code's types and stores allow.              *)
TypeOK ==
    /\ directory \in [Docs -> Document]
    /\ access \in [Actors -> Account]
    /\ clock \in Nat
    /\ reviews \subseteq Review
    /\ receipts \in [Keys -> Receipt \cup {NoReceipt}]
    /\ audits \subseteq {"commit", "cancel"} \X Keys
    /\ applied \in [Keys -> Nat]

IsCommitted(k) == receipts[k] # NoReceipt /\ receipts[k].state = "committed"
IsCancelled(k) == receipts[k] # NoReceipt /\ receipts[k].state = "cancelled"

(* However often a prepare, commit or cancel is repeated, delayed or       *)
(* reordered, the business writes of an operation happen once if its       *)
(* receipt says committed and never otherwise (commitPersonTransitionAtomic*)
(* writes documents, audit and receipt in one transaction).                *)
AppliedExactlyOnce ==
    \A k \in Keys : applied[k] = IF IsCommitted(k) THEN 1 ELSE 0

(* Each terminal receipt has its own audit record and no audit record      *)
(* lacks the outcome it reports: the two are written by one transaction.   *)
AuditsMatchReceipts ==
    \A k \in Keys : /\ <<"commit", k>> \in audits <=> IsCommitted(k)
                    /\ <<"cancel", k>> \in audits <=> IsCancelled(k)

(* Whatever the hosts' clocks say, every stored receipt still passes       *)
(* readTransitionReceipt, so that no operation becomes impossible to read, *)
(* commit or cancel.                                                       *)
ReceiptsReadable ==
    \A k \in Keys : receipts[k] # NoReceipt => Readable(k, receipts[k])

(* Two operations never both commit a change reviewed against the same     *)
(* Directory state, not even when one review was prepared under two        *)
(* operation ids: the later one would apply a plan nobody reviewed.        *)
CommittedReviewsDiffer ==
    \A k, l \in Keys :
        k # l /\ IsCommitted(k) /\ IsCommitted(l) =>
            receipts[k].review.state # receipts[l].review.state

(* A committed or cancelled receipt never changes again: a late prepare,   *)
(* commit or cancel cannot rewrite the outcome a client was told.          *)
TerminalOutcomesStay ==
    [][\A k \in Keys : IsCommitted(k) \/ IsCancelled(k) => receipts'[k] = receipts[k]]_vars

Outcome(k) == IF receipts[k] = NoReceipt THEN "unknown" ELSE receipts[k].state

Abstract == INSTANCE TransitionOutcome
    WITH outcome <- [k \in Keys |-> Outcome(k)]

(* The receipts implement the promise of the recovery interface.           *)
RefinesOutcome == Abstract!Spec
=============================================================================
