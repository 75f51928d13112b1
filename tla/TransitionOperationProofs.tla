--------------------- MODULE TransitionOperationProofs ---------------------
(***************************************************************************)
(* Safety of the transition receipts for every set of actors, operations   *)
(* and documents, every planner, lifetime and clock skew.                  *)
(***************************************************************************)
EXTENDS TransitionOperation, TLAPS

(* The state a committed operation was reviewed against has been left for  *)
(* good: some document has been written since. This is what makes          *)
(* CommittedReviewsDiffer inductive.                                       *)
CommittedReviewsBehind ==
    \A k \in Keys : IsCommitted(k) =>
        \E d \in Docs :
            receipts[k].review.state.docs[d].updateTime < directory[d].updateTime

Inv ==
    /\ TypeOK
    /\ AppliedExactlyOnce
    /\ AuditsMatchReceipts
    /\ ReceiptsReadable
    /\ CommittedReviewsBehind
    /\ CommittedReviewsDiffer

-----------------------------------------------------------------------------
(* A prepared receipt is well typed and readable.                          *)
LEMMA NewPreparedReadable ==
    ASSUME NEW k \in Keys, NEW r \in Review, NEW t \in Nat, r.actor = k[1], Fresh(r, t)
    PROVE  NewPrepared(r, t) \in Receipt /\ Readable(k, NewPrepared(r, t))
<1>1. NewPrepared(r, t) \in Receipt
  BY DEF NewPrepared, Receipt
<1>2. Readable(k, NewPrepared(r, t))
  BY SentinelAssumption DEF NewPrepared, Readable, Fresh
<1>3. QED
  BY <1>1, <1>2

(* Committing a readable prepared receipt keeps it readable, whatever the  *)
(* host's clock says.                                                      *)
LEMMA CommittedReadable ==
    ASSUME NEW k \in Keys, NEW rc \in Receipt, NEW t \in Nat, NEW changes \in SUBSET (Docs \X Nat),
           Readable(k, rc), rc.state = "prepared", changes # {}, \A c \in changes : c[2] >= 1
    PROVE  Committed(rc, t, changes) \in Receipt /\ Readable(k, Committed(rc, t, changes))
<1>1. Later(t, rc.updatedAt) \in Nat /\ rc.createdAt <= Later(t, rc.updatedAt)
  BY DEF Later, Receipt, Readable
<1>2. Committed(rc, t, changes) \in Receipt
  BY <1>1 DEF Committed, Receipt
<1>3. Readable(k, Committed(rc, t, changes))
  BY <1>1 DEF Committed, Readable, Receipt
<1>4. QED
  BY <1>2, <1>3

(* So does sealing an absent or a readable prepared one.                   *)
LEMMA CancelledReadable ==
    ASSUME NEW k \in Keys, NEW r \in Review, NEW t \in Nat, r.actor = k[1],
           NEW rc \in Receipt \cup {NoReceipt},
           rc # NoReceipt => rc.state = "prepared" /\ Readable(k, rc)
    PROVE  Cancelled(rc, r, t) \in Receipt /\ Readable(k, Cancelled(rc, r, t))
           /\ Cancelled(rc, r, t).state = "cancelled"
<1>1. CASE rc = NoReceipt
  BY <1>1, SentinelAssumption DEF Cancelled, Receipt, Readable
<1>2. CASE rc # NoReceipt
  <2>1. rc \in Receipt
    BY <1>2
  <2>2. Later(t, rc.updatedAt) \in Nat /\ rc.createdAt <= Later(t, rc.updatedAt)
    BY <1>2, <2>1 DEF Later, Receipt, Readable
  <2>3. Cancelled(rc, r, t) \in Receipt
    BY <1>2, <2>1, <2>2 DEF Cancelled, Receipt
  <2>4. Readable(k, Cancelled(rc, r, t))
    BY <1>2, <2>1, <2>2 DEF Cancelled, Readable, Receipt
  <2>5. Cancelled(rc, r, t).state = "cancelled"
    BY <1>2, <2>1 DEF Cancelled, Receipt
  <2>6. QED
    BY <2>3, <2>4, <2>5
<1>3. QED
  BY <1>1, <1>2

(* A ready plan patches at least one document.                             *)
LEMMA ReadyPatches ==
    ASSUME TypeOK, NEW i \in Intents, Ready(i)
    PROVE  Patched(i) # {}
<1>1. Data \in [Docs -> Values]
  BY DEF TypeOK, Data, Document
<1>2. Plan(i, Data) \in [Docs -> Values]
  BY <1>1, PlanAssumption
<1>3. PICK d \in Docs : Plan(i, Data)[d] # Data[d]
  BY <1>1, <1>2 DEF Ready
<1>4. QED
  BY <1>3 DEF Patched, Data

-----------------------------------------------------------------------------
LEMMA InitInv == Init => Inv
<1> SUFFICES ASSUME Init PROVE Inv
  OBVIOUS
<1>1. TypeOK
  BY DEF Init, TypeOK, Document, Account
<1>2. \A k \in Keys : ~ IsCommitted(k) /\ ~ IsCancelled(k)
  BY DEF Init, IsCommitted, IsCancelled
<1>3. QED
  BY <1>1, <1>2 DEF Init, Inv, AppliedExactlyOnce, AuditsMatchReceipts, ReceiptsReadable,
    CommittedReviewsBehind, CommittedReviewsDiffer

(* Steps that leave the receipts, the audits and the applications alone    *)
(* and never turn a document's update time back.                           *)
LEMMA OthersKeepInv ==
    ASSUME Inv, TypeOK', UNCHANGED <<receipts, audits, applied>>,
           \A d \in Docs : directory[d].updateTime <= directory'[d].updateTime
    PROVE  Inv'
<1>1. \A k \in Keys : /\ IsCommitted(k)' <=> IsCommitted(k)
                      /\ IsCancelled(k)' <=> IsCancelled(k)
  BY DEF IsCommitted, IsCancelled
<1>2. AppliedExactlyOnce' /\ AuditsMatchReceipts'
  BY <1>1 DEF Inv, AppliedExactlyOnce, AuditsMatchReceipts
<1>3. ReceiptsReadable' /\ CommittedReviewsDiffer'
  BY <1>1 DEF Inv, ReceiptsReadable, CommittedReviewsDiffer, Readable
<1>4. CommittedReviewsBehind'
  <2> SUFFICES ASSUME NEW k \in Keys, IsCommitted(k)'
               PROVE  (\E d \in Docs : receipts[k].review.state.docs[d].updateTime
                                           < directory[d].updateTime)'
    BY DEF CommittedReviewsBehind
  <2>1. PICK d \in Docs : receipts[k].review.state.docs[d].updateTime < directory[d].updateTime
    BY <1>1 DEF Inv, CommittedReviewsBehind
  <2>2. receipts[k] \in Receipt /\ receipts[k].review # NoReview
    BY <1>1 DEF Inv, TypeOK, IsCommitted, ReceiptsReadable, Readable
  <2>3. receipts[k].review.state.docs[d].updateTime \in Nat
    BY <2>2 DEF Receipt, Review, State, Document
  <2>4. directory[d].updateTime \in Nat /\ directory'[d].updateTime \in Nat
    BY DEF Inv, TypeOK, Document
  <2>5. QED
    BY <2>1, <2>3, <2>4
<1>5. QED
  BY <1>2, <1>3, <1>4 DEF Inv

(* The step that replaces one receipt by a readable one, counts one more   *)
(* application when it commits, and adds that outcome's audit record.      *)
LEMMA PrepareKeepsInv ==
    ASSUME Inv, NEW k \in Keys, NEW r \in reviews, Prepare(k, r)
    PROVE  Inv'
<1>1. PICK now \in HostTimes : Fresh(r, now) /\ receipts' = [receipts EXCEPT ![k] = NewPrepared(r, now)]
  BY DEF Prepare, Preparable
<1>2. r \in Review /\ r.actor = k[1] /\ now \in Nat
  BY DEF Inv, TypeOK, Prepare, HostTimes, Preparable
<1>3. NewPrepared(r, now) \in Receipt /\ Readable(k, NewPrepared(r, now))
  BY <1>1, <1>2, NewPreparedReadable
<1>4. TypeOK'
  BY <1>1, <1>3 DEF Inv, TypeOK, Prepare, Preparable
<1>5. receipts'[k] = NewPrepared(r, now) /\ \A l \in Keys \ {k} : receipts'[l] = receipts[l]
  BY <1>1 DEF Inv, TypeOK
<1>6. \A l \in Keys : /\ IsCommitted(l)' <=> IsCommitted(l)
                      /\ IsCancelled(l)' <=> IsCancelled(l)
                      /\ IsCommitted(l) => l # k
  BY <1>5, SentinelAssumption DEF Prepare, IsCommitted, IsCancelled, NewPrepared, Preparable
<1>7. AppliedExactlyOnce' /\ AuditsMatchReceipts'
  BY <1>6 DEF Inv, Prepare, AppliedExactlyOnce, AuditsMatchReceipts, Preparable
<1>8. ReceiptsReadable'
  BY <1>3, <1>5 DEF Inv, ReceiptsReadable, Readable
<1>9. CommittedReviewsBehind' /\ CommittedReviewsDiffer'
  BY <1>5, <1>6 DEF Inv, Prepare, CommittedReviewsBehind, CommittedReviewsDiffer, Preparable
<1>10. QED
  BY <1>4, <1>7, <1>8, <1>9 DEF Inv

LEMMA CancelKeepsInv ==
    ASSUME Inv, NEW k \in Keys, NEW r \in reviews, Cancel(k, r)
    PROVE  Inv'
<1>1. PICK now \in HostTimes : receipts' = [receipts EXCEPT ![k] = Cancelled(receipts[k], r, now)]
  BY DEF Cancel, Cancellable, CancelAudit
<1>2. r \in Review /\ r.actor = k[1] /\ now \in Nat /\ receipts[k] \in Receipt \cup {NoReceipt}
  BY DEF Inv, TypeOK, Cancel, HostTimes, Cancellable, CancelAudit
<1>3. /\ Cancelled(receipts[k], r, now) \in Receipt
      /\ Readable(k, Cancelled(receipts[k], r, now))
      /\ Cancelled(receipts[k], r, now).state = "cancelled"
  <2>1. receipts[k] # NoReceipt => receipts[k].state = "prepared" /\ Readable(k, receipts[k])
    BY DEF Inv, ReceiptsReadable, Cancel, Cancellable, CancelAudit
  <2>2. QED
    BY <1>2, <2>1, CancelledReadable
<1>4. TypeOK'
  BY <1>1, <1>3 DEF Inv, TypeOK, Cancel, Cancellable, CancelAudit
<1>5. receipts'[k] = Cancelled(receipts[k], r, now) /\ \A l \in Keys \ {k} : receipts'[l] = receipts[l]
  BY <1>1 DEF Inv, TypeOK
<1>6. \A l \in Keys : /\ IsCommitted(l)' <=> IsCommitted(l)
                      /\ IsCancelled(l)' <=> IsCancelled(l) \/ l = k
                      /\ IsCommitted(l) => l # k
  BY <1>3, <1>5, SentinelAssumption DEF Cancel, IsCommitted, IsCancelled, Cancellable, CancelAudit
<1>7. AppliedExactlyOnce'
  BY <1>6 DEF Inv, Cancel, AppliedExactlyOnce, Cancellable, CancelAudit
<1>8. AuditsMatchReceipts'
  BY <1>6 DEF Inv, Cancel, AuditsMatchReceipts, Cancellable, CancelAudit
<1>9. ReceiptsReadable'
  BY <1>3, <1>5 DEF Inv, ReceiptsReadable, Readable
<1>10. CommittedReviewsBehind' /\ CommittedReviewsDiffer'
  BY <1>5, <1>6 DEF Inv, Cancel, CommittedReviewsBehind, CommittedReviewsDiffer, Cancellable, CancelAudit
<1>11. QED
  BY <1>4, <1>7, <1>8, <1>9, <1>10 DEF Inv

LEMMA CommitKeepsInv ==
    ASSUME Inv, NEW k \in Keys, NEW r \in reviews, Commit(k, r)
    PROVE  Inv'
<1> DEFINE changes == {<<d, directory[d].version + 1>> : d \in Patched(r.intent)}
<1>1. PICK first \in 0..(clock + Skew) :
          receipts' = [receipts EXCEPT ![k] = Committed(receipts[k], first, changes)]
  BY DEF Commit, StillReviewed
<1>2. /\ r \in Review /\ r.actor = k[1] /\ r.intent \in Intents /\ first \in Nat
      /\ receipts[k] \in Receipt /\ receipts[k].state = "prepared" /\ Readable(k, receipts[k])
      /\ receipts[k].review = r
  BY DEF Inv, TypeOK, Commit, Review, ReceiptsReadable, Readable, StillReviewed
<1>3. Patched(r.intent) # {} /\ Patched(r.intent) \subseteq Docs
  BY <1>2, ReadyPatches DEF Inv, Commit, Patched, StillReviewed
<1>4. changes \in SUBSET (Docs \X Nat) /\ changes # {} /\ \A c \in changes : c[2] >= 1
  <2>1. \A d \in Docs : directory[d].version + 1 \in Nat /\ directory[d].version + 1 >= 1
    BY DEF Inv, TypeOK, Document
  <2>2. changes # {}
    BY <1>3
  <2>3. changes \subseteq Docs \X Nat
    BY <1>3, <2>1
  <2>4. \A c \in changes : c[2] >= 1
    BY <1>3, <2>1
  <2>5. QED
    BY <2>2, <2>3, <2>4
<1>5. /\ Committed(receipts[k], first, changes) \in Receipt
      /\ Readable(k, Committed(receipts[k], first, changes))
  BY <1>2, <1>4, CommittedReadable
<1>6. /\ Committed(receipts[k], first, changes).state = "committed"
      /\ Committed(receipts[k], first, changes).review = r
  BY <1>2 DEF Committed, Receipt
<1>7. directory' \in [Docs -> Document]
  <2>1. Plan(r.intent, Data) \in [Docs -> Values]
    BY <1>2, PlanAssumption DEF Inv, TypeOK, Data, Document
  <2>2. QED
    BY <2>1 DEF Inv, TypeOK, Commit, Document, StillReviewed
<1>8. TypeOK'
  BY <1>1, <1>5, <1>7 DEF Inv, TypeOK, Commit, StillReviewed
<1>9. /\ receipts'[k] = Committed(receipts[k], first, changes)
      /\ \A l \in Keys \ {k} : receipts'[l] = receipts[l]
  BY <1>1 DEF Inv, TypeOK
<1>10. \A l \in Keys : /\ IsCommitted(l)' <=> IsCommitted(l) \/ l = k
                       /\ IsCancelled(l)' <=> IsCancelled(l)
                       /\ IsCommitted(l) => l # k
  BY <1>2, <1>5, <1>6, <1>9, SentinelAssumption DEF IsCommitted, IsCancelled
<1>11. AppliedExactlyOnce'
  BY <1>10 DEF Inv, TypeOK, Commit, AppliedExactlyOnce, StillReviewed
<1>12. AuditsMatchReceipts'
  BY <1>10 DEF Inv, Commit, AuditsMatchReceipts, StillReviewed
<1>13. ReceiptsReadable'
  BY <1>5, <1>9 DEF Inv, ReceiptsReadable, Readable
<1>14. \A d \in Docs : directory[d].updateTime \in Nat /\ directory[d].updateTime <= directory'[d].updateTime
  BY DEF Inv, TypeOK, Document, Commit, StillReviewed
<1>15. \E d \in Docs : directory[d].updateTime < directory'[d].updateTime
  <2>1. PICK d \in Patched(r.intent) : TRUE
    BY <1>3
  <2>2. d \in Docs /\ directory'[d].updateTime = directory[d].updateTime + 1
    BY <1>3 DEF Commit, StillReviewed
  <2>3. QED
    BY <1>14, <2>2
<1>16. CommittedReviewsBehind'
  <2> SUFFICES ASSUME NEW l \in Keys, IsCommitted(l)'
               PROVE  \E d \in Docs : receipts'[l].review.state.docs[d].updateTime < directory'[d].updateTime
    BY DEF CommittedReviewsBehind
  <2>1. CASE l = k
    <3>1. r.state.docs = directory
      BY DEF Commit, StateHash, StillReviewed
    <3>2. QED
      BY <1>6, <1>9, <1>15, <2>1, <3>1
  <2>2. CASE l # k
    <3>1. IsCommitted(l) /\ receipts'[l] = receipts[l]
      BY <1>9, <1>10, <2>2
    <3>2. PICK d \in Docs : receipts[l].review.state.docs[d].updateTime < directory[d].updateTime
      BY <3>1 DEF Inv, CommittedReviewsBehind
    <3>3. receipts[l] \in Receipt /\ receipts[l].review # NoReview
      BY <3>1 DEF Inv, TypeOK, IsCommitted, ReceiptsReadable, Readable
    <3>4. receipts[l].review.state.docs[d].updateTime \in Nat
      BY <3>3 DEF Receipt, Review, State, Document
    <3>5. directory'[d].updateTime \in Nat
      BY <1>7 DEF Document
    <3>6. QED
      BY <1>14, <3>1, <3>2, <3>4, <3>5
  <2>3. QED
    BY <2>1, <2>2
<1>17. CommittedReviewsDiffer'
  <2>1. \A l \in Keys : IsCommitted(l) => receipts[l].review.state # r.state
    <3> SUFFICES ASSUME NEW l \in Keys, IsCommitted(l), receipts[l].review.state = r.state
                 PROVE  FALSE
      OBVIOUS
    <3>1. receipts[l].review.state.docs = directory
      BY DEF Commit, StateHash, StillReviewed
    <3>2. PICK d \in Docs : directory[d].updateTime < directory[d].updateTime
      BY <3>1 DEF Inv, CommittedReviewsBehind
    <3>3. QED
      BY <1>14, <3>2
  <2>2. QED
    BY <1>6, <1>9, <1>10, <2>1 DEF Inv, CommittedReviewsDiffer
<1>18. QED
  BY <1>8, <1>11, <1>12, <1>13, <1>16, <1>17 DEF Inv

LEMMA NextKeepsInv == Inv /\ [Next]_vars => Inv'
<1> SUFFICES ASSUME Inv, [Next]_vars PROVE Inv'
  OBVIOUS
<1>1. CASE Tick
  <2>1. TypeOK'
    BY <1>1 DEF Inv, TypeOK, Tick
  <2>2. QED
    BY <1>1, <2>1, OthersKeepInv DEF Tick, Inv, TypeOK, Document
<1>2. ASSUME NEW d \in Docs, NEW v \in Values, WriteDocument(d, v) PROVE Inv'
  <2>1. TypeOK' /\ \A e \in Docs : directory[e].updateTime <= directory'[e].updateTime
    BY <1>2 DEF Inv, TypeOK, WriteDocument, Document
  <2>2. QED
    BY <1>2, <2>1, OthersKeepInv DEF WriteDocument
<1>3. ASSUME NEW a \in Actors, ChangeAccess(a) PROVE Inv'
  <2>1. TypeOK'
    BY <1>3 DEF Inv, TypeOK, ChangeAccess, Account
  <2>2. QED
    BY <1>3, <2>1, OthersKeepInv DEF ChangeAccess, Inv, TypeOK, Document
<1>4. ASSUME NEW a \in Actors, NEW i \in Intents, PreviewCommand(a, i) PROVE Inv'
  <2>1. TypeOK'
    BY <1>4 DEF Inv, TypeOK, PreviewCommand, Review, State, StateHash
  <2>2. QED
    BY <1>4, <2>1, OthersKeepInv DEF PreviewCommand, Inv, TypeOK, Document
<1>5. ASSUME NEW k \in Keys, NEW r \in reviews, Prepare(k, r) PROVE Inv'
  BY <1>5, PrepareKeepsInv
<1>6. ASSUME NEW k \in Keys, NEW r \in reviews, Commit(k, r) PROVE Inv'
  BY <1>6, CommitKeepsInv
<1>7. ASSUME NEW k \in Keys, NEW r \in reviews, Cancel(k, r) PROVE Inv'
  BY <1>7, CancelKeepsInv
<1>8. CASE UNCHANGED vars
  <2>1. TypeOK'
    BY <1>8 DEF Inv, TypeOK, vars
  <2>2. QED
    BY <1>8, <2>1, OthersKeepInv DEF vars, Inv, TypeOK, Document
<1>9. QED
  BY <1>1, <1>2, <1>3, <1>4, <1>5, <1>6, <1>7, <1>8 DEF Next

-----------------------------------------------------------------------------
(* Every reachable state satisfies the inductive invariant, and with it    *)
(* each safety property of the receipts.                                   *)
THEOREM InvariantHolds == Spec => []Inv
BY InitInv, NextKeepsInv, PTL DEF Spec

(* The variables keep their types in every instance.                       *)
THEOREM TypeCorrect == Spec => []TypeOK
<1>1. Inv => TypeOK
  BY DEF Inv
<1>2. QED
  BY <1>1, InvariantHolds, PTL

(* No repetition, delay or reordering of requests applies the business     *)
(* writes of an operation twice, or without its committed receipt.         *)
THEOREM ExactlyOnce == Spec => []AppliedExactlyOnce
<1>1. Inv => AppliedExactlyOnce
  BY DEF Inv
<1>2. QED
  BY <1>1, InvariantHolds, PTL

(* The audit trail and the receipts tell the same story.                   *)
THEOREM AuditsComplete == Spec => []AuditsMatchReceipts
<1>1. Inv => AuditsMatchReceipts
  BY DEF Inv
<1>2. QED
  BY <1>1, InvariantHolds, PTL

(* No clock skew ever leaves a receipt that readTransitionReceipt refuses. *)
THEOREM AlwaysReadable == Spec => []ReceiptsReadable
<1>1. Inv => ReceiptsReadable
  BY DEF Inv
<1>2. QED
  BY <1>1, InvariantHolds, PTL

(* No two committed operations were reviewed against one Directory state.  *)
THEOREM ReviewsSerialized == Spec => []CommittedReviewsDiffer
<1>1. Inv => CommittedReviewsDiffer
  BY DEF Inv
<1>2. QED
  BY <1>1, InvariantHolds, PTL

-----------------------------------------------------------------------------
LEMMA TerminalStep ==
    Inv /\ [Next]_vars =>
        \A k \in Keys : IsCommitted(k) \/ IsCancelled(k) => receipts'[k] = receipts[k]
<1> SUFFICES ASSUME Inv, [Next]_vars, NEW k \in Keys, IsCommitted(k) \/ IsCancelled(k)
             PROVE  receipts'[k] = receipts[k]
  OBVIOUS
<1>1. receipts[k] # NoReceipt /\ receipts[k].state \in {"committed", "cancelled"}
  BY DEF IsCommitted, IsCancelled
<1>2. ASSUME NEW l \in Keys, NEW r \in reviews, Prepare(l, r) \/ Commit(l, r) \/ Cancel(l, r)
      PROVE  receipts'[k] = receipts[k]
  <2>1. l # k
    BY <1>1, <1>2 DEF Prepare, Commit, Cancel, Preparable, StillReviewed, Cancellable, CancelAudit
  <2>2. PICK rc : receipts' = [receipts EXCEPT ![l] = rc]
    BY <1>2 DEF Prepare, Commit, Cancel, Preparable, StillReviewed, Cancellable, CancelAudit
  <2>3. QED
    BY <2>1, <2>2 DEF Inv, TypeOK
<1>3. QED
  BY <1>2 DEF Next, Tick, WriteDocument, ChangeAccess, PreviewCommand, vars

(* An outcome reported as committed or cancelled is never rewritten.       *)
THEOREM OutcomesFinal == Spec => TerminalOutcomesStay
BY InvariantHolds, TerminalStep, PTL DEF Spec, TerminalOutcomesStay

LEMMA InitRefines == Init => Abstract!Init
BY DEF Init, Abstract!Init, Outcome

LEMMA StepRefines == Inv /\ Inv' /\ [Next]_vars => [Abstract!Next]_Abstract!vars
<1> SUFFICES ASSUME Inv, Inv', [Next]_vars PROVE [Abstract!Next]_Abstract!vars
  OBVIOUS
<1> DEFINE out == [k \in Keys |-> Outcome(k)]
<1>1. ASSUME NEW k \in Keys, NEW r \in reviews, Prepare(k, r) PROVE Abstract!Prepare(k)
  <2>1. PICK now \in HostTimes : receipts' = [receipts EXCEPT ![k] = NewPrepared(r, now)]
    BY <1>1 DEF Prepare, Preparable
  <2>2. NewPrepared(r, now) # NoReceipt
    BY <2>1, SentinelAssumption DEF Inv, TypeOK, NewPrepared, Receipt, HostTimes
  <2>3. out[k] = "unknown" /\ out' = [out EXCEPT ![k] = "prepared"]
    BY <1>1, <2>1, <2>2 DEF Inv, TypeOK, Prepare, Outcome, NewPrepared, Preparable
  <2>4. QED
    BY <1>1, <2>3 DEF Prepare, Abstract!Prepare, Preparable
<1>2. ASSUME NEW k \in Keys, NEW r \in reviews, Commit(k, r) PROVE Abstract!Commit(k)
  <2>1. PICK rc : receipts' = [receipts EXCEPT ![k] = rc] /\ IsCommitted(k)'
    <3>1. PICK t, changes : receipts' = [receipts EXCEPT ![k] = Committed(receipts[k], t, changes)]
      BY <1>2 DEF Commit, StillReviewed
    <3>2. <<"commit", k>> \in audits'
      BY <1>2 DEF Commit, StillReviewed
    <3>3. QED
      BY <3>1, <3>2 DEF Inv, AuditsMatchReceipts
  <2>2. out[k] = "prepared" /\ out' = [out EXCEPT ![k] = "committed"]
    BY <1>2, <2>1 DEF Inv, TypeOK, Commit, Outcome, IsCommitted, StillReviewed
  <2>3. applied[k] = 0
    BY <1>2 DEF Inv, AppliedExactlyOnce, Commit, IsCommitted, StillReviewed
  <2>4. QED
    BY <1>2, <2>2, <2>3 DEF Commit, Abstract!Commit, StillReviewed
<1>3. ASSUME NEW k \in Keys, NEW r \in reviews, Cancel(k, r) PROVE Abstract!Cancel(k)
  <2>1. PICK rc : receipts' = [receipts EXCEPT ![k] = rc] /\ IsCancelled(k)'
    <3>1. PICK t : receipts' = [receipts EXCEPT ![k] = Cancelled(receipts[k], r, t)]
      BY <1>3 DEF Cancel, Cancellable, CancelAudit
    <3>2. <<"cancel", k>> \in audits'
      BY <1>3 DEF Cancel, Cancellable, CancelAudit
    <3>3. QED
      BY <3>1, <3>2 DEF Inv, AuditsMatchReceipts
  <2>2. out[k] \in {"unknown", "prepared"} /\ out' = [out EXCEPT ![k] = "cancelled"]
    BY <1>3, <2>1 DEF Inv, TypeOK, Cancel, Outcome, IsCancelled, Cancellable, CancelAudit
  <2>3. QED
    BY <1>3, <2>2 DEF Cancel, Abstract!Cancel, Cancellable, CancelAudit
<1>4. CASE UNCHANGED <<receipts, applied>>
  BY <1>4 DEF Outcome, Abstract!vars
<1>5. QED
  BY <1>1, <1>2, <1>3, <1>4
  DEF Next, Tick, WriteDocument, ChangeAccess, PreviewCommand, vars, Abstract!Next

(* The receipts implement the promise of the recovery interface: unknown,  *)
(* prepared, then one final outcome, the change made exactly as it commits.*)
THEOREM ImplementsOutcome == Spec => RefinesOutcome
<1>1. Spec => Abstract!Init /\ [][Abstract!Next]_Abstract!vars
  BY InvariantHolds, InitRefines, StepRefines, PTL DEF Spec
<1>2. QED
  BY <1>1 DEF RefinesOutcome, Abstract!Spec
=============================================================================
