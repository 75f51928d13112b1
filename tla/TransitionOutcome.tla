------------------------- MODULE TransitionOutcome -------------------------
(***************************************************************************)
(* What the transition recovery interface promises of each operation       *)
(* (transitionRecoveryOutcome): it is unknown, prepared, committed or      *)
(* cancelled; only a prepared operation commits; the business change is    *)
(* made at the moment it commits and at no other; committed and cancelled  *)
(* are final. A missing receipt is unknown, never cancellation.            *)
(***************************************************************************)
EXTENDS Naturals

CONSTANT Keys
VARIABLES outcome, applied

vars == <<outcome, applied>>

Init ==
    /\ outcome = [k \in Keys |-> "unknown"]
    /\ applied = [k \in Keys |-> 0]

Prepare(k) ==
    /\ outcome[k] = "unknown"
    /\ outcome' = [outcome EXCEPT ![k] = "prepared"]
    /\ UNCHANGED applied

Commit(k) ==
    /\ outcome[k] = "prepared"
    /\ outcome' = [outcome EXCEPT ![k] = "committed"]
    /\ applied' = [applied EXCEPT ![k] = 1]

Cancel(k) ==
    /\ outcome[k] \in {"unknown", "prepared"}
    /\ outcome' = [outcome EXCEPT ![k] = "cancelled"]
    /\ UNCHANGED applied

Next == \E k \in Keys : Prepare(k) \/ Commit(k) \/ Cancel(k)

Spec == Init /\ [][Next]_vars
=============================================================================
