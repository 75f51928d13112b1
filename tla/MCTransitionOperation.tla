----------------------- MODULE MCTransitionOperation -----------------------
(* A Directory of one Person and one store. An intent names the position   *)
(* value it moves the Person to; an assigned store follows. A store that   *)
(* is already held (value 1) blocks an assignment.                         *)
EXTENDS TransitionOperation, TLC

CONSTANTS person, store, assign, vacate

MCPlan(i, data) ==
    IF i = assign
    THEN IF data[store] = 1 THEN data ELSE [d \in Docs |-> 1]
    ELSE [data EXCEPT ![person] = 0]

MCDocs == {person, store}
MCIntents == {assign, vacate}

Symmetry == Permutations(Operations)
=============================================================================
